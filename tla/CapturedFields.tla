--------------------------- MODULE CapturedFields ---------------------------
(* What leaves the process of a body, of headers and of a single named value:   *)
(* scrubBodyBuffer, HeaderFilter and the encrypted fields of scrubber/.          *)
EXTENDS Naturals, Sequences, FiniteSets

CONSTANTS SpoolBytes, MaxField   \* Policy

(* A body is a sequence of values [key, under, written, secret]: the kind of the  *)
(* key it has and of the one it is nested under; whether the key is a field of    *)
(* the format (a quoted JSON key, a form field, a tag) or an assignment, key=x,   *)
(* in some text; and whether the value matches a pattern.  What is shown of each  *)
(* value.  As text, only an assignment shows its key: no quoted key does.         *)
Patterned(v) == IF v.secret THEN "redacted" ELSE "shown"
AsText(v) == IF v.key = "sensitive" /\ v.written = "assigned" THEN "redacted" ELSE Patterned(v)

\* The walk over keys: the outermost key that is not plain decides for all below.
Deciding(v) == IF v.under /= "plain" THEN v.under ELSE IF v.written = "field" THEN v.key ELSE "plain"
Walked(type, parses) == type \in {"json", "form"} /\ parses

(* A multipart body is dropped whole; JSON is walked by its keys, which passes    *)
(* what is under an operational one, and scrubbed again as text; a form keeps     *)
(* operational values; what does not parse, and binary content, is scrubbed as    *)
(* text alone.                                                                   *)
ScrubBody(type, parses, body) ==
  LET shownOf(v) ==
        IF Walked(type, parses) /\ Deciding(v) = "sensitive" THEN "redacted"
        ELSE IF Walked(type, parses) /\ type = "form" /\ Deciding(v) = "operational" THEN "shown"
        ELSE AsText(v)
  IN  IF type = "multipart" THEN << >> ELSE [i \in DOMAIN body |-> shownOf(body[i])]

(* filterAndNormalizeHeaders: headers come as pairs, in an array of either shape,*)
(* a map or a record; a later value of a name replaces an earlier one.           *)
Allowed(allow, block) == {h \in allow : h \notin block}
FilterHeaders(pairs, allow, block) ==
  LET kept == {i \in DOMAIN pairs : pairs[i].name \in Allowed(allow, block) /\ pairs[i].text}
      last(n) == CHOOSE i \in kept : pairs[i].name = n
                   /\ \A j \in kept : pairs[j].name = n => j <= i
  IN  [n \in {pairs[i].name : i \in kept} |-> last(n)]

(* Scrubber.process and encodeNormal: f has name, pii, fails (the step that      *)
(* throws, if any), key, incoming, bytes and spool.                              *)
Meta(reason) == [mode |-> "meta", reason |-> reason, by |-> "none"]
Cipher(by) == [mode |-> "encrypted", reason |-> "none", by |-> by]

(* Mutant: a detector that throws lets the value pass.                           *)
SensitiveOpen(f) ==
  IF f.name THEN "credential_name"
  ELSE IF f.fails = "detector" THEN "none"
  ELSE IF f.pii THEN "pii_detector" ELSE "none"

Sensitive(f) ==
  IF f.name THEN "credential_name"
  ELSE IF f.fails = "detector" THEN "sensitivity_check_failed"
  ELSE IF f.pii THEN "pii_detector" ELSE "none"

Encode(f) ==
  LET spooled == f.incoming /\ f.bytes > SpoolBytes
  IN  IF spooled /\ ~f.spool THEN Meta("spool_unavailable")
      ELSE IF ~spooled /\ f.bytes > MaxField THEN Meta("max_field_bytes")
      ELSE IF f.fails = "encrypt" \/ (spooled /\ f.fails = "spool") THEN Meta("encode_failed")
      ELSE Cipher(IF spooled THEN "ref" ELSE "inline")

Process(f) ==
  IF Sensitive(f) /= "none" THEN Meta(Sensitive(f))
  ELSE IF ~f.key THEN Meta("encryption_key_missing")
  ELSE Encode(f)

(* processRef: the bytes are in the spool already.                               *)
ProcessRef(f) ==
  IF Sensitive(f) /= "none" THEN Meta(Sensitive(f))
  ELSE IF ~f.key THEN Meta("encryption_key_missing")
  ELSE Cipher("ref")

(* No body shows a value that matches a pattern, whatever its content type says  *)
(* and whether or not it parses, besides the operational values of a form.  A     *)
(* value with a sensitive key, or under one, is shown in two cases: in JSON under *)
(* an operational key, which passes all below it; and in what was not walked by   *)
(* its keys, a JSON body cut short or XML, unless it is an assignment             *)
(* (scrubBodyBuffer).                                                            *)
BodySound(type, parses, body) ==
  \A i \in DOMAIN ScrubBody(type, parses, body) :
    ScrubBody(type, parses, body)[i] = "shown" =>
      LET v == body[i]
      IN  /\ v.secret => /\ type = "form" /\ parses
                         /\ "operational" \in {v.key, v.under}
          /\ Walked(type, parses) => /\ v.under /= "sensitive"
                                     /\ v.key = "sensitive" => v.under = "operational"
          /\ ~Walked(type, parses) => ~(v.key = "sensitive" /\ v.written = "assigned")

(* A field fails closed: with a name that looks like a credential, a detector    *)
(* that hits, no key, or any step that throws, only metadata leaves; and only an  *)
(* incoming value refers to the spool, never one that a spool refused            *)
(* (Scrubber.process, processRef).                                               *)
FieldFailsClosed(f) ==
  \A r \in {Process(f), ProcessRef(f)} :
    r.mode = "encrypted" =>
      /\ f.key /\ ~f.name /\ ~f.pii /\ f.fails /= "detector"
      /\ r = Process(f) /\ r.by = "ref" =>
           f.spool /\ f.incoming /\ f.fails \notin {"encrypt", "spool"}
=============================================================================
