------------------------------- MODULE Ingest -------------------------------
(* The receiving side (ingest/index.ts): one envelope, and a webhook batch of    *)
(* them.  An envelope is one of KeyChain with markers, those of its key id and   *)
(* of its MAC; its body is [type, event, blob, size, json].  The options of the  *)
(* receiver are opts: [key, allow, limit, secret].                               *)
EXTENDS KeyChain

Rejected(code) == [ok |-> FALSE, code |-> code]

(* parseEnvelope: version 1 has no kind; in version 2 only a blob has a blob id. *)
WellFormed(e) ==
  /\ e.v \in {1, 2}
  /\ e.v = 2 => e.kind \in {"error", "payload_blob"} /\ Coherent(e)

(* classifyPayload: by the schema of the payload, not by what the envelope says. *)
Classify(body) ==
  IF body.type \in {"watchdog", "payload_blob", "error"} THEN body.type ELSE "unknown"

(* Mutant: a version 1 envelope skips every check.                               *)
SameIdentityLegacyOpen(e) ==
  Classify(e.body) \in {"error", "payload_blob"} /\ e.v = 2 =>
    /\ e.body.event = e.event
    /\ e.kind = Classify(e.body)
    /\ e.kind = "payload_blob" => e.body.blob = e.blob

(* enforceEnvelopeIdentity: other payloads have no identity to compare.          *)
SameIdentity(e) ==
  Classify(e.body) \in {"error", "payload_blob"} =>
    /\ e.body.event = e.event
    /\ e.v = 2 => /\ e.kind = Classify(e.body)
                  /\ e.kind = "payload_blob" => e.body.blob = e.blob

(* The body, or why there is none.                                               *)
Open(q, opts, e) ==
  IF "transparent" \in e.markers THEN
    IF e.markers /= {"transparent"} THEN Rejected("invalid_envelope")
    ELSE IF ~opts.allow THEN Rejected("unencrypted_rejected")
    ELSE [ok |-> TRUE, encrypted |-> FALSE, index |-> 0]
  ELSE IF ~opts.key THEN Rejected("key_missing")
  ELSE LET r == Decrypt([q EXCEPT !.version = e.version], e)
       IN  IF ~r.ok THEN Rejected("decrypt_failed")
           ELSE [ok |-> TRUE, encrypted |-> TRUE, index |-> r.index]

(* receiveIngestEnvelope; a bare watchdog payload comes without an envelope.     *)
Receive(q, opts, e) ==
  IF e.bare THEN [ok |-> TRUE, kind |-> "watchdog", encrypted |-> FALSE, index |-> 0, body |-> e.body]
  ELSE IF ~WellFormed(e) THEN Rejected("invalid_envelope")
  ELSE LET o == Open(q, opts, e)
       IN  IF ~o.ok THEN o
           ELSE IF e.body.size > opts.limit THEN Rejected("plaintext_too_large")
           ELSE IF ~e.body.json THEN Rejected("invalid_payload_json")
           ELSE IF ~SameIdentity(e) THEN Rejected("identity_mismatch")
           ELSE [ok |-> TRUE, kind |-> Classify(e.body), body |-> e.body, index |-> o.index,
                 encrypted |-> o.encrypted /\ Classify(e.body) /= "watchdog"]

(* receiveWebhookBatch: the signature covers the body of the request; one event  *)
(* that is refused refuses the batch, with the code of the first of them.        *)
Signature(secret, events) == <<"webhook", secret, events>>
ReceiveBatch(q, opts, signature, events) ==
  LET results == [i \in DOMAIN events |-> Receive(q, opts, events[i])]
      bad     == {i \in DOMAIN events : ~results[i].ok}
  IN  IF opts.secret /= NoKey /\ signature = NoKey THEN Rejected("signature_missing")
      ELSE IF opts.secret /= NoKey /\ signature /= Signature(opts.secret, events)
      THEN Rejected("signature_invalid")
      ELSE IF bad /= {} THEN results[CHOOSE i \in bad : \A j \in bad : i <= j]
      ELSE [ok |-> TRUE, events |-> results]

(* What buildTransparentEnvelope and encryptToEnvelope put on the wire.           *)
OnWire(p, kdf, head, plain) ==
  IF plain THEN [version |-> p.version, bare |-> FALSE, markers |-> {"transparent"}] @@ head
  ELSE [bare |-> FALSE, markers |-> {"sealed"}] @@ Seal(p, kdf, head)

(* Whatever a sender puts into an envelope, the receiver returns it under the     *)
(* identity of the envelope or refuses it; what an honest sender wraps is         *)
(* accepted as long as its key is known, the clear text only where it is allowed; *)
(* and a batch comes through whole or not at all (receiveIngestEnvelope,          *)
(* enforceEnvelopeIdentity, receiveWebhookBatch).                                 *)
IngestSound(p, q, kdf, head, opts, plain) ==
  LET e == OnWire(p, kdf, head, plain)
      r == Receive(q, opts, e)
      b == ReceiveBatch(q, opts, Signature(opts.secret, <<e, e>>), <<e, e>>)
      known  == \E i \in DOMAIN q.chain : q.chain[i] = p.chain[1]
      honest == /\ head.body.type = head.kind /\ head.body.event = head.event
                /\ head.body.blob = head.blob /\ head.body.json /\ head.body.size <= opts.limit
      may    == IF plain THEN opts.allow ELSE opts.key /\ known /\ p.mac = q.mac
  IN  /\ Coherent(head) /\ honest => (r.ok <=> may)
      /\ r.ok => /\ may /\ (r.encrypted \/ plain \/ r.kind = "watchdog")
                 /\ r.kind = "error" => r.body.event = head.event /\ (head.v = 1 \/ head.kind = "error")
                 /\ r.kind = "payload_blob" =>
                      r.body.event = head.event /\ (head.v = 1 \/ r.body.blob = head.blob)
      /\ b.ok <=> r.ok
      /\ ReceiveBatch(q, opts, Signature(opts.secret, <<e>>), <<e, e>>).ok => opts.secret = NoKey
=============================================================================
