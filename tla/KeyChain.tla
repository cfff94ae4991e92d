------------------------------ MODULE KeyChain ------------------------------
(* Envelopes and fields under a chain of keys (security/encryption.ts).  The    *)
(* cryptography is symbolic: a derived key is the key and how it was derived,   *)
(* and a tag is the tuple of what it covers.  A party is [chain, mac, version]: *)
(* its keys, the primary one first, an explicit MAC key or NoKey, and its SDK.  *)
EXTENDS Naturals, Sequences, FiniteSets, TLC

NoKey == "none"
Derive(key, kdf) == <<kdf, key>>                    \* and the id of the key
MacKey(p, key, kdf) == IF p.mac /= NoKey THEN <<"explicit", p.mac>> ELSE Derive(key, kdf)

(* Mutant: the reader binds its own version of the SDK.                         *)
AadOwnVersion(e, id, own) ==
  IF e.v = 2 THEN <<2, id, own, e.event, e.kind, e.blob>> ELSE <<1, id, own, e.event>>

(* buildEnvelopeAad: version 1 bound neither the kind nor the blob.             *)
Aad(e, id, own) ==
  IF e.v = 2 THEN <<2, id, e.version, e.event, e.kind, e.blob>>
  ELSE <<1, id, e.version, e.event>>

(* assertKindBlobIdCoherence                                                    *)
Coherent(e) == (e.kind = "payload_blob") = (e.blob /= NoKey)

(* encryptToEnvelope; earlier SDKs sealed version 1, or derived keys otherwise. *)
Seal(p, kdf, head) ==
  LET e   == [version |-> p.version] @@ head
      id  == Derive(p.chain[1], kdf)
      aad == Aad(e, id, p.version)
  IN  [id |-> id, hmac |-> <<MacKey(p, p.chain[1], kdf), head.body, aad>>,
       tag |-> <<id, head.body, aad>>] @@ e

(* tryDecryptWithMaterial                                                       *)
Attempt(q, e, key, kdf) ==
  LET id == Derive(key, kdf)  aad == Aad(e, id, q.version)
  IN  IF e.hmac /= <<MacKey(q, key, kdf), e.body, aad>> THEN "hmac"
      ELSE IF e.tag /= <<id, e.body, aad>> THEN "authTag" ELSE "ok"

(* decryptEnvelope: the key that the envelope names, then the others; derived   *)
(* the current way, then the way of earlier SDKs.                               *)
NamedFirst(q, e, kdf) ==
  LET named(i) == Derive(q.chain[i], kdf) = e.id
      all == [i \in DOMAIN q.chain |-> i]
  IN  SelectSeq(all, named) \o SelectSeq(all, LAMBDA i : ~named(i))

Refused(why) == [ok |-> FALSE, index |-> 0, why |-> why]
Decrypt(q, e) ==
  LET tries == [i \in 1..2 * Len(q.chain) |->
                  IF i <= Len(q.chain) THEN <<NamedFirst(q, e, "hkdf")[i], "hkdf">>
                  ELSE <<NamedFirst(q, e, "pbkdf2")[i - Len(q.chain)], "pbkdf2">>]
      says(i) == Attempt(q, e, q.chain[tries[i][1]], tries[i][2])
      good    == {i \in DOMAIN tries : says(i) = "ok"}
      first   == CHOOSE i \in good : \A j \in good : i <= j
  IN  IF e.v = 2 /\ ~Coherent(e) THEN Refused("blob_id")
      ELSE IF good = {} THEN Refused(says(1))
      ELSE [ok |-> TRUE, index |-> tries[first][1], why |-> "none"]

(* sign and verify, of the lines of the dead-letter store.                      *)
Sign(p, line) == <<MacKey(p, p.chain[1], "hkdf"), line>>
Verify(q, line, mac) ==
  LET fits(kdf) == {i \in DOMAIN q.chain : mac = <<MacKey(q, q.chain[i], kdf), line>>}
      all == IF fits("hkdf") /= {} THEN fits("hkdf") ELSE fits("pbkdf2")
  IN  IF all = {} THEN Refused("mac")
      ELSE [ok |-> TRUE, index |-> CHOOSE i \in all : \A j \in all : i <= j, why |-> "none"]

(* encryptField, decryptField: the reader binds its own version.                *)
FieldAad(id, version) == <<"field", id, version>>
EncryptField(p, kdf, body) ==
  LET id == Derive(p.chain[1], kdf) IN <<id, body, FieldAad(id, p.version)>>
DecryptField(q, f) ==
  \E i \in DOMAIN q.chain, kdf \in {"hkdf", "pbkdf2"} :
    LET id == Derive(q.chain[i], kdf) IN f = <<id, f[2], FieldAad(id, q.version)>>

(* decryptFieldValue: an encrypted field is inline or refers to the spool.      *)
DecryptFieldValue(q, field, spool) ==
  /\ field.mode = "encrypted"
  /\ IF field.by = "inline" THEN DecryptField(q, field.cipher)
     ELSE field.id \in DOMAIN spool /\ DecryptField(q, spool[field.id])

(* However keys were rotated, an envelope or a signed line is accepted if and   *)
(* only if the key it was made with is still in the chain and the MAC keys       *)
(* agree, the index says which key that was, and an envelope that says anything  *)
(* else than what was sealed is refused, its flags compressed and keyId and its  *)
(* producedAt apart, which neither MAC nor AAD binds (decryptEnvelope, verify).  *)
RotationSound(p, q, kdf, head, other) ==
  LET e == Seal(p, kdf, head)
      r == Decrypt(q, e)
      known == \E i \in DOMAIN q.chain : q.chain[i] = p.chain[1]
      line  == Verify(q, head.body, Sign(p, head.body))
      bound == {"version", "event"} \cup (IF e.v = 2 THEN {"v", "kind", "blob"} ELSE {"v"})
  IN  Coherent(e) =>
        /\ r.ok <=> known /\ p.mac = q.mac
        /\ r.ok => q.chain[r.index] = p.chain[1]
        /\ line.ok <=> p.mac = q.mac /\ (p.mac /= NoKey \/ known)
        /\ \A f \in bound :
             other[f] /= e[f] => ~Decrypt(q, [e EXCEPT ![f] = other[f]]).ok

(* The comment of FIELD_AAD_VERSION: fields that earlier SDKs encrypted still    *)
(* decrypt, as long as their key is in the chain.                                *)
FieldsSurviveUpgrade(p, q, kdf, head) ==
  (\E i \in DOMAIN q.chain : q.chain[i] = p.chain[1])
    => DecryptField(q, EncryptField(p, kdf, head.body))
=============================================================================
