------------------------------ MODULE PayloadSpool ------------------------------
(* src/spool/payload-spool.ts: blobs too large for a package, kept until they    *)
(* are sent.  A spool is [entries |-> [ids -> [req, len, state, old]], next, done] *)
(* where done are the requests that were marked complete.                        *)
EXTENDS Naturals, FiniteSets, Functions

CONSTANTS GlobalMax, RequestMax, BlobMax,  \* globalMaxBytes, perRequestMaxBytes, perBlobMaxBytes
          DegradedMax,                     \* DEGRADED_PER_REQUEST_BYTES
          Preview                          \* previewBytes

ASSUME SpoolAssumption ==
  /\ GlobalMax \in Nat /\ RequestMax \in Nat /\ BlobMax \in Nat
  /\ DegradedMax \in Nat /\ Preview \in Nat

EmptySpool == [entries |-> << >>, next |-> 1, done |-> {}]

UsedBy(sp, ids) == FoldFunctionOnSet(+, 0, [id \in ids |-> sp.entries[id].len], ids)
Used(sp) == UsedBy(sp, DOMAIN sp.entries)
RequestBytes(sp, req) == UsedBy(sp, {id \in DOMAIN sp.entries : sp.entries[id].req = req})

(* deleteEntry and sweep                                                         *)
Sweep(sp) ==
  [sp EXCEPT !.entries = Restrict(@, {id \in DOMAIN @ : ~@[id].old})]

(* Mutant: a request is marked only as long as it is the first time.             *)
MarkFirstOnly(sp, req) ==
  [sp EXCEPT !.done = @ \cup {req},
             !.entries = [id \in DOMAIN @ |->
               IF @[id].req = req /\ id = 1 THEN [@[id] EXCEPT !.state = "sweepable"] ELSE @[id]]]

MarkRequestComplete(sp, req) ==
  [sp EXCEPT !.done = @ \cup {req},
             !.entries = [id \in DOMAIN @ |->
               IF @[id].req = req THEN [@[id] EXCEPT !.state = "sweepable"] ELSE @[id]]]

(* completedTtlMs passes for whatever is sweepable.                              *)
Expire(sp) ==
  [sp EXCEPT !.entries = [id \in DOMAIN @ |-> [@[id] EXCEPT !.old = sp.entries[id].state = "sweepable"]]]

(* getPressureLevel: the heap and the transport's queue may raise what the usage *)
(* says; the thresholds are 80 and 95 percent.                                   *)
Pressures(sp) ==
  IF 100 * Used(sp) >= 95 * GlobalMax THEN {"critical"}
  ELSE IF 100 * Used(sp) >= 80 * GlobalMax THEN {"degraded", "critical"}
  ELSE {"normal", "degraded", "critical"}

(* Whether store keeps only a preview.                                           *)
PreviewOnly(sp, req, size, complete, pressure) ==
  \/ pressure = "critical" \/ size > BlobMax \/ ~complete
  \/ RequestBytes(sp, req) + size > RequestMax
  \/ pressure = "degraded" /\ RequestBytes(sp, req) + size > DegradedMax
  \/ Used(sp) + size > GlobalMax

(* store: the limits look at the size of the payload, the account at the bytes   *)
(* kept, which scrubbing may have made longer.                                   *)
Stored(sp, req, size, len, complete, pressure) ==
  LET swept == Sweep(sp)
      id    == sp.next
      entry == [req |-> req, len |-> len, size |-> size, state |-> "active", old |-> FALSE,
                late |-> req \in sp.done]
  IN  IF PreviewOnly(swept, req, size, complete, pressure)
      THEN [spool |-> [swept EXCEPT !.next = id + 1], ref |-> 0]
      ELSE [spool |-> [swept EXCEPT !.next = id + 1,
                                    !.entries = [x \in DOMAIN @ \cup {id} |-> IF x = id THEN entry ELSE @[x]]],
            ref |-> id]

=================================================================================
