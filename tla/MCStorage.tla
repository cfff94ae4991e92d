------------------------------- MODULE MCStorage -------------------------------
(* What the SDK keeps on disk until it is delivered, each store on its own: the   *)
(* dead letters of one SDK and a CLI, and the store of the webhook with its queue. *)
EXTENDS DeadLetterDelivery, WebhookDelivery

CONSTANTS a, b, c, e1, e2, e3, f1, f2

(* Two payloads, and a line that does not verify, were left by an earlier run;    *)
(* the third is captured now.                                                     *)
MCPayloads == {a, b, c}
MCInitialFiles == {<<a, Bad, b>>}
MCOneLeft == {<<a>>}

(* Three payloads, in batches of two over a queue of two, and two flushes.  The    *)
(* payloads are interchangeable, and so are the flushes.                           *)
MCEvents == {e1, e2, e3}
MCFlushers == {f1, f2}
Symmetry == Permutations(MCEvents) \cup Permutations(MCFlushers)

VARIABLE part
allvars == <<drainvars, wvars, part>>

(* Bound: past a mishap after which nothing is claimed, no step is taken.         *)
StillClaimed == happened \intersect Disturbances = {}

MCInit == /\ part \in {"letters", "webhook"} /\ DInit /\ WInit
          /\ part = "letters" => retainOnAck
MCNext ==
  /\ UNCHANGED part
  /\ \/ part = "letters" /\ StillClaimed /\ DNext /\ UNCHANGED wvars
     \/ part = "webhook" /\ WNext /\ UNCHANGED drainvars
MCSpec == MCInit /\ [][MCNext]_allvars

================================================================================
