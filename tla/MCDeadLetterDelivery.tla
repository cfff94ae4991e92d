-------------------------- MODULE MCDeadLetterDelivery --------------------------
(* DeadLetterDelivery with three payloads: two, and a line that does not    *)
(* verify, were left by an earlier run; the third is captured now.          *)
EXTENDS DeadLetterDelivery

CONSTANTS a, b, c

MCPayloads == {a, b, c}
MCInitialFiles == {<<a, Bad, b>>}
MCOneLeft == {<<a>>}

(* Bound: past a mishap after which nothing is claimed, no step is taken.   *)
StillClaimed == happened \intersect Disturbances = {}
================================================================================
