---------------------------- MODULE MCIOEventBuffer ----------------------------
(* IOEventBuffer on a small ring.  A slot weighs 1 without bodies and 2     *)
(* with a captured body; MCOneSize leaves bodies out, for the run on the    *)
(* order of the ring alone.                                                 *)
EXTENDS IOEventBuffer

CONSTANT r1

MCSlotBytes == {1, 2}
MCOneSize == {1}
MCRequests == {r1}

(* Bound: at most one slot is special: it grows a body, or fails.           *)
AtMostOneSpecialSlot ==
  Cardinality({s \in Pushed : heap[s].body # "none" \/ heap[s].phase = "failed"}) <= 1

(* Bound: a run is cleared or has bodies materialized, not both.           *)
ClearOrMaterialize == happened # {"clear", "materialize"}
================================================================================
