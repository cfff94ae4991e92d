--------------------------------- MODULE Orders ---------------------------------
(***************************************************************************)
(* Some elements of a sequence, in their order.                            *)
(***************************************************************************)
EXTENDS Naturals, FiniteSets, SequencesExt

(* The positions S in ascending order; there is exactly one such sequence.  *)
Ascending(S) ==
  {o \in [1 .. Cardinality(S) -> S] :
     ToSet(o) = S /\ \A j, k \in DOMAIN o : j < k => o[j] < o[k]}

(* What is left of q when the positions S are kept: again just one.         *)
Kept(q, S) == {[k \in DOMAIN o |-> q[o[k]]] : o \in Ascending(S)}
================================================================================
