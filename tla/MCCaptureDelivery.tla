---------------------------- MODULE MCCaptureDelivery ----------------------------
(* Two packages, two concurrent flushes beside the last one, one mode switch. *)
EXTENDS CaptureDelivery

CONSTANTS p1, p2, f1, f2
MCPackages == {p1, p2}
MCCallers == {f1, f2}
MCOneCaller == {f1}

(* A bound: beside a transport worker, the assembly worker comes with the switch. *)
MCInit == Init /\ (mode = "worker" => ~threaded)
MCSpec == MCInit /\ [][Next]_vars /\ Fairness
=================================================================================
