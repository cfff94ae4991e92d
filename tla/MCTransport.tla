------------------------------ MODULE MCTransport ------------------------------
(* The dispatcher of src/src/transport with a handful of calls, and, each on its  *)
(* own, the lock of that directory with three processes, the rotation of the file *)
(* under concurrent sends, and the posts of the HTTP transport.                   *)
EXTENDS TransportDispatcher, FileLock, FileRotation, HttpDelivery

CONSTANTS p1, p2, p3

VARIABLE part
allvars == <<tvars, vars, rotvars, httpvars, part>>

MCInit == /\ part \in {"dispatcher", "lock", "rotation", "http"}
          /\ TInit /\ Init /\ RotInit /\ HInit
          /\ part /= "dispatcher" => ~threaded /\ ~creatable
          /\ part /= "http" => config = [protocol |-> "auto", https |-> TRUE]
MCNext ==
  /\ UNCHANGED part
  /\ \/ part = "dispatcher" /\ TNext /\ UNCHANGED <<vars, rotvars, httpvars>>
     \/ part = "lock"       /\ Next /\ UNCHANGED <<tvars, rotvars, httpvars>>
     \/ part = "rotation"   /\ RotNext /\ UNCHANGED <<tvars, vars, httpvars>>
     \/ part = "http"       /\ HNext /\ UNCHANGED <<tvars, vars, rotvars>>
MCSpec == /\ MCInit /\ [][MCNext]_allvars
          /\ WF_tvars(Worker) /\ WF_tvars(Main) /\ WF_tvars(Timer)
          /\ (\A p \in Procs : WF_vars(Step(p))) /\ RotFair /\ HFair

(* Nobody waits for a process that lives and does not hold the lock; the file     *)
(* stays within its size, and a line in it or in a backup until enough younger     *)
(* files are there; a payload is posted again only while no answer to it was       *)
(* final, and for a bounded time.                                                 *)
DestinationsSound ==
  TypeOK /\ NoFalseHolder /\ FileBounded /\ LineKept /\ EndsInTime /\ PostedOnce

(* Every call of the dispatcher settles, and every send of the file and the HTTP   *)
(* transport.                                                                     *)
CallsSettle == EveryCallSettles /\ SendsEnd /\ PostsEnd
================================================================================
