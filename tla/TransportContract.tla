--------------------------- MODULE TransportContract ---------------------------
(***************************************************************************)
(* What the comment on the Transport interface promises                    *)
(* (src/src/transport/transport.ts, "Transport behavioral contract"),      *)
(* as the small state machine a caller sees: calls that are pending and    *)
(* then settle, a file that payloads are appended to, and the part of the  *)
(* file that is durable.  A call is known by its position in `ops`.        *)
(***************************************************************************)
EXTENDS Naturals, Sequences

CONSTANT MaxOps   \* bound on the calls of a run

ASSUME MaxOpsAssumption == MaxOps \in Nat

VARIABLES
  ops,      \* the calls made, in order: [type, state, before]
  file,     \* the calls whose payload was appended, in order
  durable   \* how much of the file has been synced

cvars == <<ops, file, durable>>

Types == {"send", "flush", "shutdown"}
States == {"pending", "resolved", "rejected"}
Ids == 1 .. Len(ops)

IsSend(i) == ops[i].type = "send"
Accepted == {i \in Ids : IsSend(i) /\ ops[i].state = "resolved"}
Written == {file[n] : n \in 1 .. Len(file)}
Durable == {file[n] : n \in 1 .. durable}

(* Later calls of shutdown() share the promise of the first one.            *)
FlushPoint(i) ==
  CHOOSE f \in 1 .. i : /\ ops[f].type = ops[i].type
                        /\ \/ f = i /\ ops[i].type = "flush"
                           \/ /\ ops[i].type = "shutdown"
                              /\ \A g \in 1 .. f - 1 : ops[g].type # "shutdown"

(* The sends called before i that have not been refused.                    *)
Earlier(i) == {j \in 1 .. FlushPoint(i) - 1 : IsSend(j) /\ ops[j].state # "rejected"}

Settle(i, state) == ops' = [ops EXCEPT ![i].state = state]

CInit == ops = <<>> /\ file = <<>> /\ durable = 0

(* A call; `before` remembers the sends the caller had seen accepted.       *)
Call(type) ==
  /\ Len(ops) < MaxOps
  /\ ops' = Append(ops, [type |-> type, state |-> "pending", before |-> Accepted])
  /\ UNCHANGED <<file, durable>>

(* A payload reaches the file while its call is pending, and the call may   *)
(* settle in the same step.                                                 *)
Write(i) ==
  /\ IsSend(i) /\ ops[i].state = "pending"
  /\ file' = Append(file, i)
  /\ UNCHANGED durable
  /\ UNCHANGED ops \/ Settle(i, "resolved")

AcceptSend(i) ==
  /\ IsSend(i) /\ ops[i].state = "pending" /\ i \in Written
  /\ Settle(i, "resolved") /\ UNCHANGED <<file, durable>>

Refuse(S) ==
  /\ \A i \in S : ops[i].state = "pending"
  /\ ops' = [i \in Ids |-> IF i \in S THEN [ops[i] EXCEPT !.state = "rejected"] ELSE ops[i]]
  /\ UNCHANGED <<file, durable>>

(* flush and shutdown resolve only when every earlier send that was not     *)
(* refused is durable.                                                      *)
SyncAndResolve(S) ==
  /\ durable' \in durable .. Len(file) /\ UNCHANGED file
  /\ \A i \in S : /\ ~IsSend(i) /\ ops[i].state = "pending"
                  /\ \A j \in Earlier(i) : \E n \in 1 .. durable' : file[n] = j
  /\ ops' = [i \in Ids |-> IF i \in S THEN [ops[i] EXCEPT !.state = "resolved"] ELSE ops[i]]

(* A repeated shutdown returns the promise of the first, settled or not.    *)
CallShutdownAgain(first) ==
  /\ Len(ops) < MaxOps
  /\ ops[first].type = "shutdown" /\ \A g \in 1 .. first - 1 : ops[g].type # "shutdown"
  /\ ops' = Append(ops, [type |-> "shutdown", state |-> ops[first].state,
                         before |-> Accepted])
  /\ UNCHANGED <<file, durable>>

(* Making room for a call may refuse an older one (queue overflow), and a   *)
(* call may be refused at once.                                             *)
CallRefusing(type, refused) ==
  /\ Len(ops) < MaxOps
  /\ \A i \in refused \ {Len(ops) + 1} : ops[i].state = "pending"
  /\ LET all == Append(ops, [type |-> type, state |-> "pending", before |-> Accepted])
     IN  ops' = [i \in 1 .. Len(all) |->
                   IF i \in refused THEN [all[i] EXCEPT !.state = "rejected"] ELSE all[i]]
  /\ UNCHANGED <<file, durable>>

CNext ==
  \/ \E type \in Types : Call(type)
  \/ \E type \in Types, refused \in SUBSET (1 .. Len(ops) + 1) : CallRefusing(type, refused)
  \/ \E i \in Ids : Write(i) \/ AcceptSend(i) \/ CallShutdownAgain(i)
  \/ \E S \in SUBSET Ids : Refuse(S) \/ SyncAndResolve(S)

CSpec == CInit /\ [][CNext]_cvars

--------------------------------------------------------------------------------
(* A send that was accepted is in the file.                                 *)
AcceptedIsWritten == Accepted \subseteq Written

(* "MUST NOT resolve until prior data is durable": once a flush or a        *)
(* shutdown has resolved, every send called before it that was not refused  *)
(* is durable.                                                              *)
FlushMeansDurable ==
  \A f \in Ids : ~IsSend(f) /\ ops[f].state = "resolved" => Earlier(f) \subseteq Durable

(* The weaker promise on which the SDK relies, which awaits its sends       *)
(* before it flushes: what had been accepted when flush was called is       *)
(* durable when it resolves.                                                *)
FlushCoversAccepted ==
  \A f \in Ids : ops[f].type = "flush" /\ ops[f].state = "resolved"
                   => ops[f].before \subseteq Durable
================================================================================
