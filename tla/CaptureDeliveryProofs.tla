------------------------- MODULE CaptureDeliveryProofs -------------------------
(***************************************************************************)
(* Proofs about CaptureDelivery for any number of packages, concurrent     *)
(* flushes and mode switches: its types; that a package is sent at most    *)
(* once; that a flush covers what was captured before it; and that no      *)
(* package captureError() let in is left behind by the shutdown.           *)
(***************************************************************************)
EXTENDS CaptureDelivery, TLAPS

Early == {"none", "assembling", "buffered"}

(* What a package not yet given to the transport, and one that was, have    *)
(* counted.                                                                 *)
SentInv == \A p \in Packages : sends[p] <= IF status[p] \in Early THEN 0 ELSE 1

(* Packages only move forward.                                              *)
Advance ==
  \A p \in Packages :
     /\ status'[p] = "none" => status[p] = "none"
     /\ status'[p] = "assembling" => status[p] \in {"none", "assembling"}
     /\ status'[p] = "buffered" => status[p] \in Early
     /\ status'[p] = "sending" => status[p] \in Early \cup {"sending"}
     /\ status[p] \in Terminal => status'[p] = status[p]

PackagesMove ==
  /\ status' \in [Packages -> Statuses]
  /\ sends' \in [Packages -> Nat]
  /\ Advance
  /\ SentInv => SentInv'

LEMMA DispatchMoves ==
  ASSUME TypeOK, NEW S \in SUBSET Packages, \A p \in S : status[p] \in Early, Dispatch(S)
  PROVE  /\ PackagesMove
         /\ \A p \in S : status'[p] \in {"sending", "dropped"}
         /\ \A p \in Packages \ S : status'[p] = status[p]
  BY SMT DEF TypeOK, Dispatch, PackagesMove, Advance, SentInv, Early, Statuses, Terminal

LEMMA InlineMoves ==
  ASSUME TypeOK, NEW S \in SUBSET Packages,
         \A p \in S : status[p] \in {"none", "assembling"}, Inline(S)
  PROVE  /\ PackagesMove
         /\ \A p \in S : status'[p] \in {"buffered", "sending", "dropped"}
         /\ \A p \in Packages \ S : status'[p] = status[p]
<1>1. CASE mode = "deferred"
  BY <1>1, SMT DEF TypeOK, Inline, PackagesMove, Advance, SentInv, Early, Statuses, Terminal
<1>2. CASE mode # "deferred"
  <2>1. \A p \in S : status[p] \in Early  BY DEF Early
  <2> QED  BY <1>2, <2>1, DispatchMoves DEF Inline
<1> QED  BY <1>1, <1>2

LEMMA SameMoves ==
  ASSUME TypeOK, UNCHANGED <<status, sends>>
  PROVE  PackagesMove
  BY SMT DEF TypeOK, PackagesMove, Advance, SentInv, Early, Statuses, Terminal

LEMMA TakeMoves ==
  ASSUME TypeOK, NEW f, NEW covers, NEW seen, TakeBuffered(f, covers, seen)
  PROVE  PackagesMove /\ \A p \in Packages \ Buffered : status'[p] = status[p]
<1>1. CASE Buffered = {}
  BY <1>1, SameMoves DEF TakeBuffered
<1>2. CASE Buffered # {}
  <2>1. Buffered \in SUBSET Packages /\ \A p \in Buffered : status[p] \in Early
    BY DEF Buffered, Early
  <2> QED  BY <1>2, <2>1, DispatchMoves DEF TakeBuffered
<1> QED  BY <1>1, <1>2

LEMMA CallMoves ==
  ASSUME TypeOK, NEW f, CallFlush(f)
  PROVE  PackagesMove /\ \A p \in Packages \ Buffered : status'[p] = status[p]
  BY TakeMoves, SameMoves DEF CallFlush

--------------------------------------------------------------------------------
(* Types *)

Promises == {"assembling", "sending"} \X Packages
FlushState == [at : {"idle", "settling", "dispatching", "transport", "done"},
               waits : SUBSET Promises, covers : SUBSET Packages, seen : SUBSET Packages]

LEMMA PromisesTyped ==
  ASSUME TypeOK
  PROVE  InFlight \in SUBSET Promises /\ Transporting \in SUBSET Promises
         /\ Captured \in SUBSET Packages /\ Snapshot \in SUBSET Promises
         /\ Sending \in SUBSET Packages /\ Buffered \in SUBSET Packages
  BY SMT DEF InFlight, Snapshot, Transporting, Promises, Sending, Captured, Buffered

LEMMA TakeTyped ==
  ASSUME TypeOK, NEW f \in Flushes, NEW covers \in SUBSET Packages,
         NEW seen \in SUBSET Packages, TakeBuffered(f, covers, seen)
  PROVE  flush' \in [Flushes -> FlushState]
<1>1. flush \in [Flushes -> FlushState]  BY DEF TypeOK, FlushState, Promises
<1>2. Transporting \in SUBSET Promises  BY PromisesTyped
<1>3. {<<"sending", p>> : p \in {q \in Buffered : status'[q] = "sending"}} \in SUBSET Promises
  BY SMT DEF Promises, Buffered
<1>4. CASE Buffered = {}
  BY <1>1, <1>2, <1>4, SMT DEF TakeBuffered, FlushState
<1>5. CASE Buffered # {}
  BY <1>1, <1>3, <1>5, PromisesTyped, SMT DEF TakeBuffered, FlushState
<1> QED  BY <1>4, <1>5

LEMMA CallTyped ==
  ASSUME TypeOK, NEW f \in Flushes, CallFlush(f)
  PROVE  flush' \in [Flushes -> FlushState]
<1>1. CASE Snapshot = {}
  BY <1>1, PromisesTyped, TakeTyped DEF CallFlush
<1>2. CASE Snapshot # {}
  <2>1. flush \in [Flushes -> FlushState]  BY DEF TypeOK, FlushState, Promises
  <2> QED  BY <1>2, <2>1, PromisesTyped, SMT DEF CallFlush, FlushState
<1> QED  BY <1>1, <1>2

(* The fields that are not of packages.                                     *)
ControlTyped ==
  /\ lifecycle \in {"active", "teardown", "assembly", "drain", "shutdown"}
  /\ admissionOpen \in BOOLEAN /\ threaded \in BOOLEAN
  /\ fatal \in BOOLEAN /\ idle \in BOOLEAN
  /\ mode \in Modes /\ switches \in 0 .. MaxSwitches
  /\ transition \in {"none", "wanted", "waiting"}
  /\ admitted \subseteq Packages

WorkersTyped ==
  /\ inbox \in [Workers -> Seq(Packages \cup {"config", "shutdown"})]
  /\ worker \in [Workers -> {"unborn", "live", "gone"}]
  /\ attached \in Workers \cup {NoWorker}
  /\ stopping \subseteq {d \in Workers : worker[d] = "live"} \ {attached}

RequestsMatch ==
  /\ request \in [Packages -> Workers \cup {NoWorker}]
  /\ \A p \in Packages : status[p] = "assembling" <=> request[p] # NoWorker

LEMMA TypeParts ==
  ASSUME PackagesMove, ControlTyped', WorkersTyped', RequestsMatch',
         flush' \in [Flushes -> FlushState]
  PROVE  TypeOK'
  BY DEF TypeOK, ControlTyped, WorkersTyped, RequestsMatch, PackagesMove, FlushState, Promises

LEMMA TypeUse ==
  ASSUME TypeOK
  PROVE  ControlTyped /\ WorkersTyped /\ RequestsMatch /\ flush \in [Flushes -> FlushState]
  BY DEF TypeOK, ControlTyped, WorkersTyped, RequestsMatch, FlushState, Promises

LEMMA InlineMatches ==
  ASSUME TypeOK, NEW S \in SUBSET Packages, Forget(S), PackagesMove,
         \A p \in S : status'[p] # "assembling",
         \A p \in Packages \ S : status'[p] = status[p]
  PROVE  RequestsMatch'
  BY SMT DEF TypeOK, RequestsMatch, Forget, NoWorker

LEMMA PendingAssembles ==
  ASSUME TypeOK, NEW d \in Workers
  PROVE  Pending(d) \in SUBSET Packages /\ \A p \in Pending(d) : status[p] = "assembling"
  BY SMT DEF TypeOK, Pending, Workers, NoWorker

LEMMA SendsMatch ==
  ASSUME TypeOK, UNCHANGED request, PackagesMove,
         \A p \in Packages : status'[p] = "assembling" <=> status[p] = "assembling"
  PROVE  RequestsMatch'
  BY SMT DEF TypeOK, RequestsMatch

LEMMA StopTyped ==
  ASSUME TypeOK, NEW d \in Workers \cup {NoWorker}, Stop(d), UNCHANGED worker,
         attached' = NoWorker
  PROVE  WorkersTyped'
<1>1. CASE d # NoWorker /\ worker[d] = "live"
  <2>1. d \in Workers  BY <1>1 DEF NoWorker
  <2>2. inbox' = [inbox EXCEPT ![d] = Append(@, "shutdown")] /\ stopping' = stopping \cup {d}
    BY <1>1 DEF Stop
  <2>3. inbox' \in [Workers -> Seq(Packages \cup {"config", "shutdown"})]
    BY <2>1, <2>2, SMT DEF TypeOK
  <2>4. NoWorker \notin Workers  BY SMT DEF NoWorker, Workers
  <2> QED  BY <1>1, <2>1, <2>2, <2>3, <2>4 DEF TypeOK, WorkersTyped
<1>2. CASE ~(d # NoWorker /\ worker[d] = "live")
  <2>1. UNCHANGED <<stopping, inbox>>  BY <1>2 DEF Stop
  <2>2. NoWorker \notin Workers  BY SMT DEF NoWorker, Workers
  <2> QED  BY <2>1, <2>2 DEF TypeOK, WorkersTyped
<1> QED  BY <1>1, <1>2

LEMMA AssembleTyped ==
  ASSUME TypeOK, NEW p \in Packages, NEW uncaught \in BOOLEAN, Assemble(p, uncaught)
  PROVE  /\ PackagesMove /\ WorkersTyped' /\ RequestsMatch'
         /\ status'[p] # "none" /\ \A q \in Packages \ {p} : status'[q] = status[q]
<1>1. CASE Available /\ mode = "worker" /\ ~uncaught
  <2>1. attached \in Workers  BY <1>1 DEF TypeOK, Available
  <2>2. /\ status' = [status EXCEPT ![p] = "assembling"] /\ status[p] = "none"
        /\ request' = [request EXCEPT ![p] = attached]
        /\ inbox' = [inbox EXCEPT ![attached] = Append(@, p)]
        /\ UNCHANGED <<sends, worker, attached, idle, stopping>>
    BY <1>1 DEF Assemble
  <2>3. PackagesMove
    BY <2>2, SMT DEF TypeOK, PackagesMove, Advance, SentInv, Early, Statuses, Terminal
  <2>4. inbox' \in [Workers -> Seq(Packages \cup {"config", "shutdown"})]
    BY <2>1, <2>2, SMT DEF TypeOK
  <2>5. WorkersTyped'  BY <2>2, <2>4 DEF TypeOK, WorkersTyped
  <2>6. NoWorker \notin Workers  BY SMT DEF NoWorker, Workers
  <2>7. RequestsMatch'  BY <2>1, <2>2, <2>6, SMT DEF TypeOK, RequestsMatch
  <2> QED  BY <2>2, <2>3, <2>5, <2>7, SMT DEF TypeOK
<1>2. CASE ~(Available /\ mode = "worker" /\ ~uncaught)
  <2>1. status[p] = "none" /\ Inline({p}) /\ UNCHANGED workerVars  BY <1>2 DEF Assemble
  <2>2. {p} \in SUBSET Packages /\ \A q \in {p} : status[q] \in {"none", "assembling"}
    BY <2>1
  <2>3. /\ PackagesMove /\ \A q \in {p} : status'[q] \in {"buffered", "sending", "dropped"}
        /\ \A q \in Packages \ {p} : status'[q] = status[q]
    BY <2>1, <2>2, InlineMoves
  <2>4. \A q \in Packages : status'[q] = "assembling" <=> status[q] = "assembling"
    BY <2>1, <2>3
  <2>5. RequestsMatch'  BY <2>1, <2>3, <2>4, SendsMatch DEF workerVars
  <2>6. WorkersTyped'  BY <2>1 DEF TypeOK, WorkersTyped, workerVars
  <2> QED  BY <2>3, <2>5, <2>6
<1> QED  BY <1>1, <1>2

(* What an answer of the worker does to the packages and the fields of the  *)
(* workers.                                                                 *)
LEMMA AnswerTyped ==
  ASSUME TypeOK, NEW d \in Workers, Answer(d)
  PROVE  PackagesMove /\ WorkersTyped' /\ RequestsMatch' /\ ControlTyped'
<1>1. worker[d] = "live" /\ inbox[d] # <<>> /\ UNCHANGED <<attached, lifecycle, admissionOpen, threaded,
        fatal, mode, switches, admitted, idle>>
  BY DEF Answer
<1>2. Tail(inbox[d]) \in Seq(Packages \cup {"config", "shutdown"})
  BY <1>1, SMT DEF TypeOK
<1>3. [inbox EXCEPT ![d] = Tail(@)] \in [Workers -> Seq(Packages \cup {"config", "shutdown"})]
  BY <1>2, SMT DEF TypeOK
<1>4. CASE AnswerPackage(d)
  <2> DEFINE p == Head(inbox[d])
  <2>1. p \in Packages /\ UNCHANGED <<transition, worker, stopping>>
        /\ inbox' = [inbox EXCEPT ![d] = Tail(@)]
    BY <1>4 DEF AnswerPackage
  <2>2. WorkersTyped'  BY <1>1, <1>3, <2>1 DEF TypeOK, WorkersTyped
  <2>3. ControlTyped'  BY <1>1, <2>1 DEF TypeOK, ControlTyped
  <2>4. CASE Awaited(d, p)
    <3>1. Forget({p}) /\ (Dispatch({p}) \/ Inline({p}))  BY <1>4, <2>4 DEF AnswerPackage
    <3>2. {p} \in SUBSET Packages /\ \A q \in {p} : status[q] = "assembling"
      BY <2>1, <2>4, PendingAssembles DEF Awaited, Pending
    <3>3. PackagesMove /\ (\A q \in {p} : status'[q] # "assembling")
          /\ \A q \in Packages \ {p} : status'[q] = status[q]
      <4>1. \A q \in {p} : status[q] \in Early  BY <3>2 DEF Early
      <4>2. CASE Dispatch({p})  BY <3>2, <4>1, <4>2, DispatchMoves
      <4>3. CASE Inline({p})  BY <3>2, <4>3, InlineMoves
      <4> QED  BY <3>1, <4>2, <4>3
    <3>4. RequestsMatch'  BY <3>1, <3>2, <3>3, InlineMatches
    <3> QED  BY <2>2, <2>3, <3>3, <3>4
  <2>5. CASE ~Awaited(d, p)
    <3>1. UNCHANGED <<request, status, sends>>  BY <1>4, <2>5 DEF AnswerPackage
    <3> QED  BY <2>2, <2>3, <3>1, SameMoves, SendsMatch
  <2> QED  BY <2>4, <2>5
<1>5. CASE AnswerConfig(d)
  <2>1. UNCHANGED <<request, status, sends, worker, stopping>>
        /\ inbox' = [inbox EXCEPT ![d] = Tail(@)] /\ transition' \in {"none", transition}
    BY <1>5 DEF AnswerConfig
  <2>2. WorkersTyped'  BY <1>1, <1>3, <2>1 DEF TypeOK, WorkersTyped
  <2>3. ControlTyped'  BY <1>1, <2>1 DEF TypeOK, ControlTyped
  <2> QED  BY <2>1, <2>2, <2>3, SameMoves, SendsMatch
<1>6. CASE AnswerShutdown(d)
  <2>1. /\ worker' = [worker EXCEPT ![d] = "gone"] /\ stopping' = stopping \ {d}
        /\ inbox' = [inbox EXCEPT ![d] = <<>>] /\ UNCHANGED transition
        /\ Forget(Pending(d)) /\ Inline(Pending(d))
    BY <1>6 DEF AnswerShutdown
  <2>2. WorkersTyped'  BY <1>1, <2>1, SMT DEF TypeOK, WorkersTyped
  <2>3. ControlTyped'  BY <1>1, <2>1 DEF TypeOK, ControlTyped
  <2>4. Pending(d) \in SUBSET Packages /\ \A q \in Pending(d) : status[q] \in {"none", "assembling"}
    BY PendingAssembles
  <2>5. PackagesMove /\ (\A q \in Pending(d) : status'[q] # "assembling")
        /\ \A q \in Packages \ Pending(d) : status'[q] = status[q]
    BY <2>1, <2>4, InlineMoves
  <2> QED  BY <2>1, <2>2, <2>3, <2>4, <2>5, InlineMatches
<1> QED  BY <1>4, <1>5, <1>6 DEF Answer

LEMMA ExitTyped ==
  ASSUME TypeOK, NEW d \in Workers, WorkerExits(d)
  PROVE  PackagesMove /\ WorkersTyped' /\ RequestsMatch' /\ ControlTyped'
<1>1. /\ worker' = [worker EXCEPT ![d] = "gone"] /\ stopping' = stopping \ {d}
      /\ inbox' = [inbox EXCEPT ![d] = <<>>]
      /\ Forget(Pending(d)) /\ Inline(Pending(d))
      /\ transition' \in {transition, "none"} /\ attached' \in {attached, NoWorker}
      /\ UNCHANGED <<lifecycle, admissionOpen, threaded, fatal, mode, switches, admitted, idle>>
  BY DEF WorkerExits
<1>2. NoWorker \notin Workers  BY SMT DEF NoWorker, Workers
<1>3. worker' \in [Workers -> {"unborn", "live", "gone"}]
      /\ inbox' \in [Workers -> Seq(Packages \cup {"config", "shutdown"})]
  BY <1>1, SMT DEF TypeOK
<1>4. stopping' \subseteq {e \in Workers : worker'[e] = "live"} \ {attached'}
  BY <1>1, <1>2, SMT DEF TypeOK
<1>5. WorkersTyped'  BY <1>1, <1>3, <1>4 DEF TypeOK, WorkersTyped
<1>6. ControlTyped'  BY <1>1 DEF TypeOK, ControlTyped
<1>7. Pending(d) \in SUBSET Packages /\ \A q \in Pending(d) : status[q] \in {"none", "assembling"}
  BY PendingAssembles
<1>8. PackagesMove /\ (\A q \in Pending(d) : status'[q] # "assembling")
      /\ \A q \in Packages \ Pending(d) : status'[q] = status[q]
  BY <1>1, <1>7, InlineMoves
<1> QED  BY <1>1, <1>5, <1>6, <1>7, <1>8, InlineMatches

LEMMA UseWorkerTyped ==
  ASSUME TypeOK, UseWorker
  PROVE  WorkersTyped' /\ transition' \in {"none", "waiting"} /\ UNCHANGED request
         /\ idle' \in BOOLEAN
<1>1. attached' \in Workers /\ worker' \in [Workers -> {"unborn", "live", "gone"}]
      /\ stopping \subseteq {e \in Workers : worker'[e] = "live"} \ {attached'}
  <2>1. CASE attached # NoWorker /\ UNCHANGED <<attached, worker>>
    BY <2>1 DEF TypeOK
  <2>2. CASE attached = NoWorker /\ \E d \in Workers :
              /\ worker[d] = "unborn" /\ attached' = d
              /\ \E w \in {"live", "gone"} : worker' = [worker EXCEPT ![d] = w]
    BY <2>2, SMT DEF TypeOK
  <2> QED  BY <2>1, <2>2 DEF UseWorker
<1>2. UNCHANGED <<request, stopping>> /\ idle' = FALSE  BY DEF UseWorker
<1>3. inbox' \in [Workers -> Seq(Packages \cup {"config", "shutdown"})]
      /\ transition' \in {"none", "waiting"}
  <2>1. CASE /\ inbox' = [inbox EXCEPT ![attached'] = Append(@, "config")]
             /\ transition' = "waiting"
    BY <1>1, <2>1, SMT DEF TypeOK
  <2>2. CASE transition' = "none" /\ UNCHANGED inbox
    BY <2>2 DEF TypeOK
  <2> QED  BY <2>1, <2>2 DEF UseWorker
<1> QED  BY <1>1, <1>2, <1>3 DEF WorkersTyped

(* The parts of the type invariant after each action.                       *)
LEMMA Step ==
  ASSUME TypeOK, [Next]_vars
  PROVE  PackagesMove /\ TypeOK'
<1> USE TypeUse
<1>1. ASSUME NEW p \in Packages,
             CaptureError(p) \/ UnhandledRejection(p) \/ UncaughtException(p)
      PROVE  PackagesMove /\ TypeOK'
  <2>1. \E uncaught \in BOOLEAN : Assemble(p, uncaught)
    BY <1>1 DEF CaptureError, UnhandledRejection, UncaughtException
  <2>2. PackagesMove /\ WorkersTyped' /\ RequestsMatch'  BY <2>1, AssembleTyped
  <2>3. idle' = idle
    BY <1>1 DEF CaptureError, UnhandledRejection, UncaughtException, Assemble, workerVars
  <2>4. ControlTyped' /\ UNCHANGED flush
    <3>1. /\ fatal' \in {fatal, TRUE} /\ lifecycle' \in {lifecycle, "teardown"}
          /\ admitted' \in {admitted, admitted \cup {p}}
          /\ UNCHANGED <<admissionOpen, threaded, mode, switches, transition, flush>>
      <4>1. CASE CaptureError(p)  BY <4>1 DEF CaptureError
      <4>2. CASE UnhandledRejection(p)  BY <4>2 DEF UnhandledRejection
      <4>3. CASE UncaughtException(p)  BY <4>3 DEF UncaughtException
      <4> QED  BY <1>1, <4>1, <4>2, <4>3
    <3> QED  BY <2>3, <3>1 DEF TypeOK, ControlTyped
  <2> QED  BY <2>2, <2>4, TypeParts
<1>2. ASSUME NEW p \in Packages, EndSend(p)
      PROVE  PackagesMove /\ TypeOK'
  <2>1. PICK s \in Terminal : status' = [status EXCEPT ![p] = s]  BY <1>2 DEF EndSend
  <2>2. status[p] = "sending" /\ UNCHANGED <<sends, workerVars, flush>>  BY <1>2 DEF EndSend
  <2>3. PackagesMove
    BY <2>1, <2>2, SMT DEF TypeOK, PackagesMove, Advance, SentInv, Early, Statuses, Terminal
  <2>4. \A q \in Packages : status'[q] = "assembling" <=> status[q] = "assembling"
    BY <2>1, <2>2, SMT DEF TypeOK, Terminal
  <2>5. RequestsMatch'  BY <2>2, <2>3, <2>4, SendsMatch DEF workerVars
  <2>6. ControlTyped' /\ WorkersTyped' /\ UNCHANGED flush
    BY <1>2 DEF TypeOK, EndSend, ControlTyped, WorkersTyped, workerVars
  <2> QED  BY <2>3, <2>5, <2>6, TypeParts
<1>3. ASSUME NEW p \in Packages, AssemblyTimesOut(p)
      PROVE  PackagesMove /\ TypeOK'
  <2>1. Forget({p}) /\ Inline({p}) /\ status[p] = "assembling"
    BY <1>3 DEF AssemblyTimesOut, Expired
  <2>2. PackagesMove /\ (\A q \in {p} : status'[q] # "assembling")
        /\ \A q \in Packages \ {p} : status'[q] = status[q]
    BY <2>1, InlineMoves
  <2>3. RequestsMatch'  BY <2>1, <2>2, InlineMatches
  <2>4. ControlTyped' /\ WorkersTyped' /\ UNCHANGED flush
    BY <1>3 DEF TypeOK, AssemblyTimesOut, ControlTyped, WorkersTyped
  <2> QED  BY <2>2, <2>3, <2>4, TypeParts
<1>4. ASSUME NEW f \in Flushes, (f \in Callers /\ StartFlush(f)) \/ Settled(f)
      PROVE  PackagesMove /\ TypeOK'
  <2>1. PackagesMove /\ flush' \in [Flushes -> FlushState]
        /\ \A q \in Packages \ Buffered : status'[q] = status[q]
    <3>1. flush[f].covers \in SUBSET Packages /\ flush[f].seen \in SUBSET Packages
      BY SMT DEF TypeOK
    <3> QED  BY <1>4, <3>1, CallMoves, CallTyped, TakeMoves, TakeTyped DEF StartFlush, Settled
  <2>2. UNCHANGED <<workerVars, lifecycle, admissionOpen, threaded, fatal, mode, switches, transition, admitted>>
    BY <1>4 DEF StartFlush, Settled
  <2>3. \A q \in Packages : status'[q] = "assembling" <=> status[q] = "assembling"
    <3>1. \A q \in Buffered : status'[q] # "assembling"
      BY <2>1 DEF PackagesMove, Advance, Buffered
    <3> QED  BY <2>1, <3>1 DEF Buffered
  <2>4. RequestsMatch'  BY <2>1, <2>2, <2>3, SendsMatch DEF workerVars
  <2>5. ControlTyped' /\ WorkersTyped'
    BY <2>2 DEF TypeOK, ControlTyped, WorkersTyped, workerVars
  <2> QED  BY <2>1, <2>4, <2>5, TypeParts
<1>5. ASSUME NEW f \in Flushes, Dispatched(f)
      PROVE  PackagesMove /\ TypeOK'
  <2>1. flush' \in [Flushes -> FlushState]
    <3>1. Transporting \in SUBSET Promises /\ flush \in [Flushes -> FlushState]
      BY PromisesTyped
    <3> QED  BY <1>5, <3>1, SMT DEF Dispatched, FlushState
  <2>2. UNCHANGED <<status, sends, workerVars, lifecycle, admissionOpen, threaded, fatal, mode, switches,
                    transition, admitted>>
    BY <1>5 DEF Dispatched
  <2>3. ControlTyped' /\ WorkersTyped'
    BY <2>2 DEF TypeOK, ControlTyped, WorkersTyped, workerVars
  <2> QED  BY <2>1, <2>2, <2>3, SameMoves, SendsMatch, TypeParts DEF workerVars
<1>6. ASSUME NEW f \in Flushes, EndFlush(f)
      PROVE  PackagesMove /\ TypeOK'
  <2>1. flush' \in [Flushes -> FlushState]
    BY <1>6, TypeUse, SMT DEF EndFlush, FlushState
  <2>2. UNCHANGED <<status, sends, workerVars, admissionOpen, threaded, mode, switches, transition, admitted>>
    BY <1>6 DEF EndFlush
  <2>3. ControlTyped' /\ WorkersTyped'
    BY <1>6, <2>2 DEF TypeOK, EndFlush, ControlTyped, WorkersTyped, workerVars
  <2> QED  BY <2>1, <2>2, <2>3, SameMoves, SendsMatch, TypeParts DEF workerVars
<1>7. ASSUME NEW d \in Workers, Answer(d) \/ WorkerExits(d) \/ StopTimesOut(d)
      PROVE  PackagesMove /\ TypeOK'
  <2>1. UNCHANGED flush  BY <1>7 DEF Answer, WorkerExits, StopTimesOut
  <2>2. Answer(d) \/ WorkerExits(d)  BY <1>7 DEF StopTimesOut
  <2> QED  BY <2>1, <2>2, AnswerTyped, ExitTyped, TypeParts
<1>8. ASSUME SwitchMode \/ Shutdown
      PROVE  PackagesMove /\ TypeOK'
  <2>1. UNCHANGED <<status, sends, workerVars, flush>>  BY <1>8 DEF SwitchMode, Shutdown
  <2>2. ControlTyped'
    BY <1>8, DeliveryAssumption, SMT DEF SwitchMode, Shutdown, TypeOK, ControlTyped, workerVars
  <2>3. WorkersTyped'  BY <2>1 DEF TypeOK, WorkersTyped, workerVars
  <2> QED  BY <2>1, <2>2, <2>3, SameMoves, SendsMatch, TypeParts DEF workerVars
<1>9. ASSUME ApplyMode
      PROVE  PackagesMove /\ TypeOK'
  <2>1. UNCHANGED <<status, sends, flush, lifecycle, admissionOpen, threaded, fatal, mode, switches, admitted>>
    BY <1>9 DEF ApplyMode
  <2>2. WorkersTyped' /\ transition' \in {"none", "waiting"} /\ UNCHANGED request
        /\ idle' \in BOOLEAN
    <3>1. CASE DisuseWorker  BY <3>1 DEF TypeOK, DisuseWorker, WorkersTyped
    <3>2. CASE UseWorker  BY <3>2, UseWorkerTyped
    <3> QED  BY <1>9, <3>1, <3>2 DEF ApplyMode
  <2>3. ControlTyped'  BY <2>1, <2>2 DEF TypeOK, ControlTyped
  <2> QED  BY <2>1, <2>2, <2>3, SameMoves, SendsMatch, TypeParts
<1>10. ASSUME ConfigTimesOut \/ IdleTimer \/ DetachWorker
       PROVE  PackagesMove /\ TypeOK'
  <2>1. UNCHANGED <<status, sends, request, worker, flush>> /\ Stop(attached) /\ attached' = NoWorker
    BY <1>10 DEF ConfigTimesOut, IdleTimer, DetachWorker
  <2>2. ControlTyped'
    BY <1>10 DEF TypeOK, ConfigTimesOut, IdleTimer, DetachWorker, ControlTyped
  <2>3. WorkersTyped'  BY <2>1, StopTyped DEF TypeOK
  <2> QED  BY <2>1, <2>2, <2>3, SameMoves, SendsMatch, TypeParts
<1>11. ASSUME FinalFlush
       PROVE  PackagesMove /\ TypeOK'
  <2>1. Final \in Flushes  BY DEF Flushes
  <2>2. CallFlush(Final) /\ UNCHANGED <<workerVars, threaded, fatal, mode, switches, transition, admitted>>
        /\ lifecycle' = "drain" /\ admissionOpen' = FALSE
    BY <1>11 DEF FinalFlush
  <2>3. PackagesMove /\ flush' \in [Flushes -> FlushState]
        /\ \A q \in Packages \ Buffered : status'[q] = status[q]
    BY <2>1, <2>2, CallMoves, CallTyped
  <2>4. \A q \in Packages : status'[q] = "assembling" <=> status[q] = "assembling"
    <3>1. \A q \in Buffered : status'[q] # "assembling"
      BY <2>3 DEF PackagesMove, Advance, Buffered
    <3> QED  BY <2>3, <3>1 DEF Buffered
  <2>5. RequestsMatch'  BY <2>2, <2>3, <2>4, SendsMatch DEF workerVars
  <2>6. ControlTyped' /\ WorkersTyped'
    BY <2>2 DEF TypeOK, ControlTyped, WorkersTyped, workerVars
  <2> QED  BY <2>3, <2>5, <2>6, TypeParts
<1>12. ASSUME UNCHANGED vars
       PROVE  PackagesMove /\ TypeOK'
  <2>1. PackagesMove  BY <1>12, SameMoves DEF vars
  <2>2. TypeOK'  BY <1>12 DEF TypeOK, vars, workerVars
  <2> QED  BY <2>1, <2>2
<1> QED
  BY <1>1, <1>2, <1>3, <1>4, <1>5, <1>6, <1>7, <1>8, <1>9, <1>10, <1>11, <1>12 DEF Next, Flushes

LEMMA InitTyped == Init => TypeOK
<1> SUFFICES ASSUME Init PROVE TypeOK  OBVIOUS
<1>1. 1 \in Workers /\ NoWorker \notin Workers
  BY DeliveryAssumption, SMT DEF Workers, NoWorker
<1>2. WorkersTyped
  <2>1. inbox \in [Workers -> Seq(Packages \cup {"config", "shutdown"})]
    BY SMT DEF Init
  <2>2. worker \in [Workers -> {"unborn", "live", "gone"}] /\ stopping = {}
    BY DEF Init
  <2>3. attached \in Workers \cup {NoWorker}  BY <1>1 DEF Init
  <2> QED  BY <2>1, <2>2, <2>3 DEF WorkersTyped
<1>3. RequestsMatch  BY DEF Init, RequestsMatch
<1>4. ControlTyped
  <2>1. switches \in 0 .. MaxSwitches  BY DeliveryAssumption, SMT DEF Init
  <2> QED  BY <2>1 DEF Init, ControlTyped
<1>5. flush \in [Flushes -> FlushState]  BY SMT DEF Init, FlushState
<1>6. status \in [Packages -> Statuses] /\ sends \in [Packages -> Nat]
  BY SMT DEF Init, Statuses
<1> QED
  BY <1>2, <1>3, <1>4, <1>5, <1>6 DEF TypeOK, WorkersTyped, RequestsMatch, ControlTyped, FlushState, Promises

(* Every variable keeps its type; a package is assembled exactly while its  *)
(* request is pending, and what is torn down is not captured to.            *)
THEOREM TypeCorrect == Spec => []TypeOK
<1>1. TypeOK /\ [Next]_vars => TypeOK'  BY Step
<1> QED  BY InitTyped, <1>1, PTL DEF Spec

(* However time-outs, late answers and flushes fall, a package is given to  *)
(* the transport at most once (ErrorCapturer, PackageAssemblyDispatcher).   *)
THEOREM SentOnce == Spec => []SentAtMostOnce
<1>1. Init => SentInv
  <2> SUFFICES ASSUME Init, NEW p \in Packages
               PROVE  sends[p] <= IF status[p] \in Early THEN 0 ELSE 1
    BY DEF SentInv
  <2>1. status[p] = "none" /\ sends[p] = 0  BY DEF Init
  <2> QED  BY <2>1, SMT DEF Early
<1>2. TypeOK /\ SentInv /\ [Next]_vars => SentInv'  BY Step DEF PackagesMove
<1>3. TypeOK /\ SentInv => SentAtMostOnce
  <2> SUFFICES ASSUME TypeOK, SentInv, NEW p \in Packages PROVE sends[p] <= 1
    BY DEF SentAtMostOnce
  <2>1. sends[p] \in Nat /\ sends[p] <= IF status[p] \in Early THEN 0 ELSE 1
    BY DEF TypeOK, SentInv
  <2> QED  BY <2>1, SMT
<1> QED  BY <1>1, <1>2, <1>3, TypeCorrect, PTL DEF Spec

--------------------------------------------------------------------------------
(* Flushes *)

(* While it settles, what a flush covers and is still assembled is in its   *)
(* snapshot.  Then nothing it covers is assembled or held back any more.  It*)
(* waits for the sends it has seen itself, and they have ended when it calls*)
(* transport.flush(), which on the main thread waits for the others.        *)
Covers(p, st, at, waits, seen) ==
  /\ st # "none"
  /\ at = "settling" /\ st = "assembling" => <<"assembling", p>> \in waits
  /\ at \in {"dispatching", "transport"} \/ p \in seen => st \in {"sending"} \cup Terminal
  /\ at = "transport" \/ (p \in seen /\ at \in {"settling", "dispatching"})
       => (st = "sending" => <<"sending", p>> \in waits)
  /\ p \in seen /\ at \in {"transport", "done"} => st \in Terminal
  /\ at = "done" => st \in Terminal \/ (threaded /\ st = "sending")

Covering(at, waits, covers, seen) == \A p \in covers : Covers(p, status[p], at, waits, seen)

CoverInv ==
  \A f \in Flushes : Covering(flush[f].at, flush[f].waits, flush[f].covers, flush[f].seen)

LEMMA CoverInit == Init => CoverInv
<1> SUFFICES ASSUME Init, NEW f \in Flushes
             PROVE  Covering(flush[f].at, flush[f].waits, flush[f].covers, flush[f].seen)
  BY DEF CoverInv
<1>1. flush[f].covers = {}  BY DEF Init
<1> QED  BY <1>1 DEF Covering, Covers

LEMMA InFlightMember ==
  ASSUME NEW p \in Packages, status[p] \in {"assembling", "sending"}
  PROVE  <<status[p], p>> \in InFlight
  BY DEF InFlight

LEMMA WaitedFor ==
  ASSUME NEW p \in Packages, NEW waits, waits \cap InFlight = {}
  PROVE  /\ <<"assembling", p>> \in waits => status[p] # "assembling"
         /\ <<"sending", p>> \in waits => status[p] # "sending"
<1>1. status[p] = "assembling" => <<"assembling", p>> \in InFlight  BY InFlightMember
<1>2. status[p] = "sending" => <<"sending", p>> \in InFlight  BY InFlightMember
<1> QED  BY <1>1, <1>2

(* What a flush that takes what is held back covers is not assembled, and   *)
(* the sends it has seen are over.                                          *)
LEMMA TakeCovers ==
  ASSUME TypeOK, NEW f \in Flushes, NEW covers \in SUBSET Packages,
         NEW seen \in SUBSET Packages, TakeBuffered(f, covers, seen),
         \A p \in covers : status[p] \notin {"none", "assembling"},
         \A p \in covers : p \in seen => status[p] \in Terminal
  PROVE  Covering(flush[f].at, flush[f].waits, flush[f].covers, flush[f].seen)'
<1>1. CASE Buffered = {}
  <2>1. /\ UNCHANGED <<status, sends>>
        /\ flush'[f] = [at |-> "transport", waits |-> Transporting, covers |-> covers, seen |-> seen]
    BY <1>1, SMT DEF TakeBuffered, TypeOK
  <2>2. ASSUME NEW p \in covers
        PROVE  /\ status'[p] \in {"sending"} \cup Terminal
               /\ status'[p] = "sending" => <<"sending", p>> \in Transporting
               /\ p \in seen => status'[p] \in Terminal
    <3>1. status'[p] = status[p] /\ status[p] \in Statuses /\ status[p] \notin {"none", "assembling"}
      BY <2>1 DEF TypeOK
    <3>2. status[p] # "buffered"  BY <1>1 DEF Buffered
    <3>3. status[p] = "sending" => <<"sending", p>> \in Transporting
      BY DEF Transporting, Sending
    <3> QED  BY <3>1, <3>2, <3>3 DEF Statuses
  <2>3. \A p \in covers : status'[p] # "none"  BY <2>2 DEF Terminal
  <2>4. /\ flush'[f].at = "transport" /\ flush'[f].waits = Transporting
        /\ flush'[f].covers = covers /\ flush'[f].seen = seen
    BY <2>1
  <2> QED  BY <2>2, <2>3, <2>4 DEF Covering, Covers
<1>2. CASE Buffered # {}
  <2> DEFINE waits == {<<"sending", p>> : p \in {q \in Buffered : status'[q] = "sending"}}
  <2>1. /\ Dispatch(Buffered)
        /\ flush' = [flush EXCEPT ![f] = [at |-> "dispatching", covers |-> covers,
                                          seen |-> seen \cup Buffered, waits |-> waits]]
    BY <1>2 DEF TakeBuffered
  <2>2. Buffered \in SUBSET Packages /\ \A p \in Buffered : status[p] \in Early
    BY DEF Buffered, Early
  <2>3. /\ \A p \in Buffered : status'[p] \in {"sending", "dropped"}
        /\ \A p \in Packages \ Buffered : status'[p] = status[p]
    BY <2>1, <2>2, DispatchMoves
  <2>4. ASSUME NEW p \in covers
        PROVE  /\ status'[p] \in {"sending"} \cup Terminal
               /\ p \in seen \cup Buffered /\ status'[p] = "sending" => <<"sending", p>> \in waits
    <3>1. CASE p \in Buffered  BY <2>3, <3>1 DEF Terminal
    <3>2. CASE p \notin Buffered
      <4>1. status'[p] = status[p] /\ status[p] # "buffered" /\ status[p] \in Statuses
        BY <2>3, <3>2 DEF Buffered, TypeOK
      <4> QED  BY <3>2, <4>1 DEF Statuses, Terminal
    <3> QED  BY <3>1, <3>2
  <2>5. \A p \in covers : status'[p] # "none"  BY <2>4 DEF Terminal
  <2> HIDE DEF waits
  <2>6. /\ flush'[f].at = "dispatching" /\ flush'[f].waits = waits
        /\ flush'[f].covers = covers /\ flush'[f].seen = seen \cup Buffered
    BY <2>1, SMT DEF TypeOK
  <2> QED  BY <2>4, <2>5, <2>6 DEF Covering, Covers
<1> QED  BY <1>1, <1>2

LEMMA CallCovers ==
  ASSUME TypeOK, NEW f \in Flushes, CallFlush(f)
  PROVE  /\ Covering(flush[f].at, flush[f].waits, flush[f].covers, flush[f].seen)'
         /\ flush'[f].covers = Captured
<1>1. CASE Snapshot = {}
  <2>1. \A p \in Captured : status[p] \notin {"none", "assembling", "sending"}
    BY <1>1, InFlightMember DEF Captured, Snapshot
  <2>2. TakeBuffered(f, Captured, Sending) /\ Captured \in SUBSET Packages /\ Sending \in SUBSET Packages
    BY <1>1 DEF CallFlush, Captured, Sending
  <2>3. flush'[f].covers = Captured  BY <2>2, SMT DEF TakeBuffered, TypeOK
  <2>4. \A p \in Captured : p \notin Sending  BY <2>1 DEF Sending
  <2> QED  BY <2>1, <2>2, <2>3, <2>4, TakeCovers
<1>2. CASE Snapshot # {}
  <2>1. /\ UNCHANGED status
        /\ flush'[f] = [at |-> "settling", waits |-> Snapshot, covers |-> Captured, seen |-> Sending]
    BY <1>2, SMT DEF CallFlush, TypeOK
  <2>2. \A p \in Captured :
          /\ status[p] # "none"
          /\ status[p] \in {"assembling", "sending"} => <<status[p], p>> \in Snapshot
          /\ p \in Sending => status[p] = "sending"
    BY InFlightMember DEF Captured, Snapshot, Sending
  <2>3. /\ flush'[f].at = "settling" /\ flush'[f].waits = Snapshot
        /\ flush'[f].covers = Captured /\ flush'[f].seen = Sending
    BY <2>1
  <2> QED  BY <2>1, <2>2, <2>3 DEF Covering, Covers
<1> QED  BY <1>1, <1>2

(* What a step may do to a flush: nothing, or one of the moves of a call.   *)
LEMMA FlushMoves ==
  ASSUME TypeOK, [Next]_vars, NEW f \in Flushes
  PROVE  \/ flush'[f] = flush[f]
         \/ f \in Callers /\ StartFlush(f)
         \/ f = Final /\ FinalFlush
         \/ Settled(f) \/ Dispatched(f) \/ EndFlush(f)
<1>1. ASSUME NEW g \in Flushes, g # f,
             CallFlush(g) \/ Settled(g) \/ Dispatched(g) \/ EndFlush(g)
      PROVE  flush'[f] = flush[f]
  <2>1. flush \in [Flushes -> FlushState]  BY TypeUse
  <2>2. \E new : flush' = [flush EXCEPT ![g] = new]
    BY <1>1 DEF CallFlush, Settled, Dispatched, EndFlush, TakeBuffered
  <2> QED  BY <1>1, <2>1, <2>2
<1>2. CASE \E g \in Callers : StartFlush(g)
  <2>1. PICK g \in Callers : StartFlush(g)  BY <1>2
  <2>2. CallFlush(g) /\ g \in Flushes  BY <2>1 DEF StartFlush, Flushes
  <2> QED  BY <1>1, <2>1, <2>2
<1>3. CASE \E g \in Flushes : Settled(g) \/ Dispatched(g) \/ EndFlush(g)
  BY <1>1, <1>3
<1>4. CASE FinalFlush
  <2>1. CallFlush(Final) /\ Final \in Flushes  BY <1>4 DEF FinalFlush, Flushes
  <2> QED  BY <1>1, <1>4, <2>1
<1>5. CASE \E p \in Packages : CaptureError(p) \/ UnhandledRejection(p) \/ UncaughtException(p)
  BY <1>5 DEF CaptureError, UnhandledRejection, UncaughtException
<1>6. CASE \E p \in Packages : EndSend(p) \/ AssemblyTimesOut(p)
  BY <1>6 DEF EndSend, AssemblyTimesOut
<1>7. CASE \E d \in Workers : Answer(d) \/ WorkerExits(d) \/ StopTimesOut(d)
  BY <1>7 DEF Answer, WorkerExits, StopTimesOut
<1>8. CASE SwitchMode \/ ApplyMode \/ ConfigTimesOut \/ IdleTimer \/ Shutdown \/ DetachWorker
  BY <1>8 DEF SwitchMode, ApplyMode, ConfigTimesOut, IdleTimer, Shutdown, DetachWorker
<1>9. CASE UNCHANGED vars  BY <1>9 DEF vars
<1> QED  BY <1>2, <1>3, <1>4, <1>5, <1>6, <1>7, <1>8, <1>9 DEF Next

(* The transport is chosen once.                                           *)
LEMMA ThreadedKept ==
  ASSUME [Next]_vars
  PROVE  UNCHANGED threaded
<1>1. CASE \E p \in Packages : CaptureError(p) \/ UnhandledRejection(p) \/ UncaughtException(p)
  BY <1>1 DEF CaptureError, UnhandledRejection, UncaughtException
<1>2. CASE \E p \in Packages : EndSend(p) \/ AssemblyTimesOut(p)
  BY <1>2 DEF EndSend, AssemblyTimesOut
<1>3. CASE \/ \E f \in Callers : StartFlush(f)
           \/ \E f \in Flushes : Settled(f) \/ Dispatched(f) \/ EndFlush(f)
  BY <1>3 DEF StartFlush, Settled, Dispatched, EndFlush
<1>4. CASE \E d \in Workers : Answer(d) \/ WorkerExits(d) \/ StopTimesOut(d)
  BY <1>4 DEF Answer, WorkerExits, StopTimesOut
<1>5. CASE SwitchMode \/ ApplyMode \/ ConfigTimesOut \/ IdleTimer
  BY <1>5 DEF SwitchMode, ApplyMode, ConfigTimesOut, IdleTimer
<1>6. CASE Shutdown \/ DetachWorker \/ FinalFlush
  BY <1>6 DEF Shutdown, DetachWorker, FinalFlush
<1>7. CASE UNCHANGED vars  BY <1>7 DEF vars
<1> QED  BY <1>1, <1>2, <1>3, <1>4, <1>5, <1>6, <1>7 DEF Next

LEMMA CoverStep ==
  ASSUME TypeOK, CoverInv, [Next]_vars
  PROVE  CoverInv'
<1> SUFFICES ASSUME NEW f \in Flushes
             PROVE  Covering(flush[f].at, flush[f].waits, flush[f].covers, flush[f].seen)'
  BY DEF CoverInv
<1> DEFINE at == flush[f].at
           waits == flush[f].waits
           covers == flush[f].covers
           seen == flush[f].seen
<1>1. \A p \in covers : Covers(p, status[p], at, waits, seen)  BY DEF CoverInv, Covering
<1>2. covers \in SUBSET Packages /\ seen \in SUBSET Packages
  BY TypeUse, SMT DEF FlushState
<1>3. PackagesMove /\ UNCHANGED threaded  BY Step, ThreadedKept
<1>4. CASE flush'[f] = flush[f]
  <2>1. ASSUME NEW p \in covers
        PROVE  Covers(p, status'[p], at, waits, seen)
    <3>1. p \in Packages /\ status'[p] \in Statuses /\ status[p] \in Statuses
      BY <1>2, <1>3 DEF TypeOK, PackagesMove
    <3>2. Covers(p, status[p], at, waits, seen)  BY <1>1
    <3>3. /\ status'[p] = "none" => status[p] = "none"
          /\ status'[p] = "assembling" => status[p] \in {"none", "assembling"}
          /\ status'[p] = "buffered" => status[p] \in Early
          /\ status'[p] = "sending" => status[p] \in Early \cup {"sending"}
          /\ status[p] \in Terminal => status'[p] = status[p]
      BY <1>3, <3>1 DEF PackagesMove, Advance
    <3> HIDE DEF at, waits, seen, covers
    <3> QED  BY <3>1, <3>2, <3>3 DEF Covers, Statuses, Terminal, Early
  <2>2. /\ flush'[f].at = at /\ flush'[f].waits = waits
        /\ flush'[f].covers = covers /\ flush'[f].seen = seen
    BY <1>4
  <2> QED  BY <1>3, <2>1, <2>2 DEF Covering, Covers
<1>5. CASE (f \in Callers /\ StartFlush(f)) \/ (f = Final /\ FinalFlush)
  BY <1>5, CallCovers DEF StartFlush, FinalFlush
<1>6. CASE Settled(f)
  <2>1. at = "settling" /\ waits \cap InFlight = {} /\ TakeBuffered(f, covers, seen)
    BY <1>6 DEF Settled, Ready
  <2>2. ASSUME NEW p \in covers
        PROVE  status[p] \notin {"none", "assembling"} /\ (p \in seen => status[p] \in Terminal)
    <3>1. Covers(p, status[p], at, waits, seen) /\ p \in Packages  BY <1>1, <1>2
    <3>2. /\ <<"assembling", p>> \in waits => status[p] # "assembling"
          /\ <<"sending", p>> \in waits => status[p] # "sending"
      BY <2>1, <3>1, WaitedFor
    <3> HIDE DEF at, waits, seen, covers
    <3> QED  BY <2>1, <3>1, <3>2 DEF Covers
  <2> HIDE DEF at, waits, seen, covers
  <2> QED  BY <1>2, <2>1, <2>2, TakeCovers
<1>7. CASE Dispatched(f)
  <2>1. UNCHANGED status /\ at = "dispatching" /\ waits \cap InFlight = {}
        /\ flush' = [flush EXCEPT ![f] = [at |-> "transport", waits |-> Transporting,
                                          covers |-> covers, seen |-> seen]]
    BY <1>7 DEF Dispatched, Ready
  <2>2. /\ flush'[f].at = "transport" /\ flush'[f].waits = Transporting
        /\ flush'[f].covers = covers /\ flush'[f].seen = seen
    BY <2>1, SMT DEF TypeOK
  <2>3. ASSUME NEW p \in covers
        PROVE  /\ status'[p] # "none" /\ status'[p] \in {"sending"} \cup Terminal
               /\ status'[p] = "sending" => <<"sending", p>> \in Transporting
               /\ p \in seen => status'[p] \in Terminal
    <3>1. Covers(p, status[p], at, waits, seen) /\ p \in Packages /\ status'[p] = status[p]  BY <1>1, <1>2, <2>1
    <3>2. <<"sending", p>> \in waits => status[p] # "sending"  BY <2>1, <3>1, WaitedFor
    <3>3. status[p] = "sending" => <<"sending", p>> \in Transporting
      BY <3>1 DEF Transporting, Sending
    <3> HIDE DEF at, waits, seen, covers
    <3> QED  BY <2>1, <3>1, <3>2, <3>3 DEF Covers
  <2> QED  BY <2>2, <2>3 DEF Covering, Covers
<1>8. CASE EndFlush(f)
  <2>1. UNCHANGED status /\ at = "transport" /\ (threaded \/ waits \cap InFlight = {})
        /\ flush' = [flush EXCEPT ![f] = [at |-> "done", waits |-> {}, covers |-> covers, seen |-> seen]]
    BY <1>8 DEF EndFlush
  <2>2. flush'[f].at = "done" /\ flush'[f].covers = covers /\ flush'[f].seen = seen
    BY <2>1, SMT DEF TypeOK
  <2>3. ASSUME NEW p \in covers
        PROVE  /\ status'[p] # "none"
               /\ status'[p] \in Terminal \/ (threaded' /\ status'[p] = "sending")
               /\ p \in seen => status'[p] \in Terminal
    <3>1. Covers(p, status[p], at, waits, seen) /\ p \in Packages /\ status'[p] = status[p]  BY <1>1, <1>2, <2>1
    <3>2. threaded \/ (<<"sending", p>> \in waits => status[p] # "sending")
      BY <2>1, <3>1, WaitedFor
    <3> HIDE DEF at, waits, seen, covers
    <3> QED  BY <1>3, <2>1, <3>1, <3>2 DEF Covers
  <2>4. \A p \in covers : p \in seen => status'[p] \in {"sending"} \cup Terminal  BY <2>3
  <2> QED  BY <2>2, <2>3, <2>4 DEF Covering, Covers
<1> QED  BY <1>4, <1>5, <1>6, <1>7, <1>8, FlushMoves

(* A call of flush() that has ended covered every package captured before   *)
(* it; beside a transport worker, a package it has not itself seen being    *)
(* sent may be on its way (SDKInstance.flush).                              *)
THEOREM FlushCoversCaptured == Spec => []FlushCovers
<1>1. Init => CoverInv  BY CoverInit
<1>2. TypeOK /\ CoverInv /\ [Next]_vars => CoverInv'  BY CoverStep
<1>3. CoverInv => FlushCovers  BY DEF CoverInv, Covering, Covers, FlushCovers
<1> QED  BY <1>1, <1>2, <1>3, TypeCorrect, PTL DEF Spec

--------------------------------------------------------------------------------
(* The shutdown *)

(* Who is admitted was captured, and once admission is closed the last flush*)
(* covers everyone.                                                         *)
ShutInv ==
  /\ admitted \subseteq Captured
  /\ lifecycle \in {"drain", "shutdown"} => ~admissionOpen /\ admitted \subseteq flush[Final].covers
  /\ lifecycle = "shutdown" => flush[Final].at = "done"
  /\ lifecycle \notin {"drain", "shutdown"} => flush[Final].at = "idle"

LEMMA CoversKept ==
  ASSUME TypeOK, NEW f \in Flushes, Settled(f) \/ Dispatched(f)
  PROVE  /\ flush'[f].covers = flush[f].covers
         /\ flush[f].at \in {"settling", "dispatching"}
         /\ flush'[f].at \in {"dispatching", "transport"}
         /\ UNCHANGED <<lifecycle, admissionOpen, admitted>>
<1>1. CASE Settled(f)
  <2>1. TakeBuffered(f, flush[f].covers, flush[f].seen) /\ flush[f].at = "settling"
        /\ UNCHANGED <<lifecycle, admissionOpen, admitted>>
    BY <1>1 DEF Settled
  <2>2. flush'[f].covers = flush[f].covers /\ flush'[f].at \in {"dispatching", "transport"}
    BY <2>1, SMT DEF TakeBuffered, TypeOK
  <2> QED  BY <2>1, <2>2
<1>2. CASE Dispatched(f)
  BY <1>2, SMT DEF Dispatched, TypeOK
<1> QED  BY <1>1, <1>2

(* Captured packages stay captured.                                         *)
LEMMA CapturedGrows ==
  ASSUME PackagesMove
  PROVE  Captured \subseteq Captured'
  BY DEF PackagesMove, Advance, Captured

(* The lifecycle before the last flush begins.                              *)
Before == {"active", "teardown", "assembly"}

LEMMA LifecycleMoves ==
  ASSUME [Next]_vars, ~FinalFlush, ~EndFlush(Final)
  PROVE  \/ UNCHANGED <<lifecycle, admissionOpen>>
         \/ lifecycle \in Before /\ lifecycle' \in Before /\ UNCHANGED admissionOpen
<1>1. CASE \E p \in Packages : CaptureError(p) \/ UnhandledRejection(p) \/ UncaughtException(p)
  BY <1>1 DEF CaptureError, UnhandledRejection, UncaughtException, Before
<1>2. CASE \E p \in Packages : EndSend(p) \/ AssemblyTimesOut(p)
  BY <1>2 DEF EndSend, AssemblyTimesOut
<1>3. CASE \E f \in Callers : StartFlush(f)
  BY <1>3 DEF StartFlush
<1>4. CASE \E f \in Flushes : Settled(f) \/ Dispatched(f) \/ EndFlush(f)
  BY <1>4 DEF Settled, Dispatched, EndFlush
<1>5. CASE \E d \in Workers : Answer(d) \/ WorkerExits(d) \/ StopTimesOut(d)
  BY <1>5 DEF Answer, WorkerExits, StopTimesOut
<1>6. CASE SwitchMode \/ ApplyMode \/ ConfigTimesOut \/ IdleTimer
  BY <1>6 DEF SwitchMode, ApplyMode, ConfigTimesOut, IdleTimer
<1>7. CASE Shutdown \/ DetachWorker
  BY <1>7 DEF Shutdown, DetachWorker, Before
<1>8. CASE UNCHANGED vars  BY <1>8 DEF vars
<1> QED  BY <1>1, <1>2, <1>3, <1>4, <1>5, <1>6, <1>7, <1>8 DEF Next

LEMMA ShutStep ==
  ASSUME TypeOK, ShutInv, [Next]_vars
  PROVE  ShutInv'
<1>1. PackagesMove /\ TypeOK' /\ Captured \subseteq Captured'  BY Step, CapturedGrows
<1>2. Final \in Flushes /\ Final \notin Callers  BY DeliveryAssumption DEF Flushes
<1>3. CASE FinalFlush
  <2>1. CallFlush(Final) /\ lifecycle' = "drain" /\ admissionOpen' = FALSE /\ UNCHANGED admitted
    BY <1>3 DEF FinalFlush
  <2>2. flush'[Final].covers = Captured  BY <1>2, <2>1, CallCovers
  <2> QED  BY <1>1, <2>1, <2>2 DEF ShutInv
<1>4. CASE EndFlush(Final)
  <2>1. /\ flush[Final].at = "transport" /\ lifecycle' = "shutdown"
        /\ UNCHANGED <<admissionOpen, admitted>>
        /\ flush' = [flush EXCEPT ![Final] = [at |-> "done", waits |-> {},
                        covers |-> flush[Final].covers, seen |-> flush[Final].seen]]
    BY <1>4 DEF EndFlush
  <2>2. flush'[Final].at = "done" /\ flush'[Final].covers = flush[Final].covers
    BY <1>2, <2>1, SMT DEF TypeOK
  <2> QED  BY <1>1, <2>1, <2>2 DEF ShutInv
<1>5. CASE Settled(Final) \/ Dispatched(Final)
  <2>1. /\ flush'[Final].covers = flush[Final].covers
        /\ flush[Final].at \in {"settling", "dispatching"}
        /\ UNCHANGED <<lifecycle, admissionOpen, admitted>>
    BY <1>2, <1>5, CoversKept
  <2> QED  BY <1>1, <2>1 DEF ShutInv
<1>6. CASE flush'[Final] = flush[Final] /\ ~FinalFlush /\ ~EndFlush(Final)
  <2>1. \/ UNCHANGED <<lifecycle, admissionOpen>>
        \/ lifecycle \in Before /\ lifecycle' \in Before /\ UNCHANGED admissionOpen
    BY <1>6, LifecycleMoves
  <2>2. \/ UNCHANGED admitted
        \/ /\ Admits
           /\ \E p \in Packages : admitted' = admitted \cup {p} /\ status'[p] # "none"
    <3>1. CASE \E p \in Packages : CaptureError(p)
      <4>1. PICK p \in Packages : Admits /\ Assemble(p, FALSE) /\ admitted' = admitted \cup {p}
        BY <3>1 DEF CaptureError
      <4>2. status'[p] # "none"  BY <4>1, AssembleTyped
      <4> QED  BY <4>1, <4>2
    <3>2. CASE \E p \in Packages : UnhandledRejection(p) \/ UncaughtException(p)
      BY <3>2 DEF UnhandledRejection, UncaughtException
    <3>3. CASE \E p \in Packages : EndSend(p) \/ AssemblyTimesOut(p)
      BY <3>3 DEF EndSend, AssemblyTimesOut
    <3>4. CASE \E f \in Callers : StartFlush(f)
      BY <3>4 DEF StartFlush
    <3>5. CASE \E f \in Flushes : Settled(f) \/ Dispatched(f) \/ EndFlush(f)
      BY <3>5 DEF Settled, Dispatched, EndFlush
    <3>6. CASE \E d \in Workers : Answer(d) \/ WorkerExits(d) \/ StopTimesOut(d)
      BY <3>6 DEF Answer, WorkerExits, StopTimesOut
    <3>7. CASE SwitchMode \/ ApplyMode \/ ConfigTimesOut \/ IdleTimer \/ Shutdown \/ DetachWorker
      BY <3>7 DEF SwitchMode, ApplyMode, ConfigTimesOut, IdleTimer, Shutdown, DetachWorker
    <3>8. CASE UNCHANGED vars  BY <3>8 DEF vars
    <3> QED  BY <1>6, <3>1, <3>2, <3>3, <3>4, <3>5, <3>6, <3>7, <3>8 DEF Next
  <2>3. admitted' \subseteq Captured'
    BY <1>1, <2>2 DEF ShutInv, Captured
  <2>4. lifecycle \in {"drain", "shutdown"} => UNCHANGED <<admitted, admissionOpen>>
    BY <2>1, <2>2 DEF ShutInv, Admits, Before
  <2>5. lifecycle' \in {"drain", "shutdown"} => lifecycle' = lifecycle
    BY <2>1 DEF Before
  <2>6. lifecycle' \notin {"drain", "shutdown"} => lifecycle \notin {"drain", "shutdown"}
    BY <2>1 DEF Before
  <2> QED  BY <1>6, <2>3, <2>4, <2>5, <2>6 DEF ShutInv
<1>7. FinalFlush \/ EndFlush(Final) \/ Settled(Final) \/ Dispatched(Final)
      \/ (flush'[Final] = flush[Final] /\ ~FinalFlush /\ ~EndFlush(Final))
  BY <1>2, FlushMoves
<1> QED  BY <1>3, <1>4, <1>5, <1>6, <1>7

(* Who still answers requests is attached or is being torn down, and after  *)
(* DetachWorker nobody is attached again.                                   *)
Attended ==
  /\ \A p \in Packages : status[p] = "assembling" => worker[request[p]] = "live"
  /\ \A d \in Workers : worker[d] = "live" => d = attached \/ d \in stopping
  /\ lifecycle \notin {"active", "teardown"} => attached = NoWorker /\ transition = "none"

LEMMA AttendedKept ==
  ASSUME TypeOK, Attended, PackagesMove, RequestsMatch',
         UNCHANGED <<lifecycle, worker, attached, stopping, transition>>,
         \A p \in Packages : status'[p] = "assembling" =>
            status[p] = "assembling" /\ request'[p] = request[p]
  PROVE  Attended'
  BY DEF Attended

(* A worker is gone, and the requests it had are assembled inline.          *)
LEMMA AttendedWithout ==
  ASSUME TypeOK, Attended, NEW d \in Workers, UNCHANGED lifecycle,
         worker' = [worker EXCEPT ![d] = "gone"], stopping' = stopping \ {d},
         Forget(Pending(d)), Inline(Pending(d)),
         \/ UNCHANGED <<transition, attached>>
         \/ transition' = "none" /\ attached = d /\ attached' = NoWorker
  PROVE  Attended'
<1>1. \A e \in Workers : worker'[e] = IF e = d THEN "gone" ELSE worker[e]  BY DEF TypeOK
<1>2. ASSUME NEW p \in Packages, status'[p] = "assembling"
      PROVE  worker'[request'[p]] = "live"
  <2>1. Pending(d) \in SUBSET Packages /\ \A q \in Pending(d) : status[q] = "assembling"
    BY PendingAssembles
  <2>2. /\ \A q \in Pending(d) : status'[q] # "assembling"
        /\ \A q \in Packages \ Pending(d) : status'[q] = status[q]
    BY <2>1, InlineMoves
  <2>3. p \notin Pending(d) /\ status[p] = "assembling"  BY <1>2, <2>2
  <2>4. request'[p] = request[p] /\ request[p] # d /\ request[p] \in Workers
    BY <2>3 DEF Forget, Pending, TypeOK
  <2> QED  BY <1>1, <2>3, <2>4 DEF Attended
<1>3. ASSUME NEW e \in Workers, worker'[e] = "live"
      PROVE  e = attached' \/ e \in stopping'
  BY <1>1, <1>3 DEF Attended
<1> QED  BY <1>2, <1>3 DEF Attended

LEMMA AttendedStep ==
  ASSUME TypeOK, Attended, ShutInv, [Next]_vars
  PROVE  Attended'
<1>1. PackagesMove /\ TypeOK' /\ RequestsMatch' /\ NoWorker \notin Workers
  <2>1. PackagesMove /\ TypeOK'  BY Step
  <2>2. NoWorker \notin Workers  BY SMT DEF NoWorker, Workers
  <2> QED  BY <2>1, <2>2 DEF TypeOK, RequestsMatch
<1>2. ASSUME NEW p \in Packages,
             CaptureError(p) \/ UnhandledRejection(p) \/ UncaughtException(p)
      PROVE  Attended'
  <2>1. PICK uncaught \in BOOLEAN : Assemble(p, uncaught)
    BY <1>2 DEF CaptureError, UnhandledRejection, UncaughtException
  <2>2. UNCHANGED <<worker, attached, stopping, transition>>
        /\ (lifecycle' = lifecycle \/ (lifecycle = "active" /\ lifecycle' = "teardown"))
    BY <1>2 DEF CaptureError, UnhandledRejection, UncaughtException, Assemble, workerVars
  <2>3. ASSUME NEW q \in Packages, status'[q] = "assembling"
        PROVE  worker[request'[q]] = "live"
    <3>1. CASE Available /\ mode = "worker" /\ ~uncaught
      <4>1. /\ status' = [status EXCEPT ![p] = "assembling"]
            /\ request' = [request EXCEPT ![p] = attached] /\ worker[attached] = "live"
        BY <2>1, <3>1 DEF Assemble, Available
      <4> QED  BY <2>3, <4>1, SMT DEF TypeOK, Attended
    <3>2. CASE ~(Available /\ mode = "worker" /\ ~uncaught)
      <4>1. status[p] = "none" /\ Inline({p}) /\ UNCHANGED request
        BY <2>1, <3>2 DEF Assemble, workerVars
      <4>2. \A r \in {p} : status'[r] # "assembling"  BY <4>1, InlineMoves
      <4>3. \A r \in Packages \ {p} : status'[r] = status[r]  BY <2>1, AssembleTyped
      <4> QED  BY <2>3, <4>1, <4>2, <4>3 DEF Attended
    <3> QED  BY <3>1, <3>2
  <2> QED  BY <2>2, <2>3 DEF Attended
<1>3. ASSUME NEW p \in Packages, EndSend(p) \/ AssemblyTimesOut(p)
      PROVE  Attended'
  <2>1. UNCHANGED <<lifecycle, worker, attached, stopping, transition>>
    BY <1>3 DEF EndSend, AssemblyTimesOut, workerVars
  <2>2. \A q \in Packages : status'[q] = "assembling" =>
           status[q] = "assembling" /\ request'[q] = request[q]
    <3>1. CASE EndSend(p)
      <4>1. PICK t \in Terminal : status' = [status EXCEPT ![p] = t]  BY <3>1 DEF EndSend
      <4>2. UNCHANGED request  BY <3>1 DEF EndSend, workerVars
      <4> QED  BY <4>1, <4>2, SMT DEF TypeOK, Terminal
    <3>2. CASE AssemblyTimesOut(p)
      <4>1. Forget({p}) /\ Inline({p}) /\ status[p] = "assembling"
        BY <3>2 DEF AssemblyTimesOut, Expired
      <4>2. /\ \A q \in {p} : status'[q] # "assembling"
            /\ \A q \in Packages \ {p} : status'[q] = status[q]
        BY <4>1, InlineMoves DEF Terminal
      <4> QED  BY <4>1, <4>2 DEF Forget
    <3> QED  BY <1>3, <3>1, <3>2
  <2> QED  BY <1>1, <2>1, <2>2, AttendedKept
<1>4. ASSUME NEW f \in Flushes, (f \in Callers /\ StartFlush(f)) \/ Settled(f)
      PROVE  Attended'
  <2>1. UNCHANGED <<lifecycle, worker, attached, stopping, transition, request>>
    BY <1>4 DEF StartFlush, Settled, workerVars
  <2>2. \A q \in Packages : status'[q] = "assembling" => status[q] = "assembling"
    <3>1. \A q \in Packages \ Buffered : status'[q] = status[q]
      BY <1>4, CallMoves, TakeMoves DEF StartFlush, Settled
    <3>2. \A q \in Buffered : status'[q] # "assembling"
      BY <1>1 DEF PackagesMove, Advance, Buffered
    <3> QED  BY <3>1, <3>2
  <2> QED  BY <1>1, <2>1, <2>2, AttendedKept
<1>5. ASSUME NEW f \in Flushes, Dispatched(f) \/ EndFlush(f)
      PROVE  Attended'
  <2>1. UNCHANGED <<status, worker, attached, stopping, transition, request>>
    BY <1>5 DEF Dispatched, EndFlush, workerVars
  <2>2. lifecycle' = lifecycle \/ (lifecycle' = "shutdown" /\ EndFlush(Final))
    BY <1>5 DEF Dispatched, EndFlush
  <2>3. EndFlush(Final) => lifecycle \notin {"active", "teardown"}
    BY DEF EndFlush, ShutInv
  <2> QED  BY <2>1, <2>2, <2>3 DEF Attended
<1>6. ASSUME NEW d \in Workers, Answer(d)
      PROVE  Attended'
  <2>1. UNCHANGED <<lifecycle, attached>>  BY <1>6 DEF Answer
  <2>2. CASE AnswerPackage(d)
    <3> DEFINE p == Head(inbox[d])
    <3>1. p \in Packages /\ UNCHANGED <<transition, worker, stopping>>
      BY <2>2 DEF AnswerPackage
    <3>2. CASE Awaited(d, p)
      <4>1. Forget({p}) /\ (Dispatch({p}) \/ Inline({p}))  BY <2>2, <3>2 DEF AnswerPackage
      <4>2. \A q \in {p} : status[q] = "assembling"
        BY <3>1, <3>2, PendingAssembles DEF Awaited, Pending
      <4>3. /\ \A q \in {p} : status'[q] # "assembling"
            /\ \A q \in Packages \ {p} : status'[q] = status[q]
        <5>1. {p} \in SUBSET Packages /\ \A q \in {p} : status[q] \in Early
          BY <3>1, <4>2 DEF Early
        <5>2. CASE Dispatch({p})  BY <5>1, <5>2, DispatchMoves
        <5>3. CASE Inline({p})  BY <4>2, <5>1, <5>3, InlineMoves
        <5> QED  BY <4>1, <5>2, <5>3
      <4>4. \A q \in Packages : status'[q] = "assembling" =>
               status[q] = "assembling" /\ request'[q] = request[q]
        BY <4>1, <4>3 DEF Forget
      <4> QED  BY <1>1, <2>1, <3>1, <4>4, AttendedKept
    <3>3. CASE ~Awaited(d, p)
      <4>1. UNCHANGED <<request, status>>  BY <2>2, <3>3 DEF AnswerPackage
      <4> QED  BY <1>1, <2>1, <3>1, <4>1, AttendedKept
    <3> QED  BY <3>2, <3>3
  <2>3. CASE AnswerConfig(d)
    <3>1. UNCHANGED <<request, status, worker, stopping>> /\ transition' \in {"none", transition}
      BY <2>3 DEF AnswerConfig
    <3> QED  BY <2>1, <3>1 DEF Attended
  <2>4. CASE AnswerShutdown(d)
    <3>1. /\ worker' = [worker EXCEPT ![d] = "gone"] /\ stopping' = stopping \ {d}
          /\ UNCHANGED transition /\ Forget(Pending(d)) /\ Inline(Pending(d))
      BY <2>4 DEF AnswerShutdown
    <3> QED  BY <2>1, <3>1, AttendedWithout
  <2> QED  BY <1>6, <2>2, <2>3, <2>4 DEF Answer
<1>7. ASSUME NEW d \in Workers, WorkerExits(d)
      PROVE  Attended'
  BY <1>7, AttendedWithout DEF WorkerExits
<1>8. ASSUME SwitchMode \/ Shutdown
      PROVE  Attended'
  <2>1. UNCHANGED <<status, request, worker, attached, stopping>> /\ lifecycle' \in {"active", "teardown"}
    BY <1>8 DEF SwitchMode, Shutdown, workerVars
  <2> QED  BY <2>1 DEF Attended
<1>9. ASSUME ApplyMode
      PROVE  Attended'
  <2>1. UNCHANGED <<status, lifecycle>> /\ lifecycle \in {"active", "teardown"}
    BY <1>9 DEF ApplyMode, Attended
  <2>2. CASE DisuseWorker
    <3>1. UNCHANGED <<request, worker, attached, stopping>>  BY <2>2 DEF DisuseWorker
    <3> QED  BY <2>1, <3>1 DEF Attended
  <2>3. CASE UseWorker
    <3>1. UNCHANGED <<request, stopping>>  BY <2>3 DEF UseWorker
    <3>2. CASE UNCHANGED <<attached, worker>>  BY <2>1, <3>1, <3>2 DEF Attended
    <3>3. CASE attached = NoWorker /\ \E d \in Workers :
                  /\ worker[d] = "unborn" /\ attached' = d
                  /\ \E w \in {"live", "gone"} : worker' = [worker EXCEPT ![d] = w]
      <4>1. PICK d \in Workers, w \in {"live", "gone"} :
              worker[d] = "unborn" /\ attached' = d /\ worker' = [worker EXCEPT ![d] = w]
        BY <3>3
      <4>2. \A e \in Workers \ {d} : worker'[e] = worker[e]  BY <4>1 DEF TypeOK
      <4>3. \A p \in Packages : status'[p] = "assembling" => worker'[request'[p]] = "live"
        <5>1. ASSUME NEW p \in Packages, status[p] = "assembling"
              PROVE  request[p] \in Workers \ {d} /\ worker[request[p]] = "live"
          BY <4>1, <5>1 DEF TypeOK, Attended
        <5> QED  BY <2>1, <3>1, <4>2, <5>1
      <4>4. \A e \in Workers : worker'[e] = "live" => e = attached' \/ e \in stopping'
        BY <1>1, <3>1, <3>3, <4>1, <4>2 DEF Attended
      <4> QED  BY <2>1, <4>3, <4>4 DEF Attended
    <3> QED  BY <2>3, <3>2, <3>3 DEF UseWorker
  <2> QED  BY <1>9, <2>2, <2>3 DEF ApplyMode
<1>10. ASSUME ConfigTimesOut \/ IdleTimer \/ DetachWorker
       PROVE  Attended'
  <2>1. UNCHANGED <<status, request, worker>> /\ Stop(attached) /\ attached' = NoWorker
    BY <1>10 DEF ConfigTimesOut, IdleTimer, DetachWorker
  <2>2. \A d \in Workers : worker[d] = "live" => d \in stopping'
    BY <1>1, <2>1 DEF Attended, Stop
  <2>3. transition' = "none" \/ (transition' = transition /\ lifecycle' = lifecycle)
    BY <1>10 DEF ConfigTimesOut, IdleTimer, DetachWorker
  <2> QED  BY <2>1, <2>2, <2>3 DEF Attended
<1>11. ASSUME FinalFlush
       PROVE  Attended'
  <2>1. CallFlush(Final) /\ lifecycle = "assembly"
        /\ UNCHANGED <<worker, attached, stopping, transition, request>>
    BY <1>11 DEF FinalFlush, workerVars
  <2>2. \A q \in Packages : status'[q] = "assembling" => status[q] = "assembling"
    <3>1. \A q \in Packages \ Buffered : status'[q] = status[q]  BY <2>1, CallMoves
    <3>2. \A q \in Buffered : status'[q] # "assembling"
      BY <1>1 DEF PackagesMove, Advance, Buffered
    <3> QED  BY <3>1, <3>2
  <2> QED  BY <2>1, <2>2 DEF Attended
<1>12. ASSUME UNCHANGED vars
       PROVE  Attended'
  BY <1>12 DEF Attended, vars, workerVars
<1> QED
  BY <1>2, <1>3, <1>4, <1>5, <1>6, <1>7, <1>8, <1>9, <1>10, <1>11, <1>12 DEF Next, Flushes, StopTimesOut

(* A package held back stays so in every step that is not one of a flush.   *)
LEMMA HeldBack ==
  ASSUME TypeOK, [Next]_vars
  PROVE  \/ \E f \in Callers : StartFlush(f)
         \/ \E f \in Flushes : Settled(f) \/ Dispatched(f) \/ EndFlush(f)
         \/ FinalFlush
         \/ UNCHANGED flush /\ \A p \in Buffered : status'[p] = "buffered"
<1>1. CASE \E p \in Packages : CaptureError(p) \/ UnhandledRejection(p) \/ UncaughtException(p)
  <2>1. PICK p \in Packages, uncaught \in BOOLEAN : Assemble(p, uncaught) /\ UNCHANGED flush
    BY <1>1 DEF CaptureError, UnhandledRejection, UncaughtException
  <2>2. status[p] = "none"  BY <2>1 DEF Assemble
  <2>3. \A q \in Packages \ {p} : status'[q] = status[q]  BY <2>1, AssembleTyped
  <2> QED  BY <2>1, <2>2, <2>3 DEF Buffered
<1>2. CASE \E p \in Packages : EndSend(p)
  BY <1>2, SMT DEF EndSend, Buffered, TypeOK
<1>3. CASE \E p \in Packages : AssemblyTimesOut(p)
  <2>1. PICK p \in Packages : Inline({p}) /\ status[p] = "assembling" /\ UNCHANGED flush
    BY <1>3 DEF AssemblyTimesOut
  <2>2. \A q \in Packages \ {p} : status'[q] = status[q]  BY <2>1, InlineMoves
  <2> QED  BY <2>1, <2>2 DEF Buffered
<1>4. CASE \E d \in Workers : WorkerExits(d) \/ StopTimesOut(d) \/ (Answer(d) /\ AnswerShutdown(d))
  <2>1. PICK d \in Workers : Inline(Pending(d)) /\ UNCHANGED flush
    BY <1>4 DEF WorkerExits, StopTimesOut, AnswerShutdown, Answer
  <2>2. Pending(d) \in SUBSET Packages /\ \A q \in Pending(d) : status[q] = "assembling"
    BY PendingAssembles
  <2>3. \A q \in Packages \ Pending(d) : status'[q] = status[q]  BY <2>1, <2>2, InlineMoves
  <2> QED  BY <2>1, <2>2, <2>3 DEF Buffered
<1>5. CASE \E d \in Workers : Answer(d) /\ AnswerPackage(d)
  <2>1. PICK d \in Workers : Answer(d) /\ AnswerPackage(d)  BY <1>5
  <2> DEFINE p == Head(inbox[d])
  <2>2. p \in Packages /\ UNCHANGED flush  BY <2>1 DEF Answer, AnswerPackage
  <2>3. CASE Awaited(d, p)
    <3>1. Dispatch({p}) \/ Inline({p})  BY <2>1, <2>3 DEF AnswerPackage
    <3>2. {p} \in SUBSET Packages /\ \A q \in {p} : status[q] = "assembling"
      BY <2>2, <2>3, PendingAssembles DEF Awaited, Pending
    <3>3. \A q \in Packages \ {p} : status'[q] = status[q]
      BY <3>1, <3>2, DispatchMoves, InlineMoves DEF Early
    <3> QED  BY <2>2, <3>2, <3>3 DEF Buffered
  <2>4. CASE ~Awaited(d, p)
    <3>1. UNCHANGED status  BY <2>1, <2>4 DEF AnswerPackage
    <3> QED  BY <2>2, <3>1 DEF Buffered
  <2> QED  BY <2>3, <2>4
<1>6. CASE \E d \in Workers : Answer(d) /\ AnswerConfig(d)
  BY <1>6 DEF Answer, AnswerConfig, Buffered
<1>7. CASE SwitchMode \/ ApplyMode \/ ConfigTimesOut \/ IdleTimer \/ Shutdown \/ DetachWorker
  BY <1>7 DEF SwitchMode, ApplyMode, ConfigTimesOut, IdleTimer, Shutdown, DetachWorker, Buffered
<1>8. CASE UNCHANGED vars  BY <1>8 DEF vars, Buffered
<1> QED  BY <1>1, <1>2, <1>3, <1>4, <1>5, <1>6, <1>7, <1>8 DEF Next, Answer

(* What the last flush covers and is being sent, it has seen or another call*)
(* waits for that dispatched it.                                            *)
Taken(p, f) ==
  flush[f].at = "dispatching" /\ p \in flush[f].seen /\ <<"sending", p>> \in flush[f].waits

LastInv ==
  lifecycle \in {"drain", "shutdown"} =>
     \A p \in flush[Final].covers :
        /\ status[p] \notin {"none", "assembling"}
        /\ status[p] = "sending" => p \in flush[Final].seen \/ \E f \in Callers : Taken(p, f)

LEMMA LastStarts ==
  ASSUME TypeOK, Attended, FinalFlush
  PROVE  LastInv'
<1>1. CallFlush(Final) /\ lifecycle = "assembly" /\ stopping = {} /\ Final \in Flushes
  BY DEF FinalFlush, Flushes
<1>2. \A p \in Packages : status[p] # "assembling"
  <2>1. NoWorker \notin Workers  BY SMT DEF NoWorker, Workers
  <2>2. \A d \in Workers : worker[d] # "live"  BY <1>1, <2>1 DEF Attended
  <2> QED  BY <2>2 DEF Attended, TypeOK
<1>3. flush'[Final].covers = Captured  BY <1>1, CallCovers
<1>4. ASSUME NEW p \in Captured
      PROVE  /\ status'[p] \notin {"none", "assembling"}
             /\ status'[p] = "sending" => p \in flush'[Final].seen
  <2>1. p \in Packages /\ status[p] \notin {"none", "assembling"} /\ status[p] \in Statuses
    BY <1>2 DEF Captured, TypeOK
  <2>2. PackagesMove  BY <1>1, CallMoves
  <2>3. status'[p] \notin {"none", "assembling"}
    BY <2>1, <2>2 DEF PackagesMove, Advance
  <2>4. CASE Snapshot = {}
    <3>1. TakeBuffered(Final, Captured, Sending) /\ status[p] # "sending"
      BY <1>1, <2>1, <2>4, InFlightMember DEF CallFlush, Snapshot
    <3>2. status'[p] = "sending" => p \in Buffered
      BY <2>1, <3>1, TakeMoves
    <3>3. p \in Buffered => flush'[Final].seen = Sending \cup Buffered
      BY <1>1, <3>1, SMT DEF TakeBuffered, TypeOK
    <3> QED  BY <2>3, <3>2, <3>3
  <2>5. CASE Snapshot # {}
    <3>1. UNCHANGED status /\ flush'[Final].seen = Sending
      BY <1>1, <2>5, SMT DEF CallFlush, TypeOK
    <3> QED  BY <2>1, <2>3, <3>1 DEF Sending
  <2> QED  BY <2>4, <2>5
<1> QED  BY <1>3, <1>4 DEF LastInv

(* A flush takes what is held back, or goes on.                             *)
LEMMA LastGoesOn ==
  ASSUME TypeOK, LastInv, NEW f \in Flushes, lifecycle \in {"drain", "shutdown"},
         \/ f \in Callers /\ StartFlush(f)
         \/ Settled(f) \/ Dispatched(f) \/ EndFlush(f)
  PROVE  LastInv'
<1>1. /\ flush'[Final].covers = flush[Final].covers
      /\ flush[Final].seen \subseteq flush'[Final].seen
      /\ \A g \in Flushes \ {f} : flush'[g] = flush[g]
      /\ flush[Final].covers \subseteq Packages
  <2>1. Final \in Flushes /\ Final \notin Callers  BY DeliveryAssumption DEF Flushes
  <2>2. \E new : flush' = [flush EXCEPT ![f] = new]
    BY DEF StartFlush, CallFlush, Settled, Dispatched, EndFlush, TakeBuffered
  <2>3. \A g \in Flushes \ {f} : flush'[g] = flush[g]  BY <2>2 DEF TypeOK
  <2>4. flush[Final].covers \subseteq Packages  BY <2>1, TypeUse, SMT DEF FlushState
  <2>5. Settled(f) \/ Dispatched(f) \/ EndFlush(f) =>
          flush'[f].covers = flush[f].covers /\ flush[f].seen \subseteq flush'[f].seen
    <3>1. CASE Settled(f)
      <4>1. TakeBuffered(f, flush[f].covers, flush[f].seen)  BY <3>1 DEF Settled
      <4>2. \E at, waits, more : flush' = [flush EXCEPT ![f] =
               [at |-> at, waits |-> waits, covers |-> flush[f].covers,
                seen |-> flush[f].seen \cup more]]
        <5>1. CASE Buffered = {}
          <6>1. flush[f].seen = flush[f].seen \cup {}  OBVIOUS
          <6> QED  BY <4>1, <5>1, <6>1 DEF TakeBuffered
        <5>2. CASE Buffered # {}  BY <4>1, <5>2 DEF TakeBuffered
        <5> QED  BY <5>1, <5>2
      <4> QED  BY <4>2, SMT DEF TypeOK
    <3>2. CASE Dispatched(f)  BY <3>2, SMT DEF Dispatched, TypeOK
    <3>3. CASE EndFlush(f)  BY <3>3, SMT DEF EndFlush, TypeOK
    <3> QED  BY <3>1, <3>2, <3>3
  <2> QED  BY <2>1, <2>3, <2>4, <2>5
<1>2. PackagesMove /\ \A p \in Packages \ Buffered : status'[p] = status[p]
  BY CallMoves, TakeMoves, SameMoves DEF StartFlush, Settled, Dispatched, EndFlush
<1>3. ASSUME NEW p \in flush[Final].covers
      PROVE  /\ status'[p] \notin {"none", "assembling"}
             /\ status'[p] = "sending" =>
                  p \in flush'[Final].seen \/ \E g \in Callers : Taken(p, g)'
  <2>1. p \in Packages /\ status[p] \notin {"none", "assembling"}  BY <1>1 DEF LastInv
  <2>2. status'[p] \notin {"none", "assembling"}
    BY <1>2, <2>1 DEF PackagesMove, Advance
  <2>3. CASE p \in Buffered /\ status'[p] = "sending"
    <3>1. Buffered # {} /\ status'[p] # status[p]  BY <2>3 DEF Buffered
    <3>2. \E covers, seen : TakeBuffered(f, covers, seen)
      BY <3>1 DEF StartFlush, CallFlush, Settled, Dispatched, EndFlush
    <3> DEFINE waits == {<<"sending", q>> : q \in {r \in Buffered : status'[r] = "sending"}}
    <3>3. PICK covers, seen : flush' = [flush EXCEPT ![f] =
             [at |-> "dispatching", covers |-> covers, seen |-> seen \cup Buffered, waits |-> waits]]
      BY <3>1, <3>2 DEF TakeBuffered
    <3>4. <<"sending", p>> \in waits  BY <2>3
    <3> HIDE DEF waits
    <3>5. /\ flush'[f].at = "dispatching" /\ p \in flush'[f].seen
          /\ <<"sending", p>> \in flush'[f].waits
      BY <2>3, <3>3, <3>4, SMT DEF TypeOK
    <3>6. f \in Callers \/ f = Final  BY DEF Flushes
    <3> QED  BY <2>2, <3>5, <3>6 DEF Taken
  <2>4. CASE p \notin Buffered /\ status'[p] = "sending"
    <3>1. status[p] = "sending"  BY <1>2, <2>1, <2>4
    <3>2. CASE p \in flush[Final].seen  BY <1>1, <2>2, <3>2
    <3>3. CASE \E g \in Callers : Taken(p, g)
      <4>1. PICK g \in Callers : Taken(p, g)  BY <3>3
      <4>2. g \in Flushes /\ <<"sending", p>> \in InFlight
        BY <2>1, <3>1, InFlightMember DEF Flushes
      <4>3. g # f
        BY <4>1, <4>2 DEF Taken, StartFlush, Settled, Dispatched, EndFlush, Ready
      <4> QED  BY <1>1, <2>2, <4>1, <4>2, <4>3 DEF Taken
    <3> QED  BY <3>1, <3>2, <3>3 DEF LastInv
  <2> QED  BY <2>2, <2>3, <2>4
<1> QED  BY <1>1, <1>3 DEF LastInv

LEMMA LastStep ==
  ASSUME TypeOK, Attended, ShutInv, LastInv, [Next]_vars
  PROVE  LastInv'
<1>1. PackagesMove  BY Step
<1>2. Final \in Flushes  BY DEF Flushes
<1>3. CASE FinalFlush  BY <1>3, LastStarts
<1>4. CASE ~FinalFlush /\ lifecycle' \in {"drain", "shutdown"}
  <2>1. lifecycle \in {"drain", "shutdown"}
    <3>1. CASE EndFlush(Final)  BY <3>1 DEF EndFlush, ShutInv
    <3>2. CASE ~EndFlush(Final)  BY <1>4, <3>2, LifecycleMoves DEF Before
    <3> QED  BY <3>1, <3>2
  <2>2. CASE \E f \in Callers : StartFlush(f)
    BY <2>1, <2>2, LastGoesOn DEF Flushes
  <2>3. CASE \E f \in Flushes : Settled(f) \/ Dispatched(f) \/ EndFlush(f)
    BY <2>1, <2>3, LastGoesOn
  <2>4. CASE UNCHANGED flush /\ \A p \in Buffered : status'[p] = "buffered"
    <3>1. flush[Final].covers \subseteq Packages  BY <1>2, TypeUse, SMT DEF FlushState
    <3>2. ASSUME NEW p \in flush[Final].covers
          PROVE  /\ status'[p] \notin {"none", "assembling"}
                 /\ status'[p] = "sending" => status[p] = "sending"
      <4>1. p \in Packages /\ status[p] \notin {"none", "assembling"}
        BY <2>1, <3>1 DEF LastInv
      <4>2. status[p] = "buffered" => status'[p] = "buffered"
        BY <2>4, <4>1 DEF Buffered
      <4> QED  BY <1>1, <4>1, <4>2 DEF PackagesMove, Advance, Early
    <3> QED  BY <2>1, <2>4, <3>2 DEF LastInv, Taken
  <2> QED  BY <1>4, <2>2, <2>3, <2>4, HeldBack
<1>5. CASE lifecycle' \notin {"drain", "shutdown"}  BY <1>5 DEF LastInv
<1> QED  BY <1>3, <1>4, <1>5

(* No package that captureError() let in, during the shutdown as well, is   *)
(* left behind by the shutdown, but one that a flush() of the host waits for*)
(* beside a transport worker (SDKInstance.performShutdown).                 *)
THEOREM AdmittedSettled == Spec => []AdmittedSettles
<1>1. Init => ShutInv /\ Attended /\ LastInv
  <2> SUFFICES ASSUME Init PROVE ShutInv /\ Attended /\ LastInv  OBVIOUS
  <2>1. flush[Final].at = "idle"  BY SMT DEF Init, Flushes
  <2>2. \A d \in Workers : worker[d] = "live" => d = attached  BY DEF Init
  <2> QED  BY <2>1, <2>2 DEF Init, ShutInv, Attended, LastInv
<1>2. Init => CoverInv  BY CoverInit
<1>3. TypeOK /\ ShutInv /\ [Next]_vars => ShutInv'  BY ShutStep
<1>4. TypeOK /\ CoverInv /\ [Next]_vars => CoverInv'  BY CoverStep
<1>5. TypeOK /\ Attended /\ ShutInv /\ [Next]_vars => Attended'  BY AttendedStep
<1>6. TypeOK /\ Attended /\ ShutInv /\ LastInv /\ [Next]_vars => LastInv'  BY LastStep
<1>7. ShutInv /\ CoverInv /\ LastInv => AdmittedSettles
  <2> SUFFICES ASSUME ShutInv, CoverInv, LastInv, lifecycle = "shutdown", NEW p \in admitted,
                      status[p] \notin Terminal
               PROVE  /\ threaded /\ status[p] = "sending"
                      /\ \E f \in Callers : flush[f].at = "dispatching" /\ p \in flush[f].seen
    BY DEF AdmittedSettles
  <2>1. p \in flush[Final].covers /\ flush[Final].at = "done" /\ Final \in Flushes
    BY DEF ShutInv, Flushes
  <2>2. Covers(p, status[p], "done", flush[Final].waits, flush[Final].seen)
    BY <2>1 DEF CoverInv, Covering
  <2>3. threaded /\ status[p] = "sending" /\ p \notin flush[Final].seen
    BY <2>2 DEF Covers
  <2> QED  BY <2>1, <2>3 DEF LastInv, Taken
<1> QED  BY <1>1, <1>2, <1>3, <1>4, <1>5, <1>6, <1>7, TypeCorrect, PTL DEF Spec
================================================================================
