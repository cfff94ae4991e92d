---------------------------- MODULE CaptureDelivery ----------------------------
(***************************************************************************)
(* From a captured error to the transport: ErrorCapturer                   *)
(* (src/src/capture/error-capturer.ts) with the assembly worker behind     *)
(* PackageAssemblyController and PackageAssemblyDispatcher, and flush() and*)
(* shutdown() of SDKInstance (src/src/sdk.ts).  A package is assembled by  *)
(* the worker or inline, held back until a flush when the mode defers      *)
(* delivery, and sent.  Flushes, captures, worker answers, time-outs, a    *)
(* dying worker, a switch of the mode and the shutdown fall between each   *)
(* other.                                                                  *)
(*                                                                         *)
(* The transport is external: a send ends, and flush() on the main thread  *)
(* waits for the sends called before it.  In a transport worker the handlers*)
(* of the messages overlap, so its flush() may answer first: it covers what*)
(* was accepted, as TransportDispatcher is shown to do.  Deduplication, the*)
(* rate limit and the content of a package are abstracted: a member of     *)
(* Packages is a capture that passed them.                                 *)
(***************************************************************************)
EXTENDS Integers, Sequences

CONSTANTS
  Packages,    \* packages that are captured
  Callers,     \* calls of SDKInstance.flush() under way at the same time
  Final,       \* the flush of the shutdown
  MaxSwitches  \* bound on the switches of the mode

ASSUME DeliveryAssumption == Final \notin Callers /\ MaxSwitches \in Nat

Workers == 1 .. (MaxSwitches + 1) \* every switch starts at most one more
NoWorker == 0
Modes == {"deferred", "worker", "inline"}
Flushes == Callers \cup {Final}
Terminal == {"settled", "dropped"} \* delivered or dead-lettered; lost
Statuses == {"none", "assembling", "buffered", "sending"} \cup Terminal

VARIABLES
  lifecycle,     \* SDKInstance.state and how far performShutdown is
  admissionOpen, \* captureAdmissionOpen
  fatal,         \* fatalExitInProgress
  mode,          \* what modeProvider() says: "deferred": capabilities.deferredDelivery,
                 \* "worker": useWorkerAssembly
  threaded,      \* the transport runs in a worker of its own: stdout and file do,
                 \* http, webhook and serverless stay on the main thread
  switches,      \* switches of the mode so far
  transition,    \* PackageAssemblyController.applyModeState: not called yet, or
                 \* waiting for the worker to take the configuration
  status,        \* where each package is
  sends,         \* history: calls of transport.send for a package
  admitted,      \* history: the packages captureError() let in
  request,       \* the dispatcher in whose pending map the package's request is
  inbox,         \* messages the worker has not answered
  worker,        \* the worker behind each dispatcher
  attached,      \* the dispatcher the capturer and the controller hold
  idle,          \* idleTimer is armed
  stopping,      \* dispatchers whose shutdown() has not ended: teardowns
  flush          \* the calls of flush(): where each is, the promises it waits
                 \* for; history: the packages captured before the call, and
                 \* those whose sends it has seen itself: under way at the call
                 \* or dispatched by it

workerVars == <<request, inbox, worker, attached, idle, stopping>>
vars == <<lifecycle, admissionOpen, threaded, fatal, mode, switches, transition, status,
          sends, admitted, workerVars, flush>>

--------------------------------------------------------------------------------
(* Packages *)

Buffered == {p \in Packages : status[p] = "buffered"}
Sending == {p \in Packages : status[p] = "sending"}
Captured == {p \in Packages : status[p] # "none"}

\* pendingTransportDispatches: a promise is named by the step it stands for
InFlight == {<<status[p], p>> : p \in {q \in Packages : status[q] \in {"assembling", "sending"}}}

\* A package over hardCapBytes is dropped, as is one whose assembly fails; the
\* others are sent.
Dispatch(S) ==
  \E over \in SUBSET S :
     /\ status' = [p \in Packages |-> IF p \in over THEN "dropped"
                                      ELSE IF p \in S THEN "sending" ELSE status[p]]
     /\ sends' = [p \in Packages |-> IF p \in S \ over THEN sends[p] + 1 ELSE sends[p]]

\* Assembly on the main thread, which may fail; a deferred package is held back.
Inline(S) ==
  \/ /\ mode = "deferred"
     /\ \E lost \in SUBSET S :
           status' = [p \in Packages |-> IF p \in lost THEN "dropped"
                                        ELSE IF p \in S THEN "buffered" ELSE status[p]]
     /\ UNCHANGED sends
  \/ mode # "deferred" /\ Dispatch(S)

--------------------------------------------------------------------------------
(* Flushes *)

(* Mutant: only what is being sent is waited for, not what is assembled. *)
SnapshotOfSends == {<<"sending", p>> : p \in Sending}

Snapshot == InFlight

Ready(f) ==
  /\ flush[f].at \in {"settling", "dispatching"}
  /\ flush[f].waits \cap InFlight = {}

\* Timers, messages of the worker and ends of sends come after the microtasks.
NoMicrotask == \A f \in Flushes : ~Ready(f)

Transporting == {<<"sending", p>> : p \in Sending}

\* ErrorCapturer.flush from its first await on, and the call of transport.flush()
\* when nothing is held back.
TakeBuffered(f, covers, seen) ==
  \/ /\ Buffered = {}
     /\ flush' = [flush EXCEPT ![f] = [at |-> "transport", waits |-> Transporting,
                                       covers |-> covers, seen |-> seen]]
     /\ UNCHANGED <<status, sends>>
  \/ /\ Buffered # {}
     /\ Dispatch(Buffered)
     /\ flush' = [flush EXCEPT ![f] =
          [at |-> "dispatching", covers |-> covers, seen |-> seen \cup Buffered,
           waits |-> {<<"sending", p>> : p \in {q \in Buffered : status'[q] = "sending"}}]]

CallFlush(f) ==
  \/ /\ Snapshot = {}
     /\ TakeBuffered(f, Captured, Sending)
  \/ /\ Snapshot # {}
     /\ flush' = [flush EXCEPT ![f] = [at |-> "settling", waits |-> Snapshot,
                                       covers |-> Captured, seen |-> Sending]]
     /\ UNCHANGED <<status, sends>>

StartFlush(f) ==
  /\ lifecycle # "shutdown"
  /\ flush[f].at \in {"idle", "done"}
  /\ CallFlush(f)
  /\ UNCHANGED <<lifecycle, admissionOpen, threaded, fatal, mode, switches, transition,
                 admitted, workerVars>>

Settled(f) ==
  /\ flush[f].at = "settling" /\ Ready(f)
  /\ TakeBuffered(f, flush[f].covers, flush[f].seen)
  /\ UNCHANGED <<lifecycle, admissionOpen, threaded, fatal, mode, switches, transition,
                 admitted, workerVars>>

Dispatched(f) ==
  /\ flush[f].at = "dispatching" /\ Ready(f)
  /\ flush' = [flush EXCEPT ![f] = [at |-> "transport", waits |-> Transporting,
                                    covers |-> flush[f].covers, seen |-> flush[f].seen]]
  /\ UNCHANGED <<lifecycle, admissionOpen, threaded, fatal, mode, switches, transition,
                 status, sends, admitted, workerVars>>

\* transport.flush() resolves: on the main thread after the sends called before it, in
\* a worker whenever its handler is done.  After the last one transport.shutdown()
\* follows and the rest of performShutdown.
EndFlush(f) ==
  /\ NoMicrotask
  /\ flush[f].at = "transport"
  /\ threaded \/ flush[f].waits \cap InFlight = {}
  /\ flush' = [flush EXCEPT ![f] = [at |-> "done", waits |-> {},
                                    covers |-> flush[f].covers, seen |-> flush[f].seen]]
  /\ lifecycle' = IF f = Final THEN "shutdown" ELSE lifecycle
  /\ fatal' = IF f = Final THEN FALSE ELSE fatal
  /\ UNCHANGED <<admissionOpen, threaded, mode, switches, transition, status, sends, admitted,
                 workerVars>>

\* A send ends: delivered, written to the dead-letter store, or lost.
EndSend(p) ==
  /\ NoMicrotask
  /\ status[p] = "sending"
  /\ \E s \in Terminal : status' = [status EXCEPT ![p] = s]
  /\ UNCHANGED <<lifecycle, admissionOpen, threaded, fatal, mode, switches, transition, sends,
                 admitted, workerVars, flush>>

--------------------------------------------------------------------------------
(* Captures *)

Available == attached # NoWorker /\ worker[attached] = "live"

\* The end of ErrorCapturer.capture: to the worker, or inline.
Assemble(p, uncaught) ==
  /\ status[p] = "none"
  /\ \/ /\ Available /\ mode = "worker" /\ ~uncaught
        /\ status' = [status EXCEPT ![p] = "assembling"]
        /\ request' = [request EXCEPT ![p] = attached]
        /\ inbox' = [inbox EXCEPT ![attached] = Append(@, p)]
        /\ UNCHANGED <<sends, worker, attached, idle, stopping>>
     \/ /\ ~(Available /\ mode = "worker" /\ ~uncaught)
        /\ Inline({p})
        /\ UNCHANGED workerVars

(* Mutant: captureAdmissionOpen is not looked at. *)
AdmitsUntilShutdown == lifecycle # "shutdown"

Admits == lifecycle = "active" \/ (lifecycle # "shutdown" /\ admissionOpen)

CaptureError(p) ==
  /\ Admits
  /\ Assemble(p, FALSE)
  /\ admitted' = admitted \cup {p}
  /\ UNCHANGED <<lifecycle, admissionOpen, threaded, fatal, mode, switches, transition, flush>>

\* The listener of unhandledRejection.
UnhandledRejection(p) ==
  /\ lifecycle # "shutdown"
  /\ Assemble(p, FALSE)
  /\ UNCHANGED <<lifecycle, admissionOpen, threaded, fatal, mode, switches, transition,
                 admitted, flush>>

\* The listener of uncaughtException: alone it shuts the SDK down, with a listener of
\* the host beside it it only captures.
UncaughtException(p) ==
  /\ lifecycle # "shutdown" /\ ~fatal
  /\ Assemble(p, TRUE)
  /\ \/ UNCHANGED <<lifecycle, fatal>>
     \/ /\ fatal' = TRUE
        /\ lifecycle' = IF lifecycle = "active" THEN "teardown" ELSE lifecycle
  /\ UNCHANGED <<admissionOpen, threaded, mode, switches, transition, admitted, flush>>

--------------------------------------------------------------------------------
(* The worker *)

Pending(d) == {p \in Packages : request[p] = d}
Forget(S) == request' = [p \in Packages |-> IF p \in S THEN NoWorker ELSE request[p]]

\* PackageAssemblyDispatcher.shutdown sends a last message, unless the worker is gone.
Stop(d) ==
  \/ /\ d # NoWorker /\ worker[d] = "live"
     /\ stopping' = stopping \cup {d}
     /\ inbox' = [inbox EXCEPT ![d] = Append(@, "shutdown")]
  \/ /\ ~(d # NoWorker /\ worker[d] = "live")
     /\ UNCHANGED <<stopping, inbox>>

(* Mutant: an answer is taken whether or not its request is still pending. *)
AwaitedAlways(d, p) == TRUE

Awaited(d, p) == request[p] = d

\* The worker answers its next message.  Nobody waits for the answer to a request
\* that timed out.
AnswerPackage(d) ==
  LET p == Head(inbox[d]) IN
  /\ p \in Packages
  /\ \/ /\ Awaited(d, p)
        /\ Forget({p})
        /\ Dispatch({p}) \/ Inline({p})  \* a package, or an error
     \/ /\ ~Awaited(d, p)
        /\ UNCHANGED <<request, status, sends>>
  /\ inbox' = [inbox EXCEPT ![d] = Tail(@)]
  /\ UNCHANGED <<transition, worker, stopping>>

AnswerConfig(d) ==
  /\ Head(inbox[d]) = "config"
  /\ transition' = IF transition = "waiting" /\ attached = d THEN "none" ELSE transition
  /\ inbox' = [inbox EXCEPT ![d] = Tail(@)]
  /\ UNCHANGED <<request, status, sends, worker, stopping>>

\* The port is closed; available is FALSE and worker is null.
AnswerShutdown(d) ==
  /\ Head(inbox[d]) = "shutdown"
  /\ worker' = [worker EXCEPT ![d] = "gone"]
  /\ stopping' = stopping \ {d}
  /\ inbox' = [inbox EXCEPT ![d] = <<>>]
  /\ Forget(Pending(d)) /\ Inline(Pending(d))
  /\ UNCHANGED transition

Answer(d) ==
  /\ NoMicrotask
  /\ worker[d] = "live" /\ inbox[d] # <<>>
  /\ AnswerPackage(d) \/ AnswerConfig(d) \/ AnswerShutdown(d)
  /\ UNCHANGED <<lifecycle, admissionOpen, threaded, fatal, mode, switches, admitted, attached,
                 idle, flush>>

(* Mutant: the request that timed out stays in the pending map. *)
ExpiredButKept(p) == UNCHANGED request

Expired(p) == Forget({p})

\* assemble() gives up after five seconds.
AssemblyTimesOut(p) ==
  /\ NoMicrotask
  /\ status[p] = "assembling"
  /\ Expired(p) /\ Inline({p})
  /\ UNCHANGED <<lifecycle, admissionOpen, threaded, fatal, mode, switches, transition, admitted,
                 inbox, worker, attached, idle, stopping, flush>>

\* The worker ends, by itself or terminated: failPending() rejects every request,
\* among them an update of the configuration and the shutdown.
WorkerExits(d) ==
  /\ NoMicrotask
  /\ worker[d] = "live"
  /\ worker' = [worker EXCEPT ![d] = "gone"]
  /\ inbox' = [inbox EXCEPT ![d] = <<>>]
  /\ stopping' = stopping \ {d}
  /\ Forget(Pending(d)) /\ Inline(Pending(d))
  /\ \/ /\ transition = "waiting" /\ attached = d
        /\ transition' = "none" /\ attached' = NoWorker
     \/ /\ ~(transition = "waiting" /\ attached = d)
        /\ UNCHANGED <<transition, attached>>
  /\ UNCHANGED <<lifecycle, admissionOpen, threaded, fatal, mode, switches, admitted, idle, flush>>

(* Mutant: the shutdown of the worker is awaited without a timer beside it. *)
OverdueOnceAnswered(d) == d \in stopping /\ inbox[d] = <<>>

Overdue(d) == d \in stopping

\* shutdown() of the dispatcher terminates the worker after five seconds.
StopTimesOut(d) == Overdue(d) /\ WorkerExits(d)

--------------------------------------------------------------------------------
(* The mode *)

SwitchMode ==
  /\ lifecycle = "active" /\ transition = "none" /\ switches < MaxSwitches
  /\ \E m \in Modes : mode' = m
  /\ transition' = "wanted"
  /\ switches' = switches + 1
  /\ UNCHANGED <<lifecycle, admissionOpen, threaded, fatal, status, sends, admitted, workerVars,
                 flush>>

\* applyModeState of a mode without the worker: it stops later, when it stayed idle.
DisuseWorker ==
  /\ mode # "worker"
  /\ idle' = (attached # NoWorker)
  /\ transition' = "none"
  /\ UNCHANGED <<request, inbox, worker, attached, stopping>>

\* applyModeState of a mode with it: the dispatcher is kept, dead or alive, or made.
UseWorker ==
  /\ mode = "worker"
  /\ idle' = FALSE
  /\ \/ /\ attached # NoWorker
        /\ UNCHANGED <<attached, worker>>
     \/ /\ attached = NoWorker
        /\ \E d \in Workers :
              /\ worker[d] = "unborn" /\ \A e \in Workers : worker[e] = "unborn" => d <= e
              /\ attached' = d
              /\ \E w \in {"live", "gone"} : worker' = [worker EXCEPT ![d] = w]
  /\ \/ /\ worker'[attached'] = "live"
        /\ inbox' = [inbox EXCEPT ![attached'] = Append(@, "config")]
        /\ transition' = "waiting"
     \/ /\ worker'[attached'] # "live"
        /\ transition' = "none"
        /\ UNCHANGED inbox
  /\ UNCHANGED <<request, stopping>>

ApplyMode ==
  /\ transition = "wanted"
  /\ DisuseWorker \/ UseWorker
  /\ UNCHANGED <<lifecycle, admissionOpen, threaded, fatal, mode, switches, status, sends,
                 admitted, flush>>

\* The worker does not take the configuration in time: assembly goes on inline.
ConfigTimesOut ==
  /\ NoMicrotask
  /\ transition = "waiting"
  /\ transition' = "none"
  /\ attached' = NoWorker
  /\ Stop(attached)
  /\ UNCHANGED <<lifecycle, admissionOpen, threaded, fatal, mode, switches, status, sends,
                 admitted, request, worker, idle, flush>>

IdleTimer ==
  /\ NoMicrotask
  /\ idle
  /\ idle' = FALSE
  /\ attached' = NoWorker
  /\ Stop(attached)
  /\ UNCHANGED <<lifecycle, admissionOpen, threaded, fatal, mode, switches, transition, status,
                 sends, admitted, request, worker, flush>>

--------------------------------------------------------------------------------
(* The shutdown *)

Shutdown ==
  /\ lifecycle = "active"
  /\ lifecycle' = "teardown"
  /\ UNCHANGED <<admissionOpen, threaded, fatal, mode, switches, transition, status, sends,
                 admitted, workerVars, flush>>

\* The transition of the mode is over; performShutdown comes to
\* packageAssemblyController.shutdown().
DetachWorker ==
  /\ lifecycle = "teardown" /\ transition = "none"
  /\ lifecycle' = "assembly"
  /\ idle' = FALSE
  /\ attached' = NoWorker
  /\ Stop(attached)
  /\ UNCHANGED <<admissionOpen, threaded, fatal, mode, switches, transition, status, sends,
                 admitted, request, worker, flush>>

\* Every teardown has ended: admission closes and the last flush begins.
FinalFlush ==
  /\ lifecycle = "assembly" /\ stopping = {}
  /\ lifecycle' = "drain"
  /\ admissionOpen' = FALSE
  /\ CallFlush(Final)
  /\ UNCHANGED <<threaded, fatal, mode, switches, transition, admitted, workerVars>>

--------------------------------------------------------------------------------
Init ==
  /\ lifecycle = "active" /\ admissionOpen = TRUE /\ fatal = FALSE
  /\ threaded \in BOOLEAN
  /\ mode \in Modes /\ switches = 0 /\ transition = "none"
  /\ status = [p \in Packages |-> "none"]
  /\ sends = [p \in Packages |-> 0]
  /\ admitted = {}
  /\ request = [p \in Packages |-> NoWorker]
  /\ inbox = [d \in Workers |-> <<>>]
  /\ worker = [d \in Workers |-> IF d = 1 /\ mode = "worker" THEN "live" ELSE "unborn"]
  /\ attached = IF mode = "worker" THEN 1 ELSE NoWorker
  /\ idle = FALSE
  /\ stopping = {}
  /\ flush = [f \in Flushes |-> [at |-> "idle", waits |-> {}, covers |-> {}, seen |-> {}]]

Next ==
  \/ \E p \in Packages : CaptureError(p) \/ UnhandledRejection(p) \/ UncaughtException(p)
  \/ \E p \in Packages : EndSend(p) \/ AssemblyTimesOut(p)
  \/ \E f \in Callers : StartFlush(f)
  \/ \E f \in Flushes : Settled(f) \/ Dispatched(f) \/ EndFlush(f)
  \/ \E d \in Workers : Answer(d) \/ WorkerExits(d) \/ StopTimesOut(d)
  \/ SwitchMode \/ ApplyMode \/ ConfigTimesOut \/ IdleTimer
  \/ Shutdown \/ DetachWorker \/ FinalFlush

Spec == Init /\ [][Next]_vars

\* Promise continuations run, the timers of the dispatcher fire, and a send or a flush
\* of the transport ends, for every transport bounds it; a send that a transport worker
\* has not ended when it closes is promised nothing.  Neither the assembly worker nor
\* the application has to do anything.
Fairness ==
  /\ \A p \in Packages : WF_vars(EndSend(p) /\ (lifecycle # "shutdown" \/ ~threaded))
  /\ \A p \in Packages : WF_vars(AssemblyTimesOut(p))
  /\ \A f \in Flushes : WF_vars(Settled(f)) /\ WF_vars(Dispatched(f)) /\ WF_vars(EndFlush(f))
  /\ \A d \in Workers : WF_vars(StopTimesOut(d))
  /\ WF_vars(ApplyMode) /\ WF_vars(ConfigTimesOut)
  /\ WF_vars(DetachWorker) /\ WF_vars(FinalFlush)

FairSpec == Spec /\ Fairness

--------------------------------------------------------------------------------
(* Properties *)

\* Types, and what ties the capturer's, the controller's and the dispatchers' fields
\* together: a package is assembled exactly while its request is pending, and the
\* dispatcher that captures are given to is not one that is being torn down.
TypeOK ==
  /\ lifecycle \in {"active", "teardown", "assembly", "drain", "shutdown"}
  /\ admissionOpen \in BOOLEAN /\ threaded \in BOOLEAN
  /\ fatal \in BOOLEAN /\ idle \in BOOLEAN
  /\ mode \in Modes /\ switches \in 0 .. MaxSwitches
  /\ transition \in {"none", "wanted", "waiting"}
  /\ status \in [Packages -> Statuses]
  /\ sends \in [Packages -> Nat]
  /\ admitted \subseteq Packages
  /\ request \in [Packages -> Workers \cup {NoWorker}]
  /\ inbox \in [Workers -> Seq(Packages \cup {"config", "shutdown"})]
  /\ worker \in [Workers -> {"unborn", "live", "gone"}]
  /\ attached \in Workers \cup {NoWorker}
  /\ stopping \subseteq {d \in Workers : worker[d] = "live"} \ {attached}
  /\ \A p \in Packages : status[p] = "assembling" <=> request[p] # NoWorker
  /\ flush \in [Flushes -> [at : {"idle", "settling", "dispatching", "transport", "done"},
                             waits : SUBSET ({"assembling", "sending"} \X Packages),
                             covers : SUBSET Packages, seen : SUBSET Packages]]

\* However time-outs, late answers of the worker, its death and concurrent flushes
\* fall, a captured package is given to the transport at most once.
SentAtMostOnce == \A p \in Packages : sends[p] <= 1

\* When a call of flush() has ended, every package captured before it is delivered,
\* in the dead-letter store or dropped: none is still assembled, held back or on its
\* way, also when another flush took it.  With a transport worker one may be on its
\* way: what was assembled while the flush waited, or taken by another flush, and not
\* what was being sent at the call or sent by the flush itself (SDKInstance.flush,
\* ErrorCapturer.flush).
FlushCovers ==
  \A f \in Flushes : flush[f].at = "done" =>
     \A p \in flush[f].covers :
        \/ status[p] \in Terminal
        \/ threaded /\ status[p] = "sending" /\ p \notin flush[f].seen

\* A package captureError() let in, during the shutdown as well, is not left behind
\* when the SDK is shut down (sdk.ts, captureError and performShutdown).  Only beside a
\* transport worker may one be on its way still, which a flush() of the host took from
\* the last one and waits for.
AdmittedSettles ==
  lifecycle = "shutdown" =>
     \A p \in admitted :
        \/ status[p] \in Terminal
        \/ /\ threaded /\ status[p] = "sending"
           /\ \E f \in Callers : flush[f].at = "dispatching" /\ p \in flush[f].seen

\* A shutdown ends, whatever the worker does or fails to do.
ShutdownEnds == lifecycle = "teardown" ~> lifecycle = "shutdown"

\* sdk.ts: "Close admission synchronously before the final capturer drain so no new
\* deferred package can land behind it."
NothingLandsBehind == lifecycle = "shutdown" => Buffered = {}
================================================================================
