-------------------------- MODULE CaptureModeController --------------------------
(***************************************************************************)
(* Switching the capture mode of a running SDK: CaptureModeController      *)
(* (src/src/capture-mode-controller.ts) with the callbacks SDKInstance     *)
(* gives it.  Transitions, wanted by the application or by the adaptive    *)
(* policy, run one at a time along modeSwitchTail; each may wait for a     *)
(* flush of the old mode, for the assembly worker and for a flush of the   *)
(* new mode, and meanwhile errors are captured, the evaluation timer fires,*)
(* the application chooses again or shuts the SDK down.                    *)
(***************************************************************************)
EXTENDS Integers, Sequences

CONSTANTS
  Modes,        \* capture modes
  Base,         \* adaptiveCapture.base
  Escalated,    \* adaptiveCapture.escalated
  Fast,         \* the mode without a flush interval
  Assembled,    \* the modes with useWorkerAssembly
  Off,          \* not a mode: nothing is installed
  MaxSwitches,  \* maxSwitchesPerHour
  MaxChoices,   \* bound on the calls of setCaptureMode
  MaxCaptures,  \* bound on the captures
  MaxQueue      \* bound on the transitions that wait when the timer fires

ASSUME ModeAssumption ==
  /\ {Base, Escalated, Fast} \subseteq Modes /\ Base # Escalated
  /\ Assembled \subseteq Modes /\ Off \notin Modes
ASSUME BoundAssumption ==
  MaxSwitches \in Nat \ {0} /\ MaxChoices \in Nat /\ MaxCaptures \in Nat /\ MaxQueue \in Nat

None == "none"
Null == -1 \* adaptiveEscalationGeneration === null

VARIABLES
  lifecycle,    \* SDKInstance.state
  mode,         \* modeState.captureMode
  adaptive,     \* adaptivePhase; the switches of the last hour; since when it is
                \* quiet, and since when escalated; history: a window a manual
                \* escalation has opened and that is not over
  intent,       \* adaptiveIntentGeneration
  scheduled,    \* adaptiveEscalationGeneration, or Null
  wishes,       \* microtasks of handleAdmittedCapture
  tail,         \* transitions that wait on modeSwitchTail
  running,      \* the transition that runs
  recorders,    \* the mode whose recorders are installed, or Off
  flushTimer,   \* the mode whose flush interval runs, or Off
  captures,
  chosen,       \* history: the newest choice of the application, or Off
  untouched     \* history: neither a capture nor an evaluation came after it

vars == <<lifecycle, mode, adaptive, intent, scheduled, wishes, tail, running,
          recorders, flushTimer, captures, chosen, untouched>>

Phases == {"base", "escalated", "pinned", "manual"}
Transition(by, target, generation) ==
  [by |-> by, target |-> target, generation |-> generation]

Idle == [by |-> None]
Waits == {"drain", "ack", "flush"}
Settled == running = Idle /\ tail = <<>> /\ wishes = <<>>

(* Types; and the rate limit: adaptive switches beyond maxSwitchesPerHour    *)
(* happen once, and once more for each choice of the application.           *)
TypeOK ==
  /\ lifecycle \in {"created", "active", "shutting_down", "shutdown"} /\ mode \in Modes
  /\ adaptive \in [phase : Phases, switches : 0 .. MaxSwitches + intent + 1,
                   capture : {None, "recent", "old"}, escalation : {None, "young", "old"},
                   window : BOOLEAN]
  /\ intent \in 0 .. MaxChoices /\ scheduled \in (0 .. intent) \union {Null}
  /\ wishes \in Seq(0 .. intent)
  /\ tail \in Seq([by : {"manual", "adaptive"}, target : Modes, generation : 0 .. intent])
  /\ running = Idle \/
       /\ running.by \in {"manual", "adaptive"} /\ running.target \in Modes
       /\ running.from \in Modes \ {running.target} /\ running.at \in Waits
       /\ running.wasActive \in BOOLEAN
  /\ recorders \in Modes \union {Off} /\ flushTimer \in (Modes \ {Fast}) \union {Off}
  /\ captures \in 0 .. MaxCaptures /\ chosen \in Modes \union {Off} /\ untouched \in BOOLEAN

Init ==
  /\ lifecycle = "created" /\ mode = Base
  /\ adaptive = [phase |-> "base", switches |-> 0, capture |-> None, escalation |-> None,
                 window |-> FALSE]
  /\ intent = 0 /\ scheduled = Null /\ wishes = <<>> /\ tail = <<>> /\ running = Idle
  /\ recorders = Off /\ flushTimer = Off /\ captures = 0 /\ chosen = Off /\ untouched = FALSE

--------------------------------------------------------------------------------
(* What a transition does, once it has begun.  Between two waits it runs    *)
(* without interruption.  a is what the adaptive state is by then.          *)

Timer(m) == IF m = Fast THEN Off ELSE m

(* Mutant: a manual escalation does not count as a capture.                 *)
ReconciledWithoutWindow(target, a) ==
  CASE target = Base -> [a EXCEPT !.phase = "base"]
    [] target = Escalated -> [a EXCEPT !.phase = "escalated", !.escalation = "young"]
    [] OTHER -> [a EXCEPT !.phase = "manual"]

(* Mutant: a mode that is neither endpoint leaves the phase alone.          *)
ReconciledEndpoints(target, a) ==
  CASE target = Base -> [a EXCEPT !.phase = "base"]
    [] target = Escalated -> [a EXCEPT !.phase = "escalated", !.escalation = "young",
                                       !.capture = "recent", !.window = TRUE]
    [] OTHER -> a

(* reconcileManualAdaptiveState                                             *)
Reconciled(target, a) ==
  CASE target = Base -> [a EXCEPT !.phase = "base"]
    [] target = Escalated -> [a EXCEPT !.phase = "escalated", !.escalation = "young",
                                       !.capture = "recent", !.window = TRUE]
    [] OTHER -> [a EXCEPT !.phase = "manual"]

(* The end of applyAdaptiveCaptureMode.                                     *)
Adapted(target, a) ==
  IF target = Escalated
  THEN [a EXCEPT !.switches = @ + 1, !.escalation = "young",
                 !.phase = IF @ = "pinned" THEN "pinned" ELSE "escalated"]
  ELSE [a EXCEPT !.switches = @ + 1, !.phase = "base"]

Await(t, point, a) ==
  running' = [t EXCEPT !.at = point] /\ adaptive' = a /\ UNCHANGED flushTimer

Complete(t, a) ==
  /\ running' = Idle
  /\ flushTimer' = IF t.wasActive THEN Timer(t.target) ELSE flushTimer
  /\ adaptive' = IF t.by = "manual" THEN Reconciled(t.target, a) ELSE Adapted(t.target, a)

(* After the resources have changed: a flush when the interval appears or   *)
(* goes, then the timer starts anew.                                        *)
FlushOrComplete(t, a) ==
  IF t.wasActive /\ (t.from = Fast) # (t.target = Fast)
  THEN Await(t, "flush", a) ELSE Complete(t, a)

SwitchOver(t, a) ==
  /\ mode' = t.target
  /\ recorders' = IF t.wasActive THEN t.target ELSE recorders
  /\ IF t.target \in Assembled THEN Await(t, "ack", a) ELSE FlushOrComplete(t, a)

Begin(t, a) ==
  LET begun == [by |-> t.by, target |-> t.target, from |-> mode,
                wasActive |-> lifecycle = "active", at |-> "drain"]
  IN  IF begun.wasActive /\ mode # Fast /\ t.target = Fast
      THEN Await(begun, "drain", a) /\ UNCHANGED <<mode, recorders>>
      ELSE SwitchOver(begun, a)

Unswitched == UNCHANGED <<mode, running, recorders, flushTimer>>
Others == UNCHANGED <<lifecycle, intent, scheduled, wishes, captures, chosen, untouched>>

(* The awaited flush ends, well or badly.                                   *)
Drained ==
  /\ running # Idle /\ running.at = "drain" /\ SwitchOver(running, adaptive)
  /\ UNCHANGED tail /\ Others

(* The worker acknowledges the new configuration, or is given up.           *)
Acknowledged ==
  /\ running # Idle /\ running.at = "ack" /\ FlushOrComplete(running, adaptive)
  /\ UNCHANGED <<mode, recorders, tail>> /\ Others

Flushed ==
  /\ running # Idle /\ running.at = "flush" /\ Complete(running, adaptive)
  /\ UNCHANGED <<mode, recorders, tail>> /\ Others

--------------------------------------------------------------------------------
(* The next transition of the queue.                                        *)

CanSwitchMode == lifecycle \in {"created", "active"}
IsNext(by) == running = Idle /\ tail # <<>> /\ Head(tail).by = by

(* Mutant: after a rejection nothing runs any more.                         *)
RestUnlessRejected == IF CanSwitchMode THEN Tail(tail) ELSE tail

Rest == Tail(tail)

(* applyManualCaptureMode: rejected when the SDK is shutting down.          *)
StartManual ==
  /\ IsNext("manual") /\ tail' = Rest /\ Others
  /\ IF ~CanSwitchMode
     THEN Unswitched /\ UNCHANGED adaptive
     ELSE IF Head(tail).target = mode
     THEN Unswitched /\ adaptive' = Reconciled(mode, adaptive)
     ELSE Begin(Head(tail), adaptive)

(* isCurrentAdaptiveTransition                                              *)
IsCurrent(target) ==
  \/ target = Escalated /\ adaptive.phase = "base" /\ mode = Base
  \/ target = Base /\ adaptive.phase = "escalated" /\ mode = Escalated

(* Mutant: a transition wanted before a newer choice is applied.            *)
AdmittedAnyGeneration(t) == lifecycle = "active" /\ IsCurrent(t.target)

Admitted(t) == t.generation = intent /\ lifecycle = "active" /\ IsCurrent(t.target)

(* Mutant: one switch too many.                                             *)
AtLimitLate(count) == count > MaxSwitches

AtLimit(count) == count >= MaxSwitches

(* applyAdaptiveCaptureMode.  Switches older than an hour are forgotten     *)
(* first; at the limit the phase is pinned, and only an escalation happens. *)
StartAdaptive ==
  /\ IsNext("adaptive") /\ tail' = Rest /\ Others
  /\ IF ~Admitted(Head(tail))
     THEN Unswitched /\ UNCHANGED adaptive
     ELSE \E kept \in 0 .. adaptive.switches :
            LET a == [adaptive EXCEPT !.switches = kept,
                                      !.phase = IF AtLimit(kept) THEN "pinned" ELSE @]
            IN  IF AtLimit(kept) /\ Head(tail).target # Escalated
                THEN Unswitched /\ adaptive' = a
                ELSE Begin(Head(tail), a)

--------------------------------------------------------------------------------
(* What happens to the controller.                                          *)

Unmoved == UNCHANGED <<mode, running, recorders, flushTimer>>

(* handleAdmittedCapture: an error is captured.                             *)
Capture ==
  /\ lifecycle \in {"active", "shutting_down"} /\ captures < MaxCaptures
  /\ captures' = captures + 1 /\ untouched' = FALSE
  /\ adaptive' = [adaptive EXCEPT !.capture = "recent"]
  /\ IF adaptive.phase = "base" /\ mode = Base /\ scheduled = Null
     THEN scheduled' = intent /\ wishes' = Append(wishes, intent)
     ELSE UNCHANGED <<scheduled, wishes>>
  /\ UNCHANGED <<lifecycle, intent, tail, chosen>> /\ Unmoved

(* Its microtask: switchAdaptiveMode.                                       *)
Wish ==
  /\ wishes # <<>> /\ wishes' = Tail(wishes)
  /\ scheduled' = IF scheduled = Head(wishes) THEN Null ELSE scheduled
  /\ tail' = IF lifecycle # "active" THEN tail
             ELSE Append(tail, Transition("adaptive", Escalated, Head(wishes)))
  /\ UNCHANGED <<lifecycle, adaptive, intent, captures, chosen, untouched>> /\ Unmoved

(* setCaptureMode                                                           *)
SetCaptureMode(m) ==
  /\ CanSwitchMode /\ intent < MaxChoices
  /\ intent' = intent + 1 /\ scheduled' = Null
  /\ tail' = Append(tail, Transition("manual", m, intent + 1))
  /\ chosen' = m /\ untouched' = TRUE
  /\ UNCHANGED <<lifecycle, adaptive, wishes, captures>> /\ Unmoved

(* Timers fire when no microtask is left.                                   *)
NoMicrotask == wishes = <<>> /\ (running = Idle => tail = <<>>)

(* evaluateAdaptiveDeescalation, once a second.                             *)
Evaluate ==
  /\ NoMicrotask /\ lifecycle = "active" /\ Len(tail) < MaxQueue
  /\ adaptive.phase = "escalated" /\ adaptive.escalation = "old" /\ adaptive.capture = "old"
  /\ tail' = Append(tail, Transition("adaptive", Base, intent))
  /\ untouched' = FALSE
  /\ UNCHANGED <<lifecycle, adaptive, intent, scheduled, wishes, captures, chosen>> /\ Unmoved

(* deescalateAfterMs or minDwellMs have passed.                             *)
QuietPasses ==
  /\ NoMicrotask /\ adaptive.capture = "recent"
  /\ adaptive' = [adaptive EXCEPT !.capture = "old", !.window = FALSE]
  /\ UNCHANGED tail /\ Others /\ Unmoved
DwellPasses ==
  /\ NoMicrotask /\ adaptive.escalation = "young"
  /\ adaptive' = [adaptive EXCEPT !.escalation = "old"]
  /\ UNCHANGED tail /\ Others /\ Unmoved

(* SDKInstance.activate()                                                   *)
Activate ==
  /\ lifecycle = "created" /\ lifecycle' = "active"
  /\ recorders' = mode /\ flushTimer' = Timer(mode)
  /\ UNCHANGED <<mode, adaptive, intent, scheduled, wishes, tail, running, captures, chosen,
                 untouched>>

(* SDKInstance.shutdown(): performShutdown begins.                          *)
Shutdown ==
  /\ lifecycle \in {"created", "active"} /\ lifecycle' = "shutting_down"
  /\ UNCHANGED <<adaptive, intent, scheduled, wishes, tail, captures, chosen, untouched>>
  /\ Unmoved

(* Mutant: it does not wait for the transition that runs.                   *)
TransitionsOverUnawaited == TRUE

(* shutdown() of the controller: it waits for modeSwitchTail.               *)
TransitionsOver == running = Idle /\ tail = <<>>

Teardown ==
  /\ lifecycle = "shutting_down" /\ TransitionsOver
  /\ lifecycle' = "shutdown" /\ recorders' = Off /\ flushTimer' = Off
  /\ UNCHANGED <<mode, adaptive, intent, scheduled, wishes, tail, running, captures, chosen,
                 untouched>>

Transitions == Drained \/ Acknowledged \/ Flushed \/ StartManual \/ StartAdaptive
Clock == QuietPasses \/ DwellPasses \/ Evaluate
Application == Capture \/ Activate \/ Shutdown \/ \E m \in Modes : SetCaptureMode(m)

Next == Transitions \/ Clock \/ Application \/ Wish \/ Teardown

Spec == Init /\ [][Next]_vars

(* The event loop runs: microtasks and answers come, timers fire.  Nothing  *)
(* makes the application do anything.                                       *)
Fairness ==
  /\ WF_vars(Transitions) /\ WF_vars(Wish) /\ WF_vars(Teardown)
  /\ WF_vars(Evaluate) /\ WF_vars(QuietPasses) /\ WF_vars(DwellPasses)

FairSpec == Spec /\ Fairness

--------------------------------------------------------------------------------
(* Properties.                                                              *)

(* Between transitions the adaptive phase tells the mode the SDK is in, which*)
(* is what decides about the next transition: a phase that is wrong strands *)
(* the SDK in the expensive mode or in the cheap one.                       *)
PhaseMatchesMode ==
  Settled /\ lifecycle # "shutdown" =>
    CASE adaptive.phase = "base" -> mode = Base
      [] adaptive.phase \in {"escalated", "pinned"} -> mode = Escalated
      [] adaptive.phase = "manual" -> mode \notin {Base, Escalated}

(* Between transitions what is installed and the flush timer are those of   *)
(* the mode, whether the SDK was activated, switched or both at once; and   *)
(* nothing a transition installs late survives a shutdown.                  *)
ResourcesFollowMode ==
  /\ Settled /\ lifecycle = "active" => recorders = mode /\ flushTimer = Timer(mode)
  /\ lifecycle = "shutdown" => recorders = Off /\ flushTimer = Off

(* The state is of its type, and the mode, its phase and the layers it      *)
(* switches fit, whatever was chosen and when.                              *)
ModeFits == TypeOK /\ PhaseMatchesMode /\ ResourcesFollowMode

(* "keeps an older capture-triggered microtask from winning after that      *)
(* manual choice": the newest choice of the application stands until a      *)
(* later capture or evaluation, and for good when it is no endpoint.        *)
ManualChoiceStands ==
  Settled /\ lifecycle = "active" /\ chosen # Off
    /\ (untouched \/ chosen \notin {Base, Escalated}) => mode = chosen

(* An escalation, adaptive or by hand, does not last: the phase is left, and*)
(* not only when an error is captured.                                      *)
EscalationEnds ==
  adaptive.phase = "escalated" ~> adaptive.phase # "escalated" \/ lifecycle # "active"

(* A shutdown that begins during transitions, with others waiting, ends.    *)
ShutdownCompletes == lifecycle = "shutting_down" ~> lifecycle = "shutdown"

(* "A manual escalation starts its own quiet window": the adaptive policy   *)
(* does not leave the mode before deescalateAfterMs have passed.            *)
Deescalates ==
  /\ mode = Escalated /\ mode' = Base
  /\ IF running = Idle THEN Head(tail).by = "adaptive" ELSE running.by = "adaptive"
ManualEscalationHasItsWindow == [][Deescalates => ~adaptive.window]_vars
================================================================================
