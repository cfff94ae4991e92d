----------------------------- MODULE CapturingProofs -----------------------------
(***************************************************************************)
(* Capturing, for every value of the constants and any order of choices,   *)
(* captures, throws, lookups, switches, trips and recoveries: mode,        *)
(* adaptive phase, recorders and flush timer fit, and the newest choice of *)
(* the application is not undone by an older wish; the debugger that       *)
(* pauses the process at throws is never left armed by itself, the guard   *)
(* and the ring keep their bounds, and a lookup hands out what belongs to  *)
(* the error it was asked for; captures are admitted, suppressed and       *)
(* dropped as they should be; a stack is read through the maps deployed.   *)
(***************************************************************************)
EXTENDS CaptureModeController, InspectorManager, CaptureAdmission, SourceMapCache, DataLemmas

Adaptives == [phase : Phases, switches : Nat, capture : {None, "recent", "old"},
              escalation : {None, "young", "old"}, window : BOOLEAN]
Transitional == [by : {"manual", "adaptive"}, target : Modes, generation : Nat]
Begun == [by : {"manual", "adaptive"}, target : Modes, from : Modes, wasActive : BOOLEAN,
          at : Waits]

(* The types, with the running transition as a record and numbers that are   *)
(* bounded below.                                                            *)
Typed ==
  /\ lifecycle \in {"created", "active", "shutting_down", "shutdown"} /\ mode \in Modes
  /\ adaptive \in Adaptives
  /\ intent \in 0 .. MaxChoices /\ scheduled \in (0 .. intent) \union {Null}
  /\ wishes \in Seq(Nat) /\ \A k \in DOMAIN wishes : wishes[k] <= intent
  /\ tail \in Seq(Transitional) /\ \A k \in DOMAIN tail : tail[k].generation <= intent
  /\ running \in Begun \union {Idle}
  /\ recorders \in Modes \union {Off} /\ flushTimer \in (Modes \ {Fast}) \union {Off}
  /\ captures \in 0 .. MaxCaptures /\ chosen \in Modes \union {Off} /\ untouched \in BOOLEAN

Manual(k) == tail[k].by = "manual"
Running(by) == running # Idle /\ running.by = by

(* What waits: a choice is newer than all that waits before it, the newest    *)
(* one is still there as long as any is, and after it only what was wanted    *)
(* by a later capture or evaluation is wanted at its generation.              *)
Ordered(q) ==
  \A j, k \in DOMAIN q : j < k /\ q[k].by = "manual" => q[j].generation < q[k].generation
NewestWaits ==
  \A k \in DOMAIN tail : Manual(k) =>
    /\ tail[k].generation = intent => tail[k].target = chosen
    /\ \E j \in DOMAIN tail : k <= j /\ Manual(j) /\ tail[j].generation = intent
OlderWishes ==
  untouched => /\ \A k \in DOMAIN wishes : wishes[k] < intent
               /\ \A k \in DOMAIN tail : Manual(k) \/ tail[k].generation < intent

(* Adaptive switches beyond the limit pin the phase, which only a choice of   *)
(* the application leaves; so they are as many as the choices already made.   *)
Made == {intent} \union {tail[k].generation - 1 : k \in {j \in DOMAIN tail : Manual(j)}}
One(b) == IF b THEN 1 ELSE 0
Limited ==
  \A n \in Made :
    adaptive.switches + One(running # Idle) <= MaxSwitches + n + One(adaptive.phase = "pinned")

(* The mode, and where a transition stands.                                   *)
Fits(phase, m) ==
  CASE phase = "base" -> m = Base
    [] phase \in {"escalated", "pinned"} -> m = Escalated
    [] phase = "manual" -> m \notin {Base, Escalated}
PhaseFits ==
  /\ running = Idle => Fits(adaptive.phase, mode)
  /\ running # Idle =>
       /\ running.from # running.target
       /\ running.at = "drain" =>
            mode = running.from /\ running.wasActive /\ running.from # Fast /\ running.target = Fast
       /\ running.at # "drain" => mode = running.target
       /\ running.at = "flush" => running.wasActive
       /\ running.by = "adaptive" =>
            \/ running.target = Escalated /\ adaptive.phase \in {"base", "pinned"}
            \/ running.target = Base /\ adaptive.phase = "escalated"

(* What is installed.  A transition that began before the SDK was active      *)
(* leaves the resources to activate().                                        *)
Installed ==
  /\ lifecycle = "created" =>
       recorders = Off /\ flushTimer = Off /\ (running # Idle => ~running.wasActive)
  /\ lifecycle = "active" =>
       /\ recorders = mode
       /\ flushTimer = Timer(IF running # Idle /\ running.wasActive THEN running.from ELSE mode)
  /\ lifecycle = "shutdown" =>
       running = Idle /\ tail = <<>> /\ recorders = Off /\ flushTimer = Off

(* The newest choice waits, runs, or is the mode.                             *)
ChoiceKept ==
  chosen # Off /\ (untouched \/ chosen \notin {Base, Escalated})
    /\ lifecycle \in {"created", "active"} =>
    \/ \E k \in DOMAIN tail : Manual(k) /\ tail[k].generation = intent
    \/ Running("manual") /\ running.target = chosen
    \/ running = Idle /\ mode = chosen

CIInv ==
  /\ Typed /\ Ordered(tail) /\ NewestWaits /\ OlderWishes /\ Limited
  /\ PhaseFits /\ Installed /\ ChoiceKept

--------------------------------------------------------------------------------
(* Queues.                                                                    *)

LEMMA Appended ==
  ASSUME NEW S, NEW q \in Seq(S), NEW x \in S
  PROVE  /\ Append(q, x) \in Seq(S) /\ DOMAIN Append(q, x) = 1 .. Len(q) + 1
         /\ DOMAIN q = 1 .. Len(q) /\ Len(q) \in Nat
         /\ \A k \in DOMAIN q : Append(q, x)[k] = q[k]
         /\ Append(q, x)[Len(q) + 1] = x
  OBVIOUS

LEMMA Taken ==
  ASSUME NEW S, NEW q \in Seq(S), q # <<>>
  PROVE  /\ Tail(q) \in Seq(S) /\ DOMAIN q = 1 .. Len(q) /\ Len(q) \in Nat \ {0}
         /\ DOMAIN Tail(q) = 1 .. Len(q) - 1
         /\ Head(q) = q[1] /\ Head(q) \in S
         /\ \A k \in DOMAIN Tail(q) : Tail(q)[k] = q[k + 1] /\ k + 1 \in DOMAIN q
         /\ \A k \in DOMAIN q : k # 1 => k - 1 \in DOMAIN Tail(q)
  OBVIOUS

LEMMA Narrowed ==
  ASSUME NEW S, NEW T, NEW q \in Seq(S), \A k \in DOMAIN q : q[k] \in T
  PROVE  q \in Seq(T)
  OBVIOUS

(* What waits, as one condition, so that an action shows it once.             *)
QueueInv ==
  /\ intent \in Nat
  /\ wishes \in Seq(Nat) /\ \A k \in DOMAIN wishes : wishes[k] <= intent
  /\ tail \in Seq(Transitional) /\ \A k \in DOMAIN tail : tail[k].generation <= intent
  /\ Ordered(tail) /\ NewestWaits /\ OlderWishes

LEMMA Waiting ==
  ASSUME QueueInv
  PROVE  /\ intent \in Nat
         /\ \A k \in DOMAIN tail : /\ tail[k] \in Transitional /\ tail[k].generation \in Nat
                                   /\ tail[k].generation <= intent
<1>1. \A k \in DOMAIN tail : tail[k] \in Transitional  BY DEF QueueInv
<1>2. \A t \in Transitional : t.generation \in Nat  BY DEF Transitional
<1> QED  BY <1>1, <1>2 DEF QueueInv

(* The head of the queue is taken; if it was a choice, the choices that were  *)
(* made are at least that many.                                               *)
LEMMA HeadTaken ==
  ASSUME QueueInv, tail # <<>>, tail' = Rest, Others
  PROVE  /\ QueueInv'
         /\ Made' \subseteq Made
         /\ Head(tail) \in Transitional /\ Head(tail) = tail[1] /\ 1 \in DOMAIN tail
         /\ Head(tail).by = "manual" =>
              /\ Head(tail).generation - 1 \in Made
              /\ \A n \in Made' : Head(tail).generation <= n
<1>1. /\ tail' \in Seq(Transitional) /\ DOMAIN tail = 1 .. Len(tail) /\ Len(tail) \in Nat \ {0}
      /\ DOMAIN tail' = 1 .. Len(tail) - 1
      /\ Head(tail) = tail[1] /\ Head(tail) \in Transitional
      /\ \A k \in DOMAIN tail' : tail'[k] = tail[k + 1] /\ k + 1 \in DOMAIN tail
      /\ \A k \in DOMAIN tail : k # 1 => k - 1 \in DOMAIN tail'
  BY Taken DEF QueueInv, Rest
<1>2. /\ intent' = intent /\ wishes' = wishes /\ chosen' = chosen /\ untouched' = untouched
  BY DEF Others
<1>3. \A k \in DOMAIN tail' : tail'[k].generation <= intent  BY <1>1 DEF QueueInv
<1>4. Ordered(tail')
  <2> SUFFICES ASSUME NEW j \in DOMAIN tail', NEW k \in DOMAIN tail', j < k,
                      tail'[k].by = "manual"
               PROVE  tail'[j].generation < tail'[k].generation
    BY DEF Ordered
  <2>1. j + 1 \in DOMAIN tail /\ k + 1 \in DOMAIN tail /\ j + 1 < k + 1  BY <1>1
  <2>2. tail'[j] = tail[j + 1] /\ tail'[k] = tail[k + 1]  BY <1>1
  <2> QED  BY <2>1, <2>2 DEF QueueInv, Ordered
<1>5. NewestWaits'
  <2> SUFFICES ASSUME NEW k \in DOMAIN tail', tail'[k].by = "manual"
               PROVE  /\ tail'[k].generation = intent => tail'[k].target = chosen
                      /\ \E j \in DOMAIN tail' : k <= j /\ tail'[j].by = "manual"
                                                 /\ tail'[j].generation = intent
    BY <1>2 DEF NewestWaits, Manual
  <2>1. k + 1 \in DOMAIN tail /\ tail[k + 1].by = "manual" /\ tail'[k] = tail[k + 1]  BY <1>1
  <2>2. PICK j \in DOMAIN tail : k + 1 <= j /\ tail[j].by = "manual"
                                 /\ tail[j].generation = intent
    BY <2>1 DEF QueueInv, NewestWaits, Manual
  <2>3. j - 1 \in DOMAIN tail' /\ k <= j - 1 /\ tail'[j - 1] = tail[j]  BY <1>1, <2>2
  <2>4. tail[k + 1].generation = intent => tail[k + 1].target = chosen
    BY <2>1 DEF QueueInv, NewestWaits, Manual
  <2> QED  BY <2>1, <2>2, <2>3, <2>4
<1>6. OlderWishes'  BY <1>1, <1>2 DEF QueueInv, OlderWishes, Manual
<1>7. Made' \subseteq Made  BY <1>1, <1>2 DEF Made, Manual
<1>8. ASSUME Head(tail).by = "manual"
      PROVE  /\ Head(tail).generation - 1 \in Made
             /\ \A n \in Made' : Head(tail).generation <= n
  <2>1. 1 \in DOMAIN tail /\ tail[1].by = "manual"  BY <1>1, <1>8
  <2>2. Head(tail).generation - 1 \in Made  BY <1>1, <2>1 DEF Made, Manual
  <2>3. tail[1].generation <= intent /\ tail[1].generation \in Nat
    BY <1>1, <2>1, Waiting
  <2>4. ASSUME NEW k \in DOMAIN tail', tail'[k].by = "manual"
        PROVE  tail[1].generation <= tail'[k].generation - 1
    <3>1. k + 1 \in DOMAIN tail /\ 1 < k + 1 /\ tail'[k] = tail[k + 1]  BY <1>1
    <3>2. tail[1].generation < tail[k + 1].generation
      BY <2>1, <2>4, <3>1 DEF QueueInv, Ordered
    <3>3. tail[k + 1].generation \in Nat  BY <3>1, Waiting
    <3> QED  BY <2>3, <3>1, <3>2, <3>3
  <2>5. \A n \in Made' :
          n = intent \/ \E k \in DOMAIN tail' : /\ tail'[k].by = "manual"
                                                /\ n = tail'[k].generation - 1
    BY <1>2 DEF Made, Manual
  <2>6. \A n \in Made' : tail[1].generation <= n  BY <2>3, <2>4, <2>5
  <2> QED  BY <1>1, <2>2, <2>6
<1> QED  BY <1>1, <1>2, <1>3, <1>4, <1>5, <1>6, <1>7, <1>8 DEF QueueInv

(* A transition the adaptive policy wants joins the queue, at a generation    *)
(* that is not newer than the newest choice.                                  *)
LEMMA AdaptiveQueued ==
  ASSUME QueueInv, NEW target \in Modes, NEW g \in Nat, g <= intent,
         tail' = Append(tail, Transition("adaptive", target, g)),
         intent' = intent, chosen' = chosen,
         wishes' \in Seq(Nat), \A k \in DOMAIN wishes' : wishes'[k] <= intent,
         untouched' => /\ g < intent /\ untouched
                       /\ \A k \in DOMAIN wishes' : wishes'[k] < intent
  PROVE  /\ QueueInv' /\ Made' = Made
         /\ \A k \in DOMAIN tail : k \in DOMAIN tail' /\ tail'[k] = tail[k]
<1> DEFINE t == Transition("adaptive", target, g)
<1>1. t \in Transitional /\ t.by = "adaptive" /\ t.generation = g
  BY DEF Transition, Transitional
<1>2. tail' = Append(tail, t)  OBVIOUS
<1> HIDE DEF t
<1>3. /\ tail' \in Seq(Transitional) /\ DOMAIN tail' = 1 .. Len(tail) + 1
      /\ DOMAIN tail = 1 .. Len(tail) /\ Len(tail) \in Nat
      /\ \A k \in DOMAIN tail : tail'[k] = tail[k]
      /\ tail'[Len(tail) + 1] = t
  BY <1>1, <1>2, Appended DEF QueueInv
<1>4. \A k \in DOMAIN tail' : k \in DOMAIN tail \/ k = Len(tail) + 1  BY <1>3
<1>5. \A k \in DOMAIN tail' : tail'[k].generation <= intent'
  BY <1>1, <1>3, <1>4 DEF QueueInv
<1>6. Ordered(tail')
  <2>1. \A j, k \in DOMAIN tail' : j < k /\ tail'[k].by = "manual" =>
          j \in DOMAIN tail /\ k \in DOMAIN tail
    BY <1>1, <1>3, <1>4
  <2> QED  BY <1>3, <2>1 DEF QueueInv, Ordered
<1>7. NewestWaits'
  <2>1. \A k \in DOMAIN tail' : tail'[k].by = "manual" => k \in DOMAIN tail  BY <1>1, <1>3, <1>4
  <2>2. DOMAIN tail \subseteq DOMAIN tail'  BY <1>3
  <2> QED  BY <1>3, <2>1, <2>2 DEF QueueInv, NewestWaits, Manual
<1>8. OlderWishes'  BY <1>1, <1>3, <1>4 DEF QueueInv, OlderWishes, Manual
<1>9. Made' = Made
  <2>1. {tail'[k].generation - 1 : k \in {j \in DOMAIN tail' : tail'[j].by = "manual"}}
          = {tail[k].generation - 1 : k \in {j \in DOMAIN tail : tail[j].by = "manual"}}
    <3>1. {j \in DOMAIN tail' : tail'[j].by = "manual"} = {j \in DOMAIN tail : tail[j].by = "manual"}
      BY <1>1, <1>3, <1>4
    <3> QED  BY <1>3, <3>1
  <2> QED  BY <2>1 DEF Made, Manual
<1> QED  BY <1>3, <1>5, <1>6, <1>7, <1>8, <1>9 DEF QueueInv

(* A choice of the application joins it and is the newest.                    *)
LEMMA ChoiceQueued ==
  ASSUME QueueInv, NEW m \in Modes,
         tail' = Append(tail, Transition("manual", m, intent + 1)),
         intent' = intent + 1, chosen' = m, untouched', wishes' = wishes
  PROVE  /\ QueueInv'
         /\ \A n \in Made' : n = intent + 1 \/ n = intent \/ n \in Made
         /\ \E k \in DOMAIN tail' : Manual(k)' /\ tail'[k].generation = intent'
<1> DEFINE t == Transition("manual", m, intent + 1)
<1>1. t \in Transitional /\ t.by = "manual" /\ t.generation = intent + 1 /\ t.target = m
  <2>1. intent + 1 \in Nat  BY DEF QueueInv
  <2> QED  BY <2>1 DEF Transition, Transitional
<1>2. tail' = Append(tail, t)  OBVIOUS
<1> HIDE DEF t
<1>3. /\ tail' \in Seq(Transitional) /\ DOMAIN tail' = 1 .. Len(tail) + 1
      /\ DOMAIN tail = 1 .. Len(tail) /\ Len(tail) \in Nat
      /\ \A k \in DOMAIN tail : tail'[k] = tail[k]
      /\ tail'[Len(tail) + 1] = t
  BY <1>1, <1>2, Appended DEF QueueInv
<1>4. \A k \in DOMAIN tail' : k \in DOMAIN tail \/ k = Len(tail) + 1  BY <1>3
<1>5. \A k \in DOMAIN tail : tail[k].generation \in Nat /\ tail[k].generation < intent + 1
  BY Waiting
<1>6. \A k \in DOMAIN tail' : tail'[k].generation <= intent'
  BY <1>1, <1>3, <1>4, <1>5 DEF QueueInv
<1>7. Ordered(tail')
  <2> SUFFICES ASSUME NEW j \in DOMAIN tail', NEW k \in DOMAIN tail', j < k,
                      tail'[k].by = "manual"
               PROVE  tail'[j].generation < tail'[k].generation
    BY DEF Ordered
  <2>1. CASE k \in DOMAIN tail  BY <1>3, <2>1 DEF QueueInv, Ordered
  <2>2. CASE k = Len(tail) + 1
    <3>1. j \in DOMAIN tail  BY <1>3, <2>2
    <3> QED  BY <1>1, <1>3, <1>5, <2>2, <3>1
  <2> QED  BY <1>4, <2>1, <2>2
<1>8. Len(tail) + 1 \in DOMAIN tail' /\ tail'[Len(tail) + 1].by = "manual"
        /\ tail'[Len(tail) + 1].generation = intent'
  BY <1>1, <1>3
<1>9. NewestWaits'
  <2> SUFFICES ASSUME NEW k \in DOMAIN tail', tail'[k].by = "manual"
               PROVE  /\ tail'[k].generation = intent' => tail'[k].target = chosen'
                      /\ \E j \in DOMAIN tail' : k <= j /\ tail'[j].by = "manual"
                                                 /\ tail'[j].generation = intent'
    BY DEF NewestWaits, Manual
  <2>1. tail'[k].generation = intent' => tail'[k].target = chosen'
    BY <1>1, <1>3, <1>4, <1>5 DEF QueueInv
  <2>2. k <= Len(tail) + 1  BY <1>3
  <2> QED  BY <1>8, <2>1, <2>2
<1>10. OlderWishes'
  <2>1. \A k \in DOMAIN wishes : wishes[k] \in Nat /\ wishes[k] < intent + 1  BY DEF QueueInv
  <2> QED  BY <1>1, <1>3, <1>4, <1>5, <2>1 DEF OlderWishes, Manual
<1>11. \A n \in Made' : n = intent + 1 \/ n = intent \/ n \in Made
  <2>1. \A k \in DOMAIN tail' : tail'[k].by = "manual" =>
          \/ k \in DOMAIN tail /\ tail[k].by = "manual" /\ tail'[k].generation = tail[k].generation
          \/ tail'[k].generation = intent + 1
    BY <1>1, <1>3, <1>4
  <2> QED  BY <2>1 DEF Made, Manual, QueueInv
<1>12. intent' \in Nat /\ wishes' \in Seq(Nat) /\ \A k \in DOMAIN wishes' : wishes'[k] <= intent'
  BY DEF QueueInv
<1> QED  BY <1>3, <1>6, <1>7, <1>8, <1>9, <1>10, <1>11, <1>12 DEF QueueInv, Manual

--------------------------------------------------------------------------------
(* Transitions.                                                               *)

(* What a transition needs to know of the adaptive state when it ends.        *)
Wanted(t, a) ==
  t.by = "adaptive" => \/ t.target = Escalated /\ a.phase \in {"base", "pinned"}
                       \/ t.target = Base /\ a.phase = "escalated"

Within(a, more, n) == a.switches + more <= MaxSwitches + n + One(a.phase = "pinned")

(* A transition that goes on from a wait, or from its start, ends or waits    *)
(* again; it then counts no more than when it was under way.                  *)
Landing(t, a) ==
  /\ adaptive' \in Adaptives
  /\ \A n \in Int : Within(a, 1, n) => Within(adaptive', One(running' # Idle), n)
  /\ \/ /\ running' = Idle /\ Fits(adaptive'.phase, t.target)
        /\ flushTimer' = IF t.wasActive THEN Timer(t.target) ELSE flushTimer
     \/ /\ running' \in Begun /\ running' # Idle
        /\ running'.by = t.by /\ running'.target = t.target /\ running'.from = t.from
        /\ running'.wasActive = t.wasActive /\ running'.at \in {"ack", "flush"}
        /\ running'.at = "flush" => t.wasActive
        /\ adaptive' = a /\ flushTimer' = flushTimer

LEMMA BegunFacts ==
  ASSUME NEW t \in Begun
  PROVE  /\ t.by \in {"manual", "adaptive"} /\ t.target \in Modes /\ t.from \in Modes
         /\ t.wasActive \in BOOLEAN /\ t.at \in Waits /\ t # Idle
         /\ \A point \in Waits :
              /\ [t EXCEPT !.at = point] \in Begun /\ [t EXCEPT !.at = point] # Idle
              /\ [t EXCEPT !.at = point].by = t.by
              /\ [t EXCEPT !.at = point].target = t.target
              /\ [t EXCEPT !.at = point].from = t.from
              /\ [t EXCEPT !.at = point].wasActive = t.wasActive
              /\ [t EXCEPT !.at = point].at = point
<1>1. \A r \in Begun : r.by # None  BY DEF Begun, None
<1>2. \A r \in Begun : r # Idle  BY <1>1 DEF Idle
<1>3. \A point \in Waits : [t EXCEPT !.at = point] \in Begun  BY DEF Begun
<1> QED  BY <1>2, <1>3 DEF Begun

(* reconcileManualAdaptiveState and the end of applyAdaptiveCaptureMode leave *)
(* a phase that fits the mode the transition went to.                         *)
LEMMA ReconciledFits ==
  ASSUME NEW target \in Modes, NEW a \in Adaptives
  PROVE  /\ Reconciled(target, a) \in Adaptives
         /\ Fits(Reconciled(target, a).phase, target)
         /\ Reconciled(target, a).phase # "pinned"
         /\ Reconciled(target, a).switches = a.switches
<1>1. CASE target = Base
  <2>1. Reconciled(target, a) = [a EXCEPT !.phase = "base"]
    BY <1>1, ModeAssumption DEF Reconciled
  <2> QED  BY <1>1, <2>1 DEF Adaptives, Phases, Fits
<1>2. CASE target = Escalated
  <2>1. Reconciled(target, a) = [a EXCEPT !.phase = "escalated", !.escalation = "young",
                                          !.capture = "recent", !.window = TRUE]
    BY <1>2, ModeAssumption DEF Reconciled
  <2> QED  BY <1>2, <2>1 DEF Adaptives, Phases, Fits
<1>3. CASE target # Base /\ target # Escalated
  <2>1. Reconciled(target, a) = [a EXCEPT !.phase = "manual"]  BY <1>3 DEF Reconciled
  <2> QED  BY <1>3, <2>1 DEF Adaptives, Phases, Fits
<1> QED  BY <1>1, <1>2, <1>3

LEMMA AdaptedFits ==
  ASSUME NEW a \in Adaptives, NEW target \in Modes,
         \/ target = Escalated /\ a.phase \in {"base", "pinned"}
         \/ target = Base /\ a.phase = "escalated"
  PROVE  /\ Adapted(target, a) \in Adaptives
         /\ Fits(Adapted(target, a).phase, target)
         /\ Adapted(target, a).switches = a.switches + 1
         /\ a.phase = "pinned" => Adapted(target, a).phase = "pinned"
<1>1. a.switches + 1 \in Nat  BY DEF Adaptives
<1>2. CASE target = Escalated
  <2> DEFINE phase == IF a.phase = "pinned" THEN "pinned" ELSE "escalated"
  <2>1. Adapted(target, a) = [a EXCEPT !.switches = a.switches + 1, !.escalation = "young",
                                       !.phase = phase]
    BY <1>2 DEF Adapted, Adaptives
  <2>2. phase \in {"pinned", "escalated"} /\ (a.phase = "pinned" => phase = "pinned")  OBVIOUS
  <2> HIDE DEF phase
  <2> QED  BY <1>1, <1>2, <2>1, <2>2 DEF Adaptives, Phases, Fits
<1>3. CASE target = Base
  <2>1. Adapted(target, a) = [a EXCEPT !.switches = a.switches + 1, !.phase = "base"]
    BY <1>3, ModeAssumption DEF Adapted, Adaptives
  <2> QED  BY <1>1, <1>3, <2>1, ModeAssumption DEF Adaptives, Phases, Fits
<1> QED  BY <1>2, <1>3

LEMMA Completing ==
  ASSUME NEW t \in Begun, NEW a \in Adaptives, Wanted(t, a), Complete(t, a)
  PROVE  Landing(t, a)
<1>1. running' = Idle /\ flushTimer' = (IF t.wasActive THEN Timer(t.target) ELSE flushTimer)
  BY DEF Complete
<1>2. t.target \in Modes /\ t.by \in {"manual", "adaptive"}  BY BegunFacts
<1>3. a.switches \in Nat  BY DEF Adaptives
<1>4. One(running' # Idle) = 0  BY <1>1 DEF One
<1>5. CASE t.by = "manual"
  <2>1. adaptive' = Reconciled(t.target, a)  BY <1>5 DEF Complete
  <2>2. /\ adaptive' \in Adaptives /\ Fits(adaptive'.phase, t.target)
        /\ adaptive'.phase # "pinned" /\ adaptive'.switches = a.switches
    BY <1>2, <2>1, ReconciledFits
  <2>3. \A n \in Int : Within(a, 1, n) => Within(adaptive', One(running' # Idle), n)
    BY <1>3, <1>4, <2>2, BoundAssumption DEF Within, One
  <2> QED  BY <1>1, <2>2, <2>3 DEF Landing
<1>6. CASE t.by = "adaptive"
  <2>1. adaptive' = Adapted(t.target, a)  BY <1>6 DEF Complete
  <2>2. /\ adaptive' \in Adaptives /\ Fits(adaptive'.phase, t.target)
        /\ adaptive'.switches = a.switches + 1
        /\ a.phase = "pinned" => adaptive'.phase = "pinned"
    BY <1>2, <1>6, <2>1, AdaptedFits DEF Wanted
  <2>3. \A n \in Int : Within(a, 1, n) => Within(adaptive', One(running' # Idle), n)
    BY <1>3, <1>4, <2>2, BoundAssumption DEF Within, One
  <2> QED  BY <1>1, <2>2, <2>3 DEF Landing
<1> QED  BY <1>2, <1>5, <1>6

LEMMA Awaiting ==
  ASSUME NEW t \in Begun, NEW a \in Adaptives, NEW point \in {"ack", "flush"},
         point = "flush" => t.wasActive, Await(t, point, a)
  PROVE  Landing(t, a)
<1>1. running' = [t EXCEPT !.at = point] /\ adaptive' = a /\ flushTimer' = flushTimer
  BY DEF Await
<1>2. point \in Waits  BY DEF Waits
<1>3. /\ running' \in Begun /\ running' # Idle
      /\ running'.by = t.by /\ running'.target = t.target /\ running'.from = t.from
      /\ running'.wasActive = t.wasActive /\ running'.at = point
  BY <1>1, <1>2, BegunFacts
<1>4. One(running' # Idle) = 1  BY <1>3 DEF One
<1> QED  BY <1>1, <1>3, <1>4 DEF Landing

LEMMA Advancing ==
  ASSUME NEW t \in Begun, NEW a \in Adaptives, Wanted(t, a)
  PROVE  /\ FlushOrComplete(t, a) => Landing(t, a)
         /\ SwitchOver(t, a) => /\ mode' = t.target /\ Landing(t, a)
                                /\ recorders' = IF t.wasActive THEN t.target ELSE recorders
<1>1. FlushOrComplete(t, a) => Landing(t, a)
  <2> SUFFICES ASSUME FlushOrComplete(t, a)  PROVE Landing(t, a)  OBVIOUS
  <2>1. CASE t.wasActive /\ (t.from = Fast) # (t.target = Fast)
    <3>1. Await(t, "flush", a)  BY <2>1 DEF FlushOrComplete
    <3> QED  BY <2>1, <3>1, Awaiting
  <2>2. CASE ~(t.wasActive /\ (t.from = Fast) # (t.target = Fast))
    <3>1. Complete(t, a)  BY <2>2 DEF FlushOrComplete
    <3> QED  BY <3>1, Completing
  <2> QED  BY <2>1, <2>2
<1>2. SwitchOver(t, a) => Landing(t, a)
  <2> SUFFICES ASSUME SwitchOver(t, a)  PROVE Landing(t, a)  OBVIOUS
  <2>1. CASE t.target \in Assembled
    <3>1. Await(t, "ack", a)  BY <2>1 DEF SwitchOver
    <3> QED  BY <3>1, Awaiting
  <2>2. CASE t.target \notin Assembled
    <3>1. FlushOrComplete(t, a)  BY <2>2 DEF SwitchOver
    <3> QED  BY <1>1, <3>1
  <2> QED  BY <2>1, <2>2
<1> QED  BY <1>1, <1>2 DEF SwitchOver

(* ... in a state that fits: the phase, the mode and what is installed.       *)
LEMMA Lands ==
  ASSUME NEW t \in Begun, NEW a \in Adaptives, t.from # t.target, Wanted(t, a),
         Landing(t, a), mode' = t.target, lifecycle' = lifecycle,
         flushTimer \in (Modes \ {Fast}) \union {Off},
         lifecycle # "shutdown",
         lifecycle = "created" =>
           recorders' = Off /\ flushTimer = Off /\ ~t.wasActive,
         lifecycle = "active" =>
           /\ recorders' = t.target
           /\ flushTimer = Timer(IF t.wasActive THEN t.from ELSE t.target)
  PROVE  /\ running' \in Begun \union {Idle} /\ mode' \in Modes
         /\ flushTimer' \in (Modes \ {Fast}) \union {Off}
         /\ PhaseFits' /\ Installed'
<1>1. t.target \in Modes /\ t.from \in Modes  BY BegunFacts
<1>2. CASE /\ running' = Idle /\ Fits(adaptive'.phase, t.target)
           /\ flushTimer' = IF t.wasActive THEN Timer(t.target) ELSE flushTimer
  <2>1. flushTimer' \in (Modes \ {Fast}) \union {Off}  BY <1>1, <1>2 DEF Timer
  <2>2. PhaseFits'  BY <1>2 DEF PhaseFits
  <2>3. Installed'
    <3>1. lifecycle' = "created" => recorders' = Off /\ flushTimer' = Off  BY <1>2
    <3>2. lifecycle' = "active" => recorders' = mode' /\ flushTimer' = Timer(mode')  BY <1>2
    <3> QED  BY <1>2, <3>1, <3>2 DEF Installed
  <2> QED  BY <1>1, <1>2, <2>1, <2>2, <2>3
<1>3. CASE /\ running' \in Begun /\ running' # Idle
           /\ running'.by = t.by /\ running'.target = t.target /\ running'.from = t.from
           /\ running'.wasActive = t.wasActive /\ running'.at \in {"ack", "flush"}
           /\ running'.at = "flush" => t.wasActive
           /\ adaptive' = a /\ flushTimer' = flushTimer
  <2>1. PhaseFits'  BY <1>3 DEF PhaseFits, Wanted
  <2>2. Installed'
    <3>1. lifecycle' = "created" => recorders' = Off /\ flushTimer' = Off /\ ~running'.wasActive
      BY <1>3
    <3>2. lifecycle' = "active" =>
            /\ recorders' = mode'
            /\ flushTimer' = Timer(IF running'.wasActive THEN running'.from ELSE mode')
      BY <1>3
    <3> QED  BY <1>3, <3>1, <3>2 DEF Installed
  <2> QED  BY <1>1, <1>3, <2>1, <2>2
<1> QED  BY <1>2, <1>3 DEF Landing

--------------------------------------------------------------------------------
(* The steps.                                                                 *)

LEMMA CIInvFacts ==
  ASSUME CIInv
  PROVE  /\ QueueInv /\ Typed /\ Limited /\ PhaseFits /\ Installed /\ ChoiceKept
         /\ adaptive.switches \in Nat /\ Made \subseteq Int
<1>1. intent \in Nat  BY DEF CIInv, Typed
<1>2. QueueInv  BY <1>1 DEF CIInv, Typed, QueueInv
<1>3. \A k \in DOMAIN tail : tail[k].generation - 1 \in Int  BY <1>2, Waiting
<1>4. Made \subseteq Int  BY <1>1, <1>3 DEF Made
<1>5. adaptive.switches \in Nat  BY DEF CIInv, Typed, Adaptives
<1> QED  BY <1>2, <1>4, <1>5 DEF CIInv

(* A transition that was awaited goes on.                                     *)
LEMMA GoesOn ==
  ASSUME CIInv, running # Idle, Landing(running, adaptive), mode' = running.target,
         recorders' = running.target \/ (recorders' = recorders /\ mode = running.target),
         running.wasActive \/ (mode = running.target /\ recorders' = recorders),
         tail' = tail, Others
  PROVE  CIInv'
<1>1. /\ QueueInv /\ Typed /\ Limited /\ PhaseFits /\ Installed /\ ChoiceKept /\ Made \subseteq Int
  BY CIInvFacts
<1>2. /\ lifecycle' = lifecycle /\ intent' = intent /\ scheduled' = scheduled
      /\ wishes' = wishes /\ captures' = captures /\ chosen' = chosen /\ untouched' = untouched
  BY DEF Others
<1>3. running \in Begun /\ adaptive \in Adaptives  BY <1>1 DEF Typed
<1>4. running.from # running.target /\ Wanted(running, adaptive)
  BY <1>1 DEF PhaseFits, Wanted
<1>5. lifecycle # "shutdown"  BY <1>1 DEF Installed
<1>6. lifecycle = "created" => recorders' = Off /\ flushTimer = Off /\ ~running.wasActive
  BY <1>1 DEF Installed
<1>7. lifecycle = "active" =>
        /\ recorders' = running.target
        /\ flushTimer = Timer(IF running.wasActive THEN running.from ELSE running.target)
  BY <1>1 DEF Installed
<1>8. flushTimer \in (Modes \ {Fast}) \union {Off}  BY <1>1 DEF Typed
<1>9. /\ running' \in Begun \union {Idle} /\ mode' \in Modes
      /\ flushTimer' \in (Modes \ {Fast}) \union {Off}
      /\ PhaseFits' /\ Installed'
  BY <1>2, <1>3, <1>4, <1>5, <1>6, <1>7, <1>8, Lands
<1>10. adaptive' \in Adaptives  BY DEF Landing
<1>11. recorders' \in Modes \union {Off}  BY <1>1, <1>3, BegunFacts DEF Typed
<1>12. QueueInv' /\ Made' = Made
  BY <1>1, <1>2 DEF QueueInv, NewestWaits, OlderWishes, Made, Manual, Ordered
<1>13. Limited'
  <2>1. \A n \in Made : Within(adaptive, 1, n)  BY <1>1 DEF Limited, Within, One
  <2>2. \A n \in Made : Within(adaptive', One(running' # Idle), n)
    BY <1>1, <2>1 DEF Landing
  <2> QED  BY <1>12, <2>2 DEF Limited, Within
<1>14. ChoiceKept'
  <2> SUFFICES ASSUME chosen # Off, untouched \/ chosen \notin {Base, Escalated},
                      lifecycle \in {"created", "active"}
               PROVE  \/ \E k \in DOMAIN tail : Manual(k) /\ tail[k].generation = intent
                      \/ Running("manual")' /\ running'.target = chosen
                      \/ running' = Idle /\ mode' = chosen
    BY <1>2 DEF ChoiceKept, Manual
  <2>1. CASE \E k \in DOMAIN tail : Manual(k) /\ tail[k].generation = intent  BY <2>1
  <2>2. CASE Running("manual") /\ running.target = chosen
    BY <2>2 DEF Landing, Running
  <2> QED  BY <1>1, <2>1, <2>2 DEF ChoiceKept
<1>15. Typed'  BY <1>1, <1>2, <1>9, <1>10, <1>11, <1>12 DEF Typed, QueueInv
<1> QED  BY <1>9, <1>12, <1>13, <1>14, <1>15 DEF CIInv, QueueInv

LEMMA AwaitedSteps ==
  ASSUME CIInv, Drained \/ Acknowledged \/ Flushed
  PROVE  CIInv'
<1>1. Typed /\ PhaseFits /\ Installed  BY CIInvFacts
<1>2. running # Idle /\ running \in Begun /\ adaptive \in Adaptives
  BY <1>1 DEF Drained, Acknowledged, Flushed, Typed
<1>3. Wanted(running, adaptive)  BY <1>1, <1>2 DEF PhaseFits, Wanted
<1>4. CASE Drained
  <2>1. running.wasActive  BY <1>1, <1>4 DEF Drained, PhaseFits
  <2>2. mode' = running.target /\ recorders' = running.target /\ Landing(running, adaptive)
    BY <1>2, <1>3, <1>4, <2>1, Advancing DEF Drained
  <2>3. running # Idle /\ tail' = tail /\ Others  BY <1>4 DEF Drained
  <2> QED  BY <2>1, <2>2, <2>3, GoesOn
<1>5. CASE Acknowledged
  <2>1. mode = running.target  BY <1>1, <1>5 DEF Acknowledged, PhaseFits
  <2>2. Landing(running, adaptive)  BY <1>2, <1>3, <1>5, Advancing DEF Acknowledged
  <2> QED  BY <1>2, <1>5, <2>1, <2>2, GoesOn DEF Acknowledged
<1>6. CASE Flushed
  <2>1. mode = running.target  BY <1>1, <1>6 DEF Flushed, PhaseFits
  <2>2. Landing(running, adaptive)  BY <1>2, <1>3, <1>6, Completing DEF Flushed
  <2> QED  BY <1>2, <1>6, <2>1, <2>2, GoesOn DEF Flushed
<1> QED  BY <1>4, <1>5, <1>6

(* A transition begins: at once, or with a flush of the mode it leaves.       *)
LEMMA Beginning ==
  ASSUME CIInv, running = Idle, NEW t \in Transitional, NEW a \in Adaptives,
         t.target # mode, lifecycle \in {"created", "active"},
         t.by = "adaptive" => \/ t.target = Escalated /\ a.phase \in {"base", "pinned"}
                              \/ t.target = Base /\ a.phase = "escalated",
         Begin(t, a), lifecycle' = lifecycle
  PROVE  /\ running' \in Begun \union {Idle} /\ mode' \in Modes /\ adaptive' \in Adaptives
         /\ flushTimer' \in (Modes \ {Fast}) \union {Off} /\ recorders' \in Modes \union {Off}
         /\ PhaseFits' /\ Installed'
         /\ \A n \in Int : Within(a, 1, n) => Within(adaptive', One(running' # Idle), n)
         /\ running' # Idle => running'.by = t.by /\ running'.target = t.target
         /\ running' = Idle => mode' = t.target
<1> DEFINE b == [by |-> t.by, target |-> t.target, from |-> mode,
                 wasActive |-> lifecycle = "active", at |-> "drain"]
<1>1. Typed /\ PhaseFits /\ Installed  BY CIInvFacts
<1>2. mode \in Modes /\ t.target \in Modes /\ t.by \in {"manual", "adaptive"}
  BY <1>1 DEF Typed, Transitional
<1>3. (lifecycle = "active") \in BOOLEAN  OBVIOUS
<1>4. b \in Begun  BY <1>2, <1>3 DEF Begun, Waits
<1>5. /\ b.by = t.by /\ b.target = t.target /\ b.from = mode /\ b.at = "drain"
      /\ b.wasActive <=> lifecycle = "active"
  OBVIOUS
<1>6. IF b.wasActive /\ mode # Fast /\ t.target = Fast
      THEN Await(b, "drain", a) /\ UNCHANGED <<mode, recorders>>
      ELSE SwitchOver(b, a)
  BY DEF Begin
<1>7. \/ recorders = Off /\ flushTimer = Off /\ lifecycle = "created"
      \/ recorders = mode /\ flushTimer = Timer(mode) /\ lifecycle = "active"
  BY <1>1 DEF Installed
<1> HIDE DEF b
<1>8. Wanted(b, a)  BY <1>5 DEF Wanted
<1>9. CASE b.wasActive /\ mode # Fast /\ t.target = Fast
  <2>1. running' = [b EXCEPT !.at = "drain"] /\ adaptive' = a /\ flushTimer' = flushTimer
        /\ mode' = mode /\ recorders' = recorders
    BY <1>6, <1>9 DEF Await
  <2>2. "drain" \in Waits  BY DEF Waits
  <2>3. /\ running' \in Begun /\ running' # Idle
        /\ running'.by = b.by /\ running'.target = b.target /\ running'.from = b.from
        /\ running'.wasActive = b.wasActive /\ running'.at = "drain"
    BY <1>4, <2>1, <2>2, BegunFacts
  <2>4. PhaseFits'  BY <1>2, <1>5, <1>8, <1>9, <2>1, <2>3 DEF PhaseFits, Wanted
  <2>5. Installed'  BY <1>5, <1>7, <1>9, <2>1, <2>3 DEF Installed
  <2>6. One(running' # Idle) = 1  BY <2>3 DEF One
  <2> QED  BY <1>1, <1>2, <1>5, <2>1, <2>3, <2>4, <2>5, <2>6 DEF Typed
<1>10. CASE ~(b.wasActive /\ mode # Fast /\ t.target = Fast)
  <2>1. SwitchOver(b, a)  BY <1>6, <1>10
  <2>2. mode' = t.target /\ Landing(b, a)
        /\ recorders' = IF b.wasActive THEN t.target ELSE recorders
    BY <1>4, <1>5, <1>8, <2>1, Advancing
  <2>3. flushTimer \in (Modes \ {Fast}) \union {Off}  BY <1>1 DEF Typed
  <2>4. lifecycle = "created" => recorders' = Off /\ flushTimer = Off /\ ~b.wasActive
    BY <1>5, <1>7, <2>2
  <2>5. lifecycle = "active" =>
          recorders' = t.target /\ flushTimer = Timer(IF b.wasActive THEN b.from ELSE b.target)
    BY <1>5, <1>7, <2>2
  <2>6. /\ running' \in Begun \union {Idle} /\ mode' \in Modes
        /\ flushTimer' \in (Modes \ {Fast}) \union {Off} /\ PhaseFits' /\ Installed'
    BY <1>4, <1>5, <1>8, <2>2, <2>3, <2>4, <2>5, Lands
  <2>7. recorders' \in Modes \union {Off}  BY <1>1, <1>2, <2>2 DEF Typed
  <2> QED  BY <1>5, <2>2, <2>6, <2>7 DEF Landing
<1> QED  BY <1>9, <1>10

(* applyManualCaptureMode                                                     *)
LEMMA ManualStep ==
  ASSUME CIInv, StartManual
  PROVE  CIInv'
<1> DEFINE h == Head(tail)
<1>1. /\ QueueInv /\ Typed /\ Limited /\ PhaseFits /\ Installed /\ ChoiceKept
      /\ adaptive.switches \in Nat /\ Made \subseteq Int
  BY CIInvFacts
<1>2. /\ running = Idle /\ tail # <<>> /\ h.by = "manual" /\ tail' = Rest /\ Others
  BY DEF StartManual, IsNext
<1>3. /\ lifecycle' = lifecycle /\ intent' = intent /\ scheduled' = scheduled
      /\ wishes' = wishes /\ captures' = captures /\ chosen' = chosen /\ untouched' = untouched
  BY <1>2 DEF Others
<1>4. /\ QueueInv' /\ Made' \subseteq Made /\ h \in Transitional /\ h = tail[1]
      /\ 1 \in DOMAIN tail /\ h.generation - 1 \in Made /\ \A n \in Made' : h.generation <= n
  BY <1>1, <1>2, HeadTaken
<1>5. h.generation \in Nat /\ h.target \in Modes  BY <1>4 DEF Transitional
<1>6. lifecycle # "shutdown"  BY <1>1, <1>2 DEF Installed
<1>7. adaptive \in Adaptives /\ mode \in Modes  BY <1>1 DEF Typed
(* The choice counts from now on.                                             *)
<1>8. \A n \in Made' : n \in Int /\ Within(adaptive, 1, n)
  <2>1. Within(adaptive, 0, h.generation - 1)  BY <1>1, <1>2, <1>4 DEF Limited, Within, One
  <2>2. \A n \in Int : h.generation <= n => Within(adaptive, 1, n)
    BY <1>1, <1>5, <2>1, BoundAssumption DEF Within, One
  <2> QED  BY <1>1, <1>4, <2>2
(* If it is not the newest, the newest still waits.                           *)
<1>9. ASSUME chosen # Off, untouched \/ chosen \notin {Base, Escalated},
             lifecycle \in {"created", "active"}
      PROVE  \/ \E k \in DOMAIN tail' : Manual(k)' /\ tail'[k].generation = intent
             \/ h.target = chosen
  <2>1. CASE h.generation = intent
    BY <1>1, <1>2, <1>4, <2>1 DEF QueueInv, NewestWaits, Manual
  <2>2. CASE h.generation # intent
    <3>1. PICK j \in DOMAIN tail : tail[j].by = "manual" /\ tail[j].generation = intent
      BY <1>1, <1>2, <1>4 DEF QueueInv, NewestWaits, Manual
    <3>2. j # 1  BY <1>4, <2>2, <3>1
    <3>3. j - 1 \in DOMAIN tail' /\ tail'[j - 1] = tail[j]
      <4>1. tail \in Seq(Transitional)  BY <1>1 DEF QueueInv
      <4>2. j - 1 \in DOMAIN Tail(tail) /\ Tail(tail)[j - 1] = tail[j - 1 + 1]
        BY <1>2, <3>2, <4>1, Taken
      <4>3. j \in Nat  BY <4>1
      <4> QED  BY <1>2, <4>2, <4>3 DEF Rest
    <3> QED  BY <3>1, <3>3 DEF Manual
  <2> QED  BY <2>1, <2>2
<1>10. /\ adaptive' \in Adaptives /\ mode' \in Modes /\ running' \in Begun \union {Idle}
       /\ flushTimer' \in (Modes \ {Fast}) \union {Off} /\ recorders' \in Modes \union {Off}
       /\ PhaseFits' /\ Installed'
       /\ \A n \in Made' : Within(adaptive', One(running' # Idle), n)
       /\ lifecycle \in {"created", "active"} =>
            /\ running' # Idle => running'.by = "manual" /\ running'.target = h.target
            /\ running' = Idle => mode' = h.target
  <2>1. CASE ~CanSwitchMode
    <3>1. /\ mode' = mode /\ running' = Idle /\ recorders' = recorders
          /\ flushTimer' = flushTimer /\ adaptive' = adaptive
      BY <1>2, <2>1 DEF StartManual, Unswitched
    <3>2. lifecycle = "shutting_down"  BY <1>1, <1>6, <2>1 DEF Typed, CanSwitchMode
    <3>3. PhaseFits'  BY <1>1, <1>2, <3>1 DEF PhaseFits
    <3>4. Installed'  BY <1>3, <3>2 DEF Installed
    <3>5. \A n \in Made' : Within(adaptive', One(running' # Idle), n)
      BY <1>1, <1>2, <1>4, <3>1 DEF Limited, Within
    <3> QED  BY <1>1, <3>1, <3>2, <3>3, <3>4, <3>5 DEF Typed
  <2>2. CASE CanSwitchMode /\ h.target = mode
    <3>1. /\ mode' = mode /\ running' = Idle /\ recorders' = recorders
          /\ flushTimer' = flushTimer /\ adaptive' = Reconciled(mode, adaptive)
      BY <1>2, <2>2 DEF StartManual, Unswitched
    <3>2. /\ adaptive' \in Adaptives /\ Fits(adaptive'.phase, mode)
          /\ adaptive'.phase # "pinned" /\ adaptive'.switches = adaptive.switches
      BY <1>7, <3>1, ReconciledFits
    <3>3. PhaseFits'  BY <3>1, <3>2 DEF PhaseFits
    <3>4. Installed'  BY <1>1, <1>2, <1>3, <1>6, <3>1 DEF Installed
    <3>5. \A n \in Made' : Within(adaptive', One(running' # Idle), n)
      <4>1. \A n \in Int : Within(adaptive, 1, n) => adaptive.switches <= MaxSwitches + n
        BY <1>1, BoundAssumption DEF Within, One
      <4>2. One(running' # Idle) = 0 /\ One(adaptive'.phase = "pinned") = 0
        BY <3>1, <3>2 DEF One
      <4>3. \A n \in Made' : adaptive.switches + 0 <= MaxSwitches + n + 0
        BY <1>1, <1>8, <4>1, BoundAssumption
      <4> QED  BY <3>2, <4>2, <4>3 DEF Within
    <3> QED  BY <1>1, <2>2, <3>1, <3>2, <3>3, <3>4, <3>5 DEF Typed
  <2>3. CASE CanSwitchMode /\ h.target # mode
    <3>1. Begin(h, adaptive)  BY <2>3 DEF StartManual
    <3>2. lifecycle \in {"created", "active"}  BY <2>3 DEF CanSwitchMode
    <3> HIDE DEF h
    <3>3. /\ running' \in Begun \union {Idle} /\ mode' \in Modes /\ adaptive' \in Adaptives
          /\ flushTimer' \in (Modes \ {Fast}) \union {Off} /\ recorders' \in Modes \union {Off}
          /\ PhaseFits' /\ Installed'
          /\ \A n \in Int : Within(adaptive, 1, n) => Within(adaptive', One(running' # Idle), n)
          /\ running' # Idle => running'.by = h.by /\ running'.target = h.target
          /\ running' = Idle => mode' = h.target
      BY <1>2, <1>3, <1>4, <1>7, <2>3, <3>1, <3>2, Beginning
    <3>4. \A n \in Made' : Within(adaptive', One(running' # Idle), n)  BY <1>8, <3>3
    <3> QED  BY <1>2, <3>3, <3>4
  <2> QED  BY <2>1, <2>2, <2>3
<1> HIDE DEF h
<1>11. Typed'  BY <1>1, <1>3, <1>4, <1>10 DEF Typed, QueueInv
<1>12. Limited'  BY <1>10 DEF Limited, Within
<1>13. ChoiceKept'
  <2> SUFFICES ASSUME chosen # Off, untouched \/ chosen \notin {Base, Escalated},
                      lifecycle \in {"created", "active"}
               PROVE  \/ \E k \in DOMAIN tail' : Manual(k)' /\ tail'[k].generation = intent
                      \/ Running("manual")' /\ running'.target = chosen
                      \/ running' = Idle /\ mode' = chosen
    BY <1>3 DEF ChoiceKept, Manual
  <2> QED  BY <1>9, <1>10 DEF Running
<1> QED  BY <1>4, <1>10, <1>11, <1>12, <1>13 DEF CIInv, QueueInv

(* applyAdaptiveCaptureMode.  What is wanted at the newest generation is      *)
(* wanted after every choice was made: none waits behind it.                  *)
LEMMA AdaptiveStep ==
  ASSUME CIInv, StartAdaptive
  PROVE  CIInv'
<1> DEFINE h == Head(tail)
<1>1. /\ QueueInv /\ Typed /\ Limited /\ PhaseFits /\ Installed /\ ChoiceKept
      /\ adaptive.switches \in Nat /\ Made \subseteq Int
  BY CIInvFacts
<1>2. /\ running = Idle /\ tail # <<>> /\ h.by = "adaptive" /\ tail' = Rest /\ Others
  BY DEF StartAdaptive, IsNext
<1>3. /\ lifecycle' = lifecycle /\ intent' = intent /\ scheduled' = scheduled
      /\ wishes' = wishes /\ captures' = captures /\ chosen' = chosen /\ untouched' = untouched
  BY <1>2 DEF Others
<1>4. /\ QueueInv' /\ Made' \subseteq Made /\ h \in Transitional /\ h = tail[1]
      /\ 1 \in DOMAIN tail
  BY <1>1, <1>2, HeadTaken
<1>5. adaptive \in Adaptives /\ mode \in Modes  BY <1>1 DEF Typed
<1>6. CASE ~Admitted(h)
  <2>1. /\ mode' = mode /\ running' = Idle /\ recorders' = recorders
        /\ flushTimer' = flushTimer /\ adaptive' = adaptive
    BY <1>2, <1>6 DEF StartAdaptive, Unswitched
  <2>2. PhaseFits'  BY <1>1, <1>2, <2>1 DEF PhaseFits
  <2>3. Installed'
    <3>1. lifecycle # "shutdown"  BY <1>1, <1>2 DEF Installed
    <3> QED  BY <1>1, <1>2, <1>3, <2>1, <3>1 DEF Installed
  <2>4. Limited'  BY <1>1, <1>2, <1>4, <2>1 DEF Limited
  <2>5. Typed'  BY <1>1, <1>2, <1>3, <1>4, <2>1 DEF Typed, QueueInv
  <2>6. ChoiceKept'
    <3> SUFFICES ASSUME chosen # Off, untouched \/ chosen \notin {Base, Escalated},
                        lifecycle \in {"created", "active"}
                 PROVE  \/ \E k \in DOMAIN tail' : Manual(k)' /\ tail'[k].generation = intent
                        \/ mode = chosen
      BY <1>3, <2>1 DEF ChoiceKept, Manual
    <3>1. CASE \E k \in DOMAIN tail : Manual(k) /\ tail[k].generation = intent
      <4>1. PICK j \in DOMAIN tail : tail[j].by = "manual" /\ tail[j].generation = intent
        BY <3>1 DEF Manual
      <4>2. tail \in Seq(Transitional)  BY <1>1 DEF QueueInv
      <4>3. j # 1  BY <1>2, <1>4, <4>1
      <4>4. j - 1 \in DOMAIN Tail(tail) /\ Tail(tail)[j - 1] = tail[j - 1 + 1]
        BY <1>2, <4>2, <4>3, Taken
      <4>5. j \in Nat  BY <4>2
      <4> QED  BY <1>2, <4>1, <4>4, <4>5 DEF Rest, Manual
    <3> QED  BY <1>1, <1>2, <3>1 DEF ChoiceKept, Running
  <2> QED  BY <1>4, <2>2, <2>3, <2>4, <2>5, <2>6 DEF CIInv, QueueInv
<1>7. CASE Admitted(h)
  <2>1. h.generation = intent /\ lifecycle = "active" /\ IsCurrent(h.target)
    BY <1>7 DEF Admitted
  <2>2. /\ \/ h.target = Escalated /\ adaptive.phase = "base" /\ mode = Base
           \/ h.target = Base /\ adaptive.phase = "escalated" /\ mode = Escalated
        /\ h.target # mode
    BY <2>1, ModeAssumption DEF IsCurrent
  <2>3. \A k \in DOMAIN tail : ~Manual(k)
    <3> SUFFICES ASSUME NEW k \in DOMAIN tail, Manual(k)  PROVE FALSE
      OBVIOUS
    <3>1. k # 1  BY <1>2, <1>4 DEF Manual
    <3>2. tail \in Seq(Transitional)  BY <1>1 DEF QueueInv
    <3>3. 1 < k  BY <3>1, <3>2
    <3>4. tail[1].generation < tail[k].generation
      BY <1>1, <1>4, <3>3 DEF QueueInv, Ordered, Manual
    <3> QED  BY <1>1, <1>4, <2>1, <3>4, Waiting
  <2>4. ~(chosen # Off /\ (untouched \/ chosen \notin {Base, Escalated}))
    <3> SUFFICES ASSUME chosen # Off, untouched \/ chosen \notin {Base, Escalated}
                 PROVE  FALSE
      OBVIOUS
    <3>1. mode = chosen  BY <1>1, <1>2, <2>1, <2>3 DEF ChoiceKept, Running
    <3>2. untouched  BY <2>2, <3>1
    <3>3. h.generation < intent
      BY <1>1, <1>4, <2>3, <3>2 DEF QueueInv, OlderWishes
    <3> QED  BY <1>1, <2>1, <3>3, Waiting
  <2>5. PICK kept \in 0 .. adaptive.switches :
          LET a == [adaptive EXCEPT !.switches = kept,
                                    !.phase = IF AtLimit(kept) THEN "pinned" ELSE @]
          IN  IF AtLimit(kept) /\ h.target # Escalated
              THEN Unswitched /\ adaptive' = a
              ELSE Begin(h, a)
    BY <1>7 DEF StartAdaptive
  <2> DEFINE phase == IF AtLimit(kept) THEN "pinned" ELSE adaptive.phase
             a == [adaptive EXCEPT !.switches = kept, !.phase = phase]
  <2>6. IF AtLimit(kept) /\ h.target # Escalated
        THEN Unswitched /\ adaptive' = a
        ELSE Begin(h, a)
    BY <2>5, <1>5 DEF Adaptives
  <2>7. kept \in Nat /\ kept <= adaptive.switches  BY <1>1
  <2>8. phase \in Phases  BY <1>5 DEF Adaptives, Phases
  <2>9. phase = IF kept >= MaxSwitches THEN "pinned" ELSE adaptive.phase  BY DEF AtLimit
  <2> HIDE DEF phase
  <2>10. a \in Adaptives /\ a.switches = kept /\ a.phase = phase
    BY <1>5, <2>7, <2>8 DEF Adaptives
  <2>11. Made' \subseteq {intent}
    BY <1>4, <2>3 DEF Made
  <2>12. Within(adaptive, 0, intent) /\ adaptive.phase # "pinned"
    <3>1. intent \in Made  BY DEF Made
    <3> QED  BY <1>1, <1>2, <2>2, <3>1 DEF Limited, Within, One
  <2>13. /\ Within(a, 0, intent)
         /\ kept < MaxSwitches \/ phase = "pinned" => Within(a, 1, intent)
    <3>1. intent \in Nat  BY <1>1, Waiting
    <3> QED  BY <1>1, <2>7, <2>9, <2>10, <2>12, <3>1, BoundAssumption DEF Within, One
  <2>14. Within(a, 1, intent)  BY <2>7, <2>9, <2>13, BoundAssumption
  <2> HIDE DEF a
  <2>15. CASE AtLimit(kept) /\ h.target # Escalated
    <3>1. /\ mode' = mode /\ running' = Idle /\ recorders' = recorders
          /\ flushTimer' = flushTimer /\ adaptive' = a
      BY <1>2, <2>6, <2>15 DEF Unswitched
    <3>2. mode = Escalated /\ phase = "pinned"  BY <2>2, <2>9, <2>15 DEF AtLimit
    <3>3. PhaseFits'  BY <2>10, <3>1, <3>2 DEF PhaseFits, Fits
    <3>4. Installed'  BY <1>1, <1>2, <1>3, <2>1, <3>1 DEF Installed
    <3>5. Limited'  BY <2>11, <2>13, <3>1 DEF Limited, Within, One
    <3>6. Typed'  BY <1>1, <1>2, <1>3, <1>4, <2>10, <3>1 DEF Typed, QueueInv
    <3>7. ChoiceKept'  BY <1>3, <2>4 DEF ChoiceKept
    <3> QED  BY <1>4, <3>3, <3>4, <3>5, <3>6, <3>7 DEF CIInv, QueueInv
  <2>16. CASE ~(AtLimit(kept) /\ h.target # Escalated)
    <3>1. Begin(h, a)  BY <2>6, <2>16
    <3>2. \/ h.target = Escalated /\ a.phase \in {"base", "pinned"}
          \/ h.target = Base /\ a.phase = "escalated"
      BY <2>2, <2>9, <2>10, <2>16, ModeAssumption DEF AtLimit
    <3> HIDE DEF h
    <3>3. /\ running' \in Begun \union {Idle} /\ mode' \in Modes /\ adaptive' \in Adaptives
          /\ flushTimer' \in (Modes \ {Fast}) \union {Off} /\ recorders' \in Modes \union {Off}
          /\ PhaseFits' /\ Installed'
          /\ \A n \in Int : Within(a, 1, n) => Within(adaptive', One(running' # Idle), n)
      BY <1>2, <1>3, <1>4, <2>1, <2>2, <2>10, <3>1, <3>2, Beginning
    <3>4. Limited'
      <4>1. intent \in Int  BY <1>1, Waiting
      <4>2. Within(adaptive', One(running' # Idle), intent)  BY <2>14, <3>3, <4>1
      <4> QED  BY <2>11, <4>2 DEF Limited, Within
    <3>5. Typed'  BY <1>1, <1>3, <1>4, <3>3 DEF Typed, QueueInv
    <3>6. ChoiceKept'  BY <1>3, <2>4 DEF ChoiceKept
    <3> QED  BY <1>4, <3>3, <3>4, <3>5, <3>6 DEF CIInv, QueueInv
  <2> QED  BY <2>15, <2>16
<1> QED  BY <1>6, <1>7

(* What leaves mode, transition and resources alone.                          *)
LEMMA UnmovedKeeps ==
  ASSUME CIInv, Unmoved, lifecycle' = lifecycle, tail' = tail \/ lifecycle # "shutdown",
         adaptive' \in Adaptives, adaptive'.phase = adaptive.phase,
         adaptive'.switches = adaptive.switches,
         \A n \in Made' : n \in Made \/ \E m \in Made : m <= n /\ n \in Int
  PROVE  /\ PhaseFits' /\ Installed' /\ Limited'
         /\ running' \in Begun \union {Idle} /\ mode' \in Modes
         /\ flushTimer' \in (Modes \ {Fast}) \union {Off} /\ recorders' \in Modes \union {Off}
<1>1. /\ Typed /\ Limited /\ PhaseFits /\ Installed
      /\ adaptive.switches \in Nat /\ Made \subseteq Int
  BY CIInvFacts
<1>2. mode' = mode /\ running' = running /\ recorders' = recorders /\ flushTimer' = flushTimer
  BY DEF Unmoved
<1>3. PhaseFits'  BY <1>1, <1>2 DEF PhaseFits
<1>4. Installed'  BY <1>1, <1>2 DEF Installed
<1>5. Limited'
  <2>1. One(running # Idle) \in Int /\ One(adaptive.phase = "pinned") \in Int  BY DEF One
  <2>2. \A n \in Made :
          adaptive.switches + One(running # Idle)
            <= MaxSwitches + n + One(adaptive.phase = "pinned")
    BY <1>1 DEF Limited
  <2>3. \A m \in Made, n \in Int : m <= n =>
          adaptive.switches + One(running # Idle)
            <= MaxSwitches + n + One(adaptive.phase = "pinned")
    BY <1>1, <2>1, <2>2, BoundAssumption
  <2>4. \A n \in Made' :
          adaptive.switches + One(running # Idle)
            <= MaxSwitches + n + One(adaptive.phase = "pinned")
    BY <2>2, <2>3
  <2> QED  BY <1>2, <2>4 DEF Limited
<1> QED  BY <1>1, <1>2, <1>3, <1>4, <1>5 DEF Typed

LEMMA CaptureStep ==
  ASSUME CIInv, Capture
  PROVE  CIInv'
<1>1. /\ QueueInv /\ Typed /\ ChoiceKept  BY CIInvFacts
<1>2. /\ lifecycle' = lifecycle /\ intent' = intent /\ tail' = tail /\ chosen' = chosen
      /\ untouched' = FALSE /\ captures' = captures + 1 /\ captures < MaxCaptures /\ Unmoved
      /\ adaptive' = [adaptive EXCEPT !.capture = "recent"]
  BY DEF Capture
<1>3. \/ scheduled' = intent /\ wishes' = Append(wishes, intent)
      \/ scheduled' = scheduled /\ wishes' = wishes
  BY DEF Capture
<1>4. intent \in Nat  BY <1>1, Waiting
<1>5. /\ adaptive' \in Adaptives /\ adaptive'.phase = adaptive.phase
      /\ adaptive'.switches = adaptive.switches
  BY <1>1, <1>2 DEF Typed, Adaptives
<1>6. wishes' \in Seq(Nat) /\ \A k \in DOMAIN wishes' : wishes'[k] <= intent
  <2>1. CASE wishes' = wishes  BY <1>1, <2>1 DEF QueueInv
  <2>2. CASE wishes' = Append(wishes, intent)
    <3>1. wishes \in Seq(Nat) /\ \A k \in DOMAIN wishes : wishes[k] <= intent
      BY <1>1 DEF QueueInv
    <3>2. /\ wishes' \in Seq(Nat) /\ DOMAIN wishes' = 1 .. Len(wishes) + 1
          /\ DOMAIN wishes = 1 .. Len(wishes) /\ Len(wishes) \in Nat
          /\ \A k \in DOMAIN wishes : wishes'[k] = wishes[k]
          /\ wishes'[Len(wishes) + 1] = intent
      BY <1>4, <2>2, <3>1, Appended
    <3>3. \A k \in DOMAIN wishes' : k \in DOMAIN wishes \/ k = Len(wishes) + 1  BY <3>2
    <3> QED  BY <1>4, <3>1, <3>2, <3>3
  <2> QED  BY <1>3, <2>1, <2>2
<1>7. Made' = Made  BY <1>2 DEF Made, Manual
<1>8. QueueInv'
  BY <1>1, <1>2, <1>6 DEF QueueInv, NewestWaits, OlderWishes, Ordered, Manual
<1>9. /\ PhaseFits' /\ Installed' /\ Limited'
      /\ running' \in Begun \union {Idle} /\ mode' \in Modes
      /\ flushTimer' \in (Modes \ {Fast}) \union {Off} /\ recorders' \in Modes \union {Off}
  BY <1>2, <1>5, <1>7, UnmovedKeeps
<1>10. ChoiceKept'
  BY <1>1, <1>2 DEF ChoiceKept, Unmoved, Manual, Running
<1>11. captures' \in 0 .. MaxCaptures  BY <1>1, <1>2, BoundAssumption DEF Typed
<1>12. scheduled' \in (0 .. intent) \union {Null}  BY <1>1, <1>3, <1>4 DEF Typed
<1>13. Typed'  BY <1>1, <1>2, <1>5, <1>8, <1>9, <1>11, <1>12 DEF Typed, QueueInv
<1> QED  BY <1>8, <1>9, <1>10, <1>13 DEF CIInv, QueueInv

LEMMA WishStep ==
  ASSUME CIInv, Wish
  PROVE  CIInv'
<1>1. /\ QueueInv /\ Typed /\ ChoiceKept  BY CIInvFacts
<1>2. /\ lifecycle' = lifecycle /\ intent' = intent /\ chosen' = chosen
      /\ untouched' = untouched /\ captures' = captures /\ adaptive' = adaptive /\ Unmoved
      /\ wishes # <<>> /\ wishes' = Tail(wishes)
      /\ scheduled' \in {scheduled, Null}
  BY DEF Wish
<1>3. intent \in Nat /\ wishes \in Seq(Nat) /\ \A k \in DOMAIN wishes : wishes[k] <= intent
  BY <1>1 DEF QueueInv
<1>4. /\ wishes' \in Seq(Nat) /\ 1 \in DOMAIN wishes
      /\ Head(wishes) = wishes[1] /\ Head(wishes) \in Nat
      /\ \A k \in DOMAIN wishes' : wishes'[k] = wishes[k + 1] /\ k + 1 \in DOMAIN wishes
  BY <1>2, <1>3, Taken
<1>5. Head(wishes) <= intent /\ \A k \in DOMAIN wishes' : wishes'[k] <= intent
  BY <1>3, <1>4
<1>6. untouched => /\ Head(wishes) < intent
                   /\ \A k \in DOMAIN wishes' : wishes'[k] < intent
  BY <1>1, <1>4 DEF QueueInv, OlderWishes
<1>7. /\ QueueInv' /\ Made' = Made
      /\ \A k \in DOMAIN tail : k \in DOMAIN tail' /\ tail'[k] = tail[k]
      /\ tail' = tail \/ lifecycle # "shutdown"
  <2>1. CASE lifecycle # "active"
    <3>1. tail' = tail  BY <2>1 DEF Wish
    <3>2. QueueInv'
      BY <1>1, <1>2, <1>4, <1>5, <1>6, <3>1
         DEF QueueInv, NewestWaits, OlderWishes, Ordered, Manual
    <3> QED  BY <1>2, <3>1, <3>2 DEF Made, Manual
  <2>2. CASE lifecycle = "active"
    <3>1. tail' = Append(tail, Transition("adaptive", Escalated, Head(wishes)))
      BY <2>2 DEF Wish
    <3>2. Escalated \in Modes  BY ModeAssumption
    <3>3. /\ QueueInv' /\ Made' = Made
          /\ \A k \in DOMAIN tail : k \in DOMAIN tail' /\ tail'[k] = tail[k]
      BY <1>1, <1>2, <1>4, <1>5, <1>6, <3>1, <3>2, AdaptiveQueued
    <3> QED  BY <2>2, <3>3
  <2> QED  BY <2>1, <2>2
<1>8. adaptive' \in Adaptives  BY <1>1, <1>2 DEF Typed
<1>9. /\ PhaseFits' /\ Installed' /\ Limited'
      /\ running' \in Begun \union {Idle} /\ mode' \in Modes
      /\ flushTimer' \in (Modes \ {Fast}) \union {Off} /\ recorders' \in Modes \union {Off}
  BY <1>2, <1>7, <1>8, UnmovedKeeps
<1>10. ChoiceKept'
  BY <1>1, <1>2, <1>7 DEF ChoiceKept, Unmoved, Manual, Running
<1>11. Typed'  BY <1>1, <1>2, <1>7, <1>8, <1>9 DEF Typed, QueueInv
<1> QED  BY <1>7, <1>9, <1>10, <1>11 DEF CIInv, QueueInv

LEMMA ChoiceStep ==
  ASSUME CIInv, NEW m \in Modes, SetCaptureMode(m)
  PROVE  CIInv'
<1>1. /\ QueueInv /\ Typed /\ Installed /\ Made \subseteq Int  BY CIInvFacts
<1>2. /\ lifecycle' = lifecycle /\ lifecycle \in {"created", "active"}
      /\ intent' = intent + 1 /\ intent < MaxChoices /\ scheduled' = Null
      /\ tail' = Append(tail, Transition("manual", m, intent + 1))
      /\ chosen' = m /\ untouched' = TRUE /\ captures' = captures
      /\ adaptive' = adaptive /\ wishes' = wishes /\ Unmoved
  BY DEF SetCaptureMode, CanSwitchMode
<1>3. /\ QueueInv'
      /\ \A n \in Made' : n = intent + 1 \/ n = intent \/ n \in Made
      /\ \E k \in DOMAIN tail' : Manual(k)' /\ tail'[k].generation = intent'
  BY <1>1, <1>2, ChoiceQueued
<1>4. intent \in Nat /\ intent \in Made  BY <1>1, Waiting DEF Made
<1>5. \A n \in Made' : n \in Made \/ \E k \in Made : k <= n /\ n \in Int
  BY <1>3, <1>4
<1>6. adaptive' \in Adaptives  BY <1>1, <1>2 DEF Typed
<1>7. /\ PhaseFits' /\ Installed' /\ Limited'
      /\ running' \in Begun \union {Idle} /\ mode' \in Modes
      /\ flushTimer' \in (Modes \ {Fast}) \union {Off} /\ recorders' \in Modes \union {Off}
  BY <1>2, <1>5, <1>6, UnmovedKeeps
<1>8. ChoiceKept'  BY <1>3 DEF ChoiceKept, Manual
<1>9. intent' \in 0 .. MaxChoices  BY <1>2, <1>4, BoundAssumption
<1>10. Typed'  BY <1>1, <1>2, <1>3, <1>6, <1>7, <1>9 DEF Typed, QueueInv
<1> QED  BY <1>3, <1>7, <1>8, <1>10 DEF CIInv, QueueInv

LEMMA EvaluateStep ==
  ASSUME CIInv, Evaluate
  PROVE  CIInv'
<1>1. /\ QueueInv /\ Typed /\ ChoiceKept  BY CIInvFacts
<1>2. /\ lifecycle' = lifecycle /\ lifecycle = "active" /\ intent' = intent
      /\ scheduled' = scheduled /\ chosen' = chosen /\ untouched' = FALSE
      /\ captures' = captures /\ adaptive' = adaptive /\ Unmoved /\ wishes' = wishes
      /\ tail' = Append(tail, Transition("adaptive", Base, intent))
  BY DEF Evaluate
<1>3. intent \in Nat /\ wishes \in Seq(Nat) /\ \A k \in DOMAIN wishes : wishes[k] <= intent
  BY <1>1 DEF QueueInv
<1>4. Base \in Modes /\ intent <= intent  BY <1>3, ModeAssumption
<1>5. /\ QueueInv' /\ Made' = Made
      /\ \A k \in DOMAIN tail : k \in DOMAIN tail' /\ tail'[k] = tail[k]
  BY <1>1, <1>2, <1>3, <1>4, AdaptiveQueued
<1>6. adaptive' \in Adaptives  BY <1>1, <1>2 DEF Typed
<1>7. /\ PhaseFits' /\ Installed' /\ Limited'
      /\ running' \in Begun \union {Idle} /\ mode' \in Modes
      /\ flushTimer' \in (Modes \ {Fast}) \union {Off} /\ recorders' \in Modes \union {Off}
  BY <1>2, <1>5, <1>6, UnmovedKeeps
<1>8. ChoiceKept'
  BY <1>1, <1>2, <1>5 DEF ChoiceKept, Unmoved, Manual, Running
<1>9. Typed'  BY <1>1, <1>2, <1>5, <1>6, <1>7 DEF Typed, QueueInv
<1> QED  BY <1>5, <1>7, <1>8, <1>9 DEF CIInv, QueueInv

LEMMA ClockStep ==
  ASSUME CIInv, QuietPasses \/ DwellPasses
  PROVE  CIInv'
<1>1. /\ QueueInv /\ Typed /\ ChoiceKept  BY CIInvFacts
<1>2. /\ tail' = tail /\ Others /\ Unmoved
      /\ \/ adaptive' = [adaptive EXCEPT !.capture = "old", !.window = FALSE]
         \/ adaptive' = [adaptive EXCEPT !.escalation = "old"]
  BY DEF QuietPasses, DwellPasses
<1>3. /\ lifecycle' = lifecycle /\ intent' = intent /\ scheduled' = scheduled
      /\ wishes' = wishes /\ captures' = captures /\ chosen' = chosen /\ untouched' = untouched
  BY <1>2 DEF Others
<1>4. /\ adaptive' \in Adaptives /\ adaptive'.phase = adaptive.phase
      /\ adaptive'.switches = adaptive.switches
  BY <1>1, <1>2 DEF Typed, Adaptives
<1>5. QueueInv' /\ Made' = Made
  BY <1>1, <1>2, <1>3 DEF QueueInv, NewestWaits, OlderWishes, Made, Manual, Ordered
<1>6. /\ PhaseFits' /\ Installed' /\ Limited'
      /\ running' \in Begun \union {Idle} /\ mode' \in Modes
      /\ flushTimer' \in (Modes \ {Fast}) \union {Off} /\ recorders' \in Modes \union {Off}
  BY <1>2, <1>3, <1>4, <1>5, UnmovedKeeps
<1>7. ChoiceKept'
  BY <1>1, <1>2, <1>3 DEF ChoiceKept, Unmoved, Manual, Running
<1>8. Typed'  BY <1>1, <1>3, <1>4, <1>5, <1>6 DEF Typed, QueueInv
<1> QED  BY <1>5, <1>6, <1>7, <1>8 DEF CIInv, QueueInv

(* activate(), shutdown() and its teardown.                                   *)
LEMMA LifecycleStep ==
  ASSUME CIInv, Activate \/ Shutdown \/ Teardown
  PROVE  CIInv'
<1>1. /\ QueueInv /\ Typed /\ Limited /\ PhaseFits /\ Installed /\ ChoiceKept
  BY CIInvFacts
<1>2. /\ mode' = mode /\ adaptive' = adaptive /\ intent' = intent /\ scheduled' = scheduled
      /\ wishes' = wishes /\ tail' = tail /\ running' = running /\ captures' = captures
      /\ chosen' = chosen /\ untouched' = untouched
  BY DEF Activate, Shutdown, Teardown, Unmoved
<1>3. QueueInv' /\ Limited' /\ PhaseFits'
  BY <1>1, <1>2 DEF QueueInv, NewestWaits, OlderWishes, Ordered, Manual, Limited, Made, PhaseFits
<1>4. /\ Installed' /\ ChoiceKept' /\ lifecycle' \in {"active", "shutting_down", "shutdown"}
      /\ flushTimer' \in (Modes \ {Fast}) \union {Off} /\ recorders' \in Modes \union {Off}
  <2>1. CASE Activate
    <3>1. /\ lifecycle = "created" /\ lifecycle' = "active" /\ recorders' = mode
          /\ flushTimer' = Timer(mode)
      BY <2>1 DEF Activate
    <3>2. running # Idle => ~running.wasActive  BY <1>1, <3>1 DEF Installed
    <3>3. flushTimer' = Timer(IF running' # Idle /\ running'.wasActive
                              THEN running'.from ELSE mode')
      BY <1>2, <3>1, <3>2
    <3>4. Installed'  BY <1>2, <3>1, <3>3 DEF Installed
    <3>5. ChoiceKept'  BY <1>1, <1>2, <3>1 DEF ChoiceKept, Manual, Running
    <3> QED  BY <1>1, <3>1, <3>4, <3>5 DEF Typed, Timer
  <2>2. CASE Shutdown
    BY <1>1, <1>2, <2>2 DEF Shutdown, Unmoved, Installed, ChoiceKept, Typed
  <2>3. CASE Teardown
    BY <1>1, <1>2, <2>3 DEF Teardown, TransitionsOver, Installed, ChoiceKept, Typed
  <2> QED  BY <2>1, <2>2, <2>3
<1>5. Typed'  BY <1>1, <1>2, <1>3, <1>4 DEF Typed, QueueInv
<1> QED  BY <1>3, <1>4, <1>5 DEF CIInv, QueueInv

LEMMA CIStutter ==
  ASSUME CIInv, UNCHANGED vars
  PROVE  CIInv'
BY DEF vars, CIInv, Typed, Ordered, NewestWaits, OlderWishes, Limited, Made, Manual, PhaseFits,
       Installed, ChoiceKept, Running

LEMMA CIInit ==
  ASSUME Init
  PROVE  CIInv
<1>1. /\ lifecycle = "created" /\ mode = Base /\ intent = 0 /\ scheduled = Null
      /\ wishes = <<>> /\ tail = <<>> /\ running = Idle /\ recorders = Off
      /\ flushTimer = Off /\ captures = 0 /\ chosen = Off /\ untouched = FALSE
      /\ adaptive = [phase |-> "base", switches |-> 0, capture |-> None,
                     escalation |-> None, window |-> FALSE]
  BY DEF Init
<1>2. adaptive \in Adaptives /\ adaptive.phase = "base" /\ adaptive.switches = 0
  BY <1>1 DEF Adaptives, Phases
<1>3. DOMAIN wishes = {} /\ DOMAIN tail = {} /\ wishes \in Seq(Nat) /\ tail \in Seq(Transitional)
  BY <1>1
<1>4. Typed
  <2>1. /\ mode \in Modes /\ intent \in 0 .. MaxChoices /\ captures \in 0 .. MaxCaptures
        /\ scheduled \in (0 .. intent) \union {Null}
    BY <1>1, ModeAssumption, BoundAssumption
  <2>2. /\ \A k \in DOMAIN wishes : wishes[k] <= intent
        /\ \A k \in DOMAIN tail : tail[k].generation <= intent
    BY <1>3
  <2> QED  BY <1>1, <1>2, <1>3, <2>1, <2>2 DEF Typed
<1>5. Made = {0}  BY <1>1, <1>3 DEF Made
<1>6. Limited  BY <1>1, <1>2, <1>5, BoundAssumption DEF Limited, One
<1>7. PhaseFits  BY <1>1, <1>2 DEF PhaseFits, Fits
<1> QED  BY <1>1, <1>3, <1>4, <1>6, <1>7
         DEF CIInv, Ordered, NewestWaits, OlderWishes, Installed, ChoiceKept

(* The inductive invariant: what waits, runs and is installed fits.           *)
THEOREM ModesInductive == Spec => []CIInv
<1>1. Init => CIInv  BY CIInit
<1>2. CIInv /\ [Next]_vars => CIInv'
  <2> SUFFICES ASSUME CIInv, [Next]_vars  PROVE CIInv'  OBVIOUS
  <2>1. CASE Transitions
    BY <2>1, AwaitedSteps, ManualStep, AdaptiveStep DEF Transitions
  <2>2. CASE Clock  BY <2>2, ClockStep, EvaluateStep DEF Clock
  <2>3. CASE Application
    BY <2>3, CaptureStep, LifecycleStep, ChoiceStep DEF Application
  <2>4. CASE Wish  BY <2>4, WishStep
  <2>5. CASE Teardown  BY <2>5, LifecycleStep
  <2>6. CASE UNCHANGED vars  BY <2>6, CIStutter
  <2> QED  BY <2>1, <2>2, <2>3, <2>4, <2>5, <2>6 DEF Next
<1> QED  BY <1>1, <1>2, PTL DEF Spec

(* The phase tells the mode, what is installed is that of the mode, and the   *)
(* switches of an hour are bounded, whatever the application, the errors and  *)
(* the clock do to the transitions that wait (applyModeState,                 *)
(* applyAdaptiveCaptureMode, reconcileManualAdaptiveState).                   *)
THEOREM ModesFit == Spec => []ModeFits
<1>1. CIInv => ModeFits
  <2> SUFFICES ASSUME CIInv  PROVE ModeFits  OBVIOUS
  <2>1. /\ Typed /\ Limited /\ PhaseFits /\ Installed /\ adaptive.switches \in Nat
    BY CIInvFacts
  <2>2. TypeOK
    <3>1. adaptive.switches \in 0 .. MaxSwitches + intent + 1
      <4>1. intent \in Made /\ intent \in Nat  BY <2>1 DEF Made, Typed
      <4>2. One(running # Idle) \in {0, 1} /\ One(adaptive.phase = "pinned") \in {0, 1}
        BY DEF One
      <4>3. adaptive.switches + One(running # Idle)
              <= MaxSwitches + intent + One(adaptive.phase = "pinned")
        BY <2>1, <4>1 DEF Limited
      <4> QED  BY <2>1, <4>1, <4>2, <4>3, BoundAssumption
    <3>2. adaptive \in [phase : Phases, switches : 0 .. MaxSwitches + intent + 1,
                        capture : {None, "recent", "old"},
                        escalation : {None, "young", "old"}, window : BOOLEAN]
      BY <2>1, <3>1 DEF Typed, Adaptives
    <3>3. wishes \in Seq(0 .. intent)
      BY <2>1 DEF Typed
    <3>4. tail \in Seq([by : {"manual", "adaptive"}, target : Modes, generation : 0 .. intent])
      <4>1. \A k \in DOMAIN tail : tail[k] \in Transitional /\ tail[k].generation <= intent
        BY <2>1 DEF Typed
      <4>2. \A k \in DOMAIN tail :
              tail[k] \in [by : {"manual", "adaptive"}, target : Modes, generation : 0 .. intent]
        <5>1. intent \in Nat  BY <2>1 DEF Typed
        <5> QED  BY <4>1, <5>1 DEF Transitional
      <4> QED  BY <2>1, <4>2, Narrowed DEF Typed
    <3>5. running # Idle =>
            /\ running.by \in {"manual", "adaptive"} /\ running.target \in Modes
            /\ running.from \in Modes \ {running.target} /\ running.at \in Waits
            /\ running.wasActive \in BOOLEAN
      BY <2>1, BegunFacts DEF Typed, PhaseFits
    <3> QED  BY <2>1, <3>2, <3>3, <3>4, <3>5 DEF TypeOK, Typed
  <2>3. PhaseMatchesMode  BY <2>1 DEF PhaseMatchesMode, Settled, PhaseFits, Fits
  <2>4. ResourcesFollowMode  BY <2>1 DEF ResourcesFollowMode, Settled, Installed
  <2> QED  BY <2>2, <2>3, <2>4 DEF ModeFits
<1> QED  BY <1>1, ModesInductive, PTL

(* "keeps an older capture-triggered microtask from winning after that        *)
(* manual choice" (setCaptureMode): the newest choice of the application is   *)
(* the mode once everything that waited is done.                              *)
THEOREM ChoiceStands == Spec => []ManualChoiceStands
<1>1. CIInv => ManualChoiceStands
  BY CIInvFacts DEF ManualChoiceStands, Settled, ChoiceKept, Running
<1> QED  BY <1>1, ModesInductive, PTL

------------------------------------------------------------------------------
Switches == [available : BOOLEAN, initialized : BOOLEAN, session : BOOLEAN,
             armed : BOOLEAN, idle : BOOLEAN, rate : BOOLEAN]

(* ArmedIsBounded alone is lost in three ways: whoever arms the debugger looks    *)
(* at available only, so that has to follow the configuration; a recovery makes  *)
(* the manager available again, so the interval in which guards recover has to   *)
(* end with the manager; and a session that does not open makes the manager      *)
(* unavailable, so there must not have been one before.                          *)
Sound(d, on, tripped, gone) ==
  /\ d \in Switches
  /\ d.available => on /\ ~gone
  /\ d.rate => ~gone
  /\ d.session => d.initialized
  /\ d.armed => d.session /\ d.available /\ d.idle /\ ~tripped

(* The guard trips at TripAfter: until then it counts below that.                *)
Guards ==
  {g \in [tripped : BOOLEAN, since : 0 .. RecoverAfter, over : 0 .. TripAfter,
          pauses : 0 .. MaxPauses + 1, wall : 0 .. MaxWall + 1] :
     ~g.tripped => g.over < TripAfter}

Knobs == [on : BOOLEAN, guarded : BOOLEAN, cap : Caps]
ArmedInv ==
  /\ knobs \in Knobs /\ down \in BOOLEAN /\ guard \in Guards
  /\ Sound(dbg, knobs.on, guard.tripped, down)

-------------------------------------------------------------------------------
(* initSession: whether the session opens or not.                                *)
LEMMA SessionSound ==
  ASSUME NEW d, NEW on \in BOOLEAN, NEW gone \in BOOLEAN, NEW opens \in BOOLEAN,
         Sound(d, on, FALSE, gone), d.available
  PROVE  LET i == InitSession(d, opens)
         IN  Sound(i, on, FALSE, gone) /\ (i.session => i.available)
  BY DEF InitSession, Sound, Switches

(* ensureDebuggerActive arms only what is wanted, and starts the idle timer.     *)
LEMMA EnsureActiveSound ==
  ASSUME NEW d, NEW on \in BOOLEAN, NEW tripped \in BOOLEAN, NEW gone \in BOOLEAN,
         NEW opens \in BOOLEAN, Sound(d, on, tripped, gone)
  PROVE  Sound(EnsureActive(d, tripped, opens), on, tripped, gone)
<1>1. CASE tripped \/ ~d.available  BY <1>1 DEF EnsureActive
<1>2. CASE ~tripped /\ d.available
  <2> DEFINE i == InitSession(d, opens)
  <2>1. Sound(i, on, FALSE, gone) /\ (i.session => i.available)
    <3>1. Sound(d, on, FALSE, gone)  BY <1>2 DEF Sound
    <3> QED  BY <1>2, <3>1, SessionSound
  <2>2. EnsureActive(d, tripped, opens)
          = IF i.session THEN [i EXCEPT !.armed = TRUE, !.idle = TRUE] ELSE i
    BY <1>2 DEF EnsureActive
  <2> HIDE DEF i
  <2> QED  BY <1>2, <2>1, <2>2 DEF Sound, Switches
<1> QED  BY <1>1, <1>2

(* Rearming is for a guard that has just let go of a manager that is up.         *)
LEMMA RearmSound ==
  ASSUME NEW d, NEW on \in BOOLEAN, NEW tripped \in BOOLEAN, NEW gone \in BOOLEAN,
         NEW opens \in BOOLEAN, Sound(d, on, tripped, gone), ~gone
  PROVE  Sound(Rearm(d, on, opens), on, FALSE, gone)
<1>1. CASE ~on  BY <1>1 DEF Rearm, Sound
<1>2. CASE on
  <2> DEFINE e == [d EXCEPT !.available = TRUE]
  <2>1. Sound(e, on, FALSE, gone)  BY <1>2 DEF Sound, Switches
  <2>2. Sound(EnsureActive(e, FALSE, opens), on, FALSE, gone)
    <3> HIDE DEF e
    <3> QED  BY <2>1, EnsureActiveSound
  <2> QED  BY <1>2, <2>2 DEF Rearm
<1> QED  BY <1>1, <1>2

(* Disarmed, the guard may trip.                                                 *)
LEMMA DisarmSound ==
  ASSUME NEW d, NEW on \in BOOLEAN, NEW tripped \in BOOLEAN, NEW gone \in BOOLEAN,
         Sound(d, on, tripped, gone)
  PROVE  /\ ~Disarm(d).armed
         /\ \A t \in BOOLEAN : Sound(Disarm(d), on, t, gone)
  BY DEF Disarm, Sound, Switches

(* Calm is a guard; a pause is counted up to one over the limit.                 *)
LEMMA CalmGuard == Calm \in Guards /\ Calm.tripped = FALSE
  BY InspectorAssumption DEF Calm, Guards

LEMMA PauseCounted ==
  ASSUME NEW g \in Guards, NEW h, h = [g EXCEPT !.pauses = Least(@ + 1, MaxPauses + 1)]
  PROVE  h \in Guards /\ h.tripped = g.tripped
<1>1. MaxPauses \in Nat  BY InspectorAssumption
<1>2. g.pauses \in 0 .. MaxPauses + 1  BY DEF Guards
<1>3. Least(g.pauses + 1, MaxPauses + 1) \in 0 .. MaxPauses + 1  BY <1>1, <1>2 DEF Least
<1> QED  BY <1>3 DEF Guards

(* recordPauseWallTime and evaluatePauseRateGuard leave a guard a guard.         *)
LEMMA AfterPauseTyped ==
  ASSUME NEW g \in Guards, NEW newMinute \in BOOLEAN
  PROVE  AfterPause(g, newMinute) \in Guards
<1> DEFINE w == Least((IF newMinute THEN 0 ELSE g.wall) + 1, MaxWall + 1)
<1>1. MaxWall \in Nat /\ g.wall \in 0 .. MaxWall + 1  BY InspectorAssumption DEF Guards
<1>2. w \in 0 .. MaxWall + 1  BY <1>1 DEF Least
<1>3. (w > MaxWall) \in BOOLEAN /\ 0 \in 0 .. RecoverAfter  BY InspectorAssumption
<1> HIDE DEF w
<1>4. ~g.tripped => [g EXCEPT !.wall = w, !.tripped = w > MaxWall, !.since = 0] \in Guards
  <2> DEFINE t == w > MaxWall
  <2>1. t \in BOOLEAN  OBVIOUS
  <2> HIDE DEF t
  <2>2. ~g.tripped => [g EXCEPT !.wall = w, !.tripped = t, !.since = 0] \in Guards
    BY <1>2, <1>3, <2>1 DEF Guards
  <2> QED  BY <2>2 DEF t
<1>5. AfterPause(g, newMinute)
        = IF ~knobs.guarded \/ g.tripped THEN g
          ELSE [g EXCEPT !.wall = w, !.tripped = w > MaxWall, !.since = 0]
  BY DEF AfterPause, w
<1> QED  BY <1>4, <1>5

LEMMA RateGuardTyped ==
  ASSUME NEW g \in Guards
  PROVE  RateGuard(g) \in Guards
<1> DEFINE o == IF g.pauses > MaxPauses THEN g.over + 1 ELSE 0
<1>0. /\ {PerSecond, MaxPauses, MaxWall, RecoverAfter} \subseteq Nat /\ TripAfter \in Nat \ {0}
      /\ 0 \in 0 .. RecoverAfter /\ 0 \in 0 .. MaxPauses + 1 /\ 0 \in 0 .. MaxWall + 1
  BY InspectorAssumption
<1>1. g.tripped => Recovery(g) \in Guards
  <2> SUFFICES ASSUME g.tripped  PROVE  Recovery(g) \in Guards  OBVIOUS
  <2>1. [g EXCEPT !.since = 0, !.pauses = 0, !.wall = 0] \in Guards  BY <1>0 DEF Guards
  <2>2. g.since + 1 < RecoverAfter => [g EXCEPT !.since = @ + 1, !.pauses = 0] \in Guards
    <3>1. g.since + 1 < RecoverAfter => g.since + 1 \in 0 .. RecoverAfter  BY <1>0 DEF Guards
    <3>2. \A n \in 0 .. RecoverAfter : [g EXCEPT !.since = n, !.pauses = 0] \in Guards
      BY <1>0 DEF Guards
    <3> QED  BY <3>1, <3>2
  <2>3. Calm \in Guards  BY CalmGuard
  <2>4. g.since + 1 >= RecoverAfter \/ g.since + 1 < RecoverAfter  BY <1>0 DEF Guards
  <2> QED  BY <2>1, <2>2, <2>3, <2>4 DEF Recovery
<1>2. ~g.tripped => o \in 0 .. TripAfter
  <2>1. ~g.tripped => g.over \in Nat /\ g.over < TripAfter  BY DEF Guards
  <2> QED  BY <1>0, <2>1
<1> HIDE DEF o
<1>4. ~g.tripped
        => [g EXCEPT !.pauses = 0, !.over = o, !.tripped = o >= TripAfter, !.since = 0] \in Guards
  <2> DEFINE t == o >= TripAfter
  <2>1. t \in BOOLEAN /\ (~g.tripped /\ ~t => o < TripAfter)  BY <1>0, <1>2
  <2> HIDE DEF t
  <2>2. ~g.tripped
          => [g EXCEPT !.pauses = 0, !.over = o, !.tripped = t, !.since = 0] \in Guards
    BY <1>0, <1>2, <2>1 DEF Guards
  <2> QED  BY <2>2 DEF t
<1>5. [g EXCEPT !.pauses = 0] \in Guards  BY <1>0 DEF Guards
<1>6. RateGuard(g)
        = IF ~knobs.guarded THEN [g EXCEPT !.pauses = 0]
          ELSE IF g.tripped THEN Recovery(g)
          ELSE [g EXCEPT !.pauses = 0, !.over = o, !.tripped = o >= TripAfter, !.since = 0]
  BY DEF RateGuard, o
<1> QED  BY <1>1, <1>4, <1>5, <1>6

-------------------------------------------------------------------------------
LEMMA ArmedInitially ==
  ASSUME IInit
  PROVE  ArmedInv
  BY CalmGuard DEF IInit, ArmedInv, Knobs, Sound, Switches

(* applyModeState                                                                *)
LEMMA ModeKeepsArmed ==
  ASSUME ArmedInv, NEW k \in Knobs, ApplyModeState(k)
  PROVE  ArmedInv'
<1> DEFINE on == knobs.on
<1>1. /\ on \in BOOLEAN /\ guard.tripped \in BOOLEAN /\ down \in BOOLEAN /\ ~down
      /\ Sound(dbg, on, guard.tripped, down) /\ knobs' = k /\ down' = down
      /\ k.on \in BOOLEAN /\ k.guarded \in BOOLEAN
  BY DEF ArmedInv, ApplyModeState, Guards, Knobs
<1>2. CASE ~k.on
  <2>1. dbg' = [Disarm(dbg) EXCEPT !.available = FALSE] /\ guard' = guard
    BY <1>2 DEF ApplyModeState
  <2>2. Sound(Disarm(dbg), on, guard.tripped, down) /\ ~Disarm(dbg).armed  BY <1>1, DisarmSound
  <2>3. Sound(dbg', k.on, guard.tripped, down)
    BY <1>1, <2>1, <2>2 DEF Sound, Switches
  <2> QED  BY <1>1, <2>1, <2>3 DEF ArmedInv
<1>3. CASE k.on /\ ~k.guarded /\ guard.tripped
  <2>1. PICK opens \in BOOLEAN : dbg' = Rearm(dbg, TRUE, opens)  BY <1>3 DEF ApplyModeState
  <2>2. guard' = Calm  BY <1>3 DEF ApplyModeState
  <2>3. Sound(dbg, TRUE, guard.tripped, down)  BY <1>1 DEF Sound
  <2>4. Sound(dbg', TRUE, FALSE, down)  BY <1>1, <2>1, <2>3, RearmSound
  <2>5. guard' \in Guards /\ guard'.tripped = FALSE  BY <2>2, CalmGuard
  <2>6. k.on = TRUE  BY <1>3, <1>1
  <2> QED  BY <1>1, <2>4, <2>5, <2>6 DEF ArmedInv
<1>4. CASE k.on /\ ~(~k.guarded /\ guard.tripped)
  <2>1. dbg' = [dbg EXCEPT !.available = TRUE] /\ guard' = guard
    BY <1>4 DEF ApplyModeState
  <2>2. Sound(dbg', k.on, guard.tripped, down)
    BY <1>1, <1>4, <2>1 DEF Sound, Switches
  <2> QED  BY <1>1, <2>1, <2>2 DEF ArmedInv
<1> QED  BY <1>1, <1>2, <1>3, <1>4

(* _onPaused: the guard may trip on the pause itself.                            *)
LEMMA PauseKeepsArmed ==
  ASSUME ArmedInv, NEW obj, NEW req, NEW newMinute \in BOOLEAN, NEW app \in BOOLEAN,
         Paused(obj, req, newMinute, app)
  PROVE  ArmedInv'
<1> DEFINE h == [guard EXCEPT !.pauses = Least(@ + 1, MaxPauses + 1)]
           g == AfterPause(h, newMinute)
<1>1. /\ knobs' = knobs /\ down' = down /\ dbg.armed /\ guard' = g
      /\ dbg' = IF g.tripped THEN [Disarm(dbg) EXCEPT !.idle = TRUE] ELSE [dbg EXCEPT !.idle = TRUE]
  BY DEF Paused
<1>2. h \in Guards /\ h.tripped = guard.tripped
  BY PauseCounted DEF ArmedInv
<1>3. g \in Guards
  <2> HIDE DEF h
  <2> QED  BY <1>2, AfterPauseTyped
<1> HIDE DEF g
<1>4. Sound(dbg', knobs.on, g.tripped, down)
  <2>1. CASE g.tripped
    <3>1. Sound(Disarm(dbg), knobs.on, g.tripped, down) /\ ~Disarm(dbg).armed
      BY <1>3, DisarmSound DEF ArmedInv, Knobs, Guards
    <3> QED  BY <1>1, <2>1, <3>1 DEF Sound, Switches
  <2>2. CASE ~g.tripped
    BY <1>1, <2>2 DEF ArmedInv, Sound, Switches
  <2> QED  BY <2>1, <2>2
<1> QED  BY <1>1, <1>3, <1>4 DEF ArmedInv

(* The interval of one second, in which a guard trips or recovers.               *)
LEMMA SecondKeepsArmed ==
  ASSUME ArmedInv, Second
  PROVE  ArmedInv'
<1> DEFINE g == RateGuard(guard)
<1>1. knobs' = knobs /\ down' = down  BY DEF Second
<1>2. CASE ~dbg.rate
  BY <1>1, <1>2 DEF Second, ArmedInv
<1>3. CASE dbg.rate
  <2>1. guard' = g /\ \E opens \in BOOLEAN :
          dbg' = IF g.tripped THEN Disarm(dbg)
                 ELSE IF guard.tripped THEN Rearm(dbg, knobs.on, opens) ELSE dbg
    BY <1>3 DEF Second
  <2>2. g \in Guards  BY RateGuardTyped DEF ArmedInv
  <2> HIDE DEF g
  <2>3. knobs.on \in BOOLEAN /\ g.tripped \in BOOLEAN /\ guard.tripped \in BOOLEAN
        /\ down \in BOOLEAN /\ ~down /\ Sound(dbg, knobs.on, guard.tripped, down)
    BY <1>3, <2>2 DEF ArmedInv, Knobs, Guards, Sound
  <2>4. CASE g.tripped
    <3>1. dbg' = Disarm(dbg)  BY <2>1, <2>4
    <3>2. Sound(dbg', knobs.on, g.tripped, down)  BY <2>3, <3>1, DisarmSound
    <3> QED  BY <1>1, <2>1, <2>2, <3>2 DEF ArmedInv
  <2>5. CASE ~g.tripped /\ guard.tripped
    <3>1. PICK opens \in BOOLEAN : dbg' = Rearm(dbg, knobs.on, opens)  BY <2>1, <2>5
    <3>2. Sound(dbg', knobs.on, FALSE, down)  BY <2>3, <3>1, RearmSound
    <3>3. g.tripped = FALSE  BY <2>3, <2>5
    <3> QED  BY <1>1, <2>1, <2>2, <3>2, <3>3 DEF ArmedInv
  <2>6. CASE ~g.tripped /\ ~guard.tripped
    <3>1. dbg' = dbg  BY <2>1, <2>6
    <3>2. Sound(dbg', knobs.on, g.tripped, down)  BY <2>3, <2>6, <3>1 DEF Sound
    <3> QED  BY <1>1, <2>1, <2>2, <3>2 DEF ArmedInv
  <2> QED  BY <2>4, <2>5, <2>6
<1> QED  BY <1>2, <1>3

LEMMA ArmedStep ==
  ASSUME ArmedInv, [INext]_ivars
  PROVE  ArmedInv'
<1>1. CASE EnsureDebuggerActive
  <2>1. PICK opens \in BOOLEAN : dbg' = EnsureActive(dbg, guard.tripped, opens)
    BY <1>1 DEF EnsureDebuggerActive
  <2>2. Sound(dbg', knobs.on, guard.tripped, down)
    BY <2>1, EnsureActiveSound DEF ArmedInv, Knobs, Guards
  <2> QED  BY <1>1, <2>2 DEF EnsureDebuggerActive, ArmedInv
<1>2. CASE \E k \in Knobs : ApplyModeState(k)
  BY <1>2, ModeKeepsArmed
<1>3. CASE \E obj \in Thrown, req \in Callers, newMinute, app \in BOOLEAN :
             Paused(obj, req, newMinute, app)
  BY <1>3, PauseKeepsArmed
<1>4. CASE \E obj \in Thrown, req \in Callers : GetLocals(obj, req)
  <2>1. knobs' = knobs /\ guard' = guard /\ down' = down  BY <1>4 DEF GetLocals
  <2>2. CASE dbg' = dbg  BY <2>1, <2>2 DEF ArmedInv
  <2>3. CASE ~guard.tripped /\ \E opens \in BOOLEAN : dbg' = EnsureActive(dbg, FALSE, opens)
    <3>1. PICK opens \in BOOLEAN : dbg' = EnsureActive(dbg, FALSE, opens)  BY <2>3
    <3>2. guard.tripped = FALSE  BY <2>3 DEF ArmedInv, Guards
    <3>3. Sound(dbg', knobs.on, FALSE, down)
      BY <3>1, <3>2, EnsureActiveSound DEF ArmedInv, Knobs
    <3> QED  BY <2>1, <3>2, <3>3 DEF ArmedInv
  <2> QED  BY <1>4, <2>2, <2>3 DEF GetLocals
<1>5. CASE Second  BY <1>5, SecondKeepsArmed
<1>6. CASE IdleTimeout
  <2>1. dbg' = [Disarm(dbg) EXCEPT !.idle = FALSE]  BY <1>6 DEF IdleTimeout
  <2>2. Sound(Disarm(dbg), knobs.on, guard.tripped, down) /\ ~Disarm(dbg).armed
    BY DisarmSound DEF ArmedInv, Knobs, Guards
  <2>3. Sound(dbg', knobs.on, guard.tripped, down)  BY <2>1, <2>2 DEF Sound, Switches
  <2> QED  BY <1>6, <2>3 DEF IdleTimeout, ArmedInv
<1>7. CASE ShutdownInspector
  BY <1>7 DEF ShutdownInspector, ArmedInv, Sound, Switches
<1>8. CASE UNCHANGED ivars
  BY <1>8 DEF ivars, ArmedInv
<1> QED  BY <1>1, <1>2, <1>3, <1>4, <1>5, <1>6, <1>7, <1>8 DEF INext, Knobs

-------------------------------------------------------------------------------
(* The ring and the lookup                                                       *)

LEMMA LeastNumber ==
  ASSUME NEW T, T \subseteq Nat, T # {}
  PROVE  \E n \in T : \A m \in T : n <= m
<1> DEFINE F == {0 .. n : n \in T}
           R == StrictSubsetOrdering(Nat)
<1>1. F \subseteq FiniteSubsetsOf(Nat)
  <2> SUFFICES ASSUME NEW n \in T  PROVE  0 .. n \in FiniteSubsetsOf(Nat)  OBVIOUS
  <2>1. IsFiniteSet(0 .. n)  BY FS_Interval
  <2> QED  BY <2>1 DEF FiniteSubsetsOf
<1>2. F # {}  OBVIOUS
<1>3. \E A \in F : \A U \in F : ~(U \subseteq A /\ U # A)
  <2> HIDE DEF F
  <2>1. IsWellFoundedOn(R, FiniteSubsetsOf(Nat))  BY FS_StrictSubsetOrderingWellFounded
  <2>2. \A A, U \in F : U \subseteq A /\ U # A => <<U, A>> \in R
    BY <1>1 DEF StrictSubsetOrdering, FiniteSubsetsOf
  <2> HIDE DEF R
  <2>3. \E A \in F : \A U \in F : ~(<<U, A>> \in R)  BY <1>1, <1>2, <2>1, WFMin, Zenon
  <2> QED  BY <2>2, <2>3, Zenon
<1>4. PICK A \in F : \A U \in F : ~(U \subseteq A /\ U # A)  BY <1>3
<1>5. PICK n \in T : A = 0 .. n  OBVIOUS
<1>6. ASSUME NEW m \in T, m < n  PROVE  FALSE
  <2>1. n \in 0 .. n /\ n \notin 0 .. m  BY <1>6
  <2>2. 0 .. m \subseteq 0 .. n /\ 0 .. m # 0 .. n  BY <2>1, <1>6
  <2> QED  BY <2>2, <1>4, <1>5
<1> QED  BY <1>6

(* The newest of some positions of the ring is one of them.                      *)
LEMMA NewestIsOne ==
  ASSUME NEW n \in Nat, NEW S, S \subseteq 1 .. n, S # {}
  PROVE  Newest(S) \in S
<1> DEFINE T == {n - i : i \in S}
<1>1. T \subseteq Nat /\ T # {}
  <2>1. \A i \in S : i \in 1 .. n  OBVIOUS
  <2>2. \A i \in 1 .. n : n - i \in Nat  OBVIOUS
  <2>3. T # {}  OBVIOUS
  <2> QED  BY <2>1, <2>2, <2>3
<1>2. PICK d \in T : \A m \in T : d <= m
  <2> HIDE DEF T
  <2> QED  BY <1>1, LeastNumber
<1>3. PICK i \in S : d = n - i  OBVIOUS
<1>4. ASSUME NEW j \in S  PROVE  j <= i
  <2>1. n - j \in T  OBVIOUS
  <2>2. n - i <= n - j  BY <1>2, <1>3, <2>1
  <2> QED  BY <2>2
<1> QED  BY <1>4 DEF Newest

(* What Fresh and Consume keep are entries of the ring they are applied to.      *)
LEMMA KeptRing ==
  ASSUME NEW T, NEW q \in Seq(T), NEW S, S \subseteq DOMAIN q, NEW r \in Kept(q, S)
  PROVE  /\ r \in Seq(T) /\ Len(r) <= Len(q) /\ ToSet(r) \subseteq ToSet(q)
         /\ \A x \in ToSet(r) : \E i \in S : x = q[i]
<1>1. PICK o \in Ascending(S) : r = [k \in DOMAIN o |-> q[o[k]]]  BY DEF Kept
<1>2. DOMAIN q = 1 .. Len(q) /\ Len(q) \in Nat  OBVIOUS
<1>3. Cardinality(S) \in Nat /\ Cardinality(S) <= Len(q)
  <2>0. \A n \in Nat : IsFiniteSet(1 .. n) /\ Cardinality(1 .. n) = n
    <3> SUFFICES ASSUME NEW n \in Nat  PROVE  IsFiniteSet(1 .. n) /\ Cardinality(1 .. n) = n
      OBVIOUS
    <3>1. /\ IsFiniteSet(1 .. n)
          /\ Cardinality(1 .. n) = IF 1 > n THEN 0 ELSE n - 1 + 1
      BY FS_Interval
    <3> QED  BY <3>1
  <2>1. IsFiniteSet(1 .. Len(q)) /\ Cardinality(1 .. Len(q)) = Len(q)  BY <1>2, <2>0
  <2>2. IsFiniteSet(S) /\ Cardinality(S) <= Cardinality(1 .. Len(q))  BY <1>2, <2>1, FS_Subset
  <2> QED  BY <2>1, <2>2, FS_CardinalityType
<1> DEFINE N == Cardinality(S)
<1>4. o \in [1 .. N -> S]  BY <1>1 DEF Ascending
<1> HIDE DEF N
<1>5. \A k \in 1 .. N : o[k] \in S /\ q[o[k]] \in T /\ q[o[k]] \in ToSet(q)
  BY <1>2, <1>4 DEF ToSet
<1>6. r = [k \in 1 .. N |-> q[o[k]]]  BY <1>1, <1>4
<1>7. r \in [1 .. N -> T] /\ N \in Nat /\ N <= Len(q)  BY <1>3, <1>5, <1>6 DEF N
<1>8. r \in Seq(T) /\ Len(r) = N /\ DOMAIN r = 1 .. N  BY <1>7
<1>9. ASSUME NEW x \in ToSet(r)  PROVE  x \in ToSet(q) /\ \E i \in S : x = q[i]
  <2>1. PICK k \in DOMAIN r : r[k] = x  BY DEF ToSet
  <2> QED  BY <1>5, <1>6, <1>8, <2>1
<1> QED  BY <1>7, <1>8, <1>9

LEMMA FitRing ==
  ASSUME NEW T, NEW q \in Seq(T), NEW cap \in Nat, NEW r, r = Fit(q, cap)
  PROVE  r \in Seq(T) /\ Len(r) <= cap /\ ToSet(r) \subseteq ToSet(q)
<1>1. Len(q) \in Nat /\ DOMAIN q = 1 .. Len(q)  OBVIOUS
<1>2. CASE Len(q) <= cap  BY <1>2 DEF Fit
<1>3. CASE Len(q) > cap
  <2>1. r = SubSeq(q, Len(q) - cap + 1, Len(q))  BY <1>1, <1>3 DEF Fit
  <2> DEFINE from == Len(q) - cap
  <2>2. from \in Nat /\ r = SubSeq(q, from + 1, Len(q)) /\ Len(q) - from = cap /\ from + cap = Len(q)
    BY <1>1, <1>3, <2>1
  <2> HIDE DEF from
  <2>3. \A i \in 1 .. cap : from + i \in 1 .. Len(q)  BY <1>1, <2>2
  <2>4. \A i \in 1 .. cap : q[from + i] \in T  BY <1>1, <2>3
  <2>5. r = [i \in 1 .. cap |-> q[from + i]]
    <3>1. r = [i \in 1 .. (Len(q) - (from + 1) + 1) |-> q[(i + (from + 1)) - 1]]
      BY <1>1, <2>2
    <3>2. Len(q) - (from + 1) + 1 = cap
      <4>1. \A m, n \in Nat : m + n - (m + 1) + 1 = n  OBVIOUS
      <4>2. Len(q) = from + cap /\ from \in Nat  BY <2>2
      <4> QED  BY <4>1, <4>2
    <3>3. \A i \in 1 .. cap : (i + (from + 1)) - 1 = from + i  BY <2>2
    <3> QED  BY <3>1, <3>2, <3>3
  <2>6. r \in Seq(T) /\ Len(r) = cap /\ DOMAIN r = 1 .. cap  BY <2>4, <2>5
  <2>7. ToSet(r) \subseteq ToSet(q)  BY <1>1, <2>3, <2>5, <2>6 DEF ToSet
  <2> QED  BY <2>6, <2>7
<1> QED  BY <1>1, <1>2, <1>3

(* _layer2Lookup finds an entry of the ring or none, and a miss finds none.      *)
Hows == {"background", "exact", "dropped_hash", "dropped_count", "dropped_request"}

LEMMA StagesInRing ==
  ASSUME NEW r, NEW q
  PROVE  Stages(r, q) \in Seq([from : SUBSET DOMAIN r, how : Hows])
<1> DEFINE ST == [from : SUBSET DOMAIN r, how : Hows]
           M(fields) == Matching(r, q, fields)
           From(k) == Foreign(r, q, CASE k = 1 -> Matching(r, q, Exact \ {"req"})
                                      [] k = 2 -> Matching(r, q, {"name", "msg", "count"})
                                      [] k = 3 -> Matching(r, q, {"name", "msg"})
                                      [] OTHER -> LooksAlike(r, q))
           restOf == [k \in 1 .. 4 |-> [how |-> "dropped_request", from |-> From(k)]]
           back == [from |-> M(Exact), how |-> "background"]
           one == [from |-> M(Exact), how |-> "exact"]
           two == [from |-> M(Exact \ {"hash"}), how |-> "dropped_hash"]
           three == [from |-> M({"req", "name", "msg"}), how |-> "dropped_count"]
<1>1. \A fields : M(fields) \subseteq DOMAIN r  BY DEF Matching
<1>2. ASSUME NEW k \in 1 .. 4  PROVE  From(k) \subseteq DOMAIN r
  <2>1. LooksAlike(r, q) \subseteq DOMAIN r  BY DEF LooksAlike, Recent
  <2>2. \A S : S \subseteq DOMAIN r => Foreign(r, q, S) \subseteq DOMAIN r  BY DEF Foreign
  <2>3. CASE k = 1  BY <1>1, <2>2, <2>3
  <2>4. CASE k = 2  BY <1>1, <2>2, <2>4
  <2>5. CASE k = 3  BY <1>1, <2>2, <2>5
  <2>6. CASE k = 4  BY <2>1, <2>2, <2>6
  <2> QED  BY <2>3, <2>4, <2>5, <2>6
<1>3. /\ back \in ST /\ one \in ST /\ two \in ST /\ three \in ST
  <2> HIDE DEF M
  <2> QED  BY <1>1 DEF Hows
<1>4. restOf \in Seq(ST)
  <2> HIDE DEF From
  <2>1. restOf \in [1 .. 4 -> ST]  BY <1>2 DEF Hows
  <2>2. ASSUME NEW U, NEW f \in [1 .. 4 -> U]  PROVE  f \in Seq(U)
    <3>1. PICK n \in Nat : n = 4  OBVIOUS
    <3>2. \A m \in Nat : \A g \in [1 .. m -> U] : g \in Seq(U)  OBVIOUS
    <3> QED  BY <3>1, <3>2
  <2> HIDE DEF restOf, ST
  <2> QED  BY <2>1, <2>2
<1>5. Stages(r, q) = IF q.req = NoRequest THEN <<back>> ELSE <<one, two, three>> \o restOf
  BY DEF Stages
<1> HIDE DEF ST, restOf, back, one, two, three
<1>6. <<back>> \in Seq(ST) /\ <<one, two, three>> \in Seq(ST)  BY <1>3
<1>7. <<one, two, three>> \o restOf \in Seq(ST)  BY <1>4, <1>6
<1>8. Stages(r, q) \in Seq(ST)  BY <1>5, <1>6, <1>7
<1> QED  BY <1>8 DEF ST

LEMMA LookupInRing ==
  ASSUME NEW T, NEW r \in Seq(T), NEW q, NEW l, l = Layer2(r, q)
  PROVE  /\ l.at # 0 => l.at \in DOMAIN r /\ l.how \in Hows
         /\ l.how = "cache_miss" => l.at = 0
         /\ l.how # "tag"
<1> DEFINE stages == Stages(r, q)
           live == {k \in DOMAIN stages : stages[k].from /= {}}
           first == CHOOSE k \in live : \A j \in live : k <= j
<1>1. l = IF live = {} THEN [how |-> "cache_miss", at |-> 0, among |-> {}]
          ELSE [how |-> stages[first].how, at |-> Chosen(r, stages[first]),
                among |-> stages[first].from]
  BY DEF Layer2
<1>2. CASE live = {}  BY <1>1, <1>2
<1>3. CASE live # {}
  <2>1. stages \in Seq([from : SUBSET DOMAIN r, how : Hows])  BY StagesInRing
  <2> HIDE DEF stages
  <2>2. DOMAIN stages = 1 .. Len(stages) /\ Len(stages) \in Nat  BY <2>1
  <2>3. live \subseteq Nat  BY <2>2
  <2>4. \E k \in live : \A j \in live : k <= j
    <3> HIDE DEF live
    <3> QED  BY <1>3, <2>3, LeastNumber
  <2>5. first \in live  BY <2>4
  <2> HIDE DEF first
  <2> DEFINE s == stages[first]
  <2>6. s \in [from : SUBSET DOMAIN r, how : Hows] /\ s.from # {}
    <3> DEFINE ST == [from : SUBSET DOMAIN r, how : Hows]
    <3>1. stages \in Seq(ST)  BY <2>1
    <3>2. first \in DOMAIN stages /\ stages[first].from # {}  BY <2>5
    <3> HIDE DEF ST
    <3>3. stages[first] \in ST  BY <3>1, <3>2
    <3> QED  BY <3>2, <3>3 DEF ST
  <2>7. l.how = s.how /\ l.at = Chosen(r, s)  BY <1>1, <1>3
  <2> HIDE DEF s
  <2>8. DOMAIN r = 1 .. Len(r) /\ Len(r) \in Nat  OBVIOUS
  <2>9. \A S : S \subseteq DOMAIN r /\ S # {} => Newest(S) \in DOMAIN r
    BY <2>8, NewestIsOne
  <2>10. s.from \subseteq DOMAIN r /\ s.from # {} /\ s.how \in Hows  BY <2>6
  <2>11. Newest(s.from) \in DOMAIN r  BY <2>9, <2>10
  <2>12. \A own : Pick(r, s.from, own) = 0 \/ Pick(r, s.from, own) \in DOMAIN r
    <3>1. Recent(r, s.from) \subseteq DOMAIN r  BY <2>10 DEF Recent
    <3>2. Recent(r, s.from) # {} => Newest(Recent(r, s.from)) \in DOMAIN r  BY <2>9, <3>1
    <3> QED  BY <2>11, <3>2 DEF Pick
  <2>13. Chosen(r, s) = 0 \/ Chosen(r, s) \in DOMAIN r
    BY <2>10, <2>11, <2>12 DEF Chosen, Hows
  <2> QED  BY <2>7, <2>10, <2>13 DEF Hows
<1> QED  BY <1>2, <1>3
-------------------------------------------------------------------------------
(* Every entry of the ring has been given an id, is still to be handed out, and  *)
(* only the object it was captured for may carry its id as a tag.                *)
EntriesSound(r, upto, handed, marks) ==
  \A e \in ToSet(r) :
    /\ {"id", "obj"} \subseteq DOMAIN e
    /\ e.id \in 1 .. upto /\ e.id \notin handed
    /\ \A o \in Thrown : marks[o] = e.id => e.obj = o

RingInv ==
  /\ ring \in Seq(ToSet(ring)) /\ Len(ring) <= knobs.cap
  /\ nextId \in 0 .. MaxThrows /\ collected \in 0 .. PerSecond
  /\ given \subseteq 1 .. nextId
  /\ tags \in [Thrown -> 0 .. nextId]
  /\ EntriesSound(ring, nextId, given, tags)

LEMMA OfItsOwn ==
  ASSUME NEW T, NEW r \in Seq(T)  PROVE  r \in Seq(ToSet(r))
<1>1. DOMAIN r = 1 .. Len(r) /\ Len(r) \in Nat  OBVIOUS
<1>2. \A i \in 1 .. Len(r) : r[i] \in ToSet(r)  BY <1>1 DEF ToSet
<1>3. r \in [1 .. Len(r) -> ToSet(r)]  BY <1>1, <1>2
<1> DEFINE U == ToSet(r)
           n == Len(r)
<1>4. n \in Nat /\ r \in [1 .. n -> U]  BY <1>1, <1>3
<1> HIDE DEF U, n
<1>5. r \in Seq(U)  BY <1>4
<1> QED  BY <1>5 DEF U

(* A lookup finds nothing, or an entry that is still to be handed out; by a tag, *)
(* only the entry of the object that was asked for (getLocalsWithDiagnostics).   *)
LEMMA FoundSound ==
  ASSUME NEW T, NEW r \in Seq(T), NEW upto \in Nat, NEW handed,
         EntriesSound(r, upto, handed, tags), NEW obj \in Thrown, NEW req,
         NEW f, f = Found(r, obj, req)
  PROVE  /\ f.obj = obj
         /\ f.id # 0 => /\ f.id \in 1 .. upto /\ f.id \notin handed
                        /\ f.how = "tag" => f.of = obj
<1> DEFINE tagged == {i \in DOMAIN r : tags[obj] /= 0 /\ r[i].id = tags[obj]}
           q == Joint([req |-> req], Asked[obj])
           l == Layer2(r, q)
           at == IF tagged /= {} THEN Newest(tagged) ELSE l.at
<1>1. /\ f.how = IF tagged /= {} THEN "tag"
                 ELSE IF l.how = "cache_miss" THEN DiagnoseMiss(r, q) ELSE l.how
      /\ f.obj = obj
      /\ f.id = IF at = 0 THEN 0 ELSE r[at].id
      /\ f.of = IF at = 0 THEN NoRequest ELSE r[at].obj
  BY DEF Found
<1>2. /\ l.at # 0 => l.at \in DOMAIN r
      /\ l.how = "cache_miss" => l.at = 0
      /\ l.how # "tag"
  <2> HIDE DEF q
  <2> QED  BY LookupInRing
<1>3. tagged # {} => Newest(tagged) \in tagged
  <2>1. DOMAIN r = 1 .. Len(r) /\ Len(r) \in Nat  OBVIOUS
  <2>2. tagged \subseteq 1 .. Len(r)  BY <2>1
  <2> HIDE DEF tagged
  <2> QED  BY <2>1, <2>2, NewestIsOne
<1>4. tagged \subseteq DOMAIN r /\ \A i \in tagged : r[i].id = tags[obj]  OBVIOUS
<1> HIDE DEF tagged, l, q
<1>5. at # 0 => at \in DOMAIN r  BY <1>2, <1>3, <1>4
<1>6. tagged # {} => at = Newest(tagged)  OBVIOUS
<1>7. tagged = {} => at = l.at  OBVIOUS
<1> HIDE DEF at
<1>8. SUFFICES ASSUME f.id # 0
               PROVE  /\ f.id \in 1 .. upto /\ f.id \notin handed
                      /\ f.how = "tag" => f.of = obj
  BY <1>1
<1>9. at # 0 /\ f.id = r[at].id /\ f.of = r[at].obj  BY <1>1, <1>8
<1>10. at \in DOMAIN r /\ r[at] \in ToSet(r)  BY <1>5, <1>9 DEF ToSet
<1>11. /\ r[at].id \in 1 .. upto /\ r[at].id \notin handed
       /\ tags[obj] = r[at].id => r[at].obj = obj
  BY <1>10 DEF EntriesSound
<1>12. f.how = "tag" => tagged # {}  BY <1>1, <1>2, <1>7, <1>9
<1>13. tagged # {} => tags[obj] = r[at].id  BY <1>3, <1>4, <1>6
<1> QED  BY <1>9, <1>11, <1>12, <1>13

(* What keeps fewer entries keeps them sound.                                    *)
LEMMA FewerEntries ==
  ASSUME NEW r, NEW s, NEW upto, NEW handed, NEW marks, ToSet(s) \subseteq ToSet(r),
         EntriesSound(r, upto, handed, marks)
  PROVE  EntriesSound(s, upto, handed, marks)
  BY DEF EntriesSound

LEMMA FreshRing ==
  ASSUME RingInv, NEW r \in Fresh(ring)
  PROVE  /\ r \in Seq(ToSet(ring)) /\ Len(r) <= Len(ring) /\ ToSet(r) \subseteq ToSet(ring)
         /\ EntriesSound(r, nextId, given, tags)
<1>1. ring \in Seq(ToSet(ring)) /\ EntriesSound(ring, nextId, given, tags)  BY DEF RingInv
<1> DEFINE S == {i \in DOMAIN ring : ring[i].age <= Ttl}
           T == ToSet(ring)
<1>2. S \subseteq DOMAIN ring /\ r \in Kept(ring, S)  BY DEF Fresh
<1>3. ring \in Seq(T)  BY <1>1
<1> HIDE DEF S, T
<1>4. r \in Seq(T) /\ Len(r) <= Len(ring) /\ ToSet(r) \subseteq ToSet(ring)
  BY <1>2, <1>3, KeptRing
<1>5. EntriesSound(r, nextId, given, tags)  BY <1>1, <1>4, FewerEntries
<1> QED  BY <1>4, <1>5 DEF T

(* An action that leaves the ring and its numbers alone, or shrinks it.          *)
LEMMA RingStays ==
  ASSUME RingInv, NEW T, ring' \in Seq(T), ToSet(ring') \subseteq ToSet(ring),
         Len(ring') <= knobs'.cap, collected' \in 0 .. PerSecond,
         UNCHANGED <<nextId, given, tags>>
  PROVE  RingInv'
<1>1. ring' \in Seq(ToSet(ring'))  BY OfItsOwn
<1>2. EntriesSound(ring', nextId', given', tags')  BY FewerEntries DEF RingInv
<1> QED  BY <1>1, <1>2 DEF RingInv

LEMMA RingInitially ==
  ASSUME IInit  PROVE  RingInv
<1>1. /\ ring = <<>> /\ nextId = 0 /\ collected = 0 /\ given = {}
      /\ tags = [o \in Thrown |-> 0] /\ knobs.cap \in Caps
  BY DEF IInit
<1>2. {PerSecond, MaxThrows} \union Caps \subseteq Nat  BY InspectorAssumption
<1>3. ToSet(ring) = {} /\ ring \in Seq(ToSet(ring)) /\ Len(ring) = 0  BY <1>1 DEF ToSet
<1>4. tags \in [Thrown -> 0 .. nextId]  BY <1>1
<1>5. EntriesSound(ring, nextId, given, tags)  BY <1>3 DEF EntriesSound
<1>6. Len(ring) <= knobs.cap /\ nextId \in 0 .. MaxThrows /\ collected \in 0 .. PerSecond
  BY <1>1, <1>2, <1>3
<1> QED  BY <1>1, <1>3, <1>4, <1>5, <1>6 DEF RingInv

LEMMA ModeKeepsRing ==
  ASSUME RingInv, NEW k \in Knobs, ApplyModeState(k)  PROVE  RingInv'
<1>1. /\ knobs' = k /\ ring' = Fit(ring, k.cap)
      /\ UNCHANGED <<nextId, collected, tags, given>>
  BY DEF ApplyModeState
<1>2. k.cap \in Nat  BY InspectorAssumption DEF Knobs
<1> DEFINE T == ToSet(ring)
<1>3. ring \in Seq(T)  BY DEF RingInv
<1> HIDE DEF T
<1>4. ring' \in Seq(T) /\ Len(ring') <= k.cap /\ ToSet(ring') \subseteq ToSet(ring)
  BY <1>1, <1>2, <1>3, FitRing
<1> QED  BY <1>1, <1>4, RingStays DEF RingInv

(* A second passes: every entry is a second older and otherwise what it was.     *)
LEMMA SecondKeepsRing ==
  ASSUME RingInv, ArmedInv, Second  PROVE  RingInv'
<1> DEFINE old(e) == [e EXCEPT !.age = Least(@ + 1, Ttl + 1)]
<1>1. /\ ring' = [i \in DOMAIN ring |-> old(ring[i])]
      /\ UNCHANGED <<knobs, nextId, tags, given>>
      /\ collected' = 0 \/ collected' = collected
  BY DEF Second
<1>2. DOMAIN ring = 1 .. Len(ring) /\ Len(ring) \in Nat  BY DEF RingInv
<1>3. DOMAIN ring' = 1 .. Len(ring) /\ \A i \in 1 .. Len(ring) : ring'[i] = old(ring[i])
  BY <1>1, <1>2
<1>4. ring' \in Seq(ToSet(ring')) /\ Len(ring') = Len(ring)
  <2> DEFINE U == ToSet(ring')
  <2>1. \A i \in 1 .. Len(ring) : ring'[i] \in U  BY <1>3 DEF ToSet
  <2>2. ring' = [i \in 1 .. Len(ring) |-> ring'[i]]  BY <1>1, <1>2
  <2> HIDE DEF U
  <2>3. ring' \in [1 .. Len(ring) -> U]  BY <2>1, <2>2
  <2>4. ring' \in Seq(U) /\ Len(ring') = Len(ring)  BY <1>2, <2>3
  <2> QED  BY <2>4 DEF U
<1>5. ASSUME NEW e, {"id", "obj"} \subseteq DOMAIN e
      PROVE  /\ {"id", "obj"} \subseteq DOMAIN old(e)
             /\ old(e).id = e.id /\ old(e).obj = e.obj
  BY <1>5
<1> HIDE DEF old
<1>6. EntriesSound(ring', nextId', given', tags')
  <2> SUFFICES ASSUME NEW x \in ToSet(ring')
               PROVE  /\ {"id", "obj"} \subseteq DOMAIN x
                      /\ x.id \in 1 .. nextId /\ x.id \notin given
                      /\ \A o \in Thrown : tags[o] = x.id => x.obj = o
    BY <1>1 DEF EntriesSound
  <2>1. PICK i \in 1 .. Len(ring) : x = old(ring[i])  BY <1>3 DEF ToSet
  <2>2. ring[i] \in ToSet(ring)  BY <1>2 DEF ToSet
  <2>3. /\ {"id", "obj"} \subseteq DOMAIN ring[i]
        /\ ring[i].id \in 1 .. nextId /\ ring[i].id \notin given
        /\ \A o \in Thrown : tags[o] = ring[i].id => ring[i].obj = o
    BY <2>2 DEF RingInv, EntriesSound
  <2> QED  BY <1>5, <2>1, <2>3
<1>7. collected' \in 0 .. PerSecond  BY <1>1, InspectorAssumption DEF RingInv
<1> QED  BY <1>1, <1>4, <1>6, <1>7 DEF RingInv
LEMMA Pushed ==
  ASSUME NEW T, NEW q \in Seq(T), NEW e, NEW cap \in Nat, NEW r, r = Fit(Append(q, e), cap)
  PROVE  /\ r \in Seq(ToSet(r)) /\ Len(r) <= cap /\ ToSet(r) \subseteq ToSet(q) \union {e}
<1> DEFINE U == T \union {e}
           w == Append(q, e)
<1>1. q \in Seq(U) /\ e \in U  OBVIOUS
<1> HIDE DEF U
<1>2. /\ w \in Seq(U) /\ Len(w) = Len(q) + 1 /\ w[Len(q) + 1] = e
      /\ \A i \in 1 .. Len(q) : w[i] = q[i]
      /\ Len(q) \in Nat /\ DOMAIN q = 1 .. Len(q) /\ DOMAIN w = 1 .. Len(w)
  BY <1>1
<1>3. r = Fit(w, cap)  OBVIOUS
<1> HIDE DEF w
<1>4. r \in Seq(U) /\ Len(r) <= cap /\ ToSet(r) \subseteq ToSet(w)  BY <1>2, <1>3, FitRing
<1>5. ASSUME NEW i \in DOMAIN w  PROVE  w[i] \in ToSet(q) \union {e}
  <2>1. i \in 1 .. Len(q) \/ i = Len(q) + 1  BY <1>2
  <2>2. i \in 1 .. Len(q) => w[i] \in ToSet(q)  BY <1>2 DEF ToSet
  <2> QED  BY <1>2, <2>1, <2>2
<1>6. ToSet(w) \subseteq ToSet(q) \union {e}  BY <1>5 DEF ToSet
<1>7. r \in Seq(ToSet(r))  BY <1>4, OfItsOwn
<1> QED  BY <1>4, <1>6, <1>7

(* _onPaused: the new entry has the next id, and the object its tag, if it had   *)
(* none (allocateId, installCaptureTag).                                         *)
LEMMA PauseKeepsRing ==
  ASSUME RingInv, ArmedInv, NEW obj \in Thrown, NEW req, NEW newMinute, NEW app,
         Paused(obj, req, newMinute, app)
  PROVE  RingInv'
<1> DEFINE e == Joint([id |-> nextId + 1, obj |-> obj, age |-> 0, req |-> req], Seen[obj])
           skip == collected >= PerSecond \/ ~app
<1>1. /\ IF skip
         THEN /\ IF collected >= PerSecond THEN UNCHANGED ring ELSE ring' \in Fresh(ring)
              /\ UNCHANGED <<nextId, collected, tags>>
         ELSE /\ nextId < MaxThrows /\ nextId' = nextId + 1
              /\ ring' \in Push(ring, e, knobs.cap)
              /\ collected' = collected + 1
              /\ tags' = Tag(tags, obj, nextId + 1)
      /\ UNCHANGED <<knobs, given>>
  BY DEF Paused
<1>2. /\ knobs.cap \in Nat /\ MaxThrows \in Nat /\ PerSecond \in Nat
      /\ nextId \in Nat /\ collected \in Nat /\ Len(ring) \in Nat
  BY InspectorAssumption DEF ArmedInv, Knobs, RingInv
<1>3. CASE skip
  <2>1. UNCHANGED ring \/ ring' \in Fresh(ring)  BY <1>1, <1>3
  <2>2. ring' \in Seq(ToSet(ring)) /\ Len(ring') <= Len(ring) /\ ToSet(ring') \subseteq ToSet(ring)
    <3>1. CASE UNCHANGED ring
      <4>1. ring \in Seq(ToSet(ring))  BY DEF RingInv
      <4>2. ring' = ring  BY <3>1
      <4>3. ring' \in Seq(ToSet(ring))  BY <4>1, <4>2
      <4> QED  BY <1>2, <4>2, <4>3
    <3>2. CASE ring' \in Fresh(ring)
      <4>1. \A r \in Fresh(ring) : r \in Seq(ToSet(ring)) /\ Len(r) <= Len(ring)
                                   /\ ToSet(r) \subseteq ToSet(ring)
        BY FreshRing
      <4> QED  BY <3>2, <4>1
    <3> QED  BY <2>1, <3>1, <3>2
  <2>3. UNCHANGED <<nextId, collected, tags, given, knobs>>  BY <1>1, <1>3
  <2>4. Len(ring') <= knobs'.cap
    <3>1. Len(ring) <= knobs.cap /\ Len(ring') \in Nat  BY <2>2 DEF RingInv
    <3> QED  BY <1>2, <2>2, <2>3, <3>1
  <2>5. collected' \in 0 .. PerSecond  BY <2>3 DEF RingInv
  <2> QED  BY <2>2, <2>3, <2>4, <2>5, RingStays
<1>4. CASE ~skip
  <2>1. /\ nextId < MaxThrows /\ nextId' = nextId + 1 /\ collected' = collected + 1
        /\ tags' = Tag(tags, obj, nextId + 1) /\ collected < PerSecond
        /\ UNCHANGED <<knobs, given>>
    BY <1>1, <1>2, <1>4
  <2>2. PICK r \in Fresh(ring) : ring' = Fit(Append(r, e), knobs.cap)  BY <1>1, <1>4 DEF Push
  <2>3. {"id", "obj"} \subseteq DOMAIN e /\ e.id = nextId + 1 /\ e.obj = obj
    <3> DEFINE f == [id |-> nextId + 1, obj |-> obj, age |-> 0, req |-> req]
               D == DOMAIN f \union DOMAIN Seen[obj]
    <3>1. e = [x \in D |-> IF x \in DOMAIN f THEN f[x] ELSE Seen[obj][x]]  BY Zenon DEF Joint
    <3>2. {"id", "obj"} \subseteq DOMAIN f /\ f["id"] = nextId + 1 /\ f["obj"] = obj  OBVIOUS
    <3>3. {"id", "obj"} \subseteq D  BY <3>2
    <3> HIDE DEF e, f, D
    <3>4. DOMAIN e = D /\ e["id"] = f["id"] /\ e["obj"] = f["obj"]  BY <3>1, <3>2, <3>3
    <3> QED  BY <3>2, <3>3, <3>4
  <2> HIDE DEF e
  <2>4. r \in Seq(ToSet(ring)) /\ EntriesSound(r, nextId, given, tags)  BY FreshRing
  <2>5. /\ ring' \in Seq(ToSet(ring')) /\ Len(ring') <= knobs.cap
        /\ ToSet(ring') \subseteq ToSet(r) \union {e}
    <3> DEFINE T == ToSet(ring)
               z == Fit(Append(r, e), knobs.cap)
    <3>1. r \in Seq(T)  BY <2>4
    <3> HIDE DEF T
    <3>2. z \in Seq(ToSet(z)) /\ Len(z) <= knobs.cap /\ ToSet(z) \subseteq ToSet(r) \union {e}
      BY <1>2, <3>1, Pushed
    <3>3. ring' = z  BY <2>2
    <3> HIDE DEF z
    <3> QED  BY <3>2, <3>3
  <2>6. tags \in [Thrown -> 0 .. nextId] /\ given \subseteq 1 .. nextId  BY DEF RingInv
  <2>7. /\ tags' \in [Thrown -> 0 .. nextId + 1]
        /\ \A o \in Thrown : tags'[o] = tags[o] \/ (o = obj /\ tags'[o] = nextId + 1)
    <3>1. CASE tags' = tags  BY <1>2, <2>6, <3>1
    <3>2. CASE tags' = [tags EXCEPT ![obj] = nextId + 1]  BY <1>2, <2>6, <3>2
    <3> QED  BY <2>1, <3>1, <3>2 DEF Tag
  <2>8. EntriesSound(ring', nextId', given', tags')
    <3> SUFFICES ASSUME NEW x \in ToSet(r) \union {e}
                 PROVE  /\ {"id", "obj"} \subseteq DOMAIN x
                        /\ x.id \in 1 .. nextId + 1 /\ x.id \notin given
                        /\ \A o \in Thrown : tags'[o] = x.id => x.obj = o
      BY <2>1, <2>5 DEF EntriesSound
    <3>1. CASE x \in ToSet(r)
      <4>1. /\ {"id", "obj"} \subseteq DOMAIN x
            /\ x.id \in 1 .. nextId /\ x.id \notin given
            /\ \A o \in Thrown : tags[o] = x.id => x.obj = o
        BY <2>4, <3>1 DEF EntriesSound
      <4>2. x.id # nextId + 1 /\ x.id \in 1 .. nextId + 1  BY <1>2, <4>1
      <4> QED  BY <2>7, <4>1, <4>2
    <3>2. CASE x = e
      <4>1. nextId + 1 \notin given /\ nextId + 1 \in 1 .. nextId + 1  BY <1>2, <2>6
      <4>2. \A o \in Thrown : tags[o] # nextId + 1  BY <1>2, <2>6
      <4> QED  BY <2>3, <2>7, <3>2, <4>1, <4>2
    <3> QED  BY <3>1, <3>2
  <2>9. /\ nextId' \in 0 .. MaxThrows /\ collected' \in 0 .. PerSecond
        /\ given' \subseteq 1 .. nextId' /\ tags' \in [Thrown -> 0 .. nextId']
    <3>1. nextId' \in 0 .. MaxThrows /\ collected' \in 0 .. PerSecond  BY <1>2, <2>1
    <3>2. 1 .. nextId \subseteq 1 .. nextId + 1  BY <1>2
    <3> QED  BY <2>1, <2>6, <2>7, <3>1, <3>2
  <2> QED  BY <2>1, <2>5, <2>8, <2>9 DEF RingInv
<1> QED  BY <1>3, <1>4

(* consumeFrames: what has been handed out is in the ring no more.               *)
LEMMA LookupKeepsRing ==
  ASSUME RingInv, ArmedInv, NEW obj \in Thrown, NEW req, GetLocals(obj, req)
  PROVE  /\ RingInv'
         /\ answer'.id # 0 => /\ answer'.id \notin given
                              /\ answer'.how = "tag" => answer'.of = answer'.obj
<1>1. UNCHANGED <<knobs, nextId, collected, tags>>  BY DEF GetLocals
<1>2. PICK r \in Fresh(ring) :
        \/ ring' = r /\ answer' = [NoAnswer EXCEPT !.how = "off"] /\ UNCHANGED given
        \/ /\ answer' = Found(r, obj, req)
           /\ ring' \in HandOut(r, Found(r, obj, req).id)
           /\ given' = given \union ({Found(r, obj, req).id} \ {0})
  BY DEF GetLocals
<1>3. /\ r \in Seq(ToSet(ring)) /\ Len(r) <= Len(ring) /\ ToSet(r) \subseteq ToSet(ring)
      /\ EntriesSound(r, nextId, given, tags)
  BY FreshRing
<1>4. /\ knobs.cap \in Nat /\ nextId \in Nat /\ Len(ring) \in Nat /\ Len(r) \in Nat
      /\ Len(ring) <= knobs.cap /\ collected \in 0 .. PerSecond
  BY <1>3, InspectorAssumption DEF ArmedInv, Knobs, RingInv
<1>5. CASE ring' = r /\ answer' = [NoAnswer EXCEPT !.how = "off"] /\ UNCHANGED given
  <2>1. answer'.id = 0  BY <1>5 DEF NoAnswer
  <2>2. Len(ring') <= knobs'.cap  BY <1>1, <1>3, <1>4, <1>5
  <2>3. ring' \in Seq(ToSet(ring)) /\ ToSet(ring') \subseteq ToSet(ring)  BY <1>3, <1>5
  <2>4. RingInv'  BY <1>1, <1>4, <1>5, <2>2, <2>3, RingStays
  <2> QED  BY <2>1, <2>4
<1>6. CASE /\ answer' = Found(r, obj, req)
           /\ ring' \in HandOut(r, Found(r, obj, req).id)
           /\ given' = given \union ({Found(r, obj, req).id} \ {0})
  <2> DEFINE f == Found(r, obj, req)
             S == {i \in DOMAIN r : r[i].id /= f.id}
             T == ToSet(ring)
  <2>1. /\ f.obj = obj
        /\ f.id # 0 => /\ f.id \in 1 .. nextId /\ f.id \notin given
                       /\ f.how = "tag" => f.of = obj
    <3>1. r \in Seq(T)  BY <1>3
    <3> HIDE DEF T
    <3> QED  BY <1>3, <1>4, <3>1, FoundSound
  <2>2. answer' = f /\ ring' \in Kept(r, S) /\ given' = given \union ({f.id} \ {0})
    BY <1>6 DEF HandOut, Consume
  <2>3. S \subseteq DOMAIN r /\ \A i \in S : r[i].id # f.id  OBVIOUS
  <2>4. r \in Seq(T)  BY <1>3
  <2> HIDE DEF f, S, T
  <2>5. /\ ring' \in Seq(T) /\ Len(ring') <= Len(r) /\ ToSet(ring') \subseteq ToSet(r)
        /\ \A x \in ToSet(ring') : \E i \in S : x = r[i]
    BY <2>2, <2>3, <2>4, KeptRing
  <2>6. \A x \in ToSet(ring') : x.id # f.id  BY <2>3, <2>5
  <2>7. EntriesSound(ring', nextId', given', tags')
    <3>1. EntriesSound(ring', nextId, given, tags)  BY <1>3, <2>5, FewerEntries
    <3>2. \A x \in ToSet(ring') : x.id \notin given'  BY <2>2, <2>6, <3>1 DEF EntriesSound
    <3> QED  BY <1>1, <3>1, <3>2 DEF EntriesSound
  <2>8. ring' \in Seq(ToSet(ring'))  BY <2>5, OfItsOwn
  <2>9. Len(ring') <= knobs'.cap
    <3>1. Len(ring') \in Nat  BY <2>5
    <3> QED  BY <1>1, <1>3, <1>4, <2>5, <3>1
  <2>10. given' \subseteq 1 .. nextId'  BY <1>1, <2>1, <2>2 DEF RingInv
  <2>11. RingInv'  BY <1>1, <2>7, <2>8, <2>9, <2>10 DEF RingInv
  <2> QED  BY <2>1, <2>2, <2>11
<1> QED  BY <1>2, <1>5, <1>6
LEMMA RingStep ==
  ASSUME RingInv, ArmedInv, [INext]_ivars
  PROVE  RingInv'
<1>1. CASE UNCHANGED <<knobs, ring, nextId, collected, tags, given>>  BY <1>1 DEF RingInv
<1>2. CASE \E k \in Knobs : ApplyModeState(k)  BY <1>2, ModeKeepsRing
<1>3. CASE \E obj \in Thrown, req \in Callers, newMinute, app \in BOOLEAN :
             Paused(obj, req, newMinute, app)
  BY <1>3, PauseKeepsRing
<1>4. CASE \E obj \in Thrown, req \in Callers : GetLocals(obj, req)  BY <1>4, LookupKeepsRing
<1>5. CASE Second  BY <1>5, SecondKeepsRing
<1>6. CASE EnsureDebuggerActive \/ IdleTimeout \/ ShutdownInspector \/ UNCHANGED ivars
  BY <1>1, <1>6 DEF EnsureDebuggerActive, IdleTimeout, ShutdownInspector, ivars
<1> QED  BY <1>2, <1>3, <1>4, <1>5, <1>6 DEF INext, Knobs

(* What the switches, the guard, the ring and the tags keep in every step.       *)
THEOREM InspectorInductive == ISpec => [](ArmedInv /\ RingInv)
<1>1. IInit => ArmedInv /\ RingInv  BY ArmedInitially, RingInitially
<1>2. (ArmedInv /\ RingInv) /\ [INext]_ivars => (ArmedInv /\ RingInv)'  BY ArmedStep, RingStep
<1> QED  BY <1>1, <1>2, PTL DEF ISpec

(* The debugger is armed only while locals are wanted, the guard has not tripped, *)
(* the session is open, the manager is up and the idle timer runs that disarms   *)
(* it; the ring never holds more than maxCachedLocals and the guard counts what   *)
(* it may, for any rates, limits and number of throws (ensureDebuggerActive,     *)
(* applyModeState, tripGuard, evaluateGuardRecovery, LocalsRingBuffer, shutdown). *)
THEOREM InspectorIsSound == ISpec => []InspectorSound
<1>1. ArmedInv /\ RingInv => InspectorSound
  <2> SUFFICES ASSUME ArmedInv, RingInv  PROVE  InspectorSound  OBVIOUS
  <2>1. ArmedIsBounded  BY DEF ArmedInv, Sound, ArmedIsBounded
  <2>2. nextId \in Nat /\ MaxThrows \in Nat /\ nextId <= MaxThrows
    BY InspectorAssumption DEF RingInv
  <2>3. 0 .. nextId \subseteq 0 .. MaxThrows /\ 1 .. nextId \subseteq 1 .. MaxThrows  BY <2>2
  <2>4. tags \in [Thrown -> 0 .. MaxThrows] /\ given \subseteq 1 .. MaxThrows
    BY <2>3 DEF RingInv
  <2>5. ITypeOK
    BY <2>4 DEF ArmedInv, RingInv, Sound, Switches, Knobs, Guards, ITypeOK
  <2> QED  BY <2>1, <2>5 DEF InspectorSound
<1> QED  BY <1>1, InspectorInductive, PTL

(* An entry is handed out once, and by the tag of an object only what was seen   *)
(* when that object was thrown: in any order of throws, captures, expiries and   *)
(* resizings of the ring (getLocalsWithDiagnostics, consumeFrames, allocateId,   *)
(* installCaptureTag).                                                           *)
THEOREM LocalsAreTheirs == ISpec => LocalsFindTheirError
<1> DEFINE A == answer'.id /= 0 /\ answer' /= answer =>
                  answer'.id \notin given /\ (answer'.how = "tag" => answer'.of = answer'.obj)
<1>1. ArmedInv /\ RingInv /\ [INext]_ivars => [A]_ivars
  <2> SUFFICES ASSUME ArmedInv, RingInv, INext, answer'.id /= 0, answer' /= answer
               PROVE  /\ answer'.id \notin given
                      /\ answer'.how = "tag" => answer'.of = answer'.obj
    OBVIOUS
  <2>1. ~Quiet  BY DEF Quiet, NoAnswer
  <2>2. PICK obj \in Thrown, req \in Callers : GetLocals(obj, req)
    BY <2>1 DEF INext, EnsureDebuggerActive, ApplyModeState, Paused, Second, IdleTimeout,
                ShutdownInspector
  <2> QED  BY <2>2, LookupKeepsRing
<1> QED  BY <1>1, InspectorInductive, PTL DEF ISpec, LocalsFindTheirError

------------------------------------------------------------------------------
(* What a package of key k at time t leaves behind: the anchor is still there,    *)
(* or was pushed out, or the window is past.  Admissions in a window are counted  *)
(* from its start on: the limiter has as many timestamps at least.                *)
AnchorRecords == [key : Keys, at : Nat]
DropCounts == [count : Nat, first : Nat, last : Nat]
Admissions == [key : Keys, at : Nat, drops : DropCounts]
Droppings == [key : Keys, at : Nat, after : Nat]
AdmissionTyped ==
  /\ time \in Nat /\ recentCaptures \in Seq(AnchorRecords)
  /\ limiter \in [timestamps : Seq(Nat), drops : DropCounts]
  /\ seen \in [admitted : Seq(Admissions), dropped : Seq(Droppings), suppressed : Seq(AnchorRecords),
               lost : SUBSET AnchorRecords]
AnchorOf(x) == [key |-> x.key, at |-> x.at]
Left(a, anchors, lost, t) ==
  \A i \in DOMAIN a : AnchorOf(a[i]) \in lost \cup anchors \/ t - a[i].at >= DedupWindow
Backed(a, anchors) == \A x \in anchors : \E i \in DOMAIN a : AnchorOf(a[i]) = x
Over(a, t) == \A i \in DOMAIN a : a[i].at <= t
Apart(a, lost) ==
  \A i, j \in DOMAIN a : i < j /\ a[i].key = a[j].key =>
    a[j].at - a[i].at >= DedupWindow \/ AnchorOf(a[i]) \in lost
Justified(a, asked) ==
  \A x \in asked : \E i \in DOMAIN a : a[i].key = x.key /\ a[i].at <= x.at /\ x.at - a[i].at < DedupWindow
Later(a, x) == {i \in DOMAIN a : a[i].at > x}
Above(q, x) == {i \in DOMAIN q : q[i] > x}
Covered(a, stamps, t) ==
  \A x \in Int : x >= t - RateWindow => Cardinality(Later(a, x)) <= Cardinality(Above(stamps, x))
InWindow(a, t) == {i \in DOMAIN a : a[i].at \in (t - RateWindow + 1)..t}
NoFlood(a, t) == \A w \in 0..t : Cardinality(InWindow(a, w)) <= RateLimit
DropsAfter(d, n) == {k \in DOMAIN d : d[k].after = n}
Sums(d, drops, n) ==
  /\ drops.count = Cardinality(DropsAfter(d, n))
  /\ DropsAfter(d, n) # {} => {drops.first, drops.last} \subseteq {d[k].at : k \in DropsAfter(d, n)}
  /\ \A k \in DropsAfter(d, n) : drops.first <= d[k].at /\ d[k].at <= drops.last
Summed(a, d, drops, t) ==
  /\ \A i \in DOMAIN a : Sums(d, a[i].drops, i - 1)
  /\ Sums(d, drops, Len(a))
  /\ \A k \in DOMAIN d : d[k].after <= Len(a) /\ d[k].at <= t
Deduplicated(a, anchors, asked, lost, t) ==
  Left(a, anchors, lost, t) /\ Backed(a, anchors) /\ Apart(a, lost) /\ Justified(a, asked)
Metered(a, stamps, t) == Over(a, t) /\ Covered(a, stamps, t) /\ NoFlood(a, t)
AIInv ==
  /\ AdmissionTyped
  /\ Deduplicated(seen.admitted, Range(recentCaptures), Range(seen.suppressed), seen.lost, time)
  /\ Metered(seen.admitted, limiter.timestamps, time)
  /\ Summed(seen.admitted, seen.dropped, limiter.drops, time)

-------------------------------------------------------------------------------
LEMMA RangeAppend ==
  ASSUME NEW T, NEW q \in Seq(T), NEW x \in T
  PROVE  /\ Append(q, x) \in Seq(T) /\ Len(Append(q, x)) = Len(q) + 1
         /\ DOMAIN q = 1 .. Len(q) /\ Len(q) \in Nat /\ DOMAIN Append(q, x) = 1 .. Len(q) + 1
         /\ Append(q, x)[Len(q) + 1] = x /\ \A i \in 1 .. Len(q) : Append(q, x)[i] = q[i]
         /\ Range(Append(q, x)) = Range(q) \cup {x}
<1>1. /\ Append(q, x) \in Seq(T) /\ Len(Append(q, x)) = Len(q) + 1
      /\ DOMAIN q = 1 .. Len(q) /\ Len(q) \in Nat /\ DOMAIN Append(q, x) = 1 .. Len(q) + 1
      /\ Append(q, x)[Len(q) + 1] = x /\ \A i \in 1 .. Len(q) : Append(q, x)[i] = q[i]
  OBVIOUS
<1>2. Range(Append(q, x)) = Range(q) \cup {x}
  <2>1. \A i \in 1 .. Len(q) + 1 : i \in 1 .. Len(q) \/ i = Len(q) + 1  BY <1>1
  <2>2. 1 .. Len(q) \subseteq 1 .. Len(q) + 1 /\ Len(q) + 1 \in 1 .. Len(q) + 1  BY <1>1
  <2> HIDE <1>1
  <2>3. ASSUME NEW y  PROVE y \in Range(Append(q, x)) <=> y \in Range(q) \cup {x}
    BY <1>1, <2>1, <2>2, Zenon DEF Range
  <2> QED  BY <2>3
<1> QED  BY <1>1, <1>2

LEMMA FinitePart ==
  ASSUME NEW T, NEW q \in Seq(T), NEW S, S \subseteq DOMAIN q
  PROVE  IsFiniteSet(S) /\ Cardinality(S) \in Nat
<1>1. IsFiniteSet(1 .. Len(q)) /\ DOMAIN q = 1 .. Len(q)  BY FS_Interval
<1> QED  BY <1>1, FS_Subset, FS_CardinalityType

(* A place more, if it is one of those counted.                                  *)
LEMMA CountPlace ==
  ASSUME NEW T, NEW q \in Seq(T), NEW S, S \subseteq DOMAIN q, NEW e, e \notin DOMAIN q
  PROVE  Cardinality(S \cup {e}) = Cardinality(S) + 1
<1>1. IsFiniteSet(S)  BY FinitePart
<1> QED  BY <1>1, FS_AddElement

(* What the filter of the limiter keeps is all that is later than its cutoff.    *)
LEMMA KeptAbove ==
  ASSUME NEW q \in Seq(Nat), NEW c \in Int, NEW x \in Int, x >= c, NEW r \in Kept(q, Above(q, c))
  PROVE  r \in Seq(Nat) /\ Cardinality(Above(r, x)) = Cardinality(Above(q, x))
<1>0. Above(q, c) \subseteq DOMAIN q /\ DOMAIN q = 1 .. Len(q)  BY DEF Above
<1>1. PICK o \in Ascending(Above(q, c)) :
        /\ r \in Seq(Nat) /\ DOMAIN o = DOMAIN r
        /\ \A k \in DOMAIN r : o[k] \in Above(q, c) /\ r[k] = q[o[k]]
        /\ \A m \in Above(q, c) : \E k \in DOMAIN r : o[k] = m
        /\ \A j, k \in DOMAIN r : o[j] = o[k] => j = k
  BY <1>0, KeptLines
<1> DEFINE f == [k \in Above(r, x) |-> o[k]]
<1>2. \A k \in Above(r, x) : f[k] \in Above(q, x)  BY <1>1 DEF Above
<1>3. \A m \in Above(q, x) : \E k \in Above(r, x) : f[k] = m
  <2> SUFFICES ASSUME NEW m \in Above(q, x)  PROVE \E k \in Above(r, x) : f[k] = m  OBVIOUS
  <2>1. m \in Above(q, c)
    <3>1. m \in DOMAIN q /\ q[m] \in Nat /\ q[m] > x  BY DEF Above
    <3> QED  BY <3>1 DEF Above
  <2>2. PICK k \in DOMAIN r : o[k] = m  BY <1>1, <2>1
  <2>3. k \in Above(r, x)  BY <1>1, <2>2 DEF Above
  <2> QED  BY <2>2, <2>3
<1>4. \A j, k \in Above(r, x) : f[j] = f[k] => j = k  BY <1>1 DEF Above
<1>5. f \in Bijection(Above(r, x), Above(q, x))
  <2>1. f \in [Above(r, x) -> Above(q, x)]  BY <1>2
  <2> HIDE DEF f
  <2> QED  BY <1>3, <1>4, <2>1 DEF Bijection, Injection, Surjection, IsInjective
<1>6. ExistsBijection(Above(r, x), Above(q, x))  BY <1>5, Zenon DEF ExistsBijection
<1>7. IsFiniteSet(Above(r, x))
  <2>1. Above(r, x) \subseteq DOMAIN r  BY DEF Above
  <2> QED  BY <1>1, <2>1, FinitePart
<1> HIDE DEF f
<1> QED  BY <1>1, <1>6, <1>7, FS_Bijection

-------------------------------------------------------------------------------
LEMMA InitAdmission == AInit => AIInv
<1> SUFFICES ASSUME AInit  PROVE AIInv  OBVIOUS
<1>1. /\ time = 0 /\ recentCaptures = << >> /\ limiter = [timestamps |-> << >>, drops |-> NoDrops]
      /\ seen = [admitted |-> << >>, dropped |-> << >>, suppressed |-> << >>, lost |-> {}]
  BY DEF AInit
<1>2. NoDrops \in DropCounts  BY DEF NoDrops, DropCounts
<1>3. AdmissionTyped
  <2>1. {} \in SUBSET AnchorRecords /\ << >> \in Seq(Nat)  OBVIOUS
  <2> QED  BY <1>1, <1>2, <2>1 DEF AdmissionTyped
<1>4. Range(recentCaptures) = {} /\ Range(seen.suppressed) = {}  BY <1>1 DEF Range
<1>5. Deduplicated(seen.admitted, Range(recentCaptures), Range(seen.suppressed), seen.lost, time)
  BY <1>1, <1>4 DEF Deduplicated, Left, Backed, Apart, Justified
<1>6. Metered(seen.admitted, limiter.timestamps, time)
  <2>1. \A x : Later(seen.admitted, x) = {} /\ Above(limiter.timestamps, x) = {} /\ InWindow(seen.admitted, x) = {}
    BY <1>1 DEF Later, Above, InWindow
  <2>2. Cardinality({}) = 0  BY FS_EmptySet
  <2>3. RateLimit \in Nat  BY AdmissionAssumption
  <2>4. Covered(seen.admitted, limiter.timestamps, time)  BY <2>1, <2>2 DEF Covered
  <2>5. NoFlood(seen.admitted, time)  BY <2>1, <2>2, <2>3 DEF NoFlood
  <2>6. Over(seen.admitted, time)  BY <1>1 DEF Over
  <2> QED  BY <2>4, <2>5, <2>6 DEF Metered
<1>7. Summed(seen.admitted, seen.dropped, limiter.drops, time)
  <2>1. \A n : DropsAfter(seen.dropped, n) = {}  BY <1>1 DEF DropsAfter
  <2>2. Cardinality({}) = 0  BY FS_EmptySet
  <2>3. seen.admitted = << >> /\ seen.dropped = << >> /\ limiter.drops = NoDrops  BY <1>1
  <2>4. \A n : Sums(seen.dropped, NoDrops, n)  BY <2>1, <2>2 DEF Sums, NoDrops
  <2> QED  BY <2>3, <2>4 DEF Summed
<1> QED  BY <1>3, <1>5, <1>6, <1>7 DEF AIInv

LEMMA WithinIs == WithinWindow = Kept(limiter.timestamps, Above(limiter.timestamps, time - RateWindow))
BY DEF WithinWindow, Above

LEMMA WithinCovers ==
  ASSUME AdmissionTyped, Covered(seen.admitted, limiter.timestamps, time), NEW within \in WithinWindow
  PROVE  within \in Seq(Nat) /\ Covered(seen.admitted, within, time)
<1> DEFINE c == time - RateWindow
<1>1. limiter.timestamps \in Seq(Nat) /\ c \in Int
  BY AdmissionAssumption DEF AdmissionTyped
<1>2. \A x \in Int : x >= c => within \in Seq(Nat)
        /\ Cardinality(Above(within, x)) = Cardinality(Above(limiter.timestamps, x))
  <2> SUFFICES ASSUME NEW x \in Int, x >= c
               PROVE  within \in Seq(Nat)
                      /\ Cardinality(Above(within, x)) = Cardinality(Above(limiter.timestamps, x))
    OBVIOUS
  <2>1. within \in Kept(limiter.timestamps, Above(limiter.timestamps, c))  BY WithinIs
  <2> HIDE DEF c
  <2> QED  BY <1>1, <2>1, KeptAbove
<1>3. c >= c  BY <1>1
<1> QED  BY <1>1, <1>2, <1>3 DEF Covered

(* What is above the start of the window is all there is, once it was filtered.  *)
LEMMA WithinCounts ==
  ASSUME AdmissionTyped, NEW within \in WithinWindow
  PROVE  within \in Seq(Nat) /\ Cardinality(Above(within, time - RateWindow)) = Len(within)
<1> DEFINE c == time - RateWindow
           q == limiter.timestamps
<1>1. q \in Seq(Nat) /\ c \in Int  BY AdmissionAssumption DEF AdmissionTyped
<1>2. within \in Kept(q, Above(q, c)) /\ Above(q, c) \subseteq DOMAIN q  BY WithinIs DEF Above
<1> HIDE DEF c, q
<1>3. PICK o \in Ascending(Above(q, c)) :
        /\ within \in Seq(Nat)
        /\ \A k \in DOMAIN within : o[k] \in Above(q, c) /\ within[k] = q[o[k]]
  BY <1>1, <1>2, KeptLines
<1>4. Above(within, c) = 1 .. Len(within)
  <2>1. \A k \in DOMAIN within : within[k] > c  BY <1>3 DEF Above
  <2>2. DOMAIN within = 1 .. Len(within)  BY <1>3
  <2>3. Above(within, c) = {k \in DOMAIN within : within[k] > c}  BY DEF Above
  <2>4. {k \in DOMAIN within : within[k] > c} = DOMAIN within  BY <2>1
  <2> QED  BY <2>2, <2>3, <2>4
<1>5. Len(within) \in Nat /\ Cardinality(1 .. Len(within)) = Len(within)
  <2>0. within \in Seq(Nat)  BY <1>3
  <2> DEFINE n == Len(within)
  <2>1. n \in Nat  BY <2>0
  <2> HIDE DEF n
  <2>2. Cardinality(1 .. n) = IF 1 > n THEN 0 ELSE n - 1 + 1  BY <2>1, FS_Interval
  <2>3. Cardinality(1 .. n) = n  BY <2>1, <2>2
  <2> QED  BY <2>1, <2>3 DEF n
<1>6. Cardinality(Above(within, c)) = Len(within)  BY <1>4, <1>5
<1> QED  BY <1>3, <1>6 DEF c

LEMMA TickInv == AIInv /\ ATick => AIInv'
<1> SUFFICES ASSUME AIInv, ATick  PROVE AIInv'  OBVIOUS
<1> DEFINE a == seen.admitted
<1>1. /\ time' = time + 1 /\ seen' = seen /\ limiter' = limiter /\ recentCaptures' = recentCaptures
      /\ time \in Nat
  BY DEF ATick, AIInv, AdmissionTyped
<1>2. a \in Seq(Admissions) /\ \A i \in DOMAIN a : a[i].at \in Nat /\ a[i].at <= time
  <2>1. a \in Seq(Admissions)  BY DEF AIInv, AdmissionTyped
  <2>2. \A i \in DOMAIN a : a[i] \in Admissions  BY <2>1
  <2>3. \A i \in DOMAIN a : a[i].at \in Nat  BY <2>2 DEF Admissions
  <2> QED  BY <2>1, <2>3 DEF AIInv, Metered, Over
<1>3. AdmissionTyped'  BY <1>1 DEF AIInv, AdmissionTyped
<1>4. Left(a, Range(recentCaptures), seen.lost, time + 1)
  <2>1. DedupWindow \in Nat  BY AdmissionAssumption
  <2>2. Left(a, Range(recentCaptures), seen.lost, time)  BY DEF AIInv, Deduplicated
  <2> HIDE DEF a
  <2> QED  BY <1>1, <1>2, <2>1, <2>2 DEF Left
<1>5. Over(a, time + 1)  BY <1>1, <1>2 DEF Over
<1>6. Covered(a, limiter.timestamps, time + 1)
  BY <1>1, AdmissionAssumption DEF AIInv, Metered, Covered
<1>7. NoFlood(a, time + 1)
  <2> SUFFICES ASSUME NEW w \in 0..(time + 1)  PROVE Cardinality(InWindow(a, w)) <= RateLimit
    BY DEF NoFlood
  <2>1. CASE w \in 0..time  BY <2>1 DEF AIInv, Metered, NoFlood
  <2>2. CASE w = time + 1
    <3>1. InWindow(a, w) \subseteq InWindow(a, time) /\ InWindow(a, time) \subseteq DOMAIN a
      BY <1>1, <1>2, <2>2, AdmissionAssumption DEF InWindow
    <3>2. IsFiniteSet(InWindow(a, time)) /\ Cardinality(InWindow(a, time)) \in Nat  BY <1>2, <3>1, FinitePart
    <3>3. Cardinality(InWindow(a, w)) <= Cardinality(InWindow(a, time)) /\ Cardinality(InWindow(a, w)) \in Nat
      BY <3>1, <3>2, FS_Subset, FS_CardinalityType
    <3>4. Cardinality(InWindow(a, time)) <= RateLimit
      <4>1. time \in 0 .. time  BY <1>1
      <4> QED  BY <4>1 DEF AIInv, Metered, NoFlood
    <3> QED  BY <3>2, <3>3, <3>4, AdmissionAssumption
  <2> QED  BY <1>1, <2>1, <2>2
<1>8. Summed(a, seen.dropped, limiter.drops, time + 1)
  <2>1. seen.dropped \in Seq(Droppings) /\ \A k \in DOMAIN seen.dropped : seen.dropped[k].at \in Nat
    <3>1. seen.dropped \in Seq(Droppings)  BY DEF AIInv, AdmissionTyped
    <3>2. \A k \in DOMAIN seen.dropped : seen.dropped[k] \in Droppings  BY <3>1
    <3> QED  BY <3>1, <3>2 DEF Droppings
  <2> QED  BY <1>1, <2>1 DEF AIInv, Summed
<1> HIDE DEF a
<1> QED  BY <1>1, <1>3, <1>4, <1>5, <1>6, <1>7, <1>8 DEF AIInv, Deduplicated, Metered, a

LEMMA SuppressInv == ASSUME NEW key \in Keys, AIInv, Suppress(key)  PROVE AIInv'
<1> DEFINE a == seen.admitted
           x == [key |-> key, at |-> time]
           asked == Append(seen.suppressed, x)
<1>1. /\ time' = time /\ seen' = [seen EXCEPT !.suppressed = asked] /\ limiter' = limiter
      /\ recentCaptures' = recentCaptures /\ time \in Nat /\ x \in AnchorRecords
  BY DEF Suppress, AIInv, AdmissionTyped, AnchorRecords
<1>2. seen.suppressed \in Seq(AnchorRecords)  BY DEF AIInv, AdmissionTyped
<1>3. asked \in Seq(AnchorRecords) /\ Range(asked) = Range(seen.suppressed) \cup {x}
  BY <1>1, <1>2, RangeAppend
<1>4. PICK n \in DOMAIN recentCaptures : recentCaptures[n].key = key /\ time - recentCaptures[n].at < DedupWindow
  BY DEF Suppress, Duplicate, Anchors
<1>5. recentCaptures[n] \in Range(recentCaptures)  BY DEF Range
<1>6. PICK i \in DOMAIN a : AnchorOf(a[i]) = recentCaptures[n]
  BY <1>5 DEF AIInv, Deduplicated, Backed
<1>7. a[i].key = x.key /\ a[i].at <= x.at /\ x.at - a[i].at < DedupWindow
  <2>1. a[i].at <= time  BY DEF AIInv, Metered, Over
  <2>2. a[i].key = recentCaptures[n].key /\ a[i].at = recentCaptures[n].at
    BY <1>6 DEF AnchorOf
  <2> QED  BY <1>4, <2>1, <2>2
<1> HIDE DEF x, asked
<1>8. Justified(a, Range(asked))
  BY <1>3, <1>7 DEF AIInv, Deduplicated, Justified
<1>9. AdmissionTyped'  BY <1>1, <1>3 DEF AIInv, AdmissionTyped
<1>10. seen'.admitted = a /\ seen'.dropped = seen.dropped /\ seen'.lost = seen.lost /\ seen'.suppressed = asked
  BY <1>1 DEF AIInv, AdmissionTyped
<1> HIDE DEF a
<1> QED  BY <1>1, <1>8, <1>9, <1>10 DEF AIInv, Deduplicated, a

-------------------------------------------------------------------------------
LEMMA DropElsewhere ==
  ASSUME NEW d \in Seq(Droppings), NEW x \in Droppings, NEW n, x.after # n, NEW drops, Sums(d, drops, n)
  PROVE  Sums(Append(d, x), drops, n)
<1> DEFINE e == Append(d, x)
<1>1. /\ DOMAIN e = 1 .. Len(d) + 1 /\ e[Len(d) + 1] = x /\ \A k \in 1 .. Len(d) : e[k] = d[k]
      /\ DOMAIN d = 1 .. Len(d) /\ Len(d) \in Nat
  BY RangeAppend
<1> HIDE DEF e
<1>2. DropsAfter(e, n) = DropsAfter(d, n) /\ DropsAfter(d, n) \subseteq 1 .. Len(d)
  BY <1>1 DEF DropsAfter
<1>3. {e[k].at : k \in DropsAfter(e, n)} = {d[k].at : k \in DropsAfter(d, n)}
  BY <1>1, <1>2
<1>4. \A k \in DropsAfter(e, n) : e[k].at = d[k].at  BY <1>1, <1>2
<1> QED  BY <1>2, <1>3, <1>4 DEF Sums, e

LEMMA DropHere ==
  ASSUME NEW d \in Seq(Droppings), NEW x \in Droppings, NEW drops \in DropCounts,
         \A k \in DOMAIN d : d[k].at <= x.at, Sums(d, drops, x.after),
         NEW f, f = IF drops.count = 0 THEN x.at ELSE drops.first
  PROVE  Sums(Append(d, x), [count |-> drops.count + 1, last |-> x.at, first |-> f], x.after)
<1> DEFINE e == Append(d, x)
           n == x.after
           K == DropsAfter(d, n)
           new == Len(d) + 1
           u == [count |-> drops.count + 1, last |-> x.at, first |-> f]
<1>1. /\ DOMAIN e = 1 .. Len(d) + 1 /\ e[new] = x /\ \A k \in 1 .. Len(d) : e[k] = d[k]
      /\ DOMAIN d = 1 .. Len(d) /\ Len(d) \in Nat
  BY RangeAppend
<1> HIDE DEF e
<1>2. DropsAfter(e, n) = K \cup {new} /\ K \subseteq DOMAIN d /\ new \notin DOMAIN d
  <2>1. \A k \in DOMAIN e : k \in DOMAIN d \/ k = new  BY <1>1
  <2>2. DOMAIN d \subseteq DOMAIN e /\ new \in DOMAIN e /\ new \notin DOMAIN d  BY <1>1
  <2> HIDE DEF new, n
  <2> QED  BY <1>1, <2>1, <2>2 DEF DropsAfter, n
<1>3. IsFiniteSet(K) /\ Cardinality(K) \in Nat  BY <1>2, FinitePart
<1>4. Cardinality(K \cup {new}) = Cardinality(K) + 1
  <2> HIDE DEF K, new
  <2> QED  BY <1>2, CountPlace
<1>5. x.at \in Nat /\ \A k \in DOMAIN d : d[k].at \in Nat
  <2>1. \A k \in DOMAIN d : d[k] \in Droppings  OBVIOUS
  <2> QED  BY <2>1 DEF Droppings
<1>6. u.count = Cardinality(DropsAfter(e, n))  BY <1>2, <1>4 DEF Sums
<1>7. CASE K = {}
  <2>1. drops.count = 0  BY <1>7, FS_EmptySet DEF Sums
  <2>2. u.first = x.at /\ u.last = x.at  BY <2>1
  <2>3. DropsAfter(e, n) = {new} /\ e[new].at = x.at  BY <1>1, <1>2, <1>7
  <2> HIDE DEF u, K, new, n
  <2>4. x.at \in {e[k].at : k \in DropsAfter(e, n)}  BY <2>3
  <2>5. \A k \in DropsAfter(e, n) : x.at <= e[k].at /\ e[k].at <= x.at  BY <1>5, <2>3
  <2> QED  BY <1>6, <2>2, <2>4, <2>5 DEF Sums, n, u, e
<1>8. CASE K # {}
  <2>1. Cardinality(K) # 0  BY <1>3, <1>8, FS_EmptySet
  <2>2. drops.count # 0 /\ drops.count = Cardinality(K)  BY <2>1 DEF Sums
  <2>3. u.first = drops.first /\ u.last = x.at  BY <2>2
  <2>4. /\ drops.first \in {d[k].at : k \in K} /\ \A k \in K : drops.first <= d[k].at
    BY <1>8 DEF Sums
  <2>5. \A k \in K : e[k] = d[k] /\ d[k].at <= x.at  BY <1>1, <1>2
  <2>6. drops.first \in {e[k].at : k \in DropsAfter(e, n)} /\ x.at \in {e[k].at : k \in DropsAfter(e, n)}
    <3>1. PICK k \in K : drops.first = d[k].at  BY <2>4
    <3>2. k \in DropsAfter(e, n) /\ e[k].at = drops.first  BY <1>2, <2>5, <3>1
    <3>3. new \in DropsAfter(e, n) /\ e[new].at = x.at  BY <1>1, <1>2
    <3> QED  BY <3>2, <3>3
  <2>7. drops.first <= x.at
    <3>1. PICK k \in K : drops.first = d[k].at  BY <2>4
    <3> QED  BY <2>5, <3>1
  <2>8. \A k \in DropsAfter(e, n) : drops.first <= e[k].at /\ e[k].at <= x.at
    <3>1. \A k \in K : drops.first <= e[k].at /\ e[k].at <= x.at  BY <2>4, <2>5
    <3>2. e[new].at = x.at /\ x.at <= x.at  BY <1>1, <1>5
    <3> HIDE DEF K, new, n
    <3> QED  BY <1>2, <2>7, <3>1, <3>2
  <2> HIDE DEF u, K, new, n
  <2> QED  BY <1>6, <2>3, <2>6, <2>8 DEF Sums, n, u, e
<1> QED  BY <1>7, <1>8

LEMMA DropTyped ==
  ASSUME AIInv, NEW key \in Keys
  PROVE  /\ Drop(key) \in Droppings /\ Drop(key).after = Len(seen.admitted) /\ Drop(key).at = time
         /\ seen.dropped \in Seq(Droppings) /\ seen.admitted \in Seq(Admissions) /\ Len(seen.admitted) \in Nat
<1>1. seen.dropped \in Seq(Droppings) /\ seen.admitted \in Seq(Admissions) /\ time \in Nat
  BY DEF AIInv, AdmissionTyped
<1>2. Len(seen.admitted) \in Nat  BY <1>1
<1> QED  BY <1>1, <1>2 DEF Drop, Droppings

LEMMA RateLimitedInv == ASSUME NEW key \in Keys, AIInv, RateLimited(key)  PROVE AIInv'
<1> DEFINE a == seen.admitted
           d == seen.dropped
           x == Drop(key)
           e == Append(d, x)
           f == IF limiter.drops.count = 0 THEN time ELSE limiter.drops.first
           drops == [count |-> limiter.drops.count + 1, last |-> time, first |-> f]
<1>1. PICK within \in WithinWindow :
        /\ limiter' = [timestamps |-> within, drops |-> drops]
        /\ seen' = [seen EXCEPT !.dropped = e] /\ UNCHANGED <<time, recentCaptures>>
  BY Zenon DEF RateLimited
<1>2. AdmissionTyped /\ time \in Nat /\ limiter.drops \in DropCounts  BY DEF AIInv, AdmissionTyped
<1>3. within \in Seq(Nat) /\ Covered(a, within, time)
  BY <1>2, WithinCovers DEF AIInv, Metered
<1>4. x \in Droppings /\ x.after = Len(a) /\ x.at = time /\ d \in Seq(Droppings) /\ Len(a) \in Nat
      /\ a \in Seq(Admissions)
  BY DropTyped
<1>5. Summed(a, d, limiter.drops, time)  BY DEF AIInv
<1>6. drops \in DropCounts  BY <1>2 DEF DropCounts
<1>7. Sums(e, drops, Len(a))
  <2>1. \A k \in DOMAIN d : d[k].at <= x.at  BY <1>4, <1>5 DEF Summed
  <2>2. Sums(d, limiter.drops, x.after)  BY <1>4, <1>5 DEF Summed
  <2>3. f = IF limiter.drops.count = 0 THEN x.at ELSE limiter.drops.first  BY <1>4
  <2> HIDE DEF x, d, f
  <2>4. Sums(Append(d, x), [count |-> limiter.drops.count + 1, last |-> x.at, first |-> f], x.after)
    BY <1>2, <1>4, <2>1, <2>2, <2>3, DropHere
  <2> QED  BY <1>4, <2>4
<1>8. \A i \in DOMAIN a : Sums(e, a[i].drops, i - 1)
  <2> SUFFICES ASSUME NEW i \in DOMAIN a  PROVE Sums(e, a[i].drops, i - 1)  OBVIOUS
  <2>1. i - 1 # Len(a)  BY <1>4
  <2>2. Sums(d, a[i].drops, i - 1)  BY <1>5 DEF Summed
  <2> HIDE DEF x, d, a
  <2> QED  BY <1>4, <2>1, <2>2, DropElsewhere
<1>9. e \in Seq(Droppings) /\ \A k \in DOMAIN e : e[k].after <= Len(a) /\ e[k].at <= time
  <2>1. /\ e \in Seq(Droppings) /\ DOMAIN e = 1 .. Len(d) + 1 /\ e[Len(d) + 1] = x
        /\ \A k \in 1 .. Len(d) : e[k] = d[k]
        /\ DOMAIN d = 1 .. Len(d) /\ Len(d) \in Nat
    BY <1>4, RangeAppend
  <2>2. \A k \in DOMAIN d : d[k].after <= Len(a) /\ d[k].at <= time  BY <1>5 DEF Summed
  <2>3. x.after <= Len(a) /\ x.at <= time  BY <1>2, <1>4
  <2>4. \A k \in DOMAIN e : k \in DOMAIN d \/ k = Len(d) + 1  BY <2>1
  <2> HIDE DEF e, x, d, a
  <2> QED  BY <2>1, <2>2, <2>3, <2>4
<1> HIDE DEF x, e, drops, f
<1>10. /\ seen'.admitted = a /\ seen'.dropped = e /\ seen'.lost = seen.lost
       /\ seen'.suppressed = seen.suppressed /\ limiter'.timestamps = within /\ limiter'.drops = drops
       /\ seen' \in [admitted : Seq(Admissions), dropped : Seq(Droppings), suppressed : Seq(AnchorRecords),
                     lost : SUBSET AnchorRecords]
       /\ limiter' \in [timestamps : Seq(Nat), drops : DropCounts]
  BY <1>1, <1>2, <1>3, <1>6, <1>9 DEF AdmissionTyped
<1>11. AdmissionTyped'  BY <1>1, <1>2, <1>10 DEF AdmissionTyped
<1>12. Summed(a, e, drops, time)  BY <1>7, <1>8, <1>9 DEF Summed
<1>13. Metered(a, within, time)  BY <1>3 DEF AIInv, Metered
<1>14. Deduplicated(a, Range(recentCaptures), Range(seen.suppressed), seen.lost, time)  BY DEF AIInv
<1> HIDE DEF a, d
<1> QED  BY <1>1, <1>10, <1>11, <1>12, <1>13, <1>14 DEF AIInv

-------------------------------------------------------------------------------
(* The anchor that is set is in the map, and replaces none but its own.          *)
LEMMA AnchoredRange ==
  ASSUME NEW key \in Keys, AdmissionTyped
  PROVE  LET new == [key |-> key, at |-> time]
         IN  /\ Anchored(key) \in Seq(AnchorRecords) /\ Len(Anchored(key)) \in Nat
             /\ new \in Range(Anchored(key)) /\ Range(Anchored(key)) \subseteq Range(recentCaptures) \cup {new}
             /\ \A x \in Range(recentCaptures) : x.key # key => x \in Range(Anchored(key))
<1> DEFINE new == [key |-> key, at |-> time]
           A == Anchors(key)
           set == [i \in DOMAIN recentCaptures |-> IF i \in A THEN new ELSE recentCaptures[i]]
<1>1. recentCaptures \in Seq(AnchorRecords) /\ new \in AnchorRecords
  BY DEF AdmissionTyped, AnchorRecords
<1>2. /\ A \subseteq DOMAIN recentCaptures /\ \A i \in A : recentCaptures[i].key = key
      /\ \A i \in DOMAIN recentCaptures : i \notin A => recentCaptures[i].key # key
  BY DEF Anchors
<1>3. Anchored(key) = IF A # {} THEN set ELSE Append(recentCaptures, new)  BY DEF Anchored
<1> HIDE DEF new, A
<1>4. CASE A # {}
  <2>1. set \in Seq(AnchorRecords)
    <3>1. DOMAIN recentCaptures = 1 .. Len(recentCaptures) /\ Len(recentCaptures) \in Nat
          /\ \A i \in DOMAIN recentCaptures : recentCaptures[i] \in AnchorRecords
      BY <1>1
    <3>2. set \in [1 .. Len(recentCaptures) -> AnchorRecords]  BY <1>1, <3>1
    <3> HIDE DEF set
    <3> QED  BY <3>1, <3>2
  <2>2. new \in Range(set)
    <3>1. PICK i \in A : TRUE  BY <1>4
    <3>2. i \in DOMAIN set /\ set[i] = new  BY <1>2, <3>1
    <3> QED  BY <3>2 DEF Range
  <2>3. Range(set) \subseteq Range(recentCaptures) \cup {new}  BY DEF Range
  <2>4. \A x \in Range(recentCaptures) : x.key # key => x \in Range(set)
    <3> SUFFICES ASSUME NEW i \in DOMAIN recentCaptures, recentCaptures[i].key # key
                 PROVE recentCaptures[i] \in Range(set)
      BY DEF Range
    <3>1. i \notin A  BY <1>2
    <3>2. set[i] = recentCaptures[i] /\ i \in DOMAIN set  BY <3>1
    <3> QED  BY <3>2 DEF Range
  <2>5. Anchored(key) = set  BY <1>3, <1>4
  <2> HIDE DEF set
  <2>6. Len(set) \in Nat  BY <2>1
  <2> QED  BY <2>1, <2>2, <2>3, <2>4, <2>5, <2>6 DEF new
<1>5. CASE A = {}
  <2>1. Anchored(key) = Append(recentCaptures, new)  BY <1>3, <1>5
  <2>2. Append(recentCaptures, new) \in Seq(AnchorRecords) /\ Len(Append(recentCaptures, new)) \in Nat
        /\ Range(Append(recentCaptures, new)) = Range(recentCaptures) \cup {new}
    BY <1>1, RangeAppend
  <2> QED  BY <2>1, <2>2 DEF new
<1> QED  BY <1>4, <1>5

LEMMA TrimmedRange ==
  ASSUME NEW q \in Seq(AnchorRecords)
  PROVE  Trimmed(q) \in Seq(AnchorRecords) /\ Range(Trimmed(q)) \subseteq Range(q)
<1>1. CASE Len(q) > MaxAnchors
  <2>1. Trimmed(q) = Tail(q) /\ q # << >>  BY <1>1, AdmissionAssumption DEF Trimmed
  <2>2. /\ Tail(q) \in Seq(AnchorRecords) /\ DOMAIN Tail(q) = 1 .. Len(q) - 1
        /\ \A i \in 1 .. Len(q) - 1 : Tail(q)[i] = q[i + 1] /\ i + 1 \in DOMAIN q
    BY <2>1
  <2> QED  BY <2>1, <2>2 DEF Range
<1>2. CASE ~(Len(q) > MaxAnchors)  BY <1>2 DEF Trimmed
<1> QED  BY <1>1, <1>2

LEMMA AdmitDedup ==
  ASSUME NEW key \in Keys, AIInv, ~Duplicate(key), NEW new \in Admissions, new.key = key, new.at = time,
         NEW lost, lost = seen.lost \cup (Range(Anchored(key)) \ Range(Trimmed(Anchored(key))))
  PROVE  Deduplicated(Append(seen.admitted, new), Range(Trimmed(Anchored(key))), Range(seen.suppressed), lost, time)
<1> DEFINE a == seen.admitted
           b == Append(a, new)
           R == Range(recentCaptures)
           R2 == Range(Anchored(key))
           R3 == Range(Trimmed(Anchored(key)))
           x == [key |-> key, at |-> time]
           n == Len(a) + 1
<1>1. AdmissionTyped /\ a \in Seq(Admissions) /\ time \in Nat  BY DEF AIInv, AdmissionTyped
<1>2. /\ DOMAIN b = 1 .. n /\ b[n] = new /\ \A i \in 1 .. Len(a) : b[i] = a[i]
      /\ DOMAIN a = 1 .. Len(a) /\ Len(a) \in Nat
  BY <1>1, RangeAppend
<1>3. x \in R2 /\ R2 \subseteq R \cup {x} /\ \A y \in R : y.key # key => y \in R2
  BY <1>1, AnchoredRange
<1>4. R3 \subseteq R2
  <2>1. Anchored(key) \in Seq(AnchorRecords)  BY <1>1, AnchoredRange
  <2> QED  BY <2>1, TrimmedRange
<1>5. Left(a, R, seen.lost, time) /\ Backed(a, R) /\ Apart(a, seen.lost) /\ Justified(a, Range(seen.suppressed))
  BY DEF AIInv, Deduplicated
<1>6. AnchorOf(new) = x  BY DEF AnchorOf
<1>7. \A i \in DOMAIN b : i \in DOMAIN a \/ i = n  BY <1>2
<1>8. \A i \in DOMAIN a : a[i].at \in Nat
  <2>1. \A i \in DOMAIN a : a[i] \in Admissions  BY <1>1
  <2> QED  BY <2>1 DEF Admissions
<1>9. \A y \in R : y.key = key => time - y.at >= DedupWindow
  <2> SUFFICES ASSUME NEW i \in DOMAIN recentCaptures, recentCaptures[i].key = key
               PROVE time - recentCaptures[i].at >= DedupWindow
    BY DEF Range
  <2>1. recentCaptures[i] \in AnchorRecords  BY <1>1 DEF AdmissionTyped
  <2>2. recentCaptures[i].at \in Nat  BY <2>1 DEF AnchorRecords
  <2>3. ~(time - recentCaptures[i].at < DedupWindow)  BY DEF Duplicate, Anchors
  <2>4. DedupWindow \in Nat  BY AdmissionAssumption
  <2> QED  BY <1>1, <2>2, <2>3, <2>4
<1> HIDE DEF b, R, R2, R3, x, n
<1>10. lost = seen.lost \cup (R2 \ R3)  BY DEF R2, R3
<1>11. \A i \in DOMAIN a : AnchorOf(a[i]).key = a[i].key /\ AnchorOf(a[i]).at = a[i].at  BY DEF AnchorOf
<1>12. \A i \in DOMAIN a : a[i].key = key => AnchorOf(a[i]) \in seen.lost \/ time - a[i].at >= DedupWindow
  BY <1>5, <1>9, <1>11 DEF Left
<1>13. \A i \in DOMAIN a : AnchorOf(a[i]) \in lost \cup R3 \/ time - a[i].at >= DedupWindow
  BY <1>3, <1>5, <1>10, <1>11, <1>12 DEF Left
<1>14. \A i \in DOMAIN a : b[i] = a[i] /\ i # n  BY <1>2 DEF n
<1> HIDE DEF a
<1>15. Left(b, R3, lost, time)  BY <1>2, <1>3, <1>6, <1>7, <1>10, <1>13, <1>14 DEF Left
<1>16. n \in DOMAIN b /\ DOMAIN a \subseteq DOMAIN b  BY <1>2 DEF n
<1>17. Backed(b, R3)
  <2> SUFFICES ASSUME NEW y \in R3  PROVE \E i \in DOMAIN b : AnchorOf(b[i]) = y  BY DEF Backed
  <2>1. CASE y = x  BY <1>2, <1>6, <1>16, <2>1
  <2>2. CASE y \in R  BY <1>5, <1>14, <1>16, <2>2 DEF Backed
  <2> QED  BY <1>3, <1>4, <2>1, <2>2
<1>18. Apart(b, lost)
  <2> SUFFICES ASSUME NEW i \in DOMAIN b, NEW j \in DOMAIN b, i < j, b[i].key = b[j].key
               PROVE b[j].at - b[i].at >= DedupWindow \/ AnchorOf(b[i]) \in lost
    BY DEF Apart
  <2>1. i \in DOMAIN a  BY <1>2 DEF n
  <2>2. CASE j \in DOMAIN a  BY <1>5, <1>10, <1>14, <2>1, <2>2 DEF Apart
  <2>3. CASE j = n  BY <1>2, <1>10, <1>12, <1>14, <2>1, <2>3
  <2> QED  BY <1>7, <2>2, <2>3
<1>19. Justified(b, Range(seen.suppressed))  BY <1>5, <1>14, <1>16 DEF Justified
<1> QED  BY <1>15, <1>17, <1>18, <1>19 DEF Deduplicated, b, R3, a

LEMMA AdmitMetered ==
  ASSUME NEW key \in Keys, AIInv, NEW within \in WithinWindow, HasRoom(within),
         NEW new \in Admissions, new.at = time
  PROVE  Metered(Append(seen.admitted, new), Append(within, time), time) /\ Append(within, time) \in Seq(Nat)
<1> DEFINE a == seen.admitted
           b == Append(a, new)
           n == Len(a) + 1
           q == Append(within, time)
           m == Len(within) + 1
           c == time - RateWindow
<1>1. AdmissionTyped /\ a \in Seq(Admissions) /\ time \in Nat  BY DEF AIInv, AdmissionTyped
<1>2. within \in Seq(Nat) /\ Covered(a, within, time)  BY <1>1, WithinCovers DEF AIInv, Metered
<1>3. Cardinality(Above(within, c)) = Len(within)  BY <1>1, WithinCounts
<1>4. /\ DOMAIN b = 1 .. n /\ b[n] = new /\ \A i \in 1 .. Len(a) : b[i] = a[i]
      /\ DOMAIN a = 1 .. Len(a) /\ Len(a) \in Nat
  BY <1>1, RangeAppend
<1>5. /\ DOMAIN q = 1 .. m /\ q[m] = time /\ \A i \in 1 .. Len(within) : q[i] = within[i]
      /\ DOMAIN within = 1 .. Len(within) /\ Len(within) \in Nat /\ q \in Seq(Nat)
  BY <1>1, <1>2, RangeAppend
<1>6. \A i \in DOMAIN a : a[i].at \in Nat /\ a[i].at <= time
  <2>1. \A i \in DOMAIN a : a[i] \in Admissions  BY <1>1
  <2> QED  BY <2>1 DEF Admissions, AIInv, Metered, Over
<1>7. NoFlood(a, time) /\ RateWindow \in Nat \ {0} /\ RateLimit \in Nat /\ c \in Int
  BY <1>1, AdmissionAssumption DEF AIInv, Metered
<1>8. Len(within) < RateLimit  BY DEF HasRoom
<1> HIDE DEF b, n, q, m
<1>9. \A i : i \in DOMAIN b <=> i \in DOMAIN a \/ i = n  BY <1>4 DEF n
<1>10. \A i : i \in DOMAIN q <=> i \in DOMAIN within \/ i = m  BY <1>5 DEF m
<1>11. n \notin DOMAIN a /\ m \notin DOMAIN within  BY <1>4, <1>5 DEF n, m
<1>12. \A i \in DOMAIN a : b[i] = a[i]  BY <1>4
<1>13. \A i \in DOMAIN within : q[i] = within[i]  BY <1>5
<1> HIDE DEF a
<1>14. Covered(b, q, time)
  <2> SUFFICES ASSUME NEW x \in Int, x >= c
               PROVE Cardinality(Later(b, x)) <= Cardinality(Above(q, x))
    BY DEF Covered
  <2>1. Later(a, x) \subseteq DOMAIN a /\ Above(within, x) \subseteq DOMAIN within  BY DEF Later, Above
  <2>2. /\ Cardinality(Later(a, x)) \in Nat /\ Cardinality(Above(within, x)) \in Nat
        /\ Cardinality(Later(a, x) \cup {n}) = Cardinality(Later(a, x)) + 1
        /\ Cardinality(Above(within, x) \cup {m}) = Cardinality(Above(within, x)) + 1
    BY <1>1, <1>2, <1>11, <2>1, FinitePart, CountPlace
  <2>3. Cardinality(Later(a, x)) <= Cardinality(Above(within, x))  BY <1>2 DEF Covered
  <2>4. CASE time > x
    <3>1. Later(b, x) = Later(a, x) \cup {n}  BY <1>4, <1>9, <1>12, <2>4 DEF Later
    <3>2. Above(q, x) = Above(within, x) \cup {m}  BY <1>5, <1>10, <1>13, <2>4 DEF Above
    <3> QED  BY <2>2, <2>3, <3>1, <3>2
  <2>5. CASE ~(time > x)
    <3>1. Later(b, x) = Later(a, x)  BY <1>4, <1>9, <1>12, <2>5 DEF Later
    <3>2. Above(q, x) = Above(within, x)  BY <1>5, <1>10, <1>13, <2>5 DEF Above
    <3> QED  BY <2>3, <3>1, <3>2
  <2> QED  BY <2>4, <2>5
<1>15. NoFlood(b, time)
  <2> SUFFICES ASSUME NEW w \in 0..time  PROVE Cardinality(InWindow(b, w)) <= RateLimit  BY DEF NoFlood
  <2>1. CASE w # time
    <3>1. InWindow(b, w) = InWindow(a, w)  BY <1>1, <1>4, <1>7, <1>9, <1>12, <2>1 DEF InWindow
    <3> QED  BY <1>7, <3>1 DEF NoFlood
  <2>2. CASE w = time
    <3>1. InWindow(b, w) = Later(a, c) \cup {n}
      <4>1. \A i \in DOMAIN a : a[i].at \in (w - RateWindow + 1)..w <=> a[i].at > c
        BY <1>1, <1>6, <1>7, <2>2
      <4>2. new.at \in (w - RateWindow + 1)..w  BY <1>1, <1>7, <2>2
      <4> HIDE DEF c
      <4> QED  BY <1>4, <1>9, <1>12, <4>1, <4>2 DEF InWindow, Later
    <3>2. Later(a, c) \subseteq DOMAIN a  BY DEF Later
    <3>3. Cardinality(Later(a, c)) \in Nat /\ Cardinality(InWindow(b, w)) = Cardinality(Later(a, c)) + 1
      BY <1>1, <1>11, <3>1, <3>2, FinitePart, CountPlace
    <3>4. Cardinality(Later(a, c)) <= Cardinality(Above(within, c))
      <4>1. c >= c  BY <1>7
      <4> QED  BY <1>2, <1>7, <4>1 DEF Covered
    <3> HIDE DEF c
    <3> QED  BY <1>3, <1>5, <1>7, <1>8, <3>3, <3>4
  <2> QED  BY <2>1, <2>2
<1>16. Over(b, time)  BY <1>1, <1>4, <1>6, <1>9, <1>12 DEF Over
<1> QED  BY <1>5, <1>14, <1>15, <1>16 DEF Metered, b, q, a

LEMMA AdmitSummed ==
  ASSUME AIInv, NEW new \in Admissions, new.drops = limiter.drops
  PROVE  Summed(Append(seen.admitted, new), seen.dropped, NoDrops, time)
<1> DEFINE a == seen.admitted
           d == seen.dropped
           b == Append(a, new)
           n == Len(a) + 1
<1>1. a \in Seq(Admissions) /\ d \in Seq(Droppings)  BY DEF AIInv, AdmissionTyped
<1>2. /\ DOMAIN b = 1 .. n /\ b[n] = new /\ \A i \in 1 .. Len(a) : b[i] = a[i]
      /\ DOMAIN a = 1 .. Len(a) /\ Len(a) \in Nat /\ Len(b) = n
  BY <1>1, RangeAppend
<1>3. Summed(a, d, limiter.drops, time)  BY DEF AIInv
<1>4. \A k \in DOMAIN d : d[k].after \in Nat
  <2>1. \A k \in DOMAIN d : d[k] \in Droppings  BY <1>1
  <2> QED  BY <2>1 DEF Droppings
<1> HIDE DEF b
<1>5. DropsAfter(d, n) = {}  BY <1>2, <1>3, <1>4 DEF DropsAfter, Summed
<1>6. Sums(d, NoDrops, n)  BY <1>5, FS_EmptySet DEF Sums, NoDrops
<1>7. \A i \in DOMAIN b : Sums(d, b[i].drops, i - 1)
  <2> SUFFICES ASSUME NEW i \in DOMAIN b  PROVE Sums(d, b[i].drops, i - 1)  OBVIOUS
  <2>1. CASE i = n  BY <1>2, <1>3, <2>1 DEF Summed
  <2>2. CASE i \in DOMAIN a  BY <1>2, <1>3, <2>2 DEF Summed
  <2> QED  BY <1>2, <2>1, <2>2
<1>8. \A k \in DOMAIN d : d[k].after <= n /\ d[k].at <= time  BY <1>2, <1>3, <1>4 DEF Summed
<1> HIDE DEF a, d, n
<1> QED  BY <1>2, <1>6, <1>7, <1>8 DEF Summed, b, a, d

LEMMA AdmitInv == ASSUME NEW key \in Keys, AIInv, Admit(key)  PROVE AIInv'
<1> DEFINE new == [key |-> key, at |-> time, drops |-> limiter.drops]
           b == Append(seen.admitted, new)
           anchors == Trimmed(Anchored(key))
           lost == seen.lost \cup (Range(Anchored(key)) \ Range(anchors))
<1>1. PICK within \in WithinWindow :
        /\ ~Duplicate(key) /\ HasRoom(within) /\ recentCaptures' = anchors
        /\ limiter' = [timestamps |-> Append(within, time), drops |-> NoDrops]
        /\ seen' = [seen EXCEPT !.admitted = b,
                                !.lost = @ \cup (Range(Anchored(key)) \ Range(recentCaptures'))]
        /\ UNCHANGED time
  BY Zenon DEF Admit
<1>2. AdmissionTyped /\ time \in Nat /\ limiter.drops \in DropCounts /\ seen.admitted \in Seq(Admissions)
  BY DEF AIInv, AdmissionTyped
<1>3. new \in Admissions  BY <1>2 DEF Admissions
<1>4. new.key = key /\ new.at = time /\ new.drops = limiter.drops  OBVIOUS
<1> HIDE DEF new
<1>5. Deduplicated(b, Range(anchors), Range(seen.suppressed), lost, time)
  BY <1>1, <1>3, <1>4, AdmitDedup
<1>6. Metered(b, Append(within, time), time) /\ Append(within, time) \in Seq(Nat)
  BY <1>1, <1>3, <1>4, AdmitMetered
<1>7. Summed(b, seen.dropped, NoDrops, time)  BY <1>3, <1>4, AdmitSummed
<1>8. anchors \in Seq(AnchorRecords) /\ Range(Anchored(key)) \subseteq AnchorRecords
  <2>1. Anchored(key) \in Seq(AnchorRecords)  BY <1>2, AnchoredRange
  <2>2. Range(Anchored(key)) \subseteq AnchorRecords  BY <2>1 DEF Range
  <2> QED  BY <2>1, <2>2, TrimmedRange
<1>9. b \in Seq(Admissions)  BY <1>2, <1>3, RangeAppend
<1>10. NoDrops \in DropCounts  BY DEF NoDrops, DropCounts
<1>11. lost \in SUBSET AnchorRecords  BY <1>2, <1>8 DEF AdmissionTyped
<1> HIDE DEF b, anchors
<1>12. /\ seen'.admitted = b /\ seen'.dropped = seen.dropped /\ seen'.lost = lost
       /\ seen'.suppressed = seen.suppressed
       /\ seen' \in [admitted : Seq(Admissions), dropped : Seq(Droppings), suppressed : Seq(AnchorRecords),
                     lost : SUBSET AnchorRecords]
  BY <1>1, <1>2, <1>9, <1>11 DEF AdmissionTyped
<1>13. /\ limiter'.timestamps = Append(within, time) /\ limiter'.drops = NoDrops
       /\ limiter' \in [timestamps : Seq(Nat), drops : DropCounts]
  BY <1>1, <1>6, <1>10
<1>14. AdmissionTyped'  BY <1>1, <1>2, <1>8, <1>12, <1>13 DEF AdmissionTyped
<1> QED  BY <1>1, <1>5, <1>6, <1>7, <1>12, <1>13, <1>14 DEF AIInv

LEMMA AdmissionStep == AIInv /\ [ANext]_avars => AIInv'
<1> SUFFICES ASSUME AIInv, [ANext]_avars  PROVE AIInv'  OBVIOUS
<1>1. CASE UNCHANGED avars
  BY <1>1 DEF avars, AIInv, AdmissionTyped
<1>2. ASSUME NEW key \in Keys, Suppress(key) \/ RateLimited(key) \/ Admit(key)  PROVE AIInv'
  BY <1>2, SuppressInv, RateLimitedInv, AdmitInv
<1> QED  BY <1>1, <1>2, TickInv DEF ANext

(* Neither flood nor silence, for any keys, windows, limits and number of        *)
(* captures: duplicates, anchors that are pushed out and drops are told apart.   *)
THEOREM AdmissionIsSound == ASpec => []AdmissionSound
<1>1. AIInv => AdmissionSound
  <2> SUFFICES ASSUME AIInv  PROVE AdmissionSound  OBVIOUS
  <2> DEFINE a == seen.admitted
  <2>1. Apart(a, seen.lost) /\ Justified(a, Range(seen.suppressed))  BY DEF AIInv, Deduplicated
  <2>2. NoFlood(a, time)  BY DEF AIInv, Metered
  <2>3. Summed(a, seen.dropped, limiter.drops, time)  BY DEF AIInv
  <2> HIDE DEF a
  <2>4. \A drops, n : Sums(seen.dropped, drops, n) <=> Summarizes(drops, n)
    BY DEF Sums, Summarizes, DropsAfter
  <2> QED  BY <2>1, <2>2, <2>3, <2>4 DEF AdmissionSound, Apart, AnchorOf, Justified, NoFlood, InWindow, Summed, a
<1> QED  BY <1>1, InitAdmission, AdmissionStep, PTL DEF ASpec

-------------------------------------------------------------------------------
(* SourceMapCache: what is cached is named after what was read, the entries have *)
(* different keys, each is some path's, and no path has a key without an entry.  *)
Kinds == {"adjacent", "url", "inline", "outside"}
MapContents == Stored \cup {"unreadable"}
EntryTypes == {"missing", "corrupt", "consumer"}
MapKeys == ({"missing"} \X (Files \cup Maps)) \cup ({"corrupt", "consumer"} \X Maps \X MapContents)
MapEntries == [key : MapKeys, type : EntryTypes, map : Maps, content : MapContents,
               at : Nat, stamp : Nat \cup {NoIdentity}, raced : BOOLEAN]
Disks == [Maps -> [content : Stored, stamp : Nat]]

CacheTyped(c) ==
  /\ c = [cache |-> c.cache, keyOf |-> c.keyOf]
  /\ c.cache \in Seq(MapEntries) /\ c.keyOf \in [Files -> MapKeys \cup {Nothing}]
OneEach(c) == \A i, j \in DOMAIN c.cache : c.cache[i].key = c.cache[j].key => i = j
Led(c) == \A f \in Files : c.keyOf[f] # Nothing => \E i \in DOMAIN c.cache : c.cache[i].key = c.keyOf[f]
Sought(c) == \A i \in DOMAIN c.cache : \E f \in Files : c.keyOf[f] = c.cache[i].key

(* A path leads to an entry for its map, or to one that says it has none.        *)
OwnKey(f, k) ==
  \/ \E x \in Files \cup Maps : k = <<"missing", x>>
  \/ Looked(f) /\ \E t \in {"corrupt", "consumer"}, x \in MapContents : k = <<t, MapFor(f), x>>
Owned(c) == \A f \in Files : c.keyOf[f] # Nothing => OwnKey(f, c.keyOf[f])
NamedAfter(e) ==
  \/ e.type = "missing" /\ e.content = "none" /\ \E x \in Files \cup Maps : e.key = <<"missing", x>>
  \/ e.type \in {"corrupt", "consumer"} /\ e.key = <<e.type, e.map, e.content>>

(* The identity an entry has is that of its content, or it was given another, or *)
(* none, while it was loaded.                                                    *)
Dated(e, d, t) ==
  /\ e.at <= t
  /\ e.type # "missing" =>
       IF e.stamp = NoIdentity THEN e.raced
       ELSE /\ e.stamp <= d[e.map].stamp
            /\ e.stamp = d[e.map].stamp => e.content \in {d[e.map].content, "unreadable"} \/ e.raced
Holding(c, d, t) == \A i \in DOMAIN c.cache : NamedAfter(c.cache[i]) /\ Dated(c.cache[i], d, t)

CacheGood(c, d, t) ==
  CacheTyped(c) /\ OneEach(c) /\ Led(c) /\ Sought(c) /\ Owned(c) /\ Holding(c, d, t)
WithinLimits(c) == Cardinality(Consumers(c)) <= MaxConsumers /\ Len(c.cache) <= MaxTotal

MapsTyped ==
  /\ kind \in [Files -> Kinds] /\ \A f \in Files : kind[f] \in KindsOf(f)
  /\ disk \in Disks /\ deploys \in Nat /\ clock \in Nat
  /\ \A m \in Maps : disk[m].stamp <= deploys
MapsInv == MapsTyped /\ CacheGood(Now, disk, clock) /\ WithinLimits(Now) /\ MapIsCurrent

-------------------------------------------------------------------------------
LEMMA MapForTyped ==
  ASSUME MapsTyped, NEW f \in Files
  PROVE  MapFor(f) \in Maps
  BY DEF MapsTyped, MapFor, Maps

LEMMA NothingIsNoKey == Nothing \notin MapKeys
<1>1. \A k \in MapKeys : \/ \E x, y : k = <<x, y>>
                      \/ \E x, y, z : k = <<x, y, z>>
  BY DEF MapKeys
<1>2. \A x, y : << >> # <<x, y>>  OBVIOUS
<1>3. \A x, y, z : << >> # <<x, y, z>>  OBVIOUS
<1> QED  BY <1>1, <1>2, <1>3 DEF Nothing

LEMMA EntryIsSome ==
  ASSUME NEW e \in MapEntries
  PROVE  e # NoEntry /\ e.key # Nothing /\ e.key \in MapKeys
<1>1. e.type \in EntryTypes /\ e.key \in MapKeys  BY DEF MapEntries
<1>2. NoEntry.type \notin EntryTypes  BY DEF NoEntry, EntryTypes
<1> QED  BY <1>1, <1>2, NothingIsNoKey

(* The entry a path leads to is the one with its key.                            *)
LEMMA EntryFound ==
  ASSUME NEW c, CacheTyped(c), OneEach(c), NEW f \in Files
  PROVE  /\ \A i \in DOMAIN c.cache : c.cache[i].key = c.keyOf[f] => EntryAt(c, f) = c.cache[i]
         /\ EntryAt(c, f) # NoEntry =>
              \E i \in DOMAIN c.cache : c.cache[i].key = c.keyOf[f] /\ EntryAt(c, f) = c.cache[i]
         /\ c.keyOf[f] = Nothing => EntryAt(c, f) = NoEntry
<1> DEFINE at == {i \in DOMAIN c.cache : c.cache[i].key = c.keyOf[f]}
<1>1. ASSUME NEW i \in at  PROVE EntryAt(c, f) = c.cache[i]
  <2>1. \A j \in at : j = i  BY <1>1 DEF OneEach
  <2>2. (CHOOSE j \in at : TRUE) = i  BY <1>1, <2>1
  <2>3. at # {}  BY <1>1
  <2> QED  BY <2>2, <2>3 DEF EntryAt
<1>2. at = {} => EntryAt(c, f) = NoEntry  BY DEF EntryAt
<1>3. c.keyOf[f] = Nothing => at = {}
  <2>1. \A i \in DOMAIN c.cache : c.cache[i].key # Nothing  BY EntryIsSome DEF CacheTyped
  <2> QED  BY <2>1
<1> QED  BY <1>1, <1>2, <1>3

LEMMA Filtered ==
  ASSUME NEW T, NEW q \in Seq(T), NEW S, S \subseteq DOMAIN q
  PROVE  LET r == CHOOSE left \in Kept(q, S) : TRUE
         IN  /\ r \in Seq(T) /\ DOMAIN r = 1 .. Cardinality(S)
             /\ Len(r) = Cardinality(S) /\ Cardinality(S) \in Nat
             /\ \E o : /\ \A k \in DOMAIN r : o[k] \in S /\ r[k] = q[o[k]]
                       /\ \A s \in S : \E k \in DOMAIN r : o[k] = s
                       /\ \A j, k \in DOMAIN r : o[j] = o[k] => j = k
<1> DEFINE r == CHOOSE left \in Kept(q, S) : TRUE
<1>1. S \subseteq Nat /\ IsFiniteSet(S)
  <2> DEFINE n == Len(q)
  <2>1. n \in Nat /\ DOMAIN q = 1 .. n  OBVIOUS
  <2> HIDE DEF n
  <2>2. IsFiniteSet(1 .. n)  BY <2>1, FS_Interval
  <2> QED  BY <2>1, <2>2, FS_Subset
<1>2. Kept(q, S) # {}  BY <1>1, AscendingExists DEF Kept
<1>3. r \in Kept(q, S)  BY <1>2
<1> HIDE DEF r
<1>4. PICK o \in Ascending(S) :
        /\ r = [k \in DOMAIN o |-> q[o[k]]]
        /\ r \in Seq(T) /\ DOMAIN r = 1 .. Cardinality(S) /\ DOMAIN o = DOMAIN r
        /\ Cardinality(S) \in Nat /\ Len(r) = Cardinality(S)
  BY <1>3, KeptLines
<1>5. \A k \in DOMAIN r : o[k] \in S /\ r[k] = q[o[k]]  BY <1>4 DEF Ascending
<1>6. \A s \in S : \E k \in DOMAIN r : o[k] = s  BY <1>4 DEF Ascending, ToSet
<1>7. ASSUME NEW j \in DOMAIN r, NEW k \in DOMAIN r, o[j] = o[k]  PROVE j = k
  <2>1. j < k => o[j] < o[k]  BY <1>4 DEF Ascending
  <2>2. k < j => o[k] < o[j]  BY <1>4 DEF Ascending
  <2>3. o[j] \in Nat /\ j \in Nat /\ k \in Nat  BY <1>1, <1>4, <1>5
  <2> QED  BY <1>7, <2>1, <2>2, <2>3
<1> QED  BY <1>4, <1>5, <1>6, <1>7 DEF r

(* What goes from the cache goes from the paths as well.                         *)
LEMMA DeleteSound ==
  ASSUME NEW c, NEW d, NEW t, CacheGood(c, d, t), NEW keys
  PROVE  LET u == DeleteCacheKeys(c, keys)
         IN  /\ CacheGood(u, d, t)
             /\ \A f \in Files : u.keyOf[f] = IF c.keyOf[f] \in keys THEN Nothing ELSE c.keyOf[f]
             /\ \A k \in DOMAIN u.cache : u.cache[k].key \notin keys /\ \E i \in DOMAIN c.cache : u.cache[k] = c.cache[i]
             /\ Len(u.cache) \in Nat /\ Len(c.cache) \in Nat /\ Len(u.cache) <= Len(c.cache)
             /\ Cardinality(Consumers(u)) \in Nat /\ Cardinality(Consumers(c)) \in Nat
             /\ Cardinality(Consumers(u)) <= Cardinality(Consumers(c))
             /\ \A i \in DOMAIN c.cache : c.cache[i].key \in keys =>
                  /\ Len(u.cache) < Len(c.cache)
                  /\ i \in Consumers(c) => Cardinality(Consumers(u)) < Cardinality(Consumers(c))
<1> DEFINE S == {i \in DOMAIN c.cache : c.cache[i].key \notin keys}
           u == DeleteCacheKeys(c, keys)
<1> USE DEF CacheGood
<1>1. /\ u.cache = CHOOSE left \in Kept(c.cache, S) : TRUE
      /\ u.keyOf = [f \in Files |-> IF c.keyOf[f] \in keys THEN Nothing ELSE c.keyOf[f]]
      /\ u = [cache |-> u.cache, keyOf |-> u.keyOf]
  BY DEF DeleteCacheKeys
<1>2. S \subseteq DOMAIN c.cache /\ c.cache \in Seq(MapEntries)  BY DEF CacheTyped
<1>3. \A i \in DOMAIN c.cache : i \in S <=> c.cache[i].key \notin keys  OBVIOUS
<1> HIDE DEF u, S
<1>4. /\ u.cache \in Seq(MapEntries) /\ DOMAIN u.cache = 1 .. Cardinality(S)
      /\ Len(u.cache) = Cardinality(S) /\ Cardinality(S) \in Nat
      /\ \E o : /\ \A k \in DOMAIN u.cache : o[k] \in S /\ u.cache[k] = c.cache[o[k]]
                /\ \A s \in S : \E k \in DOMAIN u.cache : o[k] = s
                /\ \A j, k \in DOMAIN u.cache : o[j] = o[k] => j = k
  <2> DEFINE r == CHOOSE left \in Kept(c.cache, S) : TRUE
  <2>1. /\ r \in Seq(MapEntries) /\ DOMAIN r = 1 .. Cardinality(S)
        /\ Len(r) = Cardinality(S) /\ Cardinality(S) \in Nat
        /\ \E o : /\ \A k \in DOMAIN r : o[k] \in S /\ r[k] = c.cache[o[k]]
                  /\ \A s \in S : \E k \in DOMAIN r : o[k] = s
                  /\ \A j, k \in DOMAIN r : o[j] = o[k] => j = k
    BY <1>2, Filtered
  <2>2. u.cache = r  BY <1>1
  <2> HIDE DEF r
  <2> QED  BY <2>1, <2>2
<1>5. PICK o : /\ \A k \in DOMAIN u.cache : o[k] \in S /\ u.cache[k] = c.cache[o[k]]
               /\ \A s \in S : \E k \in DOMAIN u.cache : o[k] = s
               /\ \A j, k \in DOMAIN u.cache : o[j] = o[k] => j = k
  BY <1>4
<1>6. \A f \in Files : u.keyOf[f] = IF c.keyOf[f] \in keys THEN Nothing ELSE c.keyOf[f]  BY <1>1
<1>7. \A k \in DOMAIN u.cache : u.cache[k].key \notin keys /\ \E i \in DOMAIN c.cache : u.cache[k] = c.cache[i]
  BY <1>2, <1>3, <1>5
<1>8. CacheGood(u, d, t)
  <2>1. CacheTyped(u)
    <3>1. u.keyOf \in [Files -> MapKeys \cup {Nothing}]  BY <1>1 DEF CacheTyped
    <3> QED  BY <1>1, <1>4, <3>1 DEF CacheTyped
  <2>2. OneEach(u)  BY <1>2, <1>5 DEF OneEach
  <2>3. Led(u)
    <3> SUFFICES ASSUME NEW f \in Files, u.keyOf[f] # Nothing
                 PROVE  \E k \in DOMAIN u.cache : u.cache[k].key = u.keyOf[f]
      BY DEF Led
    <3>1. u.keyOf[f] = c.keyOf[f] /\ c.keyOf[f] \notin keys  BY <1>6
    <3>2. PICK i \in DOMAIN c.cache : c.cache[i].key = c.keyOf[f]  BY <3>1 DEF Led
    <3>3. i \in S  BY <1>3, <3>1, <3>2
    <3>4. PICK k \in DOMAIN u.cache : o[k] = i  BY <1>5, <3>3
    <3> QED  BY <1>5, <3>1, <3>2, <3>4
  <2>4. Sought(u)
    <3> SUFFICES ASSUME NEW k \in DOMAIN u.cache
                 PROVE  \E f \in Files : u.keyOf[f] = u.cache[k].key
      BY DEF Sought
    <3>1. PICK i \in DOMAIN c.cache : u.cache[k] = c.cache[i]  BY <1>7
    <3>2. PICK f \in Files : c.keyOf[f] = c.cache[i].key  BY DEF Sought
    <3>3. u.keyOf[f] = u.cache[k].key  BY <1>6, <1>7, <3>1, <3>2
    <3> QED  BY <3>3
  <2>5. Owned(u)  BY <1>6 DEF Owned
  <2>6. Holding(u, d, t)  BY <1>7 DEF Holding
  <2> QED  BY <2>1, <2>2, <2>3, <2>4, <2>5, <2>6
<1>9. IsFiniteSet(DOMAIN c.cache) /\ Cardinality(DOMAIN c.cache) = Len(c.cache) /\ Len(c.cache) \in Nat
  <2> DEFINE n == Len(c.cache)
  <2>1. n \in Nat /\ DOMAIN c.cache = 1 .. n  BY <1>2
  <2> HIDE DEF n
  <2>2. IsFiniteSet(1 .. n) /\ Cardinality(1 .. n) = IF 1 > n THEN 0 ELSE n - 1 + 1
    BY <2>1, FS_Interval
  <2>3. Cardinality(1 .. n) = n  BY <2>1, <2>2
  <2> QED  BY <2>1, <2>2, <2>3 DEF n
<1>10. /\ Len(u.cache) <= Len(c.cache)
       /\ \A i \in DOMAIN c.cache : c.cache[i].key \in keys => Len(u.cache) < Len(c.cache)
  <2>1. Cardinality(S) <= Len(c.cache)
    BY <1>2, <1>9, FS_Subset
  <2>2. ASSUME NEW i \in DOMAIN c.cache, c.cache[i].key \in keys  PROVE Cardinality(S) # Len(c.cache)
    <3>1. S # DOMAIN c.cache  BY <1>3, <2>2
    <3> QED  BY <1>2, <1>9, <3>1, FS_Subset
  <2> QED  BY <1>4, <1>9, <2>1, <2>2
<1>11. ASSUME NEW W, W \subseteq Consumers(c), \A k \in Consumers(u) : o[k] \in W
       PROVE  /\ IsFiniteSet(W) /\ Cardinality(W) \in Nat
              /\ Cardinality(Consumers(u)) \in Nat /\ Cardinality(Consumers(u)) <= Cardinality(W)
  <2> DEFINE h == [k \in Consumers(u) |-> o[k]]
  <2>1. IsFiniteSet(W) /\ Cardinality(W) \in Nat
    BY <1>9, <1>11, FS_Subset, FS_CardinalityType DEF Consumers
  <2>2. h \in Injection(Consumers(u), W)
    <3>1. h \in [Consumers(u) -> W]  BY <1>11
    <3>2. \A j, k \in Consumers(u) : h[j] = h[k] => j = k  BY <1>5 DEF Consumers
    <3> QED  BY <3>1, <3>2 DEF Injection, IsInjective
  <2> HIDE DEF h
  <2> QED  BY <2>1, <2>2, FS_Injection, FS_CardinalityType
<1>12. \A k \in Consumers(u) : o[k] \in Consumers(c) /\ c.cache[o[k]].key \notin keys
  BY <1>2, <1>3, <1>5 DEF Consumers
<1>13. /\ Cardinality(Consumers(u)) \in Nat /\ Cardinality(Consumers(c)) \in Nat
       /\ Cardinality(Consumers(u)) <= Cardinality(Consumers(c)) /\ IsFiniteSet(Consumers(c))
  BY <1>11, <1>12
<1>14. ASSUME NEW i \in Consumers(c), c.cache[i].key \in keys
       PROVE  Cardinality(Consumers(u)) < Cardinality(Consumers(c))
  <2> DEFINE W == Consumers(c) \ {i}
  <2>1. \A k \in Consumers(u) : o[k] \in W  BY <1>12, <1>14
  <2>2. Cardinality(Consumers(u)) <= Cardinality(W)  BY <1>11, <2>1
  <2>3. Cardinality(W) = Cardinality(Consumers(c)) - 1  BY <1>13, FS_RemoveElement
  <2> QED  BY <1>13, <2>2, <2>3
<1> QED  BY <1>4, <1>6, <1>7, <1>8, <1>9, <1>10, <1>13, <1>14 DEF u

LEMMA SweepSound ==
  ASSUME NEW c, NEW d, NEW t, CacheGood(c, d, t), WithinLimits(c)
  PROVE  LET u == SweepCache(c)
         IN  /\ CacheGood(u, d, t) /\ WithinLimits(u)
             /\ \A i \in DOMAIN u.cache : ~Expired(u.cache[i])
             /\ \A i \in DOMAIN u.cache : \E j \in DOMAIN c.cache : u.cache[i] = c.cache[j]
             /\ \A f \in Files : c.keyOf[f] = Nothing => u.keyOf[f] = Nothing
<1> DEFINE keys == {e.key : e \in {x \in Range(c.cache) : Expired(x)}}
           u == DeleteCacheKeys(c, keys)
<1>1. u = SweepCache(c)  BY DEF SweepCache
<1>2. \A i \in DOMAIN c.cache : Expired(c.cache[i]) => c.cache[i].key \in keys  BY DEF Range
<1> HIDE DEF keys
<1>3. /\ CacheGood(u, d, t)
      /\ \A f \in Files : u.keyOf[f] = IF c.keyOf[f] \in keys THEN Nothing ELSE c.keyOf[f]
      /\ \A k \in DOMAIN u.cache : u.cache[k].key \notin keys /\ \E i \in DOMAIN c.cache : u.cache[k] = c.cache[i]
      /\ Len(u.cache) \in Nat /\ Len(c.cache) \in Nat /\ Len(u.cache) <= Len(c.cache)
      /\ Cardinality(Consumers(u)) \in Nat /\ Cardinality(Consumers(c)) \in Nat
      /\ Cardinality(Consumers(u)) <= Cardinality(Consumers(c))
  BY DeleteSound
<1> HIDE DEF u
<1>4. WithinLimits(u)  BY <1>3, MapsAssumption DEF WithinLimits
<1>5. \A k \in DOMAIN u.cache : ~Expired(u.cache[k])  BY <1>2, <1>3
<1> QED  BY <1>1, <1>3, <1>4, <1>5

(* A cached map was used: it is young again.                                     *)
LEMMA TouchSound ==
  ASSUME NEW c, NEW d, clock \in Nat, CacheGood(c, d, clock), WithinLimits(c), NEW key
  PROVE  LET u == Touch(c, key)
         IN  /\ CacheGood(u, d, clock) /\ WithinLimits(u)
             /\ DOMAIN u.cache = DOMAIN c.cache /\ u.keyOf = c.keyOf
             /\ \A i \in DOMAIN c.cache : u.cache[i] = c.cache[i] \/
                  /\ c.cache[i].type = "consumer" /\ u.cache[i] = [c.cache[i] EXCEPT !.at = clock]
<1> DEFINE touched(e) == IF e.key = key /\ e.type = "consumer" THEN [e EXCEPT !.at = clock] ELSE e
           u == Touch(c, key)
<1> USE DEF CacheGood
<1>1. u = [cache |-> [i \in DOMAIN c.cache |-> touched(c.cache[i])], keyOf |-> c.keyOf]  BY DEF Touch
<1>2. /\ u.cache = [i \in DOMAIN c.cache |-> touched(c.cache[i])] /\ u.keyOf = c.keyOf
      /\ u = [cache |-> u.cache, keyOf |-> u.keyOf]
  BY <1>1
<1> HIDE DEF u
<1>3. \A e \in MapEntries : /\ touched(e) \in MapEntries /\ touched(e).key = e.key /\ touched(e).type = e.type
                            /\ touched(e).map = e.map /\ touched(e).content = e.content
                            /\ touched(e).stamp = e.stamp /\ touched(e).raced = e.raced
                            /\ touched(e).at \in {e.at, clock}
                            /\ touched(e) = e \/ (e.type = "consumer" /\ touched(e) = [e EXCEPT !.at = clock])
  <2> SUFFICES ASSUME NEW e \in MapEntries
               PROVE  /\ touched(e) \in MapEntries /\ touched(e).key = e.key /\ touched(e).type = e.type
                      /\ touched(e).map = e.map /\ touched(e).content = e.content
                      /\ touched(e).stamp = e.stamp /\ touched(e).raced = e.raced
                      /\ touched(e).at \in {e.at, clock}
                      /\ touched(e) = e \/ (e.type = "consumer" /\ touched(e) = [e EXCEPT !.at = clock])
    OBVIOUS
  <2>1. CASE e.key = key /\ e.type = "consumer"
    <3> DEFINE w == [e EXCEPT !.at = clock]
    <3>1. /\ w \in MapEntries /\ w.key = e.key /\ w.type = e.type /\ w.map = e.map /\ w.content = e.content
          /\ w.stamp = e.stamp /\ w.raced = e.raced /\ w.at = clock
      BY DEF MapEntries
    <3>2. touched(e) = w  BY <2>1
    <3> HIDE DEF w, touched
    <3> QED  BY <2>1, <3>1, <3>2 DEF w
  <2>2. CASE ~(e.key = key /\ e.type = "consumer")
    <3>1. touched(e) = e  BY <2>2
    <3> HIDE DEF touched
    <3> QED  BY <3>1
  <2> QED  BY <2>1, <2>2
<1> HIDE DEF touched
<1>4. c.cache \in Seq(MapEntries) /\ DOMAIN u.cache = DOMAIN c.cache
      /\ \A i \in DOMAIN c.cache : c.cache[i] \in MapEntries /\ u.cache[i] = touched(c.cache[i])
  BY <1>2 DEF CacheTyped
<1>5. u.cache \in Seq(MapEntries) /\ Len(u.cache) = Len(c.cache)
  <2> DEFINE n == Len(c.cache)
  <2>1. n \in Nat /\ DOMAIN c.cache = 1 .. n  BY <1>4
  <2>2. u.cache \in [1 .. n -> MapEntries]  BY <1>2, <1>3, <1>4, <2>1
  <2> HIDE DEF n
  <2>3. u.cache \in Seq(MapEntries) /\ Len(u.cache) = n  BY <2>1, <2>2
  <2> QED  BY <2>3 DEF n
<1>6. CacheTyped(u)  BY <1>2, <1>5 DEF CacheTyped
<1>7. OneEach(u) /\ Led(u) /\ Sought(u) /\ Owned(u)
  <2>1. DOMAIN u.cache = DOMAIN c.cache /\ u.keyOf = c.keyOf  BY <1>2, <1>4
  <2>2. \A i \in DOMAIN c.cache : u.cache[i].key = c.cache[i].key  BY <1>3, <1>4
  <2>3. OneEach(u)  BY <2>1, <2>2 DEF OneEach
  <2>4. Led(u)  BY <2>1, <2>2 DEF Led
  <2>5. Sought(u)  BY <2>1, <2>2 DEF Sought
  <2>6. Owned(u)  BY <2>1 DEF Owned
  <2> QED  BY <2>3, <2>4, <2>5, <2>6
<1>8. Holding(u, d, clock)
  <2> SUFFICES ASSUME NEW i \in DOMAIN c.cache  PROVE NamedAfter(u.cache[i]) /\ Dated(u.cache[i], d, clock)
    BY <1>4 DEF Holding
  <2>1. NamedAfter(c.cache[i]) /\ Dated(c.cache[i], d, clock)  BY DEF Holding
  <2>2. NamedAfter(u.cache[i])  BY <1>3, <1>4, <2>1 DEF NamedAfter
  <2>3. u.cache[i].at <= clock  BY <1>3, <1>4, <2>1 DEF Dated
  <2>4. Dated(u.cache[i], d, clock)  BY <1>3, <1>4, <2>1, <2>3 DEF Dated
  <2> QED  BY <2>2, <2>4
<1>9. WithinLimits(u)
  <2>1. Consumers(u) = Consumers(c)  BY <1>3, <1>4 DEF Consumers
  <2> QED  BY <1>5, <2>1 DEF WithinLimits
<1> QED  BY <1>2, <1>3, <1>4, <1>6, <1>7, <1>8, <1>9 DEF u

-------------------------------------------------------------------------------
(* What a path is resolved with, d being what the maps are in the end.           *)
RightOn(d, e, f) ==
  e # NoEntry => /\ e.type # "missing" => e.map = MapFor(f)
                 /\ e.type # "consumer" => clock - e.at <= NegativeTtl
                 /\ \/ e.content = Held(f)
                    \/ e.type = "missing" \/ e.content = "unreadable"
                    \/ e.raced /\ e.stamp \in {NoIdentity, d[e.map].stamp}
Right(e, f) == RightOn(disk, e, f)
Unexpired(c) == \A i \in DOMAIN c.cache : ~Expired(c.cache[i])

LEMMA KeysAgree ==
  ASSUME NEW e \in MapEntries, NamedAfter(e), NEW f \in Files, OwnKey(f, e.key)
  PROVE  e.type # "missing" => Looked(f) /\ e.map = MapFor(f)
<1> SUFFICES ASSUME e.type # "missing"  PROVE Looked(f) /\ e.map = MapFor(f)  OBVIOUS
<1>1. e.key = <<e.type, e.map, e.content>>  BY DEF NamedAfter
<1>2. ~ \E x : e.key = <<"missing", x>>
  <2> SUFFICES ASSUME NEW x, e.key = <<"missing", x>>  PROVE FALSE  OBVIOUS
  <2>1. e.key[1] = "missing" /\ e.key[1] = e.type  BY <1>1
  <2> QED  BY <2>1
<1>3. PICK t \in {"corrupt", "consumer"}, x \in MapContents : Looked(f) /\ e.key = <<t, MapFor(f), x>>
  BY <1>2 DEF OwnKey
<1>4. e.key[2] = e.map /\ e.key[2] = MapFor(f)  BY <1>1, <1>3
<1> QED  BY <1>3, <1>4

LEMMA CurrentIsRight ==
  ASSUME MapsTyped, NEW c, CacheGood(c, disk, clock), NEW i \in DOMAIN c.cache, NEW f \in Files,
         c.cache[i].key = c.keyOf[f], ~Expired(c.cache[i]), IsCacheIdentityCurrent(c.cache[i])
  PROVE  Right(c.cache[i], f)
<1> DEFINE e == c.cache[i]
<1>1. e \in MapEntries /\ NamedAfter(e) /\ Dated(e, disk, clock)
  BY DEF CacheGood, CacheTyped, Holding
<1>2. OwnKey(f, e.key)
  <2>1. e.key # Nothing  BY <1>1, EntryIsSome
  <2> QED  BY <2>1 DEF CacheGood, Owned
<1>3. ~Expired(e) /\ IsCacheIdentityCurrent(e)  OBVIOUS
<1> HIDE DEF e
<1>4. e.type # "consumer" => clock - e.at <= NegativeTtl
  <2>1. e.at \in Nat /\ clock \in Nat  BY <1>1 DEF MapEntries, MapsTyped
  <2> QED  BY <1>3, <2>1, MapsAssumption DEF Expired
<1>5. CASE e.type = "missing"
  BY <1>4, <1>5 DEF Right, RightOn, e
<1>6. CASE e.type # "missing"
  <2>1. Looked(f) /\ e.map = MapFor(f)  BY <1>1, <1>2, <1>6, KeysAgree
  <2>2. e.stamp \in {NoIdentity, disk[e.map].stamp}  BY <1>3, <1>6 DEF IsCacheIdentityCurrent
  <2>3. e.content \in {Held(f), "unreadable"} \/ e.raced  BY <1>1, <1>6, <2>1, <2>2 DEF Dated, Held
  <2> QED  BY <1>4, <2>1, <2>2, <2>3 DEF Right, RightOn, e
<1> QED  BY <1>5, <1>6

LEMMA GetCachedSound ==
  ASSUME MapsTyped, NEW c, CacheGood(c, disk, clock), WithinLimits(c), NEW f \in Files
  PROVE  LET u == GetCachedEntry(c, f)
         IN  /\ CacheGood(u, disk, clock) /\ WithinLimits(u) /\ Unexpired(u)
             /\ Right(EntryAt(u, f), f)
             /\ EntryAt(u, f) = NoEntry => u.keyOf[f] = Nothing
             /\ c.keyOf[f] = Nothing => EntryAt(u, f) = NoEntry
<1> DEFINE s == SweepCache(c)
           e == EntryAt(s, f)
           u == GetCachedEntry(c, f)
<1>1. /\ CacheGood(s, disk, clock) /\ WithinLimits(s) /\ Unexpired(s)
      /\ c.keyOf[f] = Nothing => s.keyOf[f] = Nothing
  BY SweepSound DEF Unexpired
<1>2. /\ e = NoEntry => u = Leads(s, f, Nothing)
      /\ e # NoEntry /\ ~IsCacheIdentityCurrent(e) => u = DeleteCacheKeys(s, {e.key})
      /\ e # NoEntry /\ IsCacheIdentityCurrent(e) => u = Touch(s, e.key)
  BY DEF GetCachedEntry
<1> HIDE DEF s, u
<1>3. /\ \A i \in DOMAIN s.cache : s.cache[i].key = s.keyOf[f] => EntryAt(s, f) = s.cache[i]
      /\ EntryAt(s, f) # NoEntry =>
           \E i \in DOMAIN s.cache : s.cache[i].key = s.keyOf[f] /\ EntryAt(s, f) = s.cache[i]
      /\ s.keyOf[f] = Nothing => EntryAt(s, f) = NoEntry
  BY <1>1, EntryFound DEF CacheGood
<1>4. \A i \in DOMAIN s.cache : s.cache[i] \in MapEntries  BY <1>1 DEF CacheGood, CacheTyped
<1>5. CASE e = NoEntry
  <2>1. s.keyOf[f] = Nothing
    <3> SUFFICES ASSUME s.keyOf[f] # Nothing  PROVE FALSE  OBVIOUS
    <3>1. PICK i \in DOMAIN s.cache : s.cache[i].key = s.keyOf[f]  BY <1>1 DEF CacheGood, Led
    <3> QED  BY <1>3, <1>4, <1>5, <3>1, EntryIsSome
  <2>2. u = s
    <3>0. u = Leads(s, f, Nothing)  BY <1>2, <1>5
    <3>1. u = [cache |-> s.cache, keyOf |-> [s.keyOf EXCEPT ![f] = Nothing]]  BY <3>0 DEF Leads
    <3>2. s = [cache |-> s.cache, keyOf |-> s.keyOf] /\ s.keyOf \in [Files -> MapKeys \cup {Nothing}]
      BY <1>1 DEF CacheGood, CacheTyped
    <3>3. [s.keyOf EXCEPT ![f] = Nothing] = s.keyOf  BY <2>1, <3>2
    <3> QED  BY <3>1, <3>2, <3>3
  <2>3. Right(EntryAt(u, f), f)  BY <1>5, <2>2 DEF Right, RightOn
  <2> QED  BY <1>1, <1>5, <2>1, <2>2, <2>3 DEF u
<1>6. CASE e # NoEntry /\ ~IsCacheIdentityCurrent(e)
  <2>1. u = DeleteCacheKeys(s, {e.key})  BY <1>2, <1>6
  <2>2. PICK i \in DOMAIN s.cache : s.cache[i].key = s.keyOf[f] /\ e = s.cache[i]  BY <1>3, <1>6
  <2>3. /\ CacheGood(u, disk, clock)
        /\ \A g \in Files : u.keyOf[g] = IF s.keyOf[g] \in {e.key} THEN Nothing ELSE s.keyOf[g]
        /\ \A k \in DOMAIN u.cache : \E j \in DOMAIN s.cache : u.cache[k] = s.cache[j]
        /\ Len(u.cache) \in Nat /\ Len(s.cache) \in Nat /\ Len(u.cache) <= Len(s.cache)
        /\ Cardinality(Consumers(u)) \in Nat /\ Cardinality(Consumers(s)) \in Nat
        /\ Cardinality(Consumers(u)) <= Cardinality(Consumers(s))
    <3> DEFINE keys == {e.key}
    <3> HIDE DEF keys
    <3> DEFINE v == DeleteCacheKeys(s, keys)
    <3>1. u = v  BY <2>1 DEF keys
    <3>2. /\ CacheGood(v, disk, clock)
          /\ \A g \in Files : v.keyOf[g] = IF s.keyOf[g] \in keys THEN Nothing ELSE s.keyOf[g]
          /\ \A k \in DOMAIN v.cache : \E j \in DOMAIN s.cache : v.cache[k] = s.cache[j]
          /\ Len(v.cache) \in Nat /\ Len(s.cache) \in Nat /\ Len(v.cache) <= Len(s.cache)
          /\ Cardinality(Consumers(v)) \in Nat /\ Cardinality(Consumers(s)) \in Nat
          /\ Cardinality(Consumers(v)) <= Cardinality(Consumers(s))
      BY <1>1, DeleteSound
    <3> HIDE DEF v
    <3> QED  BY <3>1, <3>2 DEF keys
  <2>4. u.keyOf[f] = Nothing  BY <2>2, <2>3
  <2>5. EntryAt(u, f) = NoEntry  BY <2>3, <2>4, EntryFound DEF CacheGood
  <2>6. WithinLimits(u)  BY <1>1, <2>3, MapsAssumption DEF WithinLimits
  <2>7. Unexpired(u)  BY <1>1, <2>3 DEF Unexpired
  <2> QED  BY <1>1, <1>3, <1>6, <2>3, <2>4, <2>5, <2>6, <2>7 DEF u, Right, RightOn
<1>7. CASE e # NoEntry /\ IsCacheIdentityCurrent(e)
  <2>1. u = Touch(s, e.key)  BY <1>2, <1>7
  <2>2. PICK i \in DOMAIN s.cache : s.cache[i].key = s.keyOf[f] /\ e = s.cache[i]  BY <1>3, <1>7
  <2>3. /\ CacheGood(u, disk, clock) /\ WithinLimits(u)
        /\ DOMAIN u.cache = DOMAIN s.cache /\ u.keyOf = s.keyOf
        /\ \A j \in DOMAIN s.cache : u.cache[j] = s.cache[j] \/
             /\ s.cache[j].type = "consumer" /\ u.cache[j] = [s.cache[j] EXCEPT !.at = clock]
    <3> DEFINE key == e.key
    <3> HIDE DEF key
    <3>1. u = Touch(s, key)  BY <2>1 DEF key
    <3> QED  BY <1>1, <3>1, TouchSound DEF MapsTyped
  <2>4. ASSUME NEW j \in DOMAIN s.cache
        PROVE  /\ u.cache[j].key = s.cache[j].key /\ u.cache[j].type = s.cache[j].type
               /\ u.cache[j].map = s.cache[j].map /\ u.cache[j].stamp = s.cache[j].stamp
               /\ u.cache[j].type # "consumer" => u.cache[j] = s.cache[j]
    <3> DEFINE x == s.cache[j]
               y == u.cache[j]
    <3>1. x \in MapEntries /\ (y = x \/ (x.type = "consumer" /\ y = [x EXCEPT !.at = clock]))  BY <1>4, <2>3, <2>4
    <3> HIDE DEF x, y
    <3>2. CASE y = x  BY <3>2 DEF x, y
    <3>3. CASE x.type = "consumer" /\ y = [x EXCEPT !.at = clock]
      <4>1. y.key = x.key /\ y.type = x.type /\ y.map = x.map /\ y.stamp = x.stamp
        BY <3>1, <3>3 DEF MapEntries
      <4> QED  BY <3>3, <4>1 DEF x, y
    <3> QED  BY <3>1, <3>2, <3>3
  <2>5. Unexpired(u)  BY <1>1, <2>3, <2>4 DEF Unexpired, Expired
  <2>6. EntryAt(u, f) = u.cache[i]  BY <2>2, <2>3, <2>4, EntryFound DEF CacheGood
  <2>7. Right(u.cache[i], f)
    <3>1. IsCacheIdentityCurrent(u.cache[i])  BY <1>7, <2>2, <2>4 DEF IsCacheIdentityCurrent
    <3>2. i \in DOMAIN u.cache /\ ~Expired(u.cache[i]) /\ u.cache[i].key = u.keyOf[f]
      BY <2>2, <2>3, <2>4, <2>5 DEF Unexpired
    <3> QED  BY <2>3, <3>1, <3>2, CurrentIsRight
  <2>8. u.cache[i] # NoEntry
    <3>1. u.cache[i] \in MapEntries  BY <2>2, <2>3 DEF CacheGood, CacheTyped
    <3> QED  BY <3>1, EntryIsSome
  <2> QED  BY <1>1, <1>3, <1>7, <2>3, <2>5, <2>6, <2>7, <2>8 DEF u
<1> QED  BY <1>5, <1>6, <1>7

(* Of the entries that may go, one is the oldest.                                *)
LEMMA OldestExists ==
  ASSUME NEW c, CacheTyped(c), NEW S, S \subseteq DOMAIN c.cache, S # {}
  PROVE  Oldest(c, S) # {} /\ Oldest(c, S) \subseteq S
<1> DEFINE at(i) == c.cache[i].at
           before(i) == {j \in S : at(j) < at(i) \/ (at(j) = at(i) /\ j < i)}
           F == {before(i) : i \in S}
<1>1. IsFiniteSet(S)
  <2> DEFINE n == Len(c.cache)
  <2>1. n \in Nat /\ DOMAIN c.cache = 1 .. n  BY DEF CacheTyped
  <2> HIDE DEF n
  <2>2. IsFiniteSet(1 .. n)  BY <2>1, FS_Interval
  <2> QED  BY <2>1, <2>2, FS_Subset
<1>2. \A i \in S : at(i) \in Nat /\ i \in Nat
  <2>1. \A i \in S : c.cache[i] \in MapEntries /\ i \in Nat  BY DEF CacheTyped
  <2> QED  BY <2>1 DEF MapEntries
<1> HIDE DEF at
<1>3. F \subseteq FiniteSubsetsOf(S) /\ F # {}
  <2>1. \A i \in S : IsFiniteSet(before(i))  BY <1>1, FS_Subset
  <2> QED  BY <2>1 DEF FiniteSubsetsOf
<1>4. PICK T \in F : \A U \in F : ~(U \subseteq T /\ U # T)
  <2> HIDE DEF F
  <2> QED  BY <1>3, MinimalSet
<1>5. PICK m \in S : T = before(m)  BY <1>4
<1>6. \A j \in S : j \notin before(m)
  <2> SUFFICES ASSUME NEW j \in S, j \in before(m)  PROVE FALSE  OBVIOUS
  <2>1. before(j) \subseteq before(m)  BY <1>2
  <2>2. j \notin before(j)  BY <1>2
  <2>3. before(j) \in F  OBVIOUS
  <2> QED  BY <1>4, <1>5, <2>1, <2>2, <2>3
<1>7. \A j \in S : at(m) <= at(j) /\ (j < m => at(m) < at(j))  BY <1>2, <1>6
<1>8. m \in Oldest(c, S)  BY <1>7 DEF Oldest, at
<1> QED  BY <1>8 DEF Oldest

(* There is room for what comes.                                                 *)
LEMMA EvictOldestSound ==
  ASSUME NEW c, NEW d, NEW t, CacheGood(c, d, t), Cardinality(Consumers(c)) <= MaxConsumers,
         Len(c.cache) <= MaxTotal
  PROVE  LET u == EvictOldest(c)
         IN  /\ CacheGood(u, d, t) /\ Len(u.cache) <= MaxTotal
             /\ Cardinality(Consumers(u)) \in Nat /\ Cardinality(Consumers(u)) < MaxConsumers
             /\ \A k \in DOMAIN u.cache : \E i \in DOMAIN c.cache : u.cache[k] = c.cache[i]
             /\ \A f \in Files : c.keyOf[f] = Nothing => u.keyOf[f] = Nothing
<1> DEFINE keys == {c.cache[i].key : i \in Oldest(c, Consumers(c))}
           v == DeleteCacheKeys(c, keys)
           u == EvictOldest(c)
<1>1. u = IF Cardinality(Consumers(c)) < MaxConsumers THEN c ELSE v  BY DEF EvictOldest
<1>2. Consumers(c) \subseteq DOMAIN c.cache  BY DEF Consumers
<1>3. \A i \in Oldest(c, Consumers(c)) : c.cache[i].key \in keys  OBVIOUS
<1> HIDE DEF keys
<1>4. /\ CacheGood(v, d, t)
      /\ \A f \in Files : v.keyOf[f] = IF c.keyOf[f] \in keys THEN Nothing ELSE c.keyOf[f]
      /\ \A k \in DOMAIN v.cache : \E i \in DOMAIN c.cache : v.cache[k] = c.cache[i]
      /\ Len(v.cache) \in Nat /\ Len(c.cache) \in Nat /\ Len(v.cache) <= Len(c.cache)
      /\ Cardinality(Consumers(v)) \in Nat /\ Cardinality(Consumers(c)) \in Nat
      /\ Cardinality(Consumers(v)) <= Cardinality(Consumers(c))
      /\ \A i \in DOMAIN c.cache : c.cache[i].key \in keys /\ i \in Consumers(c) =>
           Cardinality(Consumers(v)) < Cardinality(Consumers(c))
  BY DeleteSound
<1> HIDE DEF u, v
<1>5. MaxConsumers \in Nat /\ MaxConsumers # 0 /\ MaxTotal \in Nat  BY MapsAssumption
<1>6. CASE Cardinality(Consumers(c)) < MaxConsumers
  <2>1. u = c  BY <1>1, <1>6
  <2> QED  BY <1>4, <1>6, <2>1 DEF u
<1>7. CASE ~(Cardinality(Consumers(c)) < MaxConsumers)
  <2>1. u = v  BY <1>1, <1>7
  <2>2. Consumers(c) # {}
    <3> SUFFICES ASSUME Consumers(c) = {}  PROVE FALSE  OBVIOUS
    <3>1. Cardinality(Consumers(c)) = 0  BY FS_EmptySet
    <3> QED  BY <1>5, <1>7, <3>1
  <2>3. PICK i \in Consumers(c) : c.cache[i].key \in keys
    BY <1>2, <1>3, <2>2, OldestExists DEF CacheGood
  <2>4. Cardinality(Consumers(v)) < Cardinality(Consumers(c))  BY <1>2, <1>4, <2>3
  <2>5. Cardinality(Consumers(v)) < MaxConsumers /\ Len(v.cache) <= MaxTotal  BY <1>4, <1>5, <2>4
  <2> QED  BY <1>4, <2>1, <2>5 DEF u
<1> QED  BY <1>6, <1>7

LEMMA EnforceSound ==
  ASSUME NEW c, NEW d, NEW t, CacheGood(c, d, t), Cardinality(Consumers(c)) <= MaxConsumers,
         Len(c.cache) <= MaxTotal + 1
  PROVE  LET u == EnforceMaxEntries(c)
         IN  /\ CacheGood(u, d, t) /\ WithinLimits(u)
             /\ \A k \in DOMAIN u.cache : \E i \in DOMAIN c.cache : u.cache[k] = c.cache[i]
             /\ \A f \in Files : u.keyOf[f] \in {Nothing, c.keyOf[f]}
<1> DEFINE keys == {c.cache[i].key : i \in Oldest(c, DOMAIN c.cache)}
           v == DeleteCacheKeys(c, keys)
           u == EnforceMaxEntries(c)
<1>1. u = IF Len(c.cache) <= MaxTotal THEN c ELSE v  BY DEF EnforceMaxEntries
<1>2. \A i \in Oldest(c, DOMAIN c.cache) : c.cache[i].key \in keys  OBVIOUS
<1> HIDE DEF keys
<1>3. /\ CacheGood(v, d, t)
      /\ \A f \in Files : v.keyOf[f] = IF c.keyOf[f] \in keys THEN Nothing ELSE c.keyOf[f]
      /\ \A k \in DOMAIN v.cache : \E i \in DOMAIN c.cache : v.cache[k] = c.cache[i]
      /\ Len(v.cache) \in Nat /\ Len(c.cache) \in Nat
      /\ Cardinality(Consumers(v)) \in Nat /\ Cardinality(Consumers(c)) \in Nat
      /\ Cardinality(Consumers(v)) <= Cardinality(Consumers(c))
      /\ \A i \in DOMAIN c.cache : c.cache[i].key \in keys => Len(v.cache) < Len(c.cache)
  BY DeleteSound
<1> HIDE DEF u, v
<1>4. MaxConsumers \in Nat /\ MaxTotal \in Nat  BY MapsAssumption
<1>5. CASE Len(c.cache) <= MaxTotal
  <2>1. u = c  BY <1>1, <1>5
  <2> QED  BY <1>5, <2>1 DEF WithinLimits, u
<1>6. CASE ~(Len(c.cache) <= MaxTotal)
  <2>1. u = v  BY <1>1, <1>6
  <2>2. DOMAIN c.cache # {}
    <3>1. DOMAIN c.cache = 1 .. Len(c.cache)  BY DEF CacheGood, CacheTyped
    <3>2. 1 \in 1 .. Len(c.cache)  BY <1>3, <1>4, <1>6
    <3> QED  BY <3>1, <3>2
  <2>3. PICK i \in DOMAIN c.cache : c.cache[i].key \in keys
    BY <1>2, <2>2, OldestExists DEF CacheGood
  <2>4. Len(v.cache) < Len(c.cache)  BY <1>3, <2>3
  <2>5. WithinLimits(v)  BY <1>3, <1>4, <2>4 DEF WithinLimits
  <2> QED  BY <1>3, <2>1, <2>5 DEF u
<1> QED  BY <1>5, <1>6

-------------------------------------------------------------------------------
(* A load.                                                                       *)
LEMMA LoadSound ==
  ASSUME MapsTyped, NEW f \in Files, NEW read \in Reads(f), NEW stamp \in Nat \cup {NoIdentity}
  PROVE  LET e == LoadConsumer(f, read, stamp)
         IN  /\ e \in MapEntries /\ NamedAfter(e) /\ OwnKey(f, e.key)
             /\ e.at = clock /\ e.stamp = stamp /\ e.map = MapFor(f)
             /\ e.type # "missing" => /\ Looked(f) /\ e.content \in {disk[MapFor(f)].content, "unreadable"}
                                      /\ disk[MapFor(f)].content # "none"
                                      /\ stamp # disk[MapFor(f)].stamp => e.raced
<1> DEFINE type == CASE read \in {"none", "no source"} -> "missing"
                     [] read \in {"bad", "unreadable"} -> "corrupt" [] OTHER -> "consumer"
           content == IF type = "missing" THEN "none" ELSE read
           named == IF kind[f] = "url" /\ read = "none" THEN MapFor(f) ELSE f
           key == IF type = "missing" THEN <<type, named>> ELSE <<type, MapFor(f), read>>
           raced == type # "missing" /\ stamp # disk[MapFor(f)].stamp
           e == LoadConsumer(f, read, stamp)
<1>1. e = [key |-> key, type |-> type, map |-> MapFor(f), content |-> content, at |-> clock,
           stamp |-> stamp, raced |-> raced]
  BY DEF LoadConsumer
<1>2. MapFor(f) \in Maps  BY MapForTyped
<1>3. Looked(f) => disk[MapFor(f)].content \in Stored
  <2>1. disk[MapFor(f)] \in [content : Stored, stamp : Nat]  BY <1>2 DEF MapsTyped, Disks
  <2> QED  BY <2>1
<1>4. Held(f) = IF Looked(f) THEN disk[MapFor(f)].content ELSE "none"  BY DEF Held
<1>5. type \in EntryTypes /\ named \in Files \cup Maps  BY <1>2 DEF EntryTypes
<1>6. type # "missing" =>
        /\ Looked(f) /\ read \in {disk[MapFor(f)].content, "unreadable"}
        /\ disk[MapFor(f)].content # "none"
  <2>1. type # "missing" => read # "none" /\ read # "no source"  OBVIOUS
  <2> HIDE DEF type
  <2> QED  BY <1>4, <2>1 DEF Reads
<1> HIDE DEF type, named
<1>7. content \in MapContents /\ (type # "missing" => content = read) /\ (type = "missing" => content = "none")
  BY <1>3, <1>6 DEF MapContents, Stored
<1> HIDE DEF content
<1>8. /\ type = "missing" => key = <<"missing", named>>
      /\ type # "missing" => key = <<type, MapFor(f), content>>
  BY <1>7
<1> HIDE DEF key
<1>9. type # "missing" => type \in {"corrupt", "consumer"}  BY <1>5 DEF EntryTypes
<1>10. key \in MapKeys
  <2>1. CASE type = "missing"  BY <1>5, <1>8, <2>1 DEF MapKeys
  <2>2. CASE type # "missing"  BY <1>2, <1>7, <1>8, <1>9, <2>2 DEF MapKeys
  <2> QED  BY <2>1, <2>2
<1>11. raced \in BOOLEAN /\ (type # "missing" /\ stamp # disk[MapFor(f)].stamp => raced)  OBVIOUS
<1> HIDE DEF raced, e
<1>12. /\ e.key = key /\ e.type = type /\ e.map = MapFor(f) /\ e.content = content /\ e.at = clock
       /\ e.stamp = stamp /\ e.raced = raced
  BY <1>1
<1>13. e \in MapEntries
  <2>1. clock \in Nat  BY DEF MapsTyped
  <2> QED  BY <1>1, <1>2, <1>5, <1>7, <1>10, <1>11, <2>1 DEF MapEntries
<1>14. NamedAfter(e)  BY <1>5, <1>7, <1>8, <1>9, <1>12 DEF NamedAfter
<1>15. OwnKey(f, e.key)
  <2>1. CASE type = "missing"  BY <1>5, <1>8, <1>12, <2>1 DEF OwnKey
  <2>2. CASE type # "missing"  BY <1>6, <1>7, <1>8, <1>9, <1>12, <2>2 DEF OwnKey
  <2> QED  BY <2>1, <2>2
<1> QED  BY <1>6, <1>7, <1>11, <1>12, <1>13, <1>14, <1>15 DEF e

(* A map that was replaced has a later stamp, so what was read of it is not      *)
(* taken for what it holds now.                                                  *)
Redeployed(d, e) == \A m \in Maps : e[m] = d[m] \/ d[m].stamp < e[m].stamp

LEMMA LaterGood ==
  ASSUME NEW c, NEW d \in Disks, NEW t \in Nat, CacheGood(c, d, t),
         NEW e \in Disks, Redeployed(d, e), NEW v \in Nat, t <= v
  PROVE  CacheGood(c, e, v)
<1>1. ASSUME NEW i \in DOMAIN c.cache  PROVE NamedAfter(c.cache[i]) /\ Dated(c.cache[i], e, v)
  <2> DEFINE x == c.cache[i]
  <2>1. x \in MapEntries /\ NamedAfter(x) /\ Dated(x, d, t)
    BY DEF CacheGood, CacheTyped, Holding
  <2> HIDE DEF x
  <2>2. x.map \in Maps /\ x.stamp \in Nat \cup {NoIdentity} /\ x.at \in Nat  BY <2>1 DEF MapEntries
  <2>3. /\ d[x.map] \in [content : Stored, stamp : Nat]
        /\ e[x.map] \in [content : Stored, stamp : Nat]
    BY <2>2 DEF Disks
  <2>4. x.at <= v  BY <2>1, <2>2 DEF Dated
  <2>5. e[x.map] = d[x.map] \/ d[x.map].stamp < e[x.map].stamp  BY <2>2 DEF Redeployed
  <2>6. d[x.map].stamp \in Nat /\ e[x.map].stamp \in Nat  BY <2>3
  <2>7. ASSUME x.type # "missing", x.stamp # NoIdentity
        PROVE  /\ x.stamp <= e[x.map].stamp
               /\ x.stamp = e[x.map].stamp => x.content \in {e[x.map].content, "unreadable"} \/ x.raced
    <3>1. /\ x.stamp <= d[x.map].stamp
          /\ x.stamp = d[x.map].stamp => x.content \in {d[x.map].content, "unreadable"} \/ x.raced
      BY <2>1, <2>7 DEF Dated
    <3>2. CASE e[x.map] = d[x.map]  BY <3>1, <3>2
    <3>3. CASE d[x.map].stamp < e[x.map].stamp  BY <2>2, <2>6, <2>7, <3>1, <3>3
    <3> QED  BY <2>5, <3>2, <3>3
  <2>8. x.type # "missing" /\ x.stamp = NoIdentity => x.raced  BY <2>1 DEF Dated
  <2>9. Dated(x, e, v)  BY <2>4, <2>7, <2>8 DEF Dated
  <2> QED  BY <2>1, <2>9 DEF x
<1> QED  BY <1>1 DEF CacheGood, Holding

LEMMA LeadsSound ==
  ASSUME NEW c, NEW d, NEW t, CacheGood(c, d, t), WithinLimits(c), NEW f \in Files,
         c.keyOf[f] = Nothing, NEW i \in DOMAIN c.cache, OwnKey(f, c.cache[i].key)
  PROVE  LET u == Leads(c, f, c.cache[i].key)
         IN  CacheGood(u, d, t) /\ WithinLimits(u) /\ EntryAt(u, f) = c.cache[i]
<1> DEFINE u == Leads(c, f, c.cache[i].key)
<1>1. c.cache[i] \in MapEntries /\ c.cache[i].key \in MapKeys /\ c.cache[i].key # Nothing
  <2>1. c.cache[i] \in MapEntries  BY DEF CacheGood, CacheTyped
  <2> QED  BY <2>1, EntryIsSome
<1>2. /\ u = [cache |-> u.cache, keyOf |-> u.keyOf] /\ u.cache = c.cache
      /\ u.keyOf = [c.keyOf EXCEPT ![f] = c.cache[i].key]
  BY DEF Leads
<1> HIDE DEF u
<1>3. c.keyOf \in [Files -> MapKeys \cup {Nothing}]  BY DEF CacheGood, CacheTyped
<1>4. \A g \in Files : u.keyOf[g] = IF g = f THEN c.cache[i].key ELSE c.keyOf[g]  BY <1>2, <1>3
<1>5. CacheTyped(u)
  <2>1. u.keyOf \in [Files -> MapKeys \cup {Nothing}]  BY <1>1, <1>2, <1>3
  <2> QED  BY <1>2, <2>1 DEF CacheGood, CacheTyped
<1>6. OneEach(u)  BY <1>2 DEF CacheGood, OneEach
<1>7. Led(u)  BY <1>2, <1>4 DEF CacheGood, Led
<1>8. Sought(u)
  <2> SUFFICES ASSUME NEW j \in DOMAIN c.cache  PROVE \E g \in Files : u.keyOf[g] = c.cache[j].key
    BY <1>2 DEF Sought
  <2>1. PICK g \in Files : c.keyOf[g] = c.cache[j].key  BY DEF CacheGood, Sought
  <2>2. c.cache[j].key # Nothing
    <3>1. c.cache[j] \in MapEntries  BY DEF CacheGood, CacheTyped
    <3> QED  BY <3>1, EntryIsSome
  <2>3. g # f  BY <2>1, <2>2
  <2>4. u.keyOf[g] = c.cache[j].key  BY <1>4, <2>1, <2>3
  <2> QED  BY <2>4
<1>9. Owned(u)  BY <1>4 DEF CacheGood, Owned
<1>10. Holding(u, d, t)  BY <1>2 DEF CacheGood, Holding
<1>11. CacheGood(u, d, t)  BY <1>5, <1>6, <1>7, <1>8, <1>9, <1>10 DEF CacheGood
<1>12. WithinLimits(u)  BY <1>2 DEF WithinLimits, Consumers
<1>13. EntryAt(u, f) = c.cache[i]
  <2>1. i \in DOMAIN u.cache /\ u.cache[i].key = u.keyOf[f] /\ u.cache[i] = c.cache[i]  BY <1>2, <1>4
  <2> QED  BY <1>5, <1>6, <2>1, EntryFound
<1> QED  BY <1>11, <1>12, <1>13 DEF u

LEMMA AppendSound ==
  ASSUME NEW c, NEW d, NEW t, CacheGood(c, d, t), NEW f \in Files, c.keyOf[f] = Nothing,
         NEW e \in MapEntries, NamedAfter(e), Dated(e, d, t), OwnKey(f, e.key),
         \A i \in DOMAIN c.cache : c.cache[i].key # e.key
  PROVE  LET u == Leads([c EXCEPT !.cache = Append(@, e)], f, e.key)
         IN  /\ CacheGood(u, d, t) /\ u.keyOf[f] = e.key /\ EntryAt(u, f) = e
             /\ Len(c.cache) \in Nat /\ Len(u.cache) = Len(c.cache) + 1
             /\ IF e.type = "consumer" THEN Cardinality(Consumers(u)) <= Cardinality(Consumers(c)) + 1
                                       ELSE Cardinality(Consumers(u)) = Cardinality(Consumers(c))
<1> DEFINE w == [c EXCEPT !.cache = Append(@, e)]
           u == Leads(w, f, e.key)
           n == Len(c.cache)
<1>1. /\ c = [cache |-> c.cache, keyOf |-> c.keyOf] /\ c.cache \in Seq(MapEntries)
      /\ c.keyOf \in [Files -> MapKeys \cup {Nothing}]
  BY DEF CacheGood, CacheTyped
<1>2. w.cache = Append(c.cache, e) /\ w.keyOf = c.keyOf  BY <1>1
<1> HIDE DEF w
<1>3. /\ u = [cache |-> u.cache, keyOf |-> u.keyOf] /\ u.cache = Append(c.cache, e)
      /\ u.keyOf = [c.keyOf EXCEPT ![f] = e.key]
  BY <1>2 DEF Leads
<1> HIDE DEF u
<1>4. n \in Nat /\ DOMAIN c.cache = 1 .. n  BY <1>1
<1>5. /\ u.cache \in Seq(MapEntries) /\ Len(u.cache) = n + 1 /\ DOMAIN u.cache = 1 .. (n + 1)
      /\ u.cache[n + 1] = e /\ \A i \in 1 .. n : u.cache[i] = c.cache[i]
  BY <1>1, <1>3
<1> HIDE DEF n
<1>6. e.key \in MapKeys /\ e.key # Nothing  BY EntryIsSome
<1>7. \A g \in Files : u.keyOf[g] = IF g = f THEN e.key ELSE c.keyOf[g]  BY <1>1, <1>3
<1>8. CacheTyped(u)
  <2>1. u.keyOf \in [Files -> MapKeys \cup {Nothing}]  BY <1>1, <1>3, <1>6
  <2> QED  BY <1>3, <1>5, <2>1 DEF CacheTyped
<1>9. \A i \in DOMAIN u.cache : i = n + 1 \/ i \in DOMAIN c.cache  BY <1>4, <1>5
<1>10. \A i \in DOMAIN c.cache : i \in DOMAIN u.cache /\ u.cache[i] = c.cache[i] /\ i # n + 1
  BY <1>4, <1>5
<1>11. n + 1 \in DOMAIN u.cache  BY <1>4, <1>5
<1>12. OneEach(u)
  <2> SUFFICES ASSUME NEW i \in DOMAIN u.cache, NEW j \in DOMAIN u.cache, u.cache[i].key = u.cache[j].key
               PROVE  i = j
    BY DEF OneEach
  <2>1. CASE i = n + 1  BY <1>5, <1>9, <1>10, <2>1
  <2>2. CASE j = n + 1  BY <1>5, <1>9, <1>10, <2>2
  <2>3. CASE i \in DOMAIN c.cache /\ j \in DOMAIN c.cache
    BY <1>10, <2>3 DEF CacheGood, OneEach
  <2> QED  BY <1>9, <2>1, <2>2, <2>3
<1>13. Led(u)
  <2> SUFFICES ASSUME NEW g \in Files, u.keyOf[g] # Nothing
               PROVE  \E i \in DOMAIN u.cache : u.cache[i].key = u.keyOf[g]
    BY DEF Led
  <2>1. CASE g = f  BY <1>5, <1>7, <1>11, <2>1
  <2>2. CASE g # f
    <3>1. PICK i \in DOMAIN c.cache : c.cache[i].key = c.keyOf[g]  BY <1>7, <2>2 DEF CacheGood, Led
    <3> QED  BY <1>7, <1>10, <2>2, <3>1
  <2> QED  BY <2>1, <2>2
<1>14. Sought(u)
  <2> SUFFICES ASSUME NEW j \in DOMAIN u.cache  PROVE \E g \in Files : u.keyOf[g] = u.cache[j].key
    BY DEF Sought
  <2>1. CASE j = n + 1  BY <1>5, <1>7, <2>1
  <2>2. CASE j \in DOMAIN c.cache
    <3>1. PICK g \in Files : c.keyOf[g] = c.cache[j].key  BY <2>2 DEF CacheGood, Sought
    <3>2. c.cache[j].key # Nothing
      <4>1. c.cache[j] \in MapEntries  BY <1>1, <2>2
      <4> QED  BY <4>1, EntryIsSome
    <3>3. u.keyOf[g] = u.cache[j].key  BY <1>7, <1>10, <2>2, <3>1, <3>2
    <3> QED  BY <3>3
  <2> QED  BY <1>9, <2>1, <2>2
<1>15. Owned(u)  BY <1>7 DEF CacheGood, Owned
<1>16. Holding(u, d, t)
  <2> SUFFICES ASSUME NEW i \in DOMAIN u.cache  PROVE NamedAfter(u.cache[i]) /\ Dated(u.cache[i], d, t)
    BY DEF Holding
  <2>1. CASE i = n + 1  BY <1>5, <2>1
  <2>2. CASE i \in DOMAIN c.cache  BY <1>10, <2>2 DEF CacheGood, Holding
  <2> QED  BY <1>9, <2>1, <2>2
<1>17. CacheGood(u, d, t)  BY <1>8, <1>12, <1>13, <1>14, <1>15, <1>16 DEF CacheGood
<1>18. EntryAt(u, f) = e /\ u.keyOf[f] = e.key
  <2>1. u.cache[n + 1].key = u.keyOf[f]  BY <1>5, <1>7
  <2> QED  BY <1>5, <1>7, <1>8, <1>11, <1>12, <2>1, EntryFound
<1>19. IsFiniteSet(Consumers(c)) /\ Cardinality(Consumers(c)) \in Nat
  <2>1. IsFiniteSet(1 .. n)  BY <1>4, FS_Interval
  <2> QED  BY <1>4, <2>1, FS_Subset, FS_CardinalityType DEF Consumers
<1>20. IF e.type = "consumer" THEN Cardinality(Consumers(u)) <= Cardinality(Consumers(c)) + 1
                              ELSE Cardinality(Consumers(u)) = Cardinality(Consumers(c))
  <2>1. CASE e.type = "consumer"
    <3>1. Consumers(u) = Consumers(c) \cup {n + 1}  BY <1>5, <1>9, <1>10, <1>11, <2>1 DEF Consumers
    <3>2. n + 1 \notin Consumers(c)  BY <1>10 DEF Consumers
    <3>3. Cardinality(Consumers(u)) = Cardinality(Consumers(c)) + 1  BY <1>19, <3>1, <3>2, FS_AddElement
    <3> QED  BY <1>19, <2>1, <3>3
  <2>2. CASE e.type # "consumer"
    <3>1. Consumers(u) = Consumers(c)  BY <1>5, <1>9, <1>10, <2>2 DEF Consumers
    <3> QED  BY <2>2, <3>1
  <2> QED  BY <2>1, <2>2
<1> QED  BY <1>4, <1>5, <1>17, <1>18, <1>20 DEF n, u, w

(* Two entries of one name hold the same of the same map.                        *)
LEMMA SameKey ==
  ASSUME NEW x \in MapEntries, NamedAfter(x), NEW e \in MapEntries, NamedAfter(e), x.key = e.key
  PROVE  x.type = e.type /\ x.content = e.content /\ (x.type # "missing" => x.map = e.map)
<1>1. x.key[1] = x.type /\ (x.type # "missing" => x.key[2] = x.map /\ x.key[3] = x.content)
  BY DEF NamedAfter
<1>2. e.key[1] = e.type /\ (e.type # "missing" => e.key[2] = e.map /\ e.key[3] = e.content)
  BY DEF NamedAfter
<1>3. x.type = "missing" => x.content = "none"  BY DEF NamedAfter
<1>4. e.type = "missing" => e.content = "none"  BY DEF NamedAfter
<1> QED  BY <1>1, <1>2, <1>3, <1>4

(* A consumer is asked for: d is what the maps are when the load is over.        *)
LEMMA GetConsumerSound ==
  ASSUME MapsTyped, NEW c0, CacheGood(c0, disk, clock), WithinLimits(c0), NEW f \in Files,
         NEW d \in Disks, Redeployed(disk, d), NEW read \in Reads(f), NEW stamp,
         stamp = IF Looked(f) /\ d[MapFor(f)].content # "none" THEN d[MapFor(f)].stamp ELSE NoIdentity
  PROVE  LET u == GetConsumer(c0, f, read, stamp)
         IN  /\ CacheGood(u, d, clock) /\ WithinLimits(u)
             /\ d = disk \/ c0.keyOf[f] = Nothing => RightOn(d, EntryAt(u, f), f)
<1> DEFINE c == GetCachedEntry(c0, f)
           e == LoadConsumer(f, read, stamp)
           room == IF e.type = "consumer" THEN EvictOldest(c) ELSE c
           grown == Leads([room EXCEPT !.cache = Append(@, e)], f, e.key)
           u == GetConsumer(c0, f, read, stamp)
<1>1. /\ EntryAt(c, f) # NoEntry => u = c
      /\ EntryAt(c, f) = NoEntry =>
           u = IF \E x \in Range(c.cache) : x.key = e.key THEN Leads(c, f, e.key) ELSE EnforceMaxEntries(grown)
  BY DEF GetConsumer
<1>2. /\ CacheGood(c, disk, clock) /\ WithinLimits(c) /\ Unexpired(c)
      /\ Right(EntryAt(c, f), f)
      /\ EntryAt(c, f) = NoEntry => c.keyOf[f] = Nothing
      /\ c0.keyOf[f] = Nothing => EntryAt(c, f) = NoEntry
  BY GetCachedSound
<1>3. MapFor(f) \in Maps /\ clock \in Nat /\ disk \in Disks
  BY MapForTyped DEF MapsTyped
<1>4. /\ disk[MapFor(f)].stamp \in Nat /\ d[MapFor(f)].stamp \in Nat
      /\ d[MapFor(f)] = disk[MapFor(f)] \/ disk[MapFor(f)].stamp < d[MapFor(f)].stamp
  BY <1>3 DEF Disks, Redeployed
<1>5. stamp \in Nat \cup {NoIdentity}  BY <1>4
<1>6. /\ e \in MapEntries /\ NamedAfter(e) /\ OwnKey(f, e.key)
      /\ e.at = clock /\ e.stamp = stamp /\ e.map = MapFor(f)
      /\ e.type # "missing" => /\ Looked(f) /\ e.content \in {disk[MapFor(f)].content, "unreadable"}
                               /\ disk[MapFor(f)].content # "none"
                               /\ stamp # disk[MapFor(f)].stamp => e.raced
  BY <1>5, LoadSound
<1> HIDE DEF c, e, u
<1>7. CacheGood(c, d, clock)  BY <1>2, <1>3, LaterGood
<1>8. \A x : x.type = e.type /\ x.content = e.content /\ x.at \in Nat /\ clock - x.at <= NegativeTtl
              /\ (x.type # "missing" => x.map = e.map) => RightOn(d, x, f)
  <2>1. e.type # "missing" => e.content \in {Held(f), "unreadable"}  BY <1>6 DEF Held
  <2> QED  BY <1>6, <2>1 DEF RightOn
<1>9. Dated(e, d, clock)
  <2>1. e.at <= clock  BY <1>3, <1>6
  <2>2. ASSUME e.type # "missing", e.stamp = NoIdentity  PROVE e.raced
    <3>1. stamp # disk[MapFor(f)].stamp  BY <1>4, <1>6, <2>2 DEF NoIdentity
    <3> QED  BY <1>6, <2>2, <3>1
  <2>3. ASSUME e.type # "missing", e.stamp # NoIdentity
        PROVE  /\ e.stamp <= d[e.map].stamp
               /\ e.stamp = d[e.map].stamp => e.content \in {d[e.map].content, "unreadable"} \/ e.raced
    <3>1. stamp = d[MapFor(f)].stamp /\ e.map = MapFor(f) /\ e.content \in {disk[MapFor(f)].content, "unreadable"}
      BY <1>6, <2>3
    <3>2. CASE d[MapFor(f)] = disk[MapFor(f)]  BY <1>4, <1>6, <3>1, <3>2
    <3>3. CASE disk[MapFor(f)].stamp < d[MapFor(f)].stamp
      <4>1. e.raced  BY <1>4, <1>6, <2>3, <3>1, <3>3
      <4> QED  BY <1>4, <1>6, <3>1, <4>1
    <3> QED  BY <1>4, <3>2, <3>3
  <2> QED  BY <2>1, <2>2, <2>3 DEF Dated
<1>10. CASE EntryAt(c, f) # NoEntry
  <2>1. u = c  BY <1>1, <1>10
  <2> QED  BY <1>2, <1>7, <1>10, <2>1 DEF u, Right
<1>11. CASE EntryAt(c, f) = NoEntry /\ \E x \in Range(c.cache) : x.key = e.key
  <2>1. PICK i \in DOMAIN c.cache : c.cache[i].key = e.key  BY <1>11 DEF Range
  <2>2. u = Leads(c, f, c.cache[i].key)  BY <1>1, <1>11, <2>1
  <2>3. c.keyOf[f] = Nothing  BY <1>2, <1>11
  <2>4. CacheGood(u, d, clock) /\ WithinLimits(u) /\ EntryAt(u, f) = c.cache[i]
    BY <1>2, <1>6, <1>7, <2>1, <2>2, <2>3, LeadsSound
  <2>5. c.cache[i] \in MapEntries /\ NamedAfter(c.cache[i])
    BY <1>2 DEF CacheGood, CacheTyped, Holding
  <2>6. c.cache[i].type = e.type /\ c.cache[i].content = e.content
        /\ (c.cache[i].type # "missing" => c.cache[i].map = e.map)
    BY <1>6, <2>1, <2>5, SameKey
  <2>7. CASE e.type # "consumer"
    <3>1. c.cache[i].at \in Nat /\ clock - c.cache[i].at <= NegativeTtl
      <4>1. c.cache[i].at \in Nat /\ ~Expired(c.cache[i])  BY <1>2, <2>5 DEF MapEntries, Unexpired
      <4> QED  BY <1>3, <2>6, <2>7, <4>1, MapsAssumption DEF Expired
    <3>2. RightOn(d, c.cache[i], f)  BY <1>8, <2>6, <3>1
    <3> QED  BY <2>4, <3>2 DEF u
  <2>8. CASE e.type = "consumer"
    <3>1. c.cache[i].content \in {Held(f), "unreadable"} /\ c.cache[i].map = MapFor(f)
      BY <1>6, <2>6, <2>8 DEF Held
    <3>2. RightOn(d, c.cache[i], f)  BY <2>6, <2>8, <3>1 DEF RightOn
    <3> QED  BY <2>4, <3>2 DEF u
  <2> QED  BY <2>7, <2>8
<1>12. CASE EntryAt(c, f) = NoEntry /\ ~ \E x \in Range(c.cache) : x.key = e.key
  <2>1. u = EnforceMaxEntries(grown)  BY <1>1, <1>12
  <2>2. c.keyOf[f] = Nothing /\ \A i \in DOMAIN c.cache : c.cache[i].key # e.key
    BY <1>2, <1>12 DEF Range
  <2>3. /\ CacheGood(room, d, clock) /\ Len(room.cache) <= MaxTotal /\ room.keyOf[f] = Nothing
        /\ \A i \in DOMAIN room.cache : room.cache[i].key # e.key
        /\ Cardinality(Consumers(room)) <= MaxConsumers
        /\ e.type = "consumer" =>
             Cardinality(Consumers(room)) \in Nat /\ Cardinality(Consumers(room)) < MaxConsumers
    <3>1. CASE e.type = "consumer"
      <4> DEFINE v == EvictOldest(c)
      <4>1. room = v  BY <3>1
      <4>2. /\ CacheGood(v, d, clock) /\ Len(v.cache) <= MaxTotal
            /\ Cardinality(Consumers(v)) \in Nat /\ Cardinality(Consumers(v)) < MaxConsumers
            /\ \A k \in DOMAIN v.cache : \E i \in DOMAIN c.cache : v.cache[k] = c.cache[i]
            /\ c.keyOf[f] = Nothing => v.keyOf[f] = Nothing
        BY <1>2, <1>7, EvictOldestSound DEF WithinLimits
      <4> HIDE DEF v, room
      <4>3. Cardinality(Consumers(v)) <= MaxConsumers  BY <4>2, MapsAssumption
      <4> QED  BY <2>2, <4>1, <4>2, <4>3
    <3>2. CASE e.type # "consumer"
      <4>1. room = c  BY <3>2
      <4> HIDE DEF room
      <4> QED  BY <1>2, <1>7, <2>2, <3>2, <4>1 DEF WithinLimits
    <3> QED  BY <3>1, <3>2
  <2> HIDE DEF room
  <2>4. /\ CacheGood(grown, d, clock) /\ grown.keyOf[f] = e.key /\ EntryAt(grown, f) = e
        /\ Len(room.cache) \in Nat /\ Len(grown.cache) = Len(room.cache) + 1
        /\ IF e.type = "consumer" THEN Cardinality(Consumers(grown)) <= Cardinality(Consumers(room)) + 1
                                  ELSE Cardinality(Consumers(grown)) = Cardinality(Consumers(room))
    BY <1>6, <1>9, <2>3, AppendSound
  <2> HIDE DEF grown
  <2>5. Cardinality(Consumers(grown)) \in Nat
    <3> DEFINE n == Len(grown.cache)
    <3>1. n \in Nat /\ DOMAIN grown.cache = 1 .. n  BY <2>4 DEF CacheGood, CacheTyped
    <3> HIDE DEF n
    <3>2. IsFiniteSet(1 .. n)  BY <3>1, FS_Interval
    <3> QED  BY <3>1, <3>2, FS_Subset, FS_CardinalityType DEF Consumers
  <2>6. Cardinality(Consumers(grown)) <= MaxConsumers /\ Len(grown.cache) <= MaxTotal + 1
    BY <2>3, <2>4, <2>5, MapsAssumption
  <2>7. /\ CacheGood(u, d, clock) /\ WithinLimits(u)
        /\ \A k \in DOMAIN u.cache : \E i \in DOMAIN grown.cache : u.cache[k] = grown.cache[i]
        /\ u.keyOf[f] \in {Nothing, grown.keyOf[f]}
    <3> DEFINE v == EnforceMaxEntries(grown)
    <3>1. /\ CacheGood(v, d, clock) /\ WithinLimits(v)
          /\ \A k \in DOMAIN v.cache : \E i \in DOMAIN grown.cache : v.cache[k] = grown.cache[i]
          /\ v.keyOf[f] \in {Nothing, grown.keyOf[f]}
      BY <2>4, <2>6, EnforceSound
    <3> HIDE DEF v
    <3> QED  BY <2>1, <3>1 DEF v
  <2>8. RightOn(d, EntryAt(u, f), f)
    <3>1. CASE EntryAt(u, f) = NoEntry  BY <3>1 DEF RightOn
    <3>2. CASE EntryAt(u, f) # NoEntry
      <4>1. PICK k \in DOMAIN u.cache : u.cache[k].key = u.keyOf[f] /\ EntryAt(u, f) = u.cache[k]
        BY <2>7, <3>2, EntryFound DEF CacheGood
      <4>2. u.keyOf[f] # Nothing  BY <2>7, <3>2, EntryFound DEF CacheGood
      <4>3. PICK i \in DOMAIN grown.cache : u.cache[k] = grown.cache[i]  BY <2>7, <4>1
      <4>4. grown.cache[i].key = grown.keyOf[f]  BY <2>7, <4>1, <4>2, <4>3
      <4>5. EntryAt(grown, f) = grown.cache[i]  BY <2>4, <4>4, EntryFound DEF CacheGood
      <4>6. EntryAt(u, f) = e  BY <2>4, <4>1, <4>3, <4>5
      <4>7. e.at \in Nat /\ clock - e.at <= NegativeTtl  BY <1>3, <1>6, MapsAssumption
      <4> QED  BY <1>8, <4>6, <4>7
    <3> QED  BY <3>1, <3>2
  <2> QED  BY <2>7, <2>8 DEF u
<1> QED  BY <1>10, <1>11, <1>12

-------------------------------------------------------------------------------
LEMMA WriteLater ==
  ASSUME MapsTyped, NEW m \in Maps, NEW x \in Stored
  PROVE  /\ Write(m, x) \in Disks /\ Redeployed(disk, Write(m, x))
         /\ \A y \in Maps : Write(m, x)[y].stamp <= deploys + 1
<1>1. /\ disk \in [Maps -> [content : Stored, stamp : Nat]] /\ deploys \in Nat
      /\ \A y \in Maps : disk[y].stamp <= deploys
  BY DEF MapsTyped, Disks
<1>2. [content |-> x, stamp |-> deploys + 1] \in [content : Stored, stamp : Nat]  BY <1>1
<1>3. Write(m, x) \in [Maps -> [content : Stored, stamp : Nat]]  BY <1>1, <1>2 DEF Write
<1>4. \A y \in Maps : IF y = m THEN Write(m, x)[y].stamp = deploys + 1 ELSE Write(m, x)[y] = disk[y]
  BY <1>1 DEF Write
<1>5. \A y \in Maps : disk[y].stamp \in Nat  BY <1>1
<1>6. Redeployed(disk, Write(m, x))  BY <1>1, <1>4, <1>5 DEF Redeployed
<1>7. \A y \in Maps : Write(m, x)[y].stamp <= deploys + 1  BY <1>1, <1>4, <1>5
<1> QED  BY <1>3, <1>6, <1>7 DEF Disks

LEMMA MeanwhileLater ==
  ASSUME MapsTyped, NEW f \in Files, NEW loads, Meanwhile(f, loads)
  PROVE  /\ disk' \in Disks /\ Redeployed(disk, disk') /\ deploys' \in Nat
         /\ \A y \in Maps : disk'[y].stamp <= deploys'
         /\ ~loads => disk' = disk
<1>1. CASE UNCHANGED <<disk, deploys>>  BY <1>1 DEF MapsTyped, Redeployed
<1>2. CASE loads /\ (\E x \in Stored : disk' = Write(MapFor(f), x)) /\ deploys' = deploys + 1
  <2>1. PICK x \in Stored : disk' = Write(MapFor(f), x)  BY <1>2
  <2>2. MapFor(f) \in Maps  BY MapForTyped
  <2>3. deploys \in Nat  BY DEF MapsTyped
  <2> QED  BY <1>2, <2>1, <2>2, <2>3, WriteLater
<1> QED  BY <1>1, <1>2 DEF Meanwhile

LEMMA StillGood ==
  ASSUME NEW u, CacheGood(u, disk', clock'), WithinLimits(u), Becomes(u), kind' = kind
  PROVE  CacheGood(Now, disk, clock)' /\ WithinLimits(Now)'
<1>1. u = [cache |-> cache', keyOf |-> keyOf'] /\ Now' = u
  BY DEF CacheGood, CacheTyped, Becomes, Now
<1>2. \A f \in Files : \A k : OwnKey(f, k)' <=> OwnKey(f, k)  BY DEF OwnKey, Looked, MapFor
<1>3. Owned(u)' <=> Owned(u)
  <2>1. Owned(u)' <=> \A f \in Files : u.keyOf[f] # Nothing => OwnKey(f, u.keyOf[f])'  BY DEF Owned
  <2> QED  BY <1>2, <2>1 DEF Owned
<1> QED  BY <1>1, <1>3 DEF CacheGood, CacheTyped, OneEach, Led, Sought, Owned, Holding, WithinLimits, Consumers

LEMMA MapsTypedNext ==
  ASSUME MapsTyped, kind' = kind, disk' \in Disks, deploys' \in Nat, clock' \in Nat,
         \A y \in Maps : disk'[y].stamp <= deploys'
  PROVE  MapsTyped'
  BY DEF MapsTyped, Disks

(* What was resolved with its map is recorded as such.                           *)
LEMMA SeenRight ==
  ASSUME NEW f \in Files, NEW e, RightOn(disk', e, f), kind' = kind, clock' = clock,
         Uses("checked", f, e, Held(f))
  PROVE  MapIsCurrent'
<1>1. /\ seenAs'.how = "checked" /\ seenAs'.entry = e /\ seenAs'.file = f /\ seenAs'.held = Held(f)
  BY DEF Uses
<1>2. MapFor(f)' = MapFor(f)  BY DEF MapFor
<1>3. MapIsCurrent' <=> RightOn(disk', e, f)
  BY <1>1, <1>2 DEF MapIsCurrent, RightOn
<1> QED  BY <1>3

LEMMA ResolveStep ==
  ASSUME MapsInv, NEW f \in Files, Resolve(f)
  PROVE  MapsInv'
<1> DEFINE c == GetCachedEntry(Now, f)
           known == EntryAt(c, f) # NoEntry
           sync == ~known /\ FileSizeUnderThreshold(f)
<1>1. PICK read \in Reads(f) :
        /\ Becomes(IF sync THEN GetConsumer(c, f, read, StampOf(f)) ELSE c)
        /\ Uses("checked", f, EntryAt(IF sync THEN GetConsumer(c, f, read, StampOf(f)) ELSE c, f), Held(f))
  BY DEF Resolve
<1> DEFINE g == GetConsumer(c, f, read, StampOf(f))
           d == IF sync THEN g ELSE c
<1>2. Meanwhile(f, sync) /\ Becomes(d) /\ Uses("checked", f, EntryAt(d, f), Held(f))
      /\ kind' = kind /\ clock' = clock
  BY <1>1 DEF Resolve
<1>3. /\ CacheGood(c, disk, clock) /\ WithinLimits(c) /\ Right(EntryAt(c, f), f)
      /\ sync => c.keyOf[f] = Nothing
  BY GetCachedSound DEF MapsInv
<1>4. MapsTyped  BY DEF MapsInv
<1> HIDE DEF c
<1>5. sync \in BOOLEAN  OBVIOUS
<1> HIDE DEF sync
<1>6. /\ disk' \in Disks /\ Redeployed(disk, disk') /\ deploys' \in Nat
      /\ \A y \in Maps : disk'[y].stamp <= deploys'
      /\ ~sync => disk' = disk
  BY <1>2, <1>4, MeanwhileLater
<1>7. CacheGood(g, disk', clock) /\ WithinLimits(g) /\ (sync => RightOn(disk', EntryAt(g, f), f))
  <2> DEFINE stamp == StampOf(f)
  <2>1. stamp = IF Looked(f) /\ disk'[MapFor(f)].content # "none" THEN disk'[MapFor(f)].stamp ELSE NoIdentity
    BY DEF StampOf
  <2> HIDE DEF stamp
  <2> DEFINE v == GetConsumer(c, f, read, stamp)
  <2>2. /\ CacheGood(v, disk', clock) /\ WithinLimits(v)
        /\ disk' = disk \/ c.keyOf[f] = Nothing => RightOn(disk', EntryAt(v, f), f)
    BY <1>3, <1>4, <1>6, <2>1, GetConsumerSound
  <2>3. g = v  BY DEF stamp
  <2> HIDE DEF v, g
  <2> QED  BY <1>3, <2>2, <2>3
<1>8. CacheGood(d, disk', clock) /\ WithinLimits(d) /\ RightOn(disk', EntryAt(d, f), f)
  <2>1. CASE sync
    <3>1. d = g  BY <2>1
    <3> HIDE DEF d, g
    <3> QED  BY <1>7, <2>1, <3>1
  <2>2. CASE ~sync
    <3>1. d = c  BY <2>2
    <3> HIDE DEF d
    <3> QED  BY <1>3, <1>6, <2>2, <3>1 DEF Right
  <2> QED  BY <1>5, <2>1, <2>2
<1> HIDE DEF d
<1>9. CacheGood(Now, disk, clock)' /\ WithinLimits(Now)'  BY <1>2, <1>8, StillGood
<1>10. MapIsCurrent'  BY <1>2, <1>8, SeenRight
<1>11. MapsTyped'  BY <1>2, <1>4, <1>6, MapsTypedNext DEF MapsTyped
<1> QED  BY <1>9, <1>10, <1>11 DEF MapsInv

LEMMA WarmStep ==
  ASSUME MapsInv, NEW f \in Files, Warm(f)
  PROVE  MapsInv'
<1> DEFINE loads == EntryAt(GetCachedEntry(Now, f), f) = NoEntry
           stamp == StampOf(f)
<1>1. PICK read \in Reads(f) : Becomes(GetConsumer(Now, f, read, stamp))  BY DEF Warm
<1> DEFINE d == GetConsumer(Now, f, read, stamp)
<1>2. /\ Meanwhile(f, loads) /\ Becomes(d) /\ seenAs' = [how |-> "none"]
      /\ kind' = kind /\ clock' = clock
  BY <1>1 DEF Warm
<1>3. MapsTyped /\ CacheGood(Now, disk, clock) /\ WithinLimits(Now)  BY DEF MapsInv
<1> HIDE DEF loads
<1>4. /\ disk' \in Disks /\ Redeployed(disk, disk') /\ deploys' \in Nat
      /\ \A y \in Maps : disk'[y].stamp <= deploys'
  BY <1>2, <1>3, MeanwhileLater
<1>5. stamp = IF Looked(f) /\ disk'[MapFor(f)].content # "none" THEN disk'[MapFor(f)].stamp ELSE NoIdentity
  BY DEF StampOf
<1> HIDE DEF stamp
<1>6. CacheGood(d, disk', clock) /\ WithinLimits(d)  BY <1>3, <1>4, <1>5, GetConsumerSound
<1> HIDE DEF d
<1>7. CacheGood(Now, disk, clock)' /\ WithinLimits(Now)'  BY <1>2, <1>6, StillGood
<1>8. MapIsCurrent'  BY <1>2 DEF MapIsCurrent
<1>9. MapsTyped'  BY <1>2, <1>3, <1>4, MapsTypedNext DEF MapsTyped
<1> QED  BY <1>7, <1>8, <1>9 DEF MapsInv

LEMMA CacheOnlyStep ==
  ASSUME MapsInv, NEW f \in Files, ResolveCacheOnly(f)
  PROVE  MapsInv'
<1> DEFINE key == EntryAt(Now, f).key
           d == Touch(Now, key)
<1>1. Becomes(d) /\ seenAs'.how = "cached" /\ UNCHANGED <<kind, disk, clock, deploys>>
  BY DEF ResolveCacheOnly, Uses
<1>2. MapsTyped /\ clock \in Nat /\ CacheGood(Now, disk, clock) /\ WithinLimits(Now)  BY DEF MapsInv, MapsTyped
<1> HIDE DEF key
<1>3. CacheGood(d, disk, clock) /\ WithinLimits(d)  BY <1>2, TouchSound
<1> HIDE DEF d
<1>4. CacheGood(d, disk', clock')  BY <1>1, <1>3
<1>5. CacheGood(Now, disk, clock)' /\ WithinLimits(Now)'  BY <1>1, <1>3, <1>4, StillGood
<1>6. MapIsCurrent'  BY <1>1 DEF MapIsCurrent
<1>7. MapsTyped'  BY <1>1, <1>2 DEF MapsTyped, Disks
<1> QED  BY <1>5, <1>6, <1>7 DEF MapsInv

(* The cache is left alone.                                                      *)
LEMMA OthersMapsStep ==
  ASSUME MapsInv, kind' = kind, cache' = cache, keyOf' = keyOf, disk' \in Disks, Redeployed(disk, disk'),
         deploys' \in Nat, clock' \in Nat, clock <= clock',
         \A y \in Maps : disk'[y].stamp <= deploys', MapIsCurrent'
  PROVE  MapsInv'
<1>1. MapsTyped /\ CacheGood(Now, disk, clock) /\ WithinLimits(Now)  BY DEF MapsInv
<1>2. disk \in Disks /\ clock \in Nat  BY <1>1 DEF MapsTyped
<1> DEFINE d == Now
<1>3. Becomes(d)  BY DEF Becomes, Now
<1> HIDE DEF d
<1>4. CacheGood(d, disk, clock) /\ WithinLimits(d)  BY <1>1 DEF d
<1>5. CacheGood(d, disk', clock')  BY <1>2, <1>4, LaterGood
<1>6. CacheGood(Now, disk, clock)' /\ WithinLimits(Now)'  BY <1>3, <1>4, <1>5, StillGood
<1>7. MapsTyped'  BY <1>1, MapsTypedNext
<1> QED  BY <1>6, <1>7 DEF MapsInv

LEMMA MapsNextStep ==
  ASSUME MapsInv, [MNext]_mvars
  PROVE  MapsInv'
<1>1. MapsTyped  BY DEF MapsInv
<1>2. /\ disk \in Disks /\ clock \in Nat /\ deploys \in Nat /\ Redeployed(disk, disk)
      /\ \A y \in Maps : disk[y].stamp <= deploys
  BY <1>1 DEF MapsTyped, Redeployed
<1>3. CASE UNCHANGED mvars
  <2>1. MapIsCurrent'
    <3>1. MapIsCurrent  BY DEF MapsInv
    <3> QED  BY <1>3, <3>1 DEF MapIsCurrent, mvars, MapFor
  <2> QED  BY <1>2, <1>3, <2>1, OthersMapsStep DEF mvars
<1>4. CASE Hour
  <2>1. MapIsCurrent'  BY <1>4 DEF Hour, MapIsCurrent
  <2>2. clock' \in Nat /\ clock <= clock'  BY <1>2, <1>4 DEF Hour
  <2> QED  BY <1>2, <1>4, <2>1, <2>2, OthersMapsStep DEF Hour
<1>5. ASSUME NEW m \in Maps, NEW x \in Stored, Deploy(m, x)  PROVE MapsInv'
  <2>1. MapIsCurrent'  BY <1>5 DEF Deploy, MapIsCurrent
  <2>2. /\ disk' \in Disks /\ Redeployed(disk, disk') /\ deploys' \in Nat
        /\ \A y \in Maps : disk'[y].stamp <= deploys'
    BY <1>1, <1>2, <1>5, WriteLater DEF Deploy
  <2> QED  BY <1>2, <1>5, <2>1, <2>2, OthersMapsStep DEF Deploy
<1> QED  BY <1>3, <1>4, <1>5, ResolveStep, WarmStep, CacheOnlyStep DEF MNext

LEMMA MapsInitially ==
  ASSUME MInit
  PROVE  MapsInv
<1>1. kind \in [Files -> Kinds] /\ \A f \in Files : kind[f] \in KindsOf(f)  BY DEF MInit, Kinds
<1>2. /\ disk \in [Maps -> [content : {"none"} \cup (Contents \ Large), stamp : {0}]]
      /\ cache = << >> /\ keyOf = [f \in Files |-> Nothing] /\ clock = 0 /\ deploys = 0
      /\ seenAs = [how |-> "none"]
  BY DEF MInit
<1>3. disk \in Disks /\ \A m \in Maps : disk[m].stamp = 0
  <2>1. \A r \in [content : {"none"} \cup (Contents \ Large), stamp : {0}] :
          r \in [content : Stored, stamp : Nat] /\ r.stamp = 0
    BY DEF Stored
  <2> QED  BY <1>2, <2>1 DEF Disks
<1>4. MapsTyped  BY <1>1, <1>2, <1>3 DEF MapsTyped
<1>5. Now.cache = << >> /\ Now.keyOf = [f \in Files |-> Nothing] /\ Now = [cache |-> Now.cache, keyOf |-> Now.keyOf]
  BY <1>2 DEF Now
<1> DEFINE c == Now
<1> HIDE DEF c
<1>6. DOMAIN c.cache = {} /\ Len(c.cache) = 0 /\ c.cache \in Seq(MapEntries)  BY <1>5 DEF c
<1>7. CacheTyped(c)  BY <1>5, <1>6 DEF CacheTyped, c
<1>8. \A f \in Files : c.keyOf[f] = Nothing  BY <1>5 DEF c
<1>9. CacheGood(c, disk, clock)
  BY <1>6, <1>7, <1>8 DEF CacheGood, OneEach, Led, Sought, Owned, Holding
<1>10. WithinLimits(c)
  <2>1. Consumers(c) = {}  BY <1>6 DEF Consumers
  <2>2. Cardinality(Consumers(c)) = 0  BY <2>1, FS_EmptySet
  <2> QED  BY <1>6, <2>2, MapsAssumption DEF WithinLimits
<1>11. MapIsCurrent  BY <1>2 DEF MapIsCurrent
<1> QED  BY <1>4, <1>9, <1>10, <1>11 DEF MapsInv, c

LEMMA MapsSoundFromInv ==
  ASSUME MapsInv
  PROVE  MapsSound
<1>1. CacheGood(Now, disk, clock) /\ WithinLimits(Now) /\ MapIsCurrent  BY DEF MapsInv
<1>2. Now.cache = cache /\ Now.keyOf = keyOf  BY DEF Now
<1>3. ASSUME NEW f \in Files, keyOf[f] # Nothing  PROVE EntryAt(Now, f) # NoEntry
  <2>1. PICK i \in DOMAIN cache : cache[i].key = keyOf[f]  BY <1>1, <1>2, <1>3 DEF CacheGood, Led
  <2>2. EntryAt(Now, f) = cache[i]  BY <1>1, <1>2, <2>1, EntryFound DEF CacheGood
  <2>3. cache[i] \in MapEntries  BY <1>1, <1>2, <2>1 DEF CacheGood, CacheTyped
  <2> QED  BY <2>2, <2>3, EntryIsSome
<1>4. \A i \in DOMAIN cache : \E f \in Files : keyOf[f] = cache[i].key  BY <1>1, <1>2 DEF CacheGood, Sought
<1> QED  BY <1>1, <1>2, <1>3, <1>4 DEF MapsSound, CacheSound, WithinLimits

(* A stack is read through the maps of the files that are deployed, whatever was *)
(* cached of earlier ones, within the memory the cache may take.                 *)
THEOREM MapsAreSound == MSpec => []MapsSound
<1>1. MInit => MapsInv  BY MapsInitially
<1>2. MapsInv /\ [MNext]_mvars => MapsInv'  BY MapsNextStep
<1>3. MapsInv => MapsSound  BY MapsSoundFromInv
<1> QED  BY <1>1, <1>2, <1>3, PTL DEF MSpec
==============================================================================
