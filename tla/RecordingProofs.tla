----------------------------- MODULE RecordingProofs -----------------------------
(* The recorders: a stamp comes after what caused it and a context is there for  *)
(* its events, a fetch finds its own slot, a wrapped driver records each query   *)
(* once whatever others wrapped or took off, and a body is shown as it was sent. *)
EXTENDS RequestContexts, BodyCapture, OutboundRecorders, DriverPatches, DataLemmas,
        FiniteSetTheorems, SequenceTheorems, WellFoundedInduction, TLAPS

Contexts_ ==
  [seen : BOOLEAN, traced : BOOLEAN, hook : {"none", "waiting", "done", "late"},
   listening : BOOLEAN, cleaned : BOOLEAN, completed : BOOLEAN, armed : BOOLEAN,
   aborted : BOOLEAN, events : SUBSET Nat]
Marks == {"query", "request", "server", "state", "locals", "error"}
Entries == [req : Requests, seq : Nat, what : Marks]
States ==
  [ctx : [Requests -> Contexts_], tracked : SUBSET (Requests \cup Others),
   timers : SUBSET Requests, clock : 0 .. Ceiling, log : Seq(Entries),
   compact : SUBSET Nat]

(* The clock is past every stamp and past what came in with every trace that *)
(* was read; the stamps grow; the stubs are stamps that no context has.       *)
Past(c, n) == c > n \/ c = Ceiling
Sound(t) ==
  /\ t \in States
  /\ IsFiniteSet(t.tracked) /\ Cardinality(t.tracked) <= MaxConcurrent
  /\ t.compact \subseteq DOMAIN t.log
  /\ \A i \in DOMAIN t.log :
       /\ t.log[i].seq <= t.clock
       /\ t.log[i].what # "locals" => Past(t.log[i].seq, Inbound[t.log[i].req])
       /\ \A j \in 1 .. i - 1 : Past(t.log[i].seq, t.log[j].seq)
  /\ \A r \in Requests :
       /\ t.ctx[r].traced /\ Inbound[r] > 0 => Past(t.clock, Inbound[r])
       /\ \A i \in t.ctx[r].events : i \in DOMAIN t.log /\ t.log[i].req = r /\ i \notin t.compact

(* A step of request r leaves the others alone.                              *)
Concerns(r, t, u) ==
  /\ \A q \in Requests \ {r} : u.ctx[q] = t.ctx[q]
  /\ u.tracked \ {r} = t.tracked \ {r} /\ u.timers \ {r} = t.timers \ {r}
  /\ Len(t.log) <= Len(u.log)
  /\ \A i \in DOMAIN u.log :
       IF i \in DOMAIN t.log THEN u.log[i] = t.log[i] ELSE u.log[i].req = r

LEMMA ConcernsCompose ==
  ASSUME NEW r, NEW t, NEW u, NEW v, Concerns(r, t, u), Concerns(r, u, v),
         Sound(t), Sound(u), Sound(v)
  PROVE  Concerns(r, t, v)
<1>1. t.log \in Seq(Entries) /\ u.log \in Seq(Entries) /\ v.log \in Seq(Entries)
  BY DEF Sound, States
<1>3. Len(t.log) <= Len(v.log)  BY <1>1 DEF Concerns
<1>4. DOMAIN t.log = 1 .. Len(t.log) /\ DOMAIN u.log = 1 .. Len(u.log) /\ DOMAIN v.log = 1 .. Len(v.log)
  BY <1>1
<1>5. \A i \in DOMAIN v.log : IF i \in DOMAIN t.log THEN v.log[i] = t.log[i] ELSE v.log[i].req = r
  BY <1>1, <1>4 DEF Concerns
<1> QED  BY <1>3, <1>5 DEF Concerns

LEMMA AddSound ==
  ASSUME NEW t, Sound(t), NEW r \in Requests
  PROVE  LET u == Add(t, r)
         IN  /\ Sound(u) /\ Concerns(r, t, u)
             /\ u.ctx = t.ctx /\ u.timers = t.timers /\ u.clock = t.clock /\ u.log = t.log
             /\ u.compact = t.compact
<1> DEFINE u == Add(t, r)
<1>1. CASE Cardinality(t.tracked) >= MaxConcurrent
  <2>1. u = t  BY <1>1 DEF Add
  <2> QED  BY <2>1 DEF Concerns, Sound, States
<1>2. CASE ~(Cardinality(t.tracked) >= MaxConcurrent)
  <2>1. u = [t EXCEPT !.tracked = @ \cup {r}]  BY <1>2 DEF Add
  <2>2. /\ u.ctx = t.ctx /\ u.timers = t.timers /\ u.clock = t.clock /\ u.log = t.log
        /\ u.compact = t.compact /\ u.tracked = t.tracked \cup {r}
        /\ u \in States
    BY <2>1 DEF Sound, States
  <2> HIDE DEF u
  <2>3. IsFiniteSet(u.tracked) /\ Cardinality(u.tracked) <= MaxConcurrent
    <3>1. IsFiniteSet(t.tracked) /\ Cardinality(t.tracked) \in Nat  BY FS_CardinalityType DEF Sound
    <3>2. IsFiniteSet(t.tracked \cup {r}) /\ Cardinality(t.tracked \cup {r}) <= Cardinality(t.tracked) + 1
      BY <3>1, FS_AddElement
    <3> QED  BY <3>1, <3>2, <1>2, <2>2, FS_CardinalityType, ContextAssumption
  <2>4. Sound(u)  BY <2>2, <2>3 DEF Sound
  <2>5. Concerns(r, t, u)  BY <2>2 DEF Concerns, Sound, States
  <2> QED  BY <2>2, <2>4, <2>5 DEF u
<1> QED  BY <1>1, <1>2

LEMMA RemoveSound ==
  ASSUME NEW t, Sound(t), NEW r \in Requests
  PROVE  LET u == RemoveRequest(t, r)
         IN  /\ Sound(u) /\ Concerns(r, t, u)
             /\ u.ctx = t.ctx /\ u.clock = t.clock /\ u.log = t.log
             /\ u.compact = t.compact
             /\ r \notin u.tracked
             /\ r \notin t.tracked => u = t
<1> DEFINE u == RemoveRequest(t, r)
<1>1. CASE r \notin t.tracked
  <2>1. u = t  BY <1>1 DEF RemoveRequest
  <2> QED  BY <1>1, <2>1 DEF Concerns, Sound, States
<1>2. CASE r \in t.tracked
  <2>1. u = [t EXCEPT !.tracked = @ \ {r}, !.timers = @ \cup {r}]  BY <1>2 DEF RemoveRequest
  <2>0. t.tracked \ {r} \in SUBSET (Requests \cup Others) /\ t.timers \cup {r} \in SUBSET Requests
    BY DEF Sound, States
  <2>2. /\ u.ctx = t.ctx /\ u.timers = t.timers \cup {r} /\ u.clock = t.clock /\ u.log = t.log
        /\ u.compact = t.compact /\ u.tracked = t.tracked \ {r}
        /\ u \in States
    <3> DEFINE A == t.tracked \ {r}  B == t.timers \cup {r}
    <3>1. u = [t EXCEPT !.tracked = A, !.timers = B]  BY <2>1
    <3> HIDE DEF A, B, u
    <3>2. A \in SUBSET (Requests \cup Others) /\ B \in SUBSET Requests  BY <2>0 DEF A, B
    <3>3. /\ u.ctx = t.ctx /\ u.timers = B /\ u.clock = t.clock /\ u.log = t.log
          /\ u.compact = t.compact /\ u.tracked = A /\ u \in States
      BY <3>1, <3>2 DEF Sound, States
    <3> QED  BY <3>3 DEF A, B
  <2> HIDE DEF u
  <2>3. IsFiniteSet(u.tracked) /\ Cardinality(u.tracked) <= MaxConcurrent
    <3>1. IsFiniteSet(t.tracked) /\ Cardinality(t.tracked) \in Nat /\ Cardinality(t.tracked) <= MaxConcurrent
      BY FS_CardinalityType DEF Sound
    <3>2. IsFiniteSet(t.tracked \ {r}) /\ Cardinality(t.tracked \ {r}) = Cardinality(t.tracked) - 1
      BY <3>1, <1>2, FS_RemoveElement
    <3> QED  BY <3>1, <3>2, <2>2, ContextAssumption
  <2>4. Sound(u)  BY <2>2, <2>3 DEF Sound
  <2>5. Concerns(r, t, u)  BY <2>2 DEF Concerns, Sound, States
  <2> QED  BY <1>2, <2>2, <2>4, <2>5 DEF u
<1> QED  BY <1>1, <1>2

(* A context is set.                                                          *)
Fits(t, r, c) ==
  /\ c \in Contexts_
  /\ c.traced /\ Inbound[r] > 0 => Past(t.clock, Inbound[r])
  /\ \A i \in c.events : i \in DOMAIN t.log /\ t.log[i].req = r /\ i \notin t.compact
SameButContext(t, u) ==
  /\ u.tracked = t.tracked /\ u.timers = t.timers /\ u.clock = t.clock /\ u.log = t.log
  /\ u.compact = t.compact

SetTo(t, r, c) == [t EXCEPT !.ctx[r] = c]

LEMMA SetSound ==
  ASSUME NEW t, Sound(t), NEW r \in Requests, NEW c, Fits(t, r, c)
  PROVE  LET u == SetTo(t, r, c)
         IN  Sound(u) /\ Concerns(r, t, u) /\ SameButContext(t, u) /\ u.ctx[r] = c
<1> DEFINE u == SetTo(t, r, c)
<1>1. u.ctx = [t.ctx EXCEPT ![r] = c] /\ SameButContext(t, u) /\ u \in States
  <2>1. t \in States /\ c \in Contexts_  BY DEF Sound, Fits
  <2> QED  BY <2>1 DEF States, SameButContext, SetTo
<1> HIDE DEF u
<1>2. \A q \in Requests : u.ctx[q] = IF q = r THEN c ELSE t.ctx[q]  BY <1>1 DEF Sound, States
<1>3. Sound(u)
  <2>1. \A q \in Requests :
          /\ u.ctx[q].traced /\ Inbound[q] > 0 => Past(u.clock, Inbound[q])
          /\ \A i \in u.ctx[q].events : i \in DOMAIN u.log /\ u.log[i].req = q /\ i \notin u.compact
    BY <1>1, <1>2 DEF Sound, Fits, SameButContext
  <2> QED  BY <1>1, <2>1 DEF Sound, SameButContext
<1>4. Concerns(r, t, u)  BY <1>1, <1>2 DEF Concerns, SameButContext, Sound, States
<1> QED  BY <1>1, <1>2, <1>3, <1>4 DEF u

(* The context of r in a state, and what the rest of the lemmas say of it.    *)
LEMMA ContextTyped ==
  ASSUME NEW t, Sound(t), NEW r \in Requests
  PROVE  t.ctx[r] \in Contexts_ /\ Fits(t, r, t.ctx[r])
BY DEF Sound, States, Fits

Materialized(c, d, h) ==
  LET late == Finished(h) /\ h.kind # "hono"
  IN  /\ d.seen /\ d.cleaned = c.cleaned /\ d.completed = c.completed
      /\ d.armed = c.armed /\ d.aborted = c.aborted /\ d.events = c.events
      /\ d.hook = IF c.hook = "waiting" THEN IF late THEN "late" ELSE "done" ELSE c.hook
      /\ d.listening <=> c.listening \/ (c.hook = "waiting" /\ ~late /\ h.kind = "express")

LEMMA MaterializeSound ==
  ASSUME NEW t, Sound(t), NEW r \in Requests, NEW h
  PROVE  LET u == Materialize(t, h, r)  c == t.ctx[r]  late == Finished(h) /\ h.kind # "hono"
         IN  /\ Sound(u) /\ Concerns(r, t, u)
             /\ u.timers = t.timers /\ u.clock = t.clock /\ u.log = t.log
             /\ u.compact = t.compact
             /\ Materialized(c, u.ctx[r], h) /\ u.ctx[r].traced = c.traced
             /\ c.hook # "waiting" \/ late => u.tracked = t.tracked
<1> DEFINE c  == t.ctx[r]
           m  == [t EXCEPT !.ctx[r].seen = TRUE]
           c1 == [c EXCEPT !.seen = TRUE]
           late == Finished(h) /\ h.kind # "hono"
           u  == Materialize(t, h, r)
<1>0. c \in Contexts_ /\ Fits(t, r, c)  BY ContextTyped
<1>1. c1 \in Contexts_ /\ Fits(t, r, c1) /\ c1.hook = c.hook /\ c1.listening = c.listening /\ c1.seen
      /\ c1.events = c.events /\ c1.traced = c.traced
  BY <1>0 DEF Contexts_, Fits
<1>2. m = SetTo(t, r, c1)  BY DEF SetTo
<1> HIDE DEF c1, m
<1>3. Sound(m) /\ Concerns(r, t, m) /\ SameButContext(t, m) /\ m.ctx[r] = c1
  BY <1>1, <1>2, SetSound
<1>4. m.ctx[r] = c1  BY <1>3
<1>5. CASE c.hook # "waiting"
  <2>1. u = m  BY <1>5 DEF Materialize, m
  <2>2. Materialized(c, c1, h) /\ c1.traced = c.traced  BY <1>0, <1>5 DEF c1, Contexts_, Materialized
  <2> HIDE DEF c, u, late
  <2>3. u.ctx[r] = c1  BY <2>1, <1>4
  <2> QED  BY <2>1, <2>2, <2>3, <1>1, <1>3, <1>5 DEF SameButContext, c, u, late
<1>6. CASE c.hook = "waiting" /\ late
  <2> DEFINE c2 == [c1 EXCEPT !.hook = "late"]
  <2>1. u = SetTo(m, r, c2)  BY <1>4, <1>6 DEF Materialize, m, SetTo
  <2>2. c2 \in Contexts_ /\ Fits(m, r, c2) /\ c2.seen
    BY <1>1, <1>3 DEF Contexts_, Fits, SameButContext
  <2>3. Materialized(c, c2, h) /\ c2.traced = c.traced  BY <1>0, <1>6 DEF c1, Contexts_, Materialized
  <2> HIDE DEF c2, c, u, late
  <2>4. Sound(u) /\ Concerns(r, m, u) /\ SameButContext(m, u) /\ u.ctx[r] = c2
    BY <2>1, <2>2, <1>3, SetSound
  <2>5. u.ctx[r] = c2  BY <2>4
  <2>6. Concerns(r, t, u)  BY <2>4, <1>3, ConcernsCompose
  <2> QED  BY <2>2, <2>3, <2>4, <2>5, <2>6, <1>3 DEF SameButContext, c, u, late
<1>7. CASE c.hook = "waiting" /\ ~late
  <2> DEFINE c2 == [c1 EXCEPT !.hook = "done", !.listening = @ \/ h.kind = "express"]
             n  == SetTo(m, r, c2)
  <2>1. u = Add(n, r)
    <3>1. u = Add([m EXCEPT !.ctx[r].hook = "done", !.ctx[r].listening = @ \/ h.kind = "express"], r)
      BY <1>7 DEF Materialize, m
    <3>2. [m EXCEPT !.ctx[r].hook = "done", !.ctx[r].listening = @ \/ h.kind = "express"] = n
      <4>1. m \in States /\ m.ctx[r] \in Contexts_  BY <1>3 DEF Sound, States
      <4> DEFINE C == m.ctx
      <4>2. [[C EXCEPT ![r].hook = "done"] EXCEPT ![r].listening = @ \/ h.kind = "express"]
              = [C EXCEPT ![r] = [C[r] EXCEPT !.hook = "done", !.listening = @ \/ h.kind = "express"]]
        BY <4>1 DEF States, Contexts_
      <4> QED  BY <1>4, <4>1, <4>2 DEF States, SetTo
    <3> QED  BY <3>1, <3>2
  <2>2. c2 \in Contexts_ /\ Fits(m, r, c2) /\ c2.seen
    BY <1>1, <1>3 DEF Contexts_, Fits, SameButContext
  <2>3. Materialized(c, c2, h) /\ c2.traced = c.traced  BY <1>0, <1>7 DEF c1, Contexts_, Materialized
  <2> HIDE DEF c2, c, u, late, n
  <2>4. Sound(n) /\ Concerns(r, m, n) /\ SameButContext(m, n) /\ n.ctx[r] = c2
    BY <2>2, <1>3, SetSound DEF n
  <2>5. n.ctx[r] = c2  BY <2>4
  <2>6. /\ Sound(u) /\ Concerns(r, n, u)
        /\ u.ctx = n.ctx /\ u.timers = n.timers /\ u.clock = n.clock /\ u.log = n.log
        /\ u.compact = n.compact
    BY <2>1, <2>4, AddSound
  <2>7. Concerns(r, t, u)
    <3>1. Concerns(r, t, n)  BY <2>4, <1>3, ConcernsCompose
    <3> QED  BY <3>1, <2>4, <2>6, ConcernsCompose
  <2> QED  BY <2>2, <2>3, <2>4, <2>5, <2>6, <2>7, <1>3, <1>7 DEF SameButContext, c, u, late
<1> QED  BY <1>5, <1>6, <1>7

-------------------------------------------------------------------------------
(* The clock.                                                                 *)
LEMMA ClockRuns ==
  ASSUME NEW c \in 0 .. Ceiling, NEW n \in Nat
  PROVE  /\ Tick(c) \in 0 .. Ceiling /\ c <= Tick(c) /\ Past(Tick(c), c)
         /\ Merge(c, n) \in 0 .. Ceiling /\ c <= Merge(c, n) /\ Past(Merge(c, n), n)
         /\ \A d \in Nat : Past(c, d) => Past(Tick(c), d) /\ Past(Merge(c, n), d)
BY ContextAssumption DEF Tick, Merge, Past

LEMMA EnsureTraceSound ==
  ASSUME NEW t, Sound(t), NEW r \in Requests, NEW h
  PROVE  LET u == EnsureTrace(t, h, r)
         IN  /\ Sound(u) /\ Concerns(r, t, u)
             /\ u.timers = t.timers /\ u.log = t.log
             /\ u.compact = t.compact
             /\ Materialized(t.ctx[r], u.ctx[r], h) /\ u.ctx[r].traced
             /\ t.ctx[r].hook # "waiting" \/ (Finished(h) /\ h.kind # "hono") => u.tracked = t.tracked
<1> DEFINE m == Materialize(t, h, r)
           u == EnsureTrace(t, h, r)
           clock == IF Inbound[r] > 0 THEN Merge(m.clock, Inbound[r]) ELSE m.clock
           n == [m EXCEPT !.clock = clock]
           c == [m.ctx[r] EXCEPT !.traced = TRUE]
<1>1. /\ Sound(m) /\ Concerns(r, t, m) /\ m.timers = t.timers /\ m.log = t.log /\ m.clock = t.clock
      /\ m.compact = t.compact
      /\ m.ctx[r].traced = t.ctx[r].traced /\ Materialized(t.ctx[r], m.ctx[r], h)
      /\ t.ctx[r].hook # "waiting" \/ (Finished(h) /\ h.kind # "hono") => m.tracked = t.tracked
  BY MaterializeSound
<1> HIDE DEF m
<1>2. m.ctx[r] \in Contexts_  BY <1>1, ContextTyped
<1>3. CASE t.ctx[r].traced
  <2>1. u = m  BY <1>3 DEF EnsureTrace, m
  <2> HIDE DEF u
  <2> QED  BY <2>1, <1>1, <1>3 DEF u
<1>4. CASE ~t.ctx[r].traced
  <2>1. m.clock \in 0 .. Ceiling /\ Inbound[r] \in Nat  BY <1>1, ContextAssumption DEF Sound, States
  <2>2. /\ clock \in 0 .. Ceiling /\ m.clock <= clock
        /\ Inbound[r] > 0 => Past(clock, Inbound[r])
        /\ \A d \in Nat : Past(m.clock, d) => Past(clock, d)
    <3>1. CASE Inbound[r] > 0
      <4>1. clock = Merge(m.clock, Inbound[r])  BY <3>1
      <4> HIDE DEF clock
      <4> QED  BY <2>1, <4>1, ClockRuns
    <3>2. CASE ~(Inbound[r] > 0)  BY <2>1, <3>2
    <3> QED  BY <3>1, <3>2
  <2> HIDE DEF clock
  <2>3. n \in States /\ n.clock = clock /\ n.ctx = m.ctx /\ n.tracked = m.tracked /\ n.timers = m.timers
        /\ n.log = m.log /\ n.compact = m.compact
    BY <2>2, <1>1 DEF Sound, States
  <2> HIDE DEF n
  <2>4. Sound(n)
    <3>1. \A i \in DOMAIN n.log : n.log[i].seq <= n.clock
      <4>1. \A i \in DOMAIN m.log : m.log[i].seq \in Nat /\ m.log[i].seq <= m.clock
        <5>1. m.log \in Seq(Entries)  BY <1>1 DEF Sound, States
        <5>2. \A i \in DOMAIN m.log : m.log[i] \in Entries  BY <5>1
        <5> QED  BY <1>1, <5>2 DEF Sound, Entries
      <4> QED  BY <4>1, <2>1, <2>2, <2>3
    <3>2. \A q \in Requests : n.ctx[q].traced /\ Inbound[q] > 0 => Past(n.clock, Inbound[q])
      BY <1>1, <2>2, <2>3, ContextAssumption DEF Sound
    <3> QED  BY <1>1, <2>3, <3>1, <3>2 DEF Sound
  <2>5. Concerns(r, t, n)  BY <1>1, <2>3 DEF Concerns
  <2>6. c \in Contexts_ /\ Fits(n, r, c)
    <3>1. Fits(n, r, n.ctx[r])  BY <2>4, ContextTyped
    <3>2. c \in Contexts_ /\ c.events = n.ctx[r].events  BY <1>2, <2>3 DEF Contexts_
    <3> HIDE DEF c
    <3> QED  BY <3>1, <3>2, <2>2, <2>3 DEF Fits
  <2>7. u = SetTo(n, r, c)
    <3>1. u = [m EXCEPT !.ctx[r].traced = TRUE, !.clock = clock]
      BY <1>4 DEF EnsureTrace, m, clock
    <3> QED  BY <3>1, <1>1, <1>2 DEF n, SetTo, Sound, States
  <2> HIDE DEF u, c
  <2>8. Sound(u) /\ Concerns(r, n, u) /\ SameButContext(n, u) /\ u.ctx[r] = c
    BY <2>4, <2>6, <2>7, SetSound
  <2>9. Concerns(r, t, u)  BY <2>4, <2>5, <2>8, ConcernsCompose
  <2>10. Materialized(t.ctx[r], c, h) /\ c.traced
    BY <1>1, <1>2 DEF Materialized, c, Contexts_
  <2> QED  BY <1>1, <2>3, <2>8, <2>9, <2>10 DEF SameButContext, u
<1> QED  BY <1>3, <1>4

LEMMA StampSound ==
  ASSUME NEW t, Sound(t), NEW r \in Requests, NEW what \in Marks,
         what = "locals" \/ t.ctx[r].traced
  PROVE  LET u == Stamp(t, r, what)
         IN  /\ Sound(u) /\ Concerns(r, t, u)
             /\ u.ctx = t.ctx /\ u.timers = t.timers /\ u.tracked = t.tracked
             /\ u.compact = t.compact
             /\ u.log = Append(t.log, [req |-> r, seq |-> Tick(t.clock), what |-> what])
<1> DEFINE u == Stamp(t, r, what)
           e == [req |-> r, seq |-> Tick(t.clock), what |-> what]
<1>1. t.clock \in 0 .. Ceiling /\ t.log \in Seq(Entries) /\ Inbound[r] \in Nat
  BY ContextAssumption DEF Sound, States
<1>2. /\ Tick(t.clock) \in 0 .. Ceiling /\ t.clock <= Tick(t.clock)
      /\ Past(Tick(t.clock), t.clock)
      /\ \A d \in Nat : Past(t.clock, d) => Past(Tick(t.clock), d)
  BY <1>1, ClockRuns
<1>3. e \in Entries  BY <1>2 DEF Entries
<1>4. u = [t EXCEPT !.clock = Tick(t.clock), !.log = Append(t.log, e)]  BY DEF Stamp
<1>5. e.req = r /\ e.seq = Tick(t.clock) /\ e.what = what  OBVIOUS
<1> HIDE DEF u, e
<1>6. /\ u.ctx = t.ctx /\ u.timers = t.timers /\ u.tracked = t.tracked
      /\ u.compact = t.compact /\ u.clock = Tick(t.clock)
      /\ u.log = Append(t.log, e) /\ u \in States
  <2> DEFINE L == Append(t.log, e)  C == Tick(t.clock)
  <2>1. L \in Seq(Entries) /\ C \in 0 .. Ceiling  BY <1>1, <1>2, <1>3
  <2>2. u = [t EXCEPT !.clock = C, !.log = L]  BY <1>4
  <2> HIDE DEF L, C
  <2>3. /\ u.ctx = t.ctx /\ u.timers = t.timers /\ u.tracked = t.tracked
        /\ u.compact = t.compact /\ u.clock = C
        /\ u.log = L /\ u \in States
    BY <2>1, <2>2 DEF Sound, States
  <2> QED  BY <2>3 DEF L, C
<1>7. /\ u.log \in Seq(Entries) /\ Len(u.log) = Len(t.log) + 1 /\ u.log[Len(t.log) + 1] = e
      /\ DOMAIN u.log = 1 .. Len(t.log) + 1 /\ DOMAIN t.log = 1 .. Len(t.log) /\ Len(t.log) \in Nat
      /\ \A i \in DOMAIN t.log : u.log[i] = t.log[i]
  BY <1>1, <1>3, <1>6
<1>8. Sound(u)
  <2>1. ASSUME NEW i \in DOMAIN u.log
        PROVE  /\ u.log[i].seq <= u.clock
               /\ u.log[i].what # "locals" => Past(u.log[i].seq, Inbound[u.log[i].req])
               /\ \A j \in 1 .. i - 1 : Past(u.log[i].seq, u.log[j].seq)
    <3>1. \A j \in DOMAIN t.log : t.log[j].seq \in Nat /\ t.log[j].seq <= t.clock
      <4>1. \A j \in DOMAIN t.log : t.log[j] \in Entries  BY <1>1
      <4> QED  BY <4>1 DEF Sound, Entries
    <3>2. CASE i \in DOMAIN t.log
      <4>1. \A j \in 1 .. i - 1 : u.log[j] = t.log[j]  BY <1>7, <3>2
      <4>2. u.log[i] = t.log[i]  BY <1>7, <3>2
      <4>3. t.log[i].seq <= u.clock  BY <3>1, <3>2, <1>1, <1>2, <1>6
      <4> QED  BY <4>1, <4>2, <4>3, <3>2 DEF Sound
    <3>3. CASE i = Len(t.log) + 1
      <4>1. u.log[i] = e  BY <1>7, <3>3
      <4>2. what # "locals" => Past(Tick(t.clock), Inbound[r])
        <5>1. CASE Inbound[r] = 0  BY <5>1, <1>1, <1>2, ContextAssumption DEF Past
        <5>2. CASE Inbound[r] > 0  BY <5>2, <1>1, <1>2 DEF Sound
        <5> QED  BY <5>1, <5>2, <1>1
      <4>3. ASSUME NEW j \in 1 .. i - 1  PROVE Past(Tick(t.clock), u.log[j].seq)
        <5>1. j \in DOMAIN t.log /\ u.log[j] = t.log[j]  BY <1>7, <3>3
        <5> QED  BY <5>1, <3>1, <1>1, <1>2 DEF Past
      <4> QED  BY <4>1, <4>2, <4>3, <1>5, <1>6, <1>2
    <3> QED  BY <3>2, <3>3, <1>7
  <2>2. ASSUME NEW q \in Requests
        PROVE  /\ u.ctx[q].traced /\ Inbound[q] > 0 => Past(u.clock, Inbound[q])
               /\ \A i \in u.ctx[q].events : i \in DOMAIN u.log /\ u.log[i].req = q /\ i \notin u.compact
    BY <1>2, <1>6, <1>7, ContextAssumption DEF Sound
  <2>3. u.compact \subseteq DOMAIN u.log  BY <1>6, <1>7 DEF Sound
  <2> QED  BY <1>6, <2>1, <2>2, <2>3 DEF Sound
<1>9. Concerns(r, t, u)  BY <1>5, <1>6, <1>7 DEF Concerns
<1> QED  BY <1>6, <1>8, <1>9 DEF u, e

(* A context has finitely many events, and one more unless it is full.        *)
LEMMA EventsCounted ==
  ASSUME NEW t, Sound(t), NEW r \in Requests
  PROVE  IsFiniteSet(t.ctx[r].events) /\ Cardinality(t.ctx[r].events) \in Nat
<1>1. t.log \in Seq(Entries) /\ Len(t.log) \in Nat /\ t.ctx[r].events \subseteq 1 .. Len(t.log)
  BY DEF Sound, States
<1>2. IsFiniteSet(1 .. Len(t.log))  BY <1>1, FS_Interval
<1> QED  BY <1>1, <1>2, FS_Subset, FS_CardinalityType

LEMMA PushSound ==
  ASSUME NEW t, Sound(t), NEW r \in Requests, NEW what \in Marks, t.ctx[r].traced
  PROVE  LET u == Push(t, r, what)
             full == Cardinality(t.ctx[r].events) >= Cap(what)
         IN  /\ Sound(u) /\ Concerns(r, t, u)
             /\ u.timers = t.timers /\ u.tracked = t.tracked /\ u.compact = t.compact
             /\ u.log = Append(t.log, [req |-> r, seq |-> Tick(t.clock), what |-> what])
             /\ u.ctx[r] = [t.ctx[r] EXCEPT !.events = IF full THEN @ ELSE @ \cup {Len(t.log) + 1}]
<1> DEFINE u == Push(t, r, what)
           m == Stamp(t, r, what)
           i == Len(m.log)
           full == Cardinality(t.ctx[r].events) >= Cap(what)
           c == [m.ctx[r] EXCEPT !.events = @ \cup {i}]
           d == [t.ctx[r] EXCEPT !.events = IF full THEN @ ELSE @ \cup {Len(t.log) + 1}]
           e == [req |-> r, seq |-> Tick(t.clock), what |-> what]
<1>1. /\ Sound(m) /\ Concerns(r, t, m)
      /\ m.ctx = t.ctx /\ m.timers = t.timers /\ m.tracked = t.tracked
      /\ m.compact = t.compact /\ m.log = Append(t.log, e)
  BY StampSound
<1>2. t.log \in Seq(Entries) /\ m.log \in Seq(Entries) /\ t.ctx[r] \in Contexts_
  BY <1>1, ContextTyped DEF Sound, States
<1>3. i = Len(t.log) + 1 /\ i \in Nat /\ i \in DOMAIN m.log /\ m.log[i] = e /\ i \notin DOMAIN t.log
  BY <1>1, <1>2
<1>4. e.req = r  OBVIOUS
<1>5. u = IF full THEN m ELSE [m EXCEPT !.ctx[r].events = @ \cup {i}]  BY <1>1 DEF Push
<1>6. d = IF full THEN t.ctx[r] ELSE c  BY <1>1, <1>2, <1>3 DEF Contexts_
<1> SUFFICES /\ Sound(u) /\ Concerns(r, t, u) /\ u.ctx[r] = d
             /\ u.timers = t.timers /\ u.tracked = t.tracked /\ u.compact = t.compact /\ u.log = m.log
  BY <1>1
<1> HIDE DEF m, i, e, full, u, d
<1>7. CASE full  BY <1>1, <1>5, <1>6, <1>7
<1>8. CASE ~full
  <2>1. m.ctx[r] \in Contexts_ /\ Fits(m, r, m.ctx[r])  BY <1>1, ContextTyped
  <2>2. c \in Contexts_ /\ c.events = m.ctx[r].events \cup {i} /\ c.traced = m.ctx[r].traced
    BY <2>1, <1>3 DEF Contexts_
  <2>3. u = SetTo(m, r, c)  BY <1>5, <1>8 DEF SetTo
  <2>4. i \notin m.compact  BY <1>1, <1>3 DEF Sound
  <2> HIDE DEF c
  <2>5. Fits(m, r, c)  BY <2>1, <2>2, <2>4, <1>3, <1>4 DEF Fits
  <2>6. Sound(u) /\ Concerns(r, m, u) /\ SameButContext(m, u) /\ u.ctx[r] = c
    BY <1>1, <2>3, <2>5, SetSound
  <2>7. Concerns(r, t, u)  BY <1>1, <2>6, ConcernsCompose
  <2> QED  BY <1>1, <1>6, <1>8, <2>6, <2>7 DEF SameButContext, c
<1> QED  BY <1>7, <1>8

-------------------------------------------------------------------------------
(* What ends a request takes from it and gives nothing: its log stays, it is  *)
(* not tracked anew, and its context is marked only.                          *)
Calm(t, u, r) ==
  LET c == t.ctx[r]
      d == u.ctx[r]
  IN  /\ Sound(u) /\ Concerns(r, t, u) /\ u.log = t.log
      /\ r \in u.tracked => r \in t.tracked /\ d.cleaned = c.cleaned
      /\ d.seen = c.seen /\ d.hook = c.hook /\ d.listening = c.listening
      /\ d.armed => c.armed
      /\ ~c.listening => d.cleaned = c.cleaned

LEMMA CalmSame ==
  ASSUME NEW t, Sound(t), NEW r
  PROVE  Calm(t, t, r)
<1>1. t.log \in Seq(Entries)  BY DEF Sound, States
<1> QED  BY <1>1 DEF Calm, Concerns

LEMMA CalmCompose ==
  ASSUME NEW r, NEW t, NEW u, NEW v, Sound(t), Calm(t, u, r), Calm(u, v, r)
  PROVE  Calm(t, v, r)
<1>1. Concerns(r, t, v)  BY ConcernsCompose DEF Calm
<1> QED  BY <1>1 DEF Calm

(* A context is marked: cleaned where it listens, completed, or no longer armed. *)
LEMMA SetCalm ==
  ASSUME NEW t, Sound(t), NEW r \in Requests, NEW c, Fits(t, r, c),
         c.seen = t.ctx[r].seen, c.hook = t.ctx[r].hook, c.listening = t.ctx[r].listening,
         c.armed => t.ctx[r].armed, c.cleaned = t.ctx[r].cleaned
  PROVE  Calm(t, SetTo(t, r, c), r) /\ SetTo(t, r, c).ctx[r] = c
<1> DEFINE u == SetTo(t, r, c)
<1>1. Sound(u) /\ Concerns(r, t, u) /\ SameButContext(t, u) /\ u.ctx[r] = c  BY SetSound
<1> HIDE DEF u
<1>2. Calm(t, u, r)  BY <1>1 DEF Calm, SameButContext
<1> QED  BY <1>1, <1>2 DEF u

LEMMA RemoveCalm ==
  ASSUME NEW t, Sound(t), NEW r \in Requests
  PROVE  Calm(t, RemoveRequest(t, r), r) /\ r \notin RemoveRequest(t, r).tracked /\ RemoveRequest(t, r).ctx = t.ctx
<1> DEFINE u == RemoveRequest(t, r)
<1>1. Sound(u) /\ Concerns(r, t, u) /\ u.ctx = t.ctx /\ u.log = t.log /\ r \notin u.tracked
  BY RemoveSound
<1> HIDE DEF u
<1>2. Calm(t, u, r)  BY <1>1 DEF Calm
<1> QED  BY <1>1, <1>2 DEF u

LEMMA SuccessfulOwn ==
  ASSUME NEW t, NEW r, NEW i \in Successful(t, r)
  PROVE  i \in DOMAIN t.log /\ t.log[i].req = r
BY DEF Successful, Of

(* Events of r become stubs, and leave its context.                           *)
LEMMA ReleaseContextCalm ==
  ASSUME NEW t, Sound(t), NEW r \in Requests
  PROVE  Calm(t, ReleaseContext(t, r), r)
<1> DEFINE out  == Successful(t, r) \cap t.ctx[r].events
           B    == t.compact \cup out
           none == [t.ctx[r] EXCEPT !.events = {}]
           C    == [t.ctx EXCEPT ![r] = none]
           u    == ReleaseContext(t, r)
<1>1. \A i \in out : i \in DOMAIN t.log /\ t.log[i].req = r  BY SuccessfulOwn
<1>2. t \in States /\ t.log \in Seq(Entries) /\ DOMAIN t.log \subseteq Nat  BY DEF Sound, States
<1>3. u = [t EXCEPT !.compact = B, !.ctx = C]  BY <1>2 DEF ReleaseContext, States
<1>4. t.ctx[r] \in Contexts_  BY ContextTyped
<1>5. /\ none \in Contexts_ /\ none.events = {} /\ none.traced = t.ctx[r].traced
      /\ none.seen = t.ctx[r].seen /\ none.hook = t.ctx[r].hook /\ none.listening = t.ctx[r].listening
      /\ none.armed = t.ctx[r].armed /\ none.cleaned = t.ctx[r].cleaned
  BY <1>4 DEF Contexts_
<1> HIDE DEF none, u
<1>6. /\ C \in [Requests -> Contexts_] /\ C[r] = none
      /\ \A q \in Requests \ {r} : C[q] = t.ctx[q]
  BY <1>2, <1>5 DEF States
<1>7. B \in SUBSET Nat /\ B \subseteq DOMAIN t.log  BY <1>1, <1>2 DEF Sound
<1> HIDE DEF C
<1>8. \A q \in Requests \ {r} : \A i \in t.ctx[q].events : i \notin B
  <2>1. \A q \in Requests \ {r} : \A i \in t.ctx[q].events : t.log[i].req = q /\ i \notin t.compact
    BY DEF Sound
  <2> QED  BY <2>1, <1>1
<1> HIDE DEF B
<1>9. /\ u \in States /\ u.ctx = C /\ u.tracked = t.tracked /\ u.timers = t.timers
      /\ u.log = t.log /\ u.clock = t.clock /\ u.compact = B
  BY <1>2, <1>3, <1>6, <1>7 DEF States
<1>10. Sound(u)
  <2>1. ASSUME NEW q \in Requests
        PROVE  /\ u.ctx[q].traced /\ Inbound[q] > 0 => Past(u.clock, Inbound[q])
               /\ \A i \in u.ctx[q].events : i \in DOMAIN u.log /\ u.log[i].req = q /\ i \notin u.compact
    <3>1. CASE q = r  BY <3>1, <1>5, <1>6, <1>9 DEF Sound
    <3>2. CASE q # r  BY <3>2, <1>6, <1>8, <1>9 DEF Sound
    <3> QED  BY <3>1, <3>2
  <2> QED  BY <2>1, <1>7, <1>9 DEF Sound
<1>11. Concerns(r, t, u)  BY <1>2, <1>6, <1>9 DEF Concerns
<1>12. Calm(t, u, r)  BY <1>5, <1>6, <1>9, <1>10, <1>11 DEF Calm
<1> QED  BY <1>12 DEF u

LEMMA CleanupCalm ==
  ASSUME NEW t, Sound(t), NEW r \in Requests
  PROVE  /\ Calm(t, Cleanup(t, r), r)
         /\ t.ctx[r].listening /\ ~t.ctx[r].cleaned => r \notin Cleanup(t, r).tracked
<1> DEFINE u == Cleanup(t, r)
           o == t.ctx[r]
           c == [o EXCEPT !.cleaned = TRUE]
           m == SetTo(t, r, c)
<1>1. CASE ~o.listening \/ o.cleaned
  <2>1. u = t  BY <1>1 DEF Cleanup
  <2> HIDE DEF u
  <2> QED  BY <2>1, <1>1, CalmSame DEF u
<1>2. CASE o.listening /\ ~o.cleaned
  <2>1. u = RemoveRequest(m, r)
    <3>1. u = RemoveRequest([t EXCEPT !.ctx[r].cleaned = TRUE], r)  BY <1>2 DEF Cleanup
    <3> QED  BY <3>1 DEF SetTo
  <2>2. o \in Contexts_ /\ Fits(t, r, o)  BY ContextTyped
  <2>3. /\ c \in Contexts_ /\ c.events = o.events /\ c.traced = o.traced
        /\ c.seen = o.seen /\ c.hook = o.hook /\ c.listening = o.listening /\ c.armed = o.armed
    BY <2>2 DEF Contexts_
  <2> HIDE DEF c
  <2>4. Fits(t, r, c)  BY <2>2, <2>3 DEF Fits
  <2>5. Sound(m) /\ Concerns(r, t, m) /\ SameButContext(t, m) /\ m.ctx[r] = c  BY <2>4, SetSound
  <2> HIDE DEF m, u
  <2>6. Sound(u) /\ Concerns(r, m, u) /\ u.ctx = m.ctx /\ u.log = m.log /\ r \notin u.tracked
    BY <2>1, <2>5, RemoveSound
  <2>7. Concerns(r, t, u)  BY <2>5, <2>6, ConcernsCompose
  <2>8. u.ctx[r] = c  BY <2>5, <2>6
  <2>9. Calm(t, u, r)  BY <1>2, <2>3, <2>5, <2>6, <2>7, <2>8 DEF Calm, SameButContext
  <2> QED  BY <2>6, <2>9 DEF u
<1> QED  BY <1>1, <1>2

LEMMA IfSuccessfulCalm ==
  ASSUME NEW t, Sound(t), NEW r \in Requests, NEW h
  PROVE  Calm(t, IfSuccessful(t, h, r), r)
BY CalmSame, ReleaseContextCalm DEF IfSuccessful

LEMMA CompleteCalm ==
  ASSUME NEW t, Sound(t), NEW r \in Requests, NEW h
  PROVE  Calm(t, OnResponseComplete(t, h, r), r)
BY CalmSame, IfSuccessfulCalm DEF OnResponseComplete

LEMMA ResponseCleanupCalm ==
  ASSUME NEW t, Sound(t), NEW r \in Requests, NEW h
  PROVE  LET u == ResponseCleanup(t, h, r)
         IN  /\ Calm(t, u, r)
             /\ t.ctx[r].listening /\ ~t.ctx[r].cleaned => r \notin u.tracked
<1> DEFINE u == ResponseCleanup(t, h, r)
           o == t.ctx[r]
           c == [o EXCEPT !.completed = TRUE]
           m == SetTo(t, r, c)
           n == OnResponseComplete(m, h, r)
<1>1. CASE ~o.listening
  <2>1. u = t  BY <1>1 DEF ResponseCleanup
  <2> HIDE DEF u
  <2> QED  BY <2>1, <1>1, CalmSame DEF u
<1>2. CASE o.listening /\ o.completed
  <2>1. u = Cleanup(t, r)  BY <1>2 DEF ResponseCleanup
  <2> HIDE DEF u
  <2> QED  BY <2>1, <1>2, CleanupCalm DEF u
<1>3. CASE o.listening /\ ~o.completed
  <2>1. u = Cleanup(n, r)  BY <1>3 DEF ResponseCleanup, SetTo
  <2>2. o \in Contexts_ /\ Fits(t, r, o)  BY ContextTyped
  <2>3. /\ c \in Contexts_ /\ c.events = o.events /\ c.traced = o.traced /\ c.cleaned = o.cleaned
        /\ c.seen = o.seen /\ c.hook = o.hook /\ c.listening = o.listening /\ c.armed = o.armed
    BY <2>2 DEF Contexts_
  <2> HIDE DEF c
  <2>4. Fits(t, r, c)  BY <2>2, <2>3 DEF Fits
  <2>5. Calm(t, m, r) /\ m.ctx[r] = c  BY <2>3, <2>4, SetCalm
  <2> HIDE DEF m
  <2>6. Calm(m, n, r)  BY <2>5, CompleteCalm DEF Calm
  <2> HIDE DEF n, u
  <2>7. Calm(t, n, r) /\ Sound(n)  BY <2>5, <2>6, CalmCompose DEF Calm
  <2>8. Calm(n, u, r) /\ (n.ctx[r].listening /\ ~n.ctx[r].cleaned => r \notin u.tracked)
    BY <2>1, <2>7, CleanupCalm
  <2>9. Calm(t, u, r)  BY <2>7, <2>8, CalmCompose
  <2>10. ~o.cleaned => r \notin u.tracked
    <3> SUFFICES ASSUME ~o.cleaned, r \in u.tracked  PROVE FALSE  OBVIOUS
    <3>1. r \in n.tracked  BY <2>8 DEF Calm
    <3>2. n.ctx[r].listening  BY <1>3, <2>7 DEF Calm
    <3>3. ~n.ctx[r].cleaned  BY <2>7, <3>1 DEF Calm
    <3> QED  BY <2>8, <3>2, <3>3
  <2> QED  BY <1>3, <2>9, <2>10 DEF u
<1> QED  BY <1>1, <1>2, <1>3

LEMMA FinalizeCalm ==
  ASSUME NEW t, Sound(t), NEW r \in Requests, NEW aborted \in BOOLEAN
  PROVE  Calm(t, Finalize(t, r, aborted), r) /\ ~Finalize(t, r, aborted).ctx[r].armed
<1> DEFINE u == Finalize(t, r, aborted)
           o == t.ctx[r]
           c == [o EXCEPT !.armed = FALSE, !.aborted = aborted]
           m == SetTo(t, r, c)
<1>0. t \in States /\ o \in Contexts_ /\ Fits(t, r, o)  BY ContextTyped DEF Sound
<1>1. CASE ~o.armed
  <2>1. u = t  BY <1>1 DEF Finalize
  <2> HIDE DEF u
  <2> QED  BY <2>1, <1>1, CalmSame DEF u
<1>2. CASE o.armed
  <2>0. [t EXCEPT !.ctx[r].armed = FALSE, !.ctx[r].aborted = aborted] = m
    <3> DEFINE C == t.ctx
    <3>1. C \in [Requests -> Contexts_]  BY <1>0 DEF States
    <3>2. [[C EXCEPT ![r].armed = FALSE] EXCEPT ![r].aborted = aborted]
            = [C EXCEPT ![r] = [C[r] EXCEPT !.armed = FALSE, !.aborted = aborted]]
      BY <3>1 DEF Contexts_
    <3> QED  BY <3>2, <1>0 DEF SetTo, States
  <2>1. u = RemoveRequest(m, r)  BY <1>2, <2>0 DEF Finalize
  <2>3. /\ c \in Contexts_ /\ c.events = o.events /\ c.traced = o.traced /\ c.cleaned = o.cleaned
        /\ c.seen = o.seen /\ c.hook = o.hook /\ c.listening = o.listening /\ ~c.armed
    BY <1>0 DEF Contexts_
  <2> HIDE DEF c
  <2>4. Fits(t, r, c)  BY <1>0, <2>3 DEF Fits
  <2>5. Calm(t, m, r) /\ m.ctx[r] = c  BY <2>3, <2>4, SetCalm
  <2> HIDE DEF m, u
  <2>6. Sound(m)  BY <2>5 DEF Calm
  <2>7. Calm(m, u, r) /\ u.ctx = m.ctx  BY <2>1, <2>6, RemoveCalm
  <2>8. Calm(t, u, r)  BY <2>5, <2>7, CalmCompose
  <2> QED  BY <2>3, <2>5, <2>7, <2>8 DEF u
<1> QED  BY <1>1, <1>2

-------------------------------------------------------------------------------
(* A request of its own.  As long as it is open, its body unread and its       *)
(* context young, nothing that found room in its context has left it.          *)
Hosts == [kind : {"none", "recorder", "raw", "hapi", "express", "hono", "wrapped"}, stage : {"none", "open", "ended", "finished", "aborted"},
          consumed : BOOLEAN, failed : BOOLEAN, aged : BOOLEAN]
Packs == [state : {"none", "worker", "built", "fallback"}, timeline : SUBSET Nat, missed : SUBSET Nat, lost : SUBSET Nat,
          open : BOOLEAN, late : BOOLEAN]
Fresh(h) == h.stage = "open" /\ ~h.consumed /\ ~h.aged
TrackedStage(h) ==
  \/ h.stage \in {"open", "ended"}
  \/ h.stage = "aborted" /\ h.kind = "express"
  \/ h.kind \in {"hono", "hapi"}
Own(t, h, r) ==
  LET c == t.ctx[r]
  IN  /\ h.stage = "none" =>
           /\ r \notin t.tracked /\ r \notin t.timers /\ c.hook = "none" /\ ~c.armed
           /\ \A i \in DOMAIN t.log : t.log[i].req # r
      /\ Fresh(h) => r \notin t.timers /\ Missed(t, c.events, r) = {}
      /\ c.armed => h.kind = "recorder" /\ h.stage \in {"open", "ended"}
      /\ c.hook = "late" => c.seen /\ Finished(h)
      /\ c.hook # "none" => h.kind \in Lazy
      /\ h.kind = "express" /\ c.hook = "waiting" => ~c.listening /\ ~c.cleaned
      /\ r \in t.tracked =>
           /\ h.kind \in {"recorder", "raw", "express"} => c.listening /\ ~c.cleaned
           /\ TrackedStage(h)
      /\ h.stage \in {"ended", "aborted"} => h.kind \notin Awaited
      /\ h.kind = "none" => h.stage = "none"

LEMMA OwnOthers ==
  ASSUME NEW t, NEW u, NEW r \in Requests, NEW q \in Requests, q # r, NEW h,
         Sound(t), Sound(u), Concerns(r, t, u), Own(t, h, q)
  PROVE  Own(u, h, q)
<1>1. u.ctx[q] = t.ctx[q] /\ (q \in u.tracked <=> q \in t.tracked) /\ (q \in u.timers <=> q \in t.timers)
  BY DEF Concerns
<1>2. \A i \in DOMAIN u.log : u.log[i].req = q => i \in DOMAIN t.log /\ t.log[i] = u.log[i]
  BY DEF Concerns
<1>3. Missed(u, t.ctx[q].events, q) \subseteq Missed(t, t.ctx[q].events, q)  BY <1>2 DEF Missed, Of
<1>4. h.stage = "none" => \A i \in DOMAIN u.log : u.log[i].req # q  BY <1>2 DEF Own
<1>5. Fresh(h) => Missed(u, u.ctx[q].events, q) = {}  BY <1>1, <1>3 DEF Own
<1> QED  BY <1>1, <1>4, <1>5 DEF Own

LEMMA CalmOwn ==
  ASSUME NEW t, NEW u, NEW r \in Requests, NEW h, NEW k,
         Sound(t), Calm(t, u, r), Own(t, h, r), h.stage # "none", k.stage # "none", ~Fresh(k),
         k.kind = h.kind, Finished(h) => Finished(k),
         u.ctx[r].armed => k.stage \in {"open", "ended"},
         r \in u.tracked => TrackedStage(k),
         k.stage \in {"ended", "aborted"} => h.kind \notin Awaited
  PROVE  Own(u, k, r)
<1>1. u.ctx[r].armed => k.kind = "recorder" /\ k.stage \in {"open", "ended"}  BY DEF Own, Calm
<1>2. u.ctx[r].hook = t.ctx[r].hook /\ u.ctx[r].seen = t.ctx[r].seen
      /\ u.ctx[r].listening = t.ctx[r].listening
  BY DEF Calm
<1>3. u.ctx[r].hook = "late" => u.ctx[r].seen /\ Finished(k)  BY <1>2 DEF Own
<1>4. u.ctx[r].hook # "none" => k.kind \in Lazy  BY <1>2 DEF Own
<1>5. k.kind = "express" /\ u.ctx[r].hook = "waiting" => ~u.ctx[r].listening /\ ~u.ctx[r].cleaned
  BY <1>2 DEF Own, Calm
<1>6. r \in u.tracked /\ k.kind \in {"recorder", "raw", "express"} => u.ctx[r].listening /\ ~u.ctx[r].cleaned
  BY <1>2 DEF Own, Calm
<1> QED  BY <1>1, <1>3, <1>4, <1>5, <1>6 DEF Own

LEMMA EnsureTraceOwn ==
  ASSUME NEW t, Sound(t), NEW r \in Requests, NEW h \in Hosts, h.stage # "none", Own(t, h, r)
  PROVE  Own(EnsureTrace(t, h, r), h, r)
<1> DEFINE u == EnsureTrace(t, h, r)
           c == t.ctx[r]
           d == u.ctx[r]
           late == Finished(h) /\ h.kind # "hono"
<1>1. /\ u.timers = t.timers /\ u.log = t.log /\ u.compact = t.compact
      /\ Materialized(c, d, h)
      /\ c.hook # "waiting" \/ late => u.tracked = t.tracked
  BY EnsureTraceSound
<1>2. c \in Contexts_  BY ContextTyped
<1> HIDE DEF u
<1>3. Missed(u, c.events, r) = Missed(t, c.events, r)  BY <1>1 DEF Missed, Of
<1>4. /\ d.seen /\ d.cleaned = c.cleaned /\ d.armed = c.armed /\ d.events = c.events
      /\ d.hook = IF c.hook = "waiting" THEN IF late THEN "late" ELSE "done" ELSE c.hook
      /\ d.listening <=> c.listening \/ (c.hook = "waiting" /\ ~late /\ h.kind = "express")
  BY <1>1 DEF Materialized
<1> HIDE DEF late, c, d
<1>5. Fresh(h) => r \notin u.timers /\ Missed(u, d.events, r) = {}  BY <1>1, <1>3, <1>4 DEF Own, c
<1>6. d.armed => h.kind = "recorder" /\ h.stage \in {"open", "ended"}  BY <1>4 DEF Own, c
<1>7. d.hook = "late" => d.seen /\ Finished(h)  BY <1>4 DEF Own, c, late
<1>8. (d.hook # "none" => h.kind \in Lazy) /\ d.hook # "waiting"  BY <1>4 DEF Own, c
<1>9. r \in u.tracked => /\ h.kind \in {"recorder", "raw", "express"} => d.listening /\ ~d.cleaned
                         /\ TrackedStage(h)
  <2>1. CASE c.hook # "waiting" \/ late
    <3>1. u.tracked = t.tracked  BY <1>1, <2>1 DEF c, late
    <3>2. (c.listening => d.listening) /\ d.cleaned = c.cleaned  BY <1>4
    <3>3. r \in t.tracked => /\ h.kind \in {"recorder", "raw", "express"} => c.listening /\ ~c.cleaned
                             /\ TrackedStage(h)
      BY DEF Own, c
    <3> QED  BY <3>1, <3>2, <3>3
  <2>2. CASE c.hook = "waiting" /\ ~late
    <3>1. h.kind \in {"express", "hapi", "hono"}  BY <2>2 DEF Own, c, Lazy
    <3>2. h.kind \in {"recorder", "raw", "express"} => d.listening /\ ~d.cleaned
      BY <2>2, <3>1, <1>4 DEF Own, c
    <3>3. TrackedStage(h)
      BY <2>2, <3>1 DEF TrackedStage, late, Finished, Hosts
    <3> QED  BY <3>2, <3>3
  <2> QED  BY <2>1, <2>2
<1> QED  BY <1>5, <1>6, <1>7, <1>8, <1>9 DEF Own, u, d

LEMMA StampOwn ==
  ASSUME NEW t, Sound(t), NEW r \in Requests, NEW h, h.stage # "none", Own(t, h, r),
         NEW what \in Marks, what \notin CallMarks
  PROVE  Own(Stamp(t, r, what), h, r)
<1> DEFINE u == Stamp(t, r, what)
           e == [req |-> r, seq |-> Tick(t.clock), what |-> what]
<1>1. u = [t EXCEPT !.clock = Tick(t.clock), !.log = Append(t.log, e)]  BY DEF Stamp
<1>2. t \in States /\ t.log \in Seq(Entries)  BY DEF Sound, States
<1> HIDE DEF u
<1>3. /\ u.ctx = t.ctx /\ u.timers = t.timers /\ u.tracked = t.tracked
      /\ u.compact = t.compact /\ u.log = Append(t.log, e)
  BY <1>1, <1>2 DEF States
<1>4. e.what \notin CallMarks  OBVIOUS
<1> HIDE DEF e
<1>5. DOMAIN u.log = 1 .. Len(t.log) + 1 /\ u.log[Len(t.log) + 1] = e /\ Len(t.log) \in Nat
      /\ DOMAIN t.log = 1 .. Len(t.log) /\ \A i \in DOMAIN t.log : u.log[i] = t.log[i]
  BY <1>2, <1>3
<1>6. \A i \in Of(u, r, CallMarks) : i \in Of(t, r, CallMarks) /\ u.log[i] = t.log[i]
  BY <1>4, <1>5 DEF Of
<1>7. Missed(u, t.ctx[r].events, r) \subseteq Missed(t, t.ctx[r].events, r)  BY <1>6 DEF Missed
<1>8. Fresh(h) => Missed(u, u.ctx[r].events, r) = {}  BY <1>3, <1>7 DEF Own
<1> QED  BY <1>3, <1>8 DEF Own, u

LEMMA PushOwn ==
  ASSUME NEW t, Sound(t), NEW r \in Requests, NEW h, h.stage # "none", Own(t, h, r),
         NEW what \in Marks, t.ctx[r].traced
  PROVE  Own(Push(t, r, what), h, r)
<1> DEFINE u == Push(t, r, what)
           e == [req |-> r, seq |-> Tick(t.clock), what |-> what]
           n == Len(t.log) + 1
           c == t.ctx[r]
           d == u.ctx[r]
           full == Cardinality(c.events) >= Cap(what)
           E == IF full THEN c.events ELSE c.events \cup {n}
<1>1. /\ Sound(u) /\ u.timers = t.timers /\ u.tracked = t.tracked /\ u.compact = t.compact
      /\ u.log = Append(t.log, e) /\ d = [c EXCEPT !.events = E]
  BY PushSound
<1>2. t.log \in Seq(Entries) /\ c \in Contexts_  BY ContextTyped DEF Sound, States
<1> HIDE DEF u, full
<1>3. /\ d.events = E /\ d.armed = c.armed /\ d.hook = c.hook /\ d.seen = c.seen
      /\ d.listening = c.listening /\ d.cleaned = c.cleaned
  BY <1>1, <1>2 DEF Contexts_
<1>4. e.what = what  OBVIOUS
<1> HIDE DEF e, d
<1>5. DOMAIN u.log = 1 .. n /\ n \in Nat /\ u.log[n] = e
      /\ DOMAIN t.log = 1 .. n - 1 /\ \A i \in DOMAIN t.log : u.log[i] = t.log[i]
  BY <1>1, <1>2
<1>6. c.events \subseteq 1 .. n - 1  BY <1>5 DEF Sound
<1>7. Cardinality(c.events) \in Nat /\ Cap(what) \in Nat
  BY EventsCounted, ContextAssumption DEF Cap
<1> HIDE DEF n
<1>8. ASSUME Fresh(h), NEW i \in Missed(u, E, r)  PROVE FALSE
  <2>1. i \in Of(u, r, CallMarks) \ E /\ Cardinality({j \in E : j < i}) < Cap(u.log[i].what)
    BY <1>8 DEF Missed
  <2>2. CASE i = n
    <3>1. full /\ E = c.events  BY <2>1, <2>2
    <3>2. {j \in E : j < i} = c.events  BY <3>1, <2>2, <1>5, <1>6
    <3> HIDE DEF E
    <3>3. Cardinality(c.events) < Cap(what)  BY <2>1, <2>2, <3>2, <1>4, <1>5
    <3> QED  BY <3>1, <3>3, <1>7 DEF full
  <2>3. CASE i # n
    <3>1. i \in 1 .. n - 1 /\ u.log[i] = t.log[i]  BY <2>1, <2>3, <1>5 DEF Of
    <3>2. {j \in E : j < i} = {j \in c.events : j < i}  BY <3>1, <1>5, <1>6
    <3>3. i \notin c.events  BY <2>1
    <3> HIDE DEF E
    <3>4. i \in Of(t, r, CallMarks)  BY <2>1, <3>1, <1>5 DEF Of
    <3>5. i \in Missed(t, c.events, r)  BY <2>1, <3>1, <3>2, <3>3, <3>4 DEF Missed
    <3> QED  BY <3>5, <1>8 DEF Own
  <2> QED  BY <2>2, <2>3
<1> HIDE DEF E
<1>9. Fresh(h) => r \notin u.timers /\ Missed(u, d.events, r) = {}  BY <1>1, <1>3, <1>8 DEF Own
<1> QED  BY <1>1, <1>3, <1>9 DEF Own, u, d

-------------------------------------------------------------------------------
RInv ==
  /\ Sound(s) /\ host \in [Requests -> Hosts] /\ pack \in [Requests -> Packs]
  /\ recording \in BOOLEAN /\ up \in BOOLEAN
  /\ \A r \in Requests : Own(s, host[r], r)
  /\ TimelineKept

LEMMA StepOf ==
  ASSUME RInv, NEW r \in Requests, NEW h \in Hosts, host' = [host EXCEPT ![r] = h],
         Sound(s'), Concerns(r, s, s'), Own(s', h, r),
         pack' \in [Requests -> Packs], TimelineKept',
         recording' \in BOOLEAN, up' \in BOOLEAN
  PROVE  RInv'
<1>1. host' \in [Requests -> Hosts]  BY DEF RInv
<1>2. ASSUME NEW q \in Requests  PROVE Own(s', host'[q], q)
  <2>1. CASE q = r  BY <2>1 DEF RInv
  <2>2. CASE q # r
    <3>1. host'[q] = host[q]  BY <2>2 DEF RInv
    <3>2. Own(s, host[q], q) /\ Sound(s)  BY DEF RInv
    <3> QED  BY <2>2, <3>1, <3>2, OwnOthers
  <2> QED  BY <2>1, <2>2
<1> QED  BY <1>1, <1>2 DEF RInv

(* ... and where neither the host nor a package changes.                        *)
LEMMA QuietStep ==
  ASSUME RInv, NEW r \in Requests, UNCHANGED <<host, pack, recording, up>>,
         Sound(s'), Concerns(r, s, s'), Own(s', host[r], r)
  PROVE  RInv'
<1>1. host[r] \in Hosts /\ host' = [host EXCEPT ![r] = host[r]]  BY DEF RInv
<1>2. TimelineKept'  BY DEF RInv, TimelineKept
<1> QED  BY <1>1, <1>2, StepOf DEF RInv

(* ... and where a package does not change, and the host does.                  *)
LEMMA HostStep ==
  ASSUME RInv, NEW r \in Requests, NEW h \in Hosts, host' = [host EXCEPT ![r] = h],
         UNCHANGED <<pack, recording, up>>, Sound(s'), Concerns(r, s, s'), Own(s', h, r)
  PROVE  RInv'
<1>1. TimelineKept'  BY DEF RInv, TimelineKept
<1> QED  BY <1>1, StepOf DEF RInv

LEMMA InitInv == RInit => RInv
<1> SUFFICES ASSUME RInit  PROVE RInv  OBVIOUS
<1>1. PICK others \in SUBSET Others :
         /\ Cardinality(others) <= MaxConcurrent
         /\ s = [ctx |-> [r \in Requests |-> NoContext], tracked |-> others, timers |-> {}, clock |-> 0,
                 log |-> << >>, compact |-> {}]
  BY DEF RInit
<1>2. NoContext \in Contexts_  BY DEF NoContext, Contexts_
<1>3. << >> \in Seq(Entries) /\ DOMAIN << >> = {} /\ 0 \in 0 .. Ceiling  BY ContextAssumption
<1>4. s \in States  BY <1>1, <1>2, <1>3 DEF States
<1>5. IsFiniteSet(others)  BY ContextAssumption, FS_Subset
<1>6. /\ s.tracked = others /\ s.timers = {} /\ s.compact = {} /\ DOMAIN s.log = {}
      /\ \A r \in Requests : s.ctx[r] = NoContext
  BY <1>1, <1>3
<1>7. Sound(s)  BY <1>1, <1>4, <1>5, <1>6 DEF Sound, NoContext
<1>8. ASSUME NEW r \in Requests  PROVE Own(s, host[r], r)
  <2>1. host[r].stage = "none"  BY DEF RInit
  <2>2. r \notin s.tracked  BY <1>6, ContextAssumption
  <2> QED  BY <1>6, <2>1, <2>2 DEF Own, NoContext, Fresh
<1>9. host \in [Requests -> Hosts]  BY DEF RInit, Hosts
<1>10. pack \in [Requests -> Packs]  BY DEF RInit, NoPackage, Packs
<1>11. TimelineKept  BY DEF RInit, NoPackage, TimelineKept
<1> QED  BY <1>7, <1>8, <1>9, <1>10, <1>11 DEF RInv, RInit

LEMMA StartInv ==
  ASSUME RInv, NEW r \in Requests, NEW kind \in Kinds[r], Start(r, kind)
  PROVE  RInv'
<1> DEFINE h == [host[r] EXCEPT !.kind = kind, !.stage = "open"]
           c == [NoContext EXCEPT !.listening = kind \in Listening,
                                  !.hook = IF kind \in Lazy THEN "waiting" ELSE "none"]
           n == SetTo(s, r, c)
<1>1. host[r] \in Hosts /\ kind \in {"recorder", "raw", "hapi", "express", "hono", "wrapped"}
  BY ContextAssumption DEF RInv
<1>2. h \in Hosts /\ h.stage = "open" /\ h.kind = kind  BY <1>1 DEF Hosts
<1>3. /\ host[r].stage = "none" /\ host' = [host EXCEPT ![r] = h]
      /\ UNCHANGED <<pack, recording, up>>
      /\ s' = IF kind = "recorder"
              THEN Push([EnsureTrace(Add(n, r), h, r) EXCEPT !.ctx[r].armed = TRUE], r, "server")
              ELSE IF kind \in Lazy THEN n ELSE Add(n, r)
  BY DEF Start, Step, SetTo
<1>4. /\ c.hook = IF kind \in Lazy THEN "waiting" ELSE "none"
      /\ c.listening = (kind \in Listening)
      /\ c.events = {} /\ ~c.cleaned /\ ~c.armed /\ ~c.traced /\ ~c.seen /\ c \in Contexts_
  <2> DEFINE L == kind \in Listening
             W == IF kind \in Lazy THEN "waiting" ELSE "none"
  <2>1. c = [NoContext EXCEPT !.listening = L, !.hook = W]  OBVIOUS
  <2>2. L \in BOOLEAN /\ W \in {"waiting", "none"}  OBVIOUS
  <2> HIDE DEF L, W, c
  <2>3. /\ c.hook = W /\ c.listening = L /\ c.events = {} /\ ~c.cleaned /\ ~c.armed /\ ~c.traced
        /\ ~c.seen /\ c \in Contexts_
    BY <2>1, <2>2 DEF NoContext, Contexts_
  <2> QED  BY <2>3 DEF L, W
<1> HIDE DEF c, h
<1>5. Fits(s, r, c)  BY <1>4 DEF Fits
<1>6. Sound(n) /\ Concerns(r, s, n) /\ SameButContext(s, n) /\ n.ctx[r] = c  BY <1>5, SetSound DEF RInv
<1>7. Own(s, host[r], r)  BY DEF RInv
<1>8. r \notin s.tracked /\ r \notin s.timers /\ Of(s, r, CallMarks) = {}  BY <1>3, <1>7 DEF Own, Of
<1> HIDE DEF n
<1>9. n.ctx[r].events = {} /\ Missed(n, {}, r) = {} /\ r \notin n.timers
  BY <1>4, <1>6, <1>8 DEF SameButContext, Missed, Of
<1>10. Own(n, h, r)
  BY <1>1, <1>2, <1>4, <1>6, <1>8, <1>9 DEF Own, SameButContext, Lazy, Listening, TrackedStage, Awaited
<1>11. /\ Sound(Add(n, r)) /\ Concerns(r, n, Add(n, r)) /\ Add(n, r).ctx = n.ctx
       /\ Add(n, r).log = n.log /\ Add(n, r).timers = n.timers /\ Add(n, r).compact = n.compact
  BY <1>6, AddSound
<1>12. Concerns(r, s, Add(n, r))  BY <1>6, <1>11, ConcernsCompose DEF RInv
<1>13. kind \notin Lazy => Own(Add(n, r), h, r)
  <2> DEFINE a == Add(n, r)
  <2>1. a.ctx[r] = c /\ a.timers = n.timers /\ Missed(a, {}, r) = {}
    BY <1>6, <1>9, <1>11 DEF Missed, Of
  <2> HIDE DEF a
  <2> QED
    BY <1>1, <1>2, <1>4, <1>6, <1>8, <1>9, <2>1
    DEF Own, SameButContext, Lazy, Listening, TrackedStage, Awaited, Finished, a
<1>14. CASE kind = "recorder"
  <2> DEFINE a == Add(n, r)
             b == EnsureTrace(a, h, r)
             d == [b.ctx[r] EXCEPT !.armed = TRUE]
             e == SetTo(b, r, d)
  <2>1. kind \notin Lazy  BY <1>14 DEF Lazy
  <2>2. Sound(a) /\ Concerns(r, s, a) /\ Own(a, h, r) /\ h.stage # "none"
    BY <1>2, <1>11, <1>12, <1>13, <2>1
  <2> HIDE DEF a
  <2>3. Sound(b) /\ Concerns(r, a, b) /\ b.ctx[r].traced  BY <2>2, EnsureTraceSound
  <2>4. Own(b, h, r)  BY <1>2, <2>2, EnsureTraceOwn
  <2> HIDE DEF b
  <2>5. b.ctx[r] \in Contexts_ /\ Fits(b, r, b.ctx[r])  BY <2>3, ContextTyped
  <2>6. /\ d \in Contexts_ /\ d.armed /\ d.traced /\ d.events = b.ctx[r].events /\ d.hook = b.ctx[r].hook
        /\ d.seen = b.ctx[r].seen /\ d.listening = b.ctx[r].listening /\ d.cleaned = b.ctx[r].cleaned
    BY <2>3, <2>5 DEF Contexts_
  <2>7. s' = Push(e, r, "server")  BY <1>3, <1>14 DEF SetTo, a, b
  <2> HIDE DEF d
  <2>8. Fits(b, r, d)  BY <2>3, <2>5, <2>6 DEF Fits
  <2>9. Sound(e) /\ Concerns(r, b, e) /\ SameButContext(b, e) /\ e.ctx[r] = d  BY <2>3, <2>8, SetSound
  <2> HIDE DEF e
  <2>10. Own(e, h, r)
    <3>1. Missed(e, d.events, r) = Missed(b, d.events, r)  BY <2>9 DEF SameButContext, Missed, Of
    <3> QED  BY <1>2, <1>14, <2>4, <2>6, <2>9, <3>1 DEF Own, SameButContext
  <2>0. "server" \in Marks /\ e.ctx[r].traced  BY <2>6, <2>9 DEF Marks
  <2>11. Sound(s') /\ Concerns(r, e, s')  BY <2>0, <2>7, <2>9, PushSound
  <2>12. Own(s', h, r)  BY <1>2, <2>0, <2>7, <2>9, <2>10, PushOwn
  <2>13. Concerns(r, s, b)  BY <2>2, <2>3, ConcernsCompose DEF RInv
  <2>14. Concerns(r, s, e)  BY <2>3, <2>9, <2>13, ConcernsCompose DEF RInv
  <2>15. Concerns(r, s, s')  BY <2>9, <2>11, <2>14, ConcernsCompose DEF RInv
  <2> QED  BY <1>2, <1>3, <2>11, <2>12, <2>15, HostStep
<1>15. CASE kind \in Lazy
  <2>1. s' = n  BY <1>3, <1>15 DEF Lazy
  <2> QED  BY <1>2, <1>3, <1>6, <1>10, <2>1, HostStep
<1>16. CASE kind # "recorder" /\ kind \notin Lazy
  <2>1. s' = Add(n, r)  BY <1>3, <1>16
  <2> QED  BY <1>2, <1>3, <1>11, <1>12, <1>13, <1>16, <2>1, HostStep
<1> QED  BY <1>14, <1>15, <1>16

LEMMA RecordInv ==
  ASSUME RInv, NEW r \in Requests, NEW what \in CallMarks,
         Record(r, what) \/ ReadState(r) \/ Send(r) \/ Pause(r)
  PROVE  RInv'
<1> DEFINE h == host[r]
           t == EnsureTrace(s, h, r)
<1>1. Sound(s) /\ Own(s, h, r) /\ h \in Hosts /\ h.stage # "none" /\ UNCHANGED <<host, pack, recording, up>>
  BY DEF RInv, Record, ReadState, Send, Pause, Begun
<1>2. Sound(t) /\ Concerns(r, s, t) /\ t.ctx[r].traced  BY <1>1, EnsureTraceSound
<1>3. Own(t, h, r)  BY <1>1, EnsureTraceOwn
<1>4. what \in Marks /\ \A w \in {"state", "locals"} : w \in Marks \ CallMarks  BY DEF Marks, CallMarks
<1> SUFFICES Sound(s') /\ Concerns(r, s, s') /\ Own(s', h, r)  BY <1>1, QuietStep
<1> HIDE DEF t, h
<1>5. CASE Record(r, what)
  <2>1. s' = Push(t, r, what)  BY <1>5 DEF Record, t, h
  <2>2. Sound(s') /\ Concerns(r, t, s')  BY <1>2, <1>4, <2>1, PushSound
  <2>3. Own(s', h, r)  BY <1>1, <1>2, <1>3, <1>4, <2>1, PushOwn
  <2> QED  BY <1>1, <1>2, <2>2, <2>3, ConcernsCompose
<1>6. CASE ReadState(r)
  <2>1. s' = Stamp(t, r, "state")  BY <1>6 DEF ReadState, t, h
  <2>2. Sound(s') /\ Concerns(r, t, s')  BY <1>2, <1>4, <2>1, StampSound
  <2>3. Own(s', h, r)  BY <1>1, <1>2, <1>3, <1>4, <2>1, StampOwn
  <2> QED  BY <1>1, <1>2, <2>2, <2>3, ConcernsCompose
<1>7. CASE Send(r)
  <2>1. s' = t  BY <1>7 DEF Send, t, h
  <2> QED  BY <1>2, <1>3, <2>1
<1>8. CASE Pause(r)
  <2>1. s' = Stamp(s, r, "locals")  BY <1>8 DEF Pause
  <2>2. Sound(s') /\ Concerns(r, s, s')  BY <1>1, <1>4, <2>1, StampSound
  <2>3. Own(s', h, r)  BY <1>1, <1>4, <2>1, StampOwn
  <2> QED  BY <2>2, <2>3
<1> QED  BY <1>5, <1>6, <1>7, <1>8

LEMMA CaptureInv ==
  ASSUME RInv, NEW r \in Requests, NEW worker \in BOOLEAN, Capture(r, worker)
  PROVE  RInv'
<1> DEFINE h == host[r]
           m == EnsureTrace(s, h, r)
           t == Stamp(m, r, "error")
           c == t.ctx[r]
           time == c.events
           late == c.hook = "late"
           d == [c EXCEPT !.hook = "done"]
           n == SetTo(t, r, d)
           u == IF late THEN IfSuccessful(n, h, r) ELSE t
           p == [state |-> IF worker THEN "worker" ELSE "built", timeline |-> time,
                 missed |-> Missed(t, time, r), lost |-> time \cap u.compact,
                 open |-> h.stage = "open" /\ ~h.consumed /\ ~h.aged, late |-> late]
<1>1. /\ Sound(s) /\ Own(s, h, r) /\ h \in Hosts /\ h.stage # "none"
      /\ UNCHANGED <<host, recording, up>> /\ host \in [Requests -> Hosts]
      /\ pack \in [Requests -> Packs] /\ TimelineKept
  BY DEF RInv, Capture, Begun
<1>2. s' = u /\ pack' = [pack EXCEPT ![r] = p]  BY DEF Capture, SetTo
<1>3. Sound(m) /\ Concerns(r, s, m) /\ m.ctx[r].traced  BY <1>1, EnsureTraceSound
<1>4. Own(m, h, r)  BY <1>1, EnsureTraceOwn
<1>5. "error" \in Marks /\ "error" \notin CallMarks  BY DEF Marks, CallMarks
<1> HIDE DEF m, h
<1>6. Sound(t) /\ Concerns(r, m, t)  BY <1>3, <1>5, StampSound
<1>7. Own(t, h, r)  BY <1>1, <1>3, <1>4, <1>5, StampOwn
<1> HIDE DEF t
<1>8. Concerns(r, s, t)  BY <1>1, <1>3, <1>6, ConcernsCompose
<1>9. c \in Contexts_ /\ Fits(t, r, c)  BY <1>6, ContextTyped
<1>10. time \subseteq Nat /\ Missed(t, time, r) \subseteq Nat
  <2>1. c.events \subseteq Nat /\ t.log \in Seq(Entries)
    BY <1>6, <1>9 DEF Sound, States, Contexts_
  <2> QED  BY <2>1 DEF Missed, Of
<1>11. Sound(u) /\ Concerns(r, s, u) /\ Own(u, h, r)
  <2>1. CASE ~late
    <3>1. u = t  BY <2>1
    <3> QED  BY <3>1, <1>6, <1>7, <1>8
  <2>2. CASE late
    <3>1. /\ d \in Contexts_ /\ d.events = c.events /\ d.traced = c.traced /\ d.armed = c.armed
          /\ d.listening = c.listening /\ d.cleaned = c.cleaned /\ d.hook = "done" /\ d.seen = c.seen
      BY <1>9 DEF Contexts_
    <3> HIDE DEF d
    <3>2. Fits(t, r, d)  BY <1>9, <3>1 DEF Fits
    <3>3. Sound(n) /\ Concerns(r, t, n) /\ SameButContext(t, n) /\ n.ctx[r] = d
      BY <1>6, <3>2, SetSound
    <3> HIDE DEF n, c
    <3>4. Finished(h) /\ h.kind \in Lazy  BY <2>2, <1>7 DEF Own, c
    <3>5. ~Fresh(h)  BY <3>4 DEF Finished, Fresh
    <3>6. Own(n, h, r)
      BY <1>1, <1>7, <3>1, <3>3, <3>4, <3>5 DEF Own, SameButContext, c
    <3>7. u = IfSuccessful(n, h, r)  BY <2>2
    <3> HIDE DEF u
    <3>8. Calm(n, u, r)  BY <3>3, <3>7, IfSuccessfulCalm
    <3>9. u.ctx[r].armed => h.stage \in {"open", "ended"}  BY <3>6, <3>8 DEF Own, Calm
    <3>10. r \in u.tracked => TrackedStage(h)  BY <3>6, <3>8 DEF Own, Calm
    <3>11. h.stage \in {"ended", "aborted"} => h.kind \notin Awaited  BY <1>1 DEF Own
    <3>12. Own(u, h, r)  BY <1>1, <3>3, <3>5, <3>6, <3>8, <3>9, <3>10, <3>11, CalmOwn
    <3>13. Sound(u) /\ Concerns(r, n, u)  BY <3>8 DEF Calm
    <3>14. Concerns(r, s, n)  BY <1>1, <1>6, <1>8, <3>3, ConcernsCompose
    <3>15. Concerns(r, s, u)  BY <1>1, <3>3, <3>13, <3>14, ConcernsCompose
    <3> QED  BY <3>12, <3>13, <3>15
  <2> QED  BY <2>1, <2>2
<1>12. Fresh(h) => Missed(t, time, r) = {}  BY <1>7 DEF Own
<1>13. time \cap u.compact = {} \/ late  BY <1>6 DEF Sound
<1> DEFINE open == h.stage = "open" /\ ~h.consumed /\ ~h.aged
           state == IF worker THEN "worker" ELSE "built"
           missed == Missed(t, time, r)
           lost == time \cap u.compact
<1>14. p = [state |-> state, timeline |-> time, missed |-> missed, lost |-> lost, open |-> open, late |-> late]
  OBVIOUS
<1>15. /\ state \in {"worker", "built"} /\ missed \subseteq Nat /\ lost \subseteq Nat
       /\ open \in BOOLEAN /\ late \in BOOLEAN /\ open = Fresh(h)
       /\ (open => missed = {}) /\ (lost = {} \/ late)
  <2> HIDE DEF time, u
  <2>1. (open => missed = {}) /\ (lost = {} \/ late)  BY <1>12, <1>13 DEF Fresh
  <2> QED  BY <1>10, <2>1 DEF Fresh
<1> HIDE DEF state, missed, lost, open, late, time, p, u
<1>16. p \in Packs /\ p.open = open /\ p.missed = missed /\ p.lost = lost /\ p.late = late /\ p.state = state
  BY <1>10, <1>14, <1>15 DEF Packs
<1>17. pack' \in [Requests -> Packs]  BY <1>1, <1>2, <1>16
<1>18. TimelineKept'
  <2> SUFFICES ASSUME NEW q \in Requests
               PROVE /\ pack'[q].open => pack'[q].missed = {}
                     /\ pack'[q].lost # {} => pack'[q].late \/ pack'[q].state = "fallback"
    BY DEF TimelineKept
  <2>1. CASE q = r
    <3>1. pack'[q] = p  BY <1>1, <1>2, <2>1
    <3> QED  BY <3>1, <1>15, <1>16
  <2>2. CASE q # r
    <3>1. pack'[q] = pack[q]  BY <1>1, <1>2, <2>2
    <3> QED  BY <3>1, <1>1 DEF TimelineKept
  <2> QED  BY <2>1, <2>2
<1>19. host' = [host EXCEPT ![r] = h]  BY <1>1 DEF h
<1> QED  BY <1>1, <1>2, <1>11, <1>17, <1>18, <1>19, StepOf DEF RInv

LEMMA AnsweredInv ==
  ASSUME RInv, NEW r \in Requests, NEW ok \in BOOLEAN, Answered(r, ok)
  PROVE  RInv'
<1> DEFINE p == pack[r]
           state == IF ok THEN "built" ELSE "fallback"
           lost == IF ok THEN p.lost ELSE p.timeline \cap s.compact
           q == [p EXCEPT !.state = state, !.lost = lost]
<1>1. p \in Packs /\ p.state = "worker" /\ UNCHANGED <<host, s, recording, up>>
      /\ pack \in [Requests -> Packs]
  BY DEF RInv, Answered
<1>2. pack' = [pack EXCEPT ![r] = q]
  <2>1. pack' = [pack EXCEPT ![r].state = state,
                             ![r].lost = IF ok THEN @ ELSE pack[r].timeline \cap s.compact]
    BY DEF Answered
  <2>2. (IF ok THEN [pack EXCEPT ![r].state = state][r].lost ELSE p.timeline \cap s.compact) = lost
    BY <1>1 DEF Packs
  <2> HIDE DEF state
  <2>3. [pack EXCEPT ![r].state = state, ![r].lost = lost] = [pack EXCEPT ![r] = q]
    <3> HIDE DEF lost
    <3> QED  BY <1>1 DEF Packs
  <2> QED  BY <2>1, <2>2, <2>3
<1>3. state \in {"built", "fallback"} /\ lost \subseteq Nat /\ (lost = p.lost \/ state = "fallback")
  BY <1>1 DEF Packs
<1> HIDE DEF state, lost, p
<1>4. q \in Packs /\ q.state = state /\ q.lost = lost /\ q.missed = p.missed /\ q.open = p.open /\ q.late = p.late
  BY <1>1, <1>3 DEF Packs
<1> HIDE DEF q
<1>5. pack' \in [Requests -> Packs]  BY <1>1, <1>2, <1>4
<1>6. TimelineKept'
  <2> SUFFICES ASSUME NEW k \in Requests
               PROVE /\ pack'[k].open => pack'[k].missed = {}
                     /\ pack'[k].lost # {} => pack'[k].late \/ pack'[k].state = "fallback"
    BY DEF TimelineKept
  <2>0. TimelineKept  BY DEF RInv
  <2>1. CASE k = r
    <3>1. pack'[k] = q  BY <1>1, <1>2, <2>1
    <3>2. (p.open => p.missed = {}) /\ (p.lost # {} => p.late)
      BY <2>0, <1>1 DEF TimelineKept, p
    <3> QED  BY <3>1, <3>2, <1>3, <1>4
  <2>2. CASE k # r
    <3>1. pack'[k] = pack[k]  BY <1>1, <1>2, <2>2
    <3> QED  BY <3>1, <2>0 DEF TimelineKept
  <2> QED  BY <2>1, <2>2
<1>7. Sound(s)' /\ (\A k \in Requests : Own(s, host[k], k))'  BY <1>1 DEF RInv
<1> QED  BY <1>1, <1>5, <1>6, <1>7 DEF RInv

(* What ends a request, or passes with it.                                      *)
LEMMA EndInv ==
  ASSUME RInv, NEW r \in Requests, NEW failed \in BOOLEAN, End(r, failed)
  PROVE  RInv'
<1> DEFINE h == [host[r] EXCEPT !.stage = "ended", !.failed = failed]
<1>1. Sound(s) /\ Own(s, host[r], r) /\ host[r] \in Hosts /\ host[r].stage = "open"
      /\ host[r].kind \notin Awaited /\ UNCHANGED <<s, pack, recording, up>>
      /\ host' = [host EXCEPT ![r] = h]
  BY DEF RInv, End, Step
<1>2. h \in Hosts /\ h.stage = "ended" /\ h.kind = host[r].kind  BY <1>1 DEF Hosts
<1> HIDE DEF h
<1>3. Calm(s, s', r) /\ s' = s  BY <1>1, CalmSame
<1>4. Own(s', h, r)
  BY <1>1, <1>2, <1>3 DEF Own, Fresh, Finished, TrackedStage
<1> QED  BY <1>1, <1>2, <1>3, <1>4, HostStep DEF Calm

LEMMA FinishInv ==
  ASSUME RInv, NEW r \in Requests, Finish(r)
  PROVE  RInv'
<1> DEFINE h == [host[r] EXCEPT !.stage = "finished"]
           m == Finalize(s, r, FALSE)
<1>1. Sound(s) /\ Own(s, host[r], r) /\ host[r] \in Hosts /\ host[r].stage = "ended"
      /\ UNCHANGED <<pack, recording, up>> /\ host' = [host EXCEPT ![r] = h]
      /\ s' = ResponseCleanup(m, host[r], r)
  BY DEF RInv, Finish, Step
<1>2. h \in Hosts /\ h.stage = "finished" /\ h.kind = host[r].kind  BY <1>1 DEF Hosts
<1>3. Calm(s, m, r) /\ ~m.ctx[r].armed  BY <1>1, FinalizeCalm
<1> HIDE DEF h, m
<1>4. Sound(m)  BY <1>3 DEF Calm
<1>5. Calm(m, s', r) /\ (m.ctx[r].listening /\ ~m.ctx[r].cleaned => r \notin s'.tracked)
  BY <1>1, <1>4, ResponseCleanupCalm
<1>6. Calm(s, s', r)  BY <1>1, <1>3, <1>5, CalmCompose
<1>7. ~s'.ctx[r].armed  BY <1>3, <1>5 DEF Calm
<1>8. r \in s'.tracked => TrackedStage(h)
  <2> SUFFICES ASSUME r \in s'.tracked  PROVE h.kind \in {"hono", "hapi"}  BY DEF TrackedStage
  <2>1. r \in m.tracked /\ r \in s.tracked  BY <1>3, <1>5 DEF Calm
  <2>2. m.ctx[r].listening = s.ctx[r].listening /\ m.ctx[r].cleaned = s.ctx[r].cleaned
    BY <1>3, <2>1 DEF Calm
  <2>3. h.kind \notin {"recorder", "raw", "express"}  BY <1>1, <1>2, <1>5, <2>1, <2>2 DEF Own
  <2>4. h.kind \in {"none", "recorder", "raw", "hapi", "express", "hono", "wrapped"}  BY <1>2 DEF Hosts
  <2>5. h.kind # "wrapped"  BY <1>1, <1>2 DEF Own, Awaited
  <2>6. h.kind # "none"
    BY <1>1, <1>2 DEF Own
  <2> QED  BY <2>3, <2>4, <2>5, <2>6
<1>9. Own(s', h, r)
  BY <1>1, <1>2, <1>6, <1>7, <1>8, CalmOwn DEF Finished, Fresh
<1> QED  BY <1>1, <1>2, <1>6, <1>9, HostStep DEF Calm

LEMMA AbortInv ==
  ASSUME RInv, NEW r \in Requests, Abort(r)
  PROVE  RInv'
<1> DEFINE stage == IF host[r].stage = "ended" THEN "finished" ELSE "aborted"
           h == [host[r] EXCEPT !.stage = stage]
           aborted == host[r].stage = "open"
           m == Cleanup(s, r)
           n == ResponseCleanup(m, host[r], r)
<1>1. Sound(s) /\ Own(s, host[r], r) /\ host[r] \in Hosts /\ host[r].stage \in {"open", "ended"}
      /\ host[r].kind \notin Awaited
      /\ UNCHANGED <<pack, recording, up>> /\ host' = [host EXCEPT ![r] = h]
      /\ s' = Finalize(n, r, aborted)
  BY DEF RInv, Abort, Step
<1>2. h \in Hosts /\ h.stage = stage /\ h.kind = host[r].kind /\ stage \in {"finished", "aborted"}
      /\ (host[r].stage = "ended" => stage = "finished") /\ aborted \in BOOLEAN
  BY <1>1 DEF Hosts
<1>3. Calm(s, m, r) /\ (s.ctx[r].listening /\ ~s.ctx[r].cleaned => r \notin m.tracked)
  BY <1>1, CleanupCalm
<1> HIDE DEF h, m, stage, aborted
<1>4. Sound(m)  BY <1>3 DEF Calm
<1>5. Calm(m, n, r)  BY <1>4, ResponseCleanupCalm
<1> HIDE DEF n
<1>6. Calm(s, n, r) /\ Sound(n)  BY <1>1, <1>3, <1>5, CalmCompose DEF Calm
<1>7. Calm(n, s', r) /\ ~s'.ctx[r].armed  BY <1>1, <1>2, <1>6, FinalizeCalm
<1>8. Calm(s, s', r)  BY <1>1, <1>6, <1>7, CalmCompose
<1>9. r \in s'.tracked => TrackedStage(h)
  <2> SUFFICES ASSUME r \in s'.tracked  PROVE h.kind \in {"hono", "hapi"}  BY DEF TrackedStage
  <2>1. r \in m.tracked /\ r \in s.tracked  BY <1>3, <1>5, <1>7 DEF Calm
  <2>3. h.kind \notin {"recorder", "raw", "express"}  BY <1>1, <1>2, <1>3, <2>1 DEF Own
  <2>4. h.kind \in {"none", "recorder", "raw", "hapi", "express", "hono", "wrapped"}  BY <1>2 DEF Hosts
  <2>5. h.kind # "wrapped"  BY <1>1, <1>2 DEF Own, Awaited
  <2>6. h.kind # "none"  BY <1>1, <1>2 DEF Own
  <2> QED  BY <2>3, <2>4, <2>5, <2>6
<1>10. Finished(host[r]) => Finished(h)  BY <1>1, <1>2 DEF Finished
<1>11. ~Fresh(h) /\ h.stage # "none" /\ host[r].stage # "none"  BY <1>1, <1>2 DEF Fresh
<1>12. Own(s', h, r)
  BY <1>1, <1>2, <1>7, <1>8, <1>9, <1>10, <1>11, CalmOwn
<1> QED  BY <1>1, <1>2, <1>8, <1>12, HostStep DEF Calm

LEMMA RequestClosesInv ==
  ASSUME RInv, NEW r \in Requests, RequestCloses(r)
  PROVE  RInv'
<1> DEFINE h == [host[r] EXCEPT !.consumed = TRUE]
<1>1. Sound(s) /\ Own(s, host[r], r) /\ host[r] \in Hosts /\ host[r].stage = "open"
      /\ UNCHANGED <<pack, recording, up>> /\ host' = [host EXCEPT ![r] = h]
      /\ s' = Cleanup(s, r)
  BY DEF RInv, RequestCloses, Step
<1>2. h \in Hosts /\ h.stage = "open" /\ h.kind = host[r].kind /\ h.consumed  BY <1>1 DEF Hosts
<1> HIDE DEF h
<1>3. Calm(s, s', r)  BY <1>1, CleanupCalm
<1>4. Own(s', h, r)
  BY <1>1, <1>2, <1>3, CalmOwn DEF Finished, Fresh, TrackedStage
<1> QED  BY <1>1, <1>2, <1>3, <1>4, HostStep DEF Calm

LEMMA SettleInv ==
  ASSUME RInv, NEW r \in Requests, NEW failed \in BOOLEAN, Settle(r, failed)
  PROVE  RInv'
<1> DEFINE h == [host[r] EXCEPT !.stage = "finished", !.failed = failed]
           m == IfSuccessful(s, h, r)
<1>1. Sound(s) /\ Own(s, host[r], r) /\ host[r] \in Hosts /\ host[r].stage = "open"
      /\ host[r].kind \in Awaited
      /\ UNCHANGED <<pack, recording, up>> /\ host' = [host EXCEPT ![r] = h]
      /\ s' = IF h.kind = "hono" /\ ~s.ctx[r].seen THEN s ELSE RemoveRequest(m, r)
  BY DEF RInv, Settle, Step
<1>2. h \in Hosts /\ h.stage = "finished" /\ h.kind = host[r].kind  BY <1>1 DEF Hosts
<1> HIDE DEF h
<1>3. Calm(s, m, r) /\ Sound(m)  BY <1>1, IfSuccessfulCalm DEF Calm
<1> HIDE DEF m
<1>4. Calm(s, s', r) /\ (h.kind = "hono" \/ r \notin s'.tracked)
  <2>1. CASE h.kind = "hono" /\ ~s.ctx[r].seen  BY <1>1, <2>1, CalmSame
  <2>2. CASE ~(h.kind = "hono" /\ ~s.ctx[r].seen)
    <3>1. s' = RemoveRequest(m, r)  BY <1>1, <2>2
    <3>2. Calm(m, s', r) /\ r \notin s'.tracked  BY <1>3, <3>1, RemoveCalm
    <3> QED  BY <1>1, <1>3, <3>2, CalmCompose
  <2> QED  BY <2>1, <2>2
<1>5. ~s'.ctx[r].armed
  <2>1. ~s.ctx[r].armed  BY <1>1 DEF Own, Awaited
  <2> QED  BY <2>1, <1>4 DEF Calm
<1>6. Own(s', h, r)
  BY <1>1, <1>2, <1>4, <1>5, CalmOwn DEF Finished, Fresh, TrackedStage
<1> QED  BY <1>1, <1>2, <1>4, <1>6, HostStep DEF Calm

LEMMA AgeInv ==
  ASSUME RInv, NEW r \in Requests, Age(r)
  PROVE  RInv'
<1> DEFINE h == [host[r] EXCEPT !.aged = TRUE]
<1>1. Sound(s) /\ Own(s, host[r], r) /\ host[r] \in Hosts /\ host[r].stage # "none"
      /\ UNCHANGED <<s, pack, recording, up>> /\ host' = [host EXCEPT ![r] = h]
  BY DEF RInv, Age, Step, Begun
<1>2. h \in Hosts /\ h.stage = host[r].stage /\ h.kind = host[r].kind /\ h.aged  BY <1>1 DEF Hosts
<1> HIDE DEF h
<1>3. Calm(s, s', r) /\ s' = s  BY <1>1, CalmSame
<1>4. Own(s', h, r)
  BY <1>1, <1>2, <1>3 DEF Own, Finished, Fresh, TrackedStage
<1> QED  BY <1>1, <1>2, <1>3, <1>4, HostStep DEF Calm

(* The timer of onRemove: its request is not fresh.                             *)
LEMMA OnRemoveInv ==
  ASSUME RInv, NEW r \in Requests, OnRemove(r)
  PROVE  RInv'
<1> DEFINE T == s.timers \ {r}
           m == [s EXCEPT !.timers = T]
           h == host[r]
<1>1. Sound(s) /\ Own(s, h, r) /\ h \in Hosts /\ r \in s.timers
      /\ UNCHANGED <<host, pack, recording, up>> /\ s' = ReleaseContext(m, r)
  BY DEF RInv, OnRemove
<1>2. h.stage # "none" /\ ~Fresh(h)  BY <1>1 DEF Own
<1>0. T \in SUBSET Requests  BY <1>1 DEF Sound, States
<1> HIDE DEF T, h
<1>3. /\ m.ctx = s.ctx /\ m.tracked = s.tracked /\ m.timers = T /\ m.clock = s.clock
      /\ m.log = s.log /\ m.compact = s.compact /\ m \in States
  BY <1>0, <1>1 DEF Sound, States
<1> HIDE DEF m
<1>4. Sound(m)  BY <1>1, <1>3 DEF Sound
<1>5. Concerns(r, s, m)  BY <1>1, <1>3 DEF Concerns, T, Sound, States
<1>6. Calm(s, m, r)  BY <1>3, <1>4, <1>5 DEF Calm
<1>7. Calm(s, s', r)  BY <1>1, <1>4, <1>6, ReleaseContextCalm, CalmCompose
<1>8. /\ s'.ctx[r].armed => h.stage \in {"open", "ended"}
      /\ r \in s'.tracked => TrackedStage(h)
      /\ h.stage \in {"ended", "aborted"} => h.kind \notin Awaited
  BY <1>1, <1>7 DEF Own, Calm
<1>9. Own(s', h, r)  BY <1>1, <1>2, <1>7, <1>8, CalmOwn
<1> QED  BY <1>1, <1>7, <1>9, QuietStep DEF Calm, h

LEMMA SweepInv ==
  ASSUME RInv, SweepExpired
  PROVE  RInv'
<1> DEFINE old == {r \in s.tracked \cap Requests : host[r].aged}
           A == s.tracked \ old
           B == s.timers \cup old
<1>1. Sound(s) /\ s \in States /\ (\A r \in Requests : Own(s, host[r], r))
      /\ UNCHANGED <<host, pack, recording, up>> /\ s' = [s EXCEPT !.tracked = A, !.timers = B]
  BY DEF RInv, SweepExpired, Sound
<1>2. A \in SUBSET (Requests \cup Others) /\ B \in SUBSET Requests /\ A \subseteq s.tracked
  BY <1>1 DEF States
<1>3. \A r \in B : r \in s.timers \/ (host[r].aged /\ r \in s.tracked)  OBVIOUS
<1> HIDE DEF A, B
<1>4. /\ s'.ctx = s.ctx /\ s'.tracked = A /\ s'.timers = B /\ s'.clock = s.clock
      /\ s'.log = s.log /\ s'.compact = s.compact /\ s' \in States
  BY <1>1, <1>2 DEF States
<1>5. Sound(s')
  <2>1. IsFiniteSet(A) /\ Cardinality(A) <= Cardinality(s.tracked)  BY <1>1, <1>2, FS_Subset DEF Sound
  <2>2. Cardinality(A) \in Nat /\ Cardinality(s.tracked) \in Nat /\ MaxConcurrent \in Nat
    BY <1>1, <2>1, FS_CardinalityType, ContextAssumption DEF Sound
  <2>3. Cardinality(A) <= MaxConcurrent  BY <1>1, <2>1, <2>2 DEF Sound
  <2> QED  BY <1>1, <1>4, <2>1, <2>3 DEF Sound
<1>6. ASSUME NEW r \in Requests  PROVE Own(s', host[r], r)
  <2>1. Own(s, host[r], r)  BY <1>1
  <2>2. Missed(s', s.ctx[r].events, r) = Missed(s, s.ctx[r].events, r)  BY <1>4 DEF Missed, Of
  <2>3. host[r].stage = "none" => r \notin B  BY <1>3, <2>1 DEF Own
  <2>4. Fresh(host[r]) => r \notin B  BY <1>3, <2>1 DEF Own, Fresh
  <2> QED  BY <1>2, <1>4, <2>1, <2>2, <2>3, <2>4 DEF Own
<1>7. TimelineKept'  BY <1>1 DEF RInv, TimelineKept
<1> QED  BY <1>1, <1>5, <1>6, <1>7 DEF RInv

LEMMA ShutdownInv ==
  ASSUME RInv, Shutdown
  PROVE  RInv'
<1>1. Sound(s) /\ s \in States /\ (\A r \in Requests : Own(s, host[r], r))
      /\ UNCHANGED <<host, pack>> /\ up' = FALSE /\ recording' = FALSE /\ s' = [s EXCEPT !.tracked = {}]
  BY DEF RInv, Shutdown, Sound
<1>4. /\ s'.ctx = s.ctx /\ s'.tracked = {} /\ s'.timers = s.timers /\ s'.clock = s.clock
      /\ s'.log = s.log /\ s'.compact = s.compact /\ s' \in States
  BY <1>1 DEF States
<1>5. Sound(s')
  <2>1. IsFiniteSet({}) /\ Cardinality({}) = 0 /\ MaxConcurrent \in Nat
    BY FS_EmptySet, ContextAssumption
  <2> QED  BY <1>1, <1>4, <2>1 DEF Sound
<1>6. ASSUME NEW r \in Requests  PROVE Own(s', host[r], r)
  <2>1. Own(s, host[r], r)  BY <1>1
  <2>2. Missed(s', s.ctx[r].events, r) = Missed(s, s.ctx[r].events, r)  BY <1>4 DEF Missed, Of
  <2> QED  BY <1>4, <2>1, <2>2 DEF Own
<1>7. TimelineKept'  BY <1>1 DEF RInv, TimelineKept
<1> QED  BY <1>1, <1>5, <1>6, <1>7 DEF RInv

LEMMA StepInv == RInv /\ [RNext]_rvars => RInv'
<1> SUFFICES ASSUME RInv, [RNext]_rvars  PROVE RInv'  OBVIOUS
<1>1. ASSUME NEW r \in Requests, NEW kind \in Kinds[r], Start(r, kind)  PROVE RInv'
  BY <1>1, StartInv
<1>2. ASSUME NEW r \in Requests, NEW what \in CallMarks, Record(r, what) \/ ReadState(r) \/ Send(r) \/ Pause(r)
      PROVE  RInv'
  BY <1>2, RecordInv
<1>3. ASSUME NEW r \in Requests, NEW b \in BOOLEAN,
             Capture(r, b) \/ Answered(r, b) \/ End(r, b) \/ Settle(r, b)
      PROVE  RInv'
  BY <1>3, CaptureInv, AnsweredInv, EndInv, SettleInv
<1>4. ASSUME NEW r \in Requests, Finish(r) \/ Abort(r) \/ RequestCloses(r) \/ Age(r) \/ OnRemove(r)
      PROVE  RInv'
  BY <1>4, FinishInv, AbortInv, RequestClosesInv, AgeInv, OnRemoveInv
<1>5. CASE SwitchMode
  BY <1>5 DEF SwitchMode, RInv, TimelineKept
<1>6. CASE UNCHANGED rvars
  BY <1>6 DEF rvars, RInv, TimelineKept
<1>7. "query" \in CallMarks  BY DEF CallMarks
<1> QED  BY <1>1, <1>2, <1>3, <1>4, <1>5, <1>6, <1>7, SweepInv, ShutdownInv DEF RNext

(* What the contexts and their clocks keep under every order of requests, sends,  *)
(* reads and spans (als-manager.ts, event-clock.ts).                             *)
THEOREM ContextInvariant == RSpec => []RInv
BY InitInv, StepInv, PTL DEF RSpec

(* Lamport's condition holds of every stamp, for any number of requests, any    *)
(* inbound clock and any ceiling: every stamp is past its caller's, and past    *)
(* every stamp before it.                                                       *)
THEOREM StampsAreCausal == RSpec => []CausalOrder
<1>1. RInv => CausalOrder
  <2> SUFFICES ASSUME RInv  PROVE CausalOrder  OBVIOUS
  <2>1. s.log \in Seq(Entries) /\ Sound(s)  BY DEF RInv, Sound, States
  <2>2. ASSUME NEW i \in DOMAIN s.log
        PROVE  /\ s.log[i].what # "locals" => s.log[i].seq > Inbound[s.log[i].req] \/ s.log[i].seq = Ceiling
               /\ \A j \in 1..i - 1 : s.log[j].seq < s.log[i].seq \/ s.log[i].seq = Ceiling
    <3>1. s.log[i].what # "locals" => Past(s.log[i].seq, Inbound[s.log[i].req])  BY <2>1 DEF Sound
    <3>2. \A j \in 1..i - 1 : Past(s.log[i].seq, s.log[j].seq)  BY <2>1 DEF Sound
    <3> QED  BY <3>1, <3>2 DEF Past
  <2> QED  BY <2>2 DEF CausalOrder
<1> QED  BY <1>1, ContextInvariant, PTL

(* The context of a request is tracked as long as it is needed and no longer, and *)
(* a capture made while it is open finds what the request did.                   *)
THEOREM ContextsAreSound == RSpec => []ContextsSound
<1>1. RInv => ContextsSound
  <2> SUFFICES ASSUME RInv  PROVE ContextsSound  OBVIOUS
  <2>1. RTypeOK
    <3>1. Cardinality(s.tracked) <= MaxConcurrent /\ s.timers \subseteq Requests
          /\ s.clock \in 0..Ceiling
      BY DEF RInv, Sound, States
    <3>2. ASSUME NEW r \in Requests
          PROVE  /\ \A i \in s.ctx[r].events : s.log[i].req = r /\ i \notin s.compact
                 /\ s.ctx[r].armed => host[r].kind = "recorder" /\ host[r].stage \in {"open", "ended"}
                 /\ s.ctx[r].hook = "late" => s.ctx[r].seen
      <4>1. Sound(s) /\ Own(s, host[r], r)  BY DEF RInv
      <4> QED  BY <4>1 DEF Own, Sound
    <3> QED  BY <3>1, <3>2 DEF RTypeOK
  <2>2. EndedNotTracked  BY DEF RInv, Own, TrackedStage, EndedNotTracked
  <2> QED  BY <2>1, <2>2 DEF RInv, ContextsSound
<1> QED  BY <1>1, ContextInvariant, PTL

------------------------------------------------------------------------------
(* A fetch that is not amid others is bound to its own slot from the start, so  *)
(* that only fetches amid others ever wait in the queue for somebody's slot.    *)
FetchStates ==
  [stage : {"none", "waiting", "settled"}, prelude : Preludes, bound : Int, recorded : Int, amid : BOOLEAN]
SlotStates ==
  [owner : Fetches \cup {Foreign}, url : {Foreign} \cup {Urls[f] : f \in Fetches}, context : BOOLEAN,
   done : BOOLEAN, error : BOOLEAN, responses : SUBSET Fetches]
OwnedBy(sl, i, f) == i \in DOMAIN sl /\ sl[i].owner = f
FetchSound(fs, sl, f) ==
  /\ ~fs[f].amid /\ fs[f].stage = "waiting" => OwnedBy(sl, fs[f].bound, f)
  /\ ~fs[f].amid /\ fs[f].stage = "settled" => OwnedBy(sl, fs[f].recorded, f)
Distinct(q) == \A i, j \in DOMAIN q : q[i] = q[j] => i = j
QueuedSound(fs, q) == \A i \in DOMAIN q : fs[q[i]].stage = "waiting" /\ fs[q[i]].amid
ResponsesSound(fs, sl) ==
  \A i \in DOMAIN sl : \A g \in sl[i].responses :
    fs[g].stage = "settled" /\ (fs[g].amid \/ sl[i].owner = g)
Bound(fs, q, sl) ==
  /\ fs \in [Fetches -> FetchStates] /\ q \in Seq(Fetches) /\ sl \in Seq(SlotStates)
  /\ Distinct(q) /\ QueuedSound(fs, q) /\ ResponsesSound(fs, sl)
  /\ \A f \in Fetches : FetchSound(fs, sl, f)
OInv == Bound(fetch, queue, slots)

LEMMA SlotTyped ==
  ASSUME NEW owner \in Fetches \cup {Foreign}, NEW context \in BOOLEAN
  PROVE  /\ Slot(owner, context) \in SlotStates
         /\ Slot(owner, context).owner = owner /\ Slot(owner, context).responses = {}
<1> DEFINE u == IF owner = Foreign THEN Foreign ELSE Urls[owner]
<1>1. u \in {Foreign} \cup {Urls[f] : f \in Fetches}  OBVIOUS
<1>2. Slot(owner, context) = [owner |-> owner, url |-> u, context |-> context,
                              done |-> FALSE, error |-> FALSE, responses |-> {}]
  BY DEF Slot
<1> HIDE DEF u
<1> QED  BY <1>1, <1>2 DEF SlotStates

LEMMA SlotAdded ==
  ASSUME NEW sl \in Seq(SlotStates), NEW n \in SlotStates
  PROVE  LET u == Append(sl, n)
         IN  /\ u \in Seq(SlotStates) /\ DOMAIN sl \subseteq DOMAIN u /\ Len(sl) + 1 \in DOMAIN u
             /\ u[Len(sl) + 1] = n /\ Len(sl) \in Nat
             /\ \A i \in DOMAIN u : IF i \in DOMAIN sl THEN u[i] = sl[i] ELSE u[i] = n
OBVIOUS

LEMMA BindTyped ==
  ASSUME NEW fs \in [Fetches -> FetchStates], NEW h \in Fetches, NEW n \in Int
  PROVE  LET u == [fs EXCEPT ![h].bound = n]
         IN  /\ u \in [Fetches -> FetchStates] /\ u[h].bound = n
             /\ \A f \in Fetches : /\ u[f].stage = fs[f].stage /\ u[f].amid = fs[f].amid
                                   /\ u[f].recorded = fs[f].recorded
                                   /\ f # h => u[f] = fs[f]
<1> DEFINE w == [fs[h] EXCEPT !.bound = n]
<1>1. [fs EXCEPT ![h].bound = n] = [fs EXCEPT ![h] = w]  OBVIOUS
<1>2. /\ w \in FetchStates /\ w.bound = n /\ w.stage = fs[h].stage /\ w.amid = fs[h].amid
      /\ w.recorded = fs[h].recorded
  BY DEF FetchStates
<1> HIDE DEF w
<1> QED  BY <1>1, <1>2

(* A slot more changes nothing for the fetches that have one.                  *)
LEMMA SlotKeeps ==
  ASSUME NEW fs, NEW q, NEW sl, Bound(fs, q, sl), NEW n \in SlotStates, n.responses = {}
  PROVE  Bound(fs, q, Append(sl, n))
<1> DEFINE u == Append(sl, n)
<1>1. /\ u \in Seq(SlotStates) /\ DOMAIN sl \subseteq DOMAIN u
      /\ \A i \in DOMAIN u : IF i \in DOMAIN sl THEN u[i] = sl[i] ELSE u[i] = n
  BY SlotAdded DEF Bound
<1> HIDE DEF u
<1>2. ResponsesSound(fs, u)
  <2> SUFFICES ASSUME NEW i \in DOMAIN u, NEW g \in u[i].responses
               PROVE  fs[g].stage = "settled" /\ (fs[g].amid \/ u[i].owner = g)
    BY DEF ResponsesSound
  <2>1. i \in DOMAIN sl /\ u[i] = sl[i]  BY <1>1
  <2> QED  BY <2>1 DEF Bound, ResponsesSound
<1>3. \A f \in Fetches : FetchSound(fs, u, f)  BY <1>1 DEF Bound, FetchSound, OwnedBy
<1> QED  BY <1>1, <1>2, <1>3 DEF Bound, u

LEMMA SettledTyped ==
  ASSUME NEW fs, NEW q, NEW sl, Bound(fs, q, sl), NEW i \in DOMAIN sl
  PROVE  sl[i].responses \subseteq Fetches
<1>1. sl[i] \in SlotStates  BY DEF Bound
<1> QED  BY <1>1 DEF SlotStates

(* A fetch that is amid others is bound to any slot, or to none.               *)
LEMMA BindKeeps ==
  ASSUME NEW fs, NEW q, NEW sl, Bound(fs, q, sl), NEW h \in Fetches, fs[h].amid, NEW n \in Int
  PROVE  Bound([fs EXCEPT ![h].bound = n], q, sl)
<1> DEFINE u == [fs EXCEPT ![h].bound = n]
<1>0. fs \in [Fetches -> FetchStates]  BY DEF Bound
<1>1. /\ u \in [Fetches -> FetchStates]
      /\ \A f \in Fetches : /\ u[f].stage = fs[f].stage /\ u[f].amid = fs[f].amid
                            /\ u[f].recorded = fs[f].recorded
                            /\ f # h => u[f] = fs[f]
  BY <1>0, BindTyped
<1> HIDE DEF u
<1>2. \A i \in DOMAIN q : q[i] \in Fetches  BY DEF Bound
<1>3. QueuedSound(u, q)  BY <1>1, <1>2 DEF Bound, QueuedSound
<1>4. ResponsesSound(u, sl)
  <2>1. \A i \in DOMAIN sl : sl[i].responses \subseteq Fetches  BY SettledTyped
  <2> QED  BY <1>1, <2>1 DEF Bound, ResponsesSound
<1>5. \A f \in Fetches : FetchSound(u, sl, f)
  <2> SUFFICES ASSUME NEW f \in Fetches  PROVE FetchSound(u, sl, f)  OBVIOUS
  <2>1. FetchSound(fs, sl, f)  BY DEF Bound
  <2>2. CASE f = h  BY <1>1, <2>2 DEF FetchSound
  <2>3. CASE f # h  BY <1>1, <2>1, <2>3 DEF FetchSound
  <2> QED  BY <2>2, <2>3
<1> QED  BY <1>1, <1>3, <1>4, <1>5 DEF Bound, u

(* Part of the queue, in whatever order.                                       *)
LEMMA QueueKeeps ==
  ASSUME NEW fs, NEW q, NEW sl, Bound(fs, q, sl), NEW p \in Seq(Fetches), Distinct(p),
         \A i \in DOMAIN p : \E j \in DOMAIN q : p[i] = q[j]
  PROVE  Bound(fs, p, sl)
BY DEF Bound, QueuedSound

LEMMA TailPart ==
  ASSUME NEW q \in Seq(Fetches), q # << >>, Distinct(q)
  PROVE  /\ Tail(q) \in Seq(Fetches) /\ Distinct(Tail(q))
         /\ \A i \in DOMAIN Tail(q) : \E j \in DOMAIN q : Tail(q)[i] = q[j]
         /\ Head(q) = q[1] /\ 1 \in DOMAIN q /\ Head(q) \in Fetches
<1> DEFINE p == Tail(q)
<1>1. /\ p \in Seq(Fetches) /\ DOMAIN p = 1 .. Len(q) - 1 /\ DOMAIN q = 1 .. Len(q) /\ Len(q) \in Nat
      /\ \A i \in 1 .. Len(q) - 1 : p[i] = q[i + 1]
      /\ Head(q) = q[1] /\ 1 \in DOMAIN q /\ Head(q) \in Fetches
  OBVIOUS
<1> HIDE DEF p
<1>2. \A i \in DOMAIN p : i + 1 \in DOMAIN q /\ p[i] = q[i + 1]  BY <1>1
<1>3. \A i, j \in DOMAIN p : p[i] = p[j] => i = j
  <2> SUFFICES ASSUME NEW i \in DOMAIN p, NEW j \in DOMAIN p, p[i] = p[j]  PROVE i = j  OBVIOUS
  <2>1. i + 1 = j + 1  BY <1>2 DEF Distinct
  <2> QED  BY <1>1, <2>1
<1> QED  BY <1>1, <1>2, <1>3 DEF Distinct, p

(* A slot is made, and the head of the queue, if any, is bound to it.          *)
LEMMA CreateKeeps ==
  ASSUME NEW fs, NEW q, Bound(fs, q, slots),
         NEW owner \in Fetches \cup {Foreign}, NEW context \in BOOLEAN,
         Create(fs, q, owner, context)
  PROVE  OInv'
<1> DEFINE n == Slot(owner, context)
<1>1. n \in SlotStates /\ n.responses = {}  BY SlotTyped
<1>2. slots' = Append(slots, n)  BY DEF Create
<1> HIDE DEF n
<1>3. Bound(fs, q, slots')  BY <1>1, <1>2, SlotKeeps
<1>4. CASE q = << >>
  <2>1. queue' = q /\ fetch' = fs  BY <1>4 DEF Create
  <2> QED  BY <1>3, <2>1 DEF OInv
<1>5. CASE q # << >>
  <2> DEFINE h == Head(q)
  <2>1. queue' = Tail(q) /\ fetch' = [fs EXCEPT ![h].bound = Len(slots) + 1]  BY <1>5 DEF Create
  <2>2. q \in Seq(Fetches) /\ Distinct(q) /\ Len(slots) + 1 \in Int  BY DEF Bound
  <2>3. /\ queue' \in Seq(Fetches) /\ Distinct(queue')
        /\ \A i \in DOMAIN queue' : \E j \in DOMAIN q : queue'[i] = q[j]
        /\ h = q[1] /\ 1 \in DOMAIN q /\ h \in Fetches
    BY <1>5, <2>1, <2>2, TailPart
  <2>4. fs[h].amid  BY <2>3 DEF Bound, QueuedSound
  <2> HIDE DEF h
  <2>5. Bound(fetch', q, slots')  BY <1>3, <2>1, <2>2, <2>3, <2>4, BindKeeps
  <2>6. Bound(fetch', queue', slots')  BY <2>3, <2>5, QueueKeeps
  <2> QED  BY <2>6 DEF OInv
<1> QED  BY <1>4, <1>5

LEMMA EnterKeeps ==
  ASSUME OInv, NEW f \in Fetches, NEW prelude \in Preludes, Enter(f, prelude)
  PROVE  OInv'
<1> DEFINE amid == prelude # "now" \/ \E g \in Fetches : Astray(g)
           w == [fetch[f] EXCEPT !.stage = "waiting", !.prelude = prelude, !.amid = amid]
           fs == [fetch EXCEPT ![f] = w]
           q == Append(queue, f)
<1>1. fetch[f].stage = "none" /\ fetch[f] \in FetchStates /\ amid \in BOOLEAN
  BY DEF OInv, Bound, Enter
<1>2. IF prelude = "now" THEN Create(fs, q, f, TRUE) ELSE fetch' = fs /\ queue' = q /\ UNCHANGED slots
  BY DEF Enter
<1>3. (prelude # "now" => amid) /\ (queue # << >> => amid)
  <2>0. queue # << >> => 1 \in DOMAIN queue  BY DEF OInv, Bound
  <2>1. \A i \in DOMAIN queue : queue[i] \in Fetches /\ Astray(queue[i])
    BY DEF OInv, Bound, QueuedSound, Astray, Waiting
  <2> QED  BY <2>0, <2>1
<1> HIDE DEF amid
<1>4. w \in FetchStates /\ w.stage = "waiting" /\ w.amid = amid  BY <1>1 DEF FetchStates
<1> HIDE DEF w
<1>5. fs \in [Fetches -> FetchStates] /\ fs[f] = w /\ \A g \in Fetches : g # f => fs[g] = fetch[g]
  BY <1>4 DEF OInv, Bound
<1> HIDE DEF fs
<1>6. /\ q \in Seq(Fetches) /\ Len(queue) \in Nat /\ DOMAIN queue = 1 .. Len(queue)
      /\ DOMAIN q = 1 .. Len(queue) + 1 /\ q[Len(queue) + 1] = f /\ Len(q) = Len(queue) + 1
      /\ \A i \in DOMAIN queue : q[i] = queue[i] /\ queue[i] \in Fetches
  BY DEF OInv, Bound
<1>7. \A i \in DOMAIN queue : queue[i] # f  BY <1>1 DEF OInv, Bound, QueuedSound
<1>8. ResponsesSound(fs, slots)
  <2> SUFFICES ASSUME NEW i \in DOMAIN slots, NEW g \in slots[i].responses
               PROVE  fs[g].stage = "settled" /\ (fs[g].amid \/ slots[i].owner = g)
    BY DEF ResponsesSound
  <2>1. g \in Fetches  BY SettledTyped DEF OInv
  <2>2. fetch[g].stage = "settled" /\ (fetch[g].amid \/ slots[i].owner = g)
    BY DEF OInv, Bound, ResponsesSound
  <2>3. g # f  BY <1>1, <2>2
  <2> QED  BY <1>5, <2>1, <2>2, <2>3
<1>9. CASE amid
  <2> HIDE DEF q
  <2>1. QueuedSound(fs, q)
    <3> SUFFICES ASSUME NEW i \in DOMAIN q  PROVE fs[q[i]].stage = "waiting" /\ fs[q[i]].amid
      BY DEF QueuedSound
    <3>1. CASE i \in DOMAIN queue
      <4>1. q[i] = queue[i] /\ queue[i] \in Fetches /\ queue[i] # f  BY <1>6, <1>7, <3>1
      <4> QED  BY <1>5, <3>1, <4>1 DEF OInv, Bound, QueuedSound
    <3>2. CASE i \notin DOMAIN queue
      <4>1. q[i] = f  BY <1>6, <3>2
      <4> QED  BY <1>4, <1>5, <1>9, <4>1
    <3> QED  BY <3>1, <3>2
  <2>2. Distinct(q)
    <3>1. Distinct(queue)  BY DEF OInv, Bound
    <3> QED  BY <1>6, <1>7, <3>1 DEF Distinct
  <2>4. \A g \in Fetches : FetchSound(fs, slots, g)
    BY <1>4, <1>5, <1>9 DEF OInv, Bound, FetchSound
  <2>5. Bound(fs, q, slots)  BY <1>5, <1>6, <1>8, <2>1, <2>2, <2>4 DEF Bound, OInv
  <2>6. CASE prelude # "now"  BY <1>2, <2>5, <2>6 DEF OInv
  <2>7. CASE prelude = "now"
    <3>1. Create(fs, q, f, TRUE)  BY <1>2, <2>7
    <3> QED  BY <2>5, <3>1, CreateKeeps
  <2> QED  BY <2>6, <2>7
<1>10. CASE ~amid
  <2> DEFINE n == Slot(f, TRUE)
  <2>1. prelude = "now" /\ queue = << >>  BY <1>3, <1>10
  <2>2. q # << >> /\ Head(q) = f /\ Tail(q) = << >>
    BY <2>1
  <2>3. slots' = Append(slots, n) /\ queue' = << >> /\ fetch' = [fs EXCEPT ![f].bound = Len(slots) + 1]
    BY <1>2, <2>1, <2>2 DEF Create
  <2>4. n \in SlotStates /\ n.owner = f /\ n.responses = {}  BY SlotTyped
  <2> HIDE DEF n, q
  <2>5. /\ slots' \in Seq(SlotStates) /\ DOMAIN slots \subseteq DOMAIN slots' /\ Len(slots) + 1 \in DOMAIN slots'
        /\ slots'[Len(slots) + 1] = n /\ Len(slots) + 1 \in Int
        /\ \A i \in DOMAIN slots' : IF i \in DOMAIN slots THEN slots'[i] = slots[i] ELSE slots'[i] = n
    <3>1. slots \in Seq(SlotStates)  BY DEF OInv, Bound
    <3>2. Len(slots) \in Nat  BY <3>1
    <3> QED  BY <2>3, <2>4, <3>1, <3>2, SlotAdded
  <2>6. /\ fetch' \in [Fetches -> FetchStates] /\ fetch'[f].bound = Len(slots) + 1
        /\ \A g \in Fetches : /\ fetch'[g].stage = fs[g].stage /\ fetch'[g].amid = fs[g].amid
                              /\ g # f => fetch'[g] = fs[g]
    <3> DEFINE k == Len(slots) + 1
               u == [fs EXCEPT ![f].bound = k]
    <3>1. k \in Int /\ fetch' = u  BY <2>3, <2>5
    <3> HIDE DEF k
    <3>2. /\ u \in [Fetches -> FetchStates] /\ u[f].bound = k
          /\ \A g \in Fetches : /\ u[g].stage = fs[g].stage /\ u[g].amid = fs[g].amid
                                /\ g # f => u[g] = fs[g]
      BY <1>5, <3>1, BindTyped
    <3> QED  BY <3>1, <3>2 DEF k
  <2>7. queue' \in Seq(Fetches) /\ Distinct(queue') /\ QueuedSound(fetch', queue')
    BY <2>3 DEF Distinct, QueuedSound
  <2>8. ResponsesSound(fetch', slots')
    <3> SUFFICES ASSUME NEW i \in DOMAIN slots', NEW g \in slots'[i].responses
                 PROVE  fetch'[g].stage = "settled" /\ (fetch'[g].amid \/ slots'[i].owner = g)
      BY DEF ResponsesSound
    <3>1. i \in DOMAIN slots /\ slots'[i] = slots[i]  BY <2>4, <2>5
    <3>2. g \in Fetches  BY <3>1, SettledTyped DEF OInv
    <3> QED  BY <1>8, <2>6, <3>1, <3>2 DEF ResponsesSound
  <2>9. \A g \in Fetches : FetchSound(fetch', slots', g)
    <3> SUFFICES ASSUME NEW g \in Fetches  PROVE FetchSound(fetch', slots', g)  OBVIOUS
    <3>1. CASE g = f
      BY <1>4, <1>5, <2>4, <2>5, <2>6, <3>1 DEF FetchSound, OwnedBy
    <3>2. CASE g # f
      <4>1. FetchSound(fetch, slots, g)  BY DEF OInv, Bound
      <4> QED  BY <1>5, <2>5, <2>6, <3>2, <4>1 DEF FetchSound, OwnedBy
    <3> QED  BY <3>1, <3>2
  <2> QED  BY <2>5, <2>6, <2>7, <2>8, <2>9 DEF OInv, Bound
<1> QED  BY <1>9, <1>10

(* The fetch leaves the queue, and the others keep their order.                *)
LEMMA UnqueuedSound ==
  ASSUME queue \in Seq(Fetches), Distinct(queue), NEW f \in Fetches
  PROVE  /\ Unqueued(f) \in Seq(Fetches) /\ Distinct(Unqueued(f))
         /\ \A i \in DOMAIN Unqueued(f) : Unqueued(f)[i] # f /\ \E j \in DOMAIN queue : Unqueued(f)[i] = queue[j]
<1> DEFINE q == Unqueued(f)
<1>0. DOMAIN queue = 1 .. Len(queue) /\ Len(queue) \in Nat  OBVIOUS
<1>1. CASE \A i \in DOMAIN queue : queue[i] # f
  <2>1. q = queue  BY <1>1 DEF Unqueued
  <2> HIDE DEF q
  <2> QED  BY <1>1, <2>1 DEF q
<1>2. CASE \E i \in DOMAIN queue : queue[i] = f
  <2> DEFINE at == CHOOSE i \in DOMAIN queue : queue[i] = f
             a == SubSeq(queue, 1, at - 1)
             b == SubSeq(queue, at + 1, Len(queue))
  <2>1. at \in DOMAIN queue /\ queue[at] = f  BY <1>2
  <2>2. q = a \o b  BY <1>2 DEF Unqueued
  <2> HIDE DEF at, q
  <2>3. /\ a \in Seq(Fetches) /\ b \in Seq(Fetches) /\ Len(a) = at - 1 /\ Len(b) = Len(queue) - at
        /\ \A i \in 1 .. at - 1 : a[i] = queue[i]
        /\ \A i \in 1 .. Len(queue) - at : b[i] = queue[at + i]
    <3>1. at \in Nat /\ at >= 1 /\ at <= Len(queue)  BY <1>0, <2>1
    <3>2. /\ 1 \in Int /\ at - 1 \in Int /\ at + 1 \in Int /\ Len(queue) \in Int
          /\ \A i \in 1 .. at - 1 : queue[i] \in Fetches
          /\ \A i \in at + 1 .. Len(queue) : queue[i] \in Fetches
      BY <1>0, <3>1
    <3>3. /\ a \in Seq(Fetches) /\ Len(a) = IF 1 <= at - 1 THEN (at - 1) - 1 + 1 ELSE 0
          /\ \A i \in 1 .. (at - 1) - 1 + 1 : a[i] = queue[1 + i - 1]
      BY <3>2, SubSeqProperties
    <3>4. /\ b \in Seq(Fetches)
          /\ Len(b) = IF at + 1 <= Len(queue) THEN Len(queue) - (at + 1) + 1 ELSE 0
          /\ \A i \in 1 .. Len(queue) - (at + 1) + 1 : b[i] = queue[(at + 1) + i - 1]
      BY <3>2, SubSeqProperties
    <3> HIDE DEF a, b
    <3>5. Len(a) = at - 1 /\ \A i \in 1 .. at - 1 : a[i] = queue[i]  BY <3>1, <3>3
    <3>6. Len(b) = Len(queue) - at
      <4>1. Len(b) = IF at + 1 <= Len(queue) THEN Len(queue) - (at + 1) + 1 ELSE 0  BY <3>4
      <4> DEFINE n == Len(queue)
      <4>2. n \in Nat  BY <1>0
      <4> HIDE DEF n
      <4>3. CASE at + 1 <= n  BY <3>1, <4>1, <4>2, <4>3 DEF n
      <4>4. CASE ~(at + 1 <= n)
        <5>1. n = at  BY <3>1, <4>2, <4>4 DEF n
        <5> QED  BY <4>1, <4>4, <5>1 DEF n
      <4> QED  BY <4>3, <4>4
    <3>7. ASSUME NEW i \in 1 .. Len(queue) - at  PROVE b[i] = queue[at + i]
      <4>1. i \in 1 .. Len(queue) - (at + 1) + 1 /\ (at + 1) + i - 1 = at + i  BY <1>0, <3>1
      <4>2. b[i] = queue[(at + 1) + i - 1]  BY <3>4, <4>1
      <4> QED  BY <4>1, <4>2
    <3> QED  BY <3>3, <3>4, <3>5, <3>6, <3>7
  <2> HIDE DEF a, b
  <2>4. /\ q \in Seq(Fetches) /\ Len(q) = Len(a) + Len(b)
        /\ \A i \in 1 .. Len(a) + Len(b) : q[i] = IF i <= Len(a) THEN a[i] ELSE b[i - Len(a)]
    BY <2>2, <2>3, ConcatProperties
  <2>6. DOMAIN q = 1 .. Len(queue) - 1 /\ at \in 1 .. Len(queue)
    <3>1. q \in Seq(Fetches) /\ Len(q) = Len(a) + Len(b)  BY <2>4
    <3>2. Len(q) = Len(queue) - 1 /\ at \in 1 .. Len(queue)  BY <1>0, <2>1, <2>3, <3>1
    <3> QED  BY <3>1, <3>2
  <2>5. \A i \in 1 .. Len(queue) - 1 : q[i] = IF i < at THEN queue[i] ELSE queue[i + 1]
    <3> SUFFICES ASSUME NEW i \in 1 .. Len(queue) - 1
                 PROVE  q[i] = IF i < at THEN queue[i] ELSE queue[i + 1]
      OBVIOUS
    <3>0. i \in 1 .. Len(a) + Len(b)  BY <1>0, <2>1, <2>3
    <3>1. CASE i < at
      <4>1. i <= Len(a) /\ i \in 1 .. at - 1  BY <1>0, <2>1, <2>3, <3>1
      <4> QED  BY <2>3, <2>4, <3>0, <3>1, <4>1
    <3>2. CASE ~(i < at)
      <4>1. i - (at - 1) \in 1 .. Len(queue) - at /\ ~(i <= Len(a))  BY <1>0, <2>3, <2>6, <3>2
      <4>2. q[i] = b[i - (at - 1)]  BY <2>3, <2>4, <3>0, <4>1
      <4>3. at + (i - (at - 1)) = i + 1  BY <1>0, <2>1
      <4> QED  BY <2>3, <3>2, <4>1, <4>2, <4>3
    <3> QED  BY <3>1, <3>2
  <2>7. \A i \in DOMAIN q : LET j == IF i < at THEN i ELSE i + 1 IN j \in DOMAIN queue /\ j # at /\ q[i] = queue[j]
    BY <1>0, <2>5, <2>6
  <2>8. \A i \in DOMAIN q : q[i] # f /\ \E j \in DOMAIN queue : q[i] = queue[j]
    BY <2>1, <2>7 DEF Distinct
  <2>9. Distinct(q)
    <3> SUFFICES ASSUME NEW i \in DOMAIN q, NEW j \in DOMAIN q, q[i] = q[j]  PROVE i = j  BY DEF Distinct
    <3>1. (IF i < at THEN i ELSE i + 1) = (IF j < at THEN j ELSE j + 1)  BY <2>7 DEF Distinct
    <3> QED  BY <1>0, <2>6, <3>1
  <2> QED  BY <2>4, <2>8, <2>9 DEF q
<1> QED  BY <1>1, <1>2

LEMMA BindTimeoutKeeps ==
  ASSUME OInv, NEW f \in Fetches, BindTimeout(f)
  PROVE  OInv'
<1>1. /\ fetch[f].stage = "waiting" /\ fetch[f].bound = Unbound /\ slots' = slots /\ queue' = Unqueued(f)
      /\ fetch' = [fetch EXCEPT ![f].bound = Null]
  BY DEF BindTimeout, Waiting
<1>2. /\ queue' \in Seq(Fetches) /\ Distinct(queue')
      /\ \A i \in DOMAIN queue' : \E j \in DOMAIN queue : queue'[i] = queue[j]
  BY <1>1, UnqueuedSound DEF OInv, Bound
<1>4. fetch[f].amid
  <2>1. FetchSound(fetch, slots, f) /\ slots \in Seq(SlotStates)  BY DEF OInv, Bound
  <2>2. Unbound \notin DOMAIN slots  BY <2>1 DEF Unbound
  <2> QED  BY <1>1, <2>1, <2>2 DEF FetchSound, OwnedBy
<1>5. Null \in Int  BY DEF Null
<1>6. Bound(fetch', queue, slots)  BY <1>1, <1>4, <1>5, BindKeeps DEF OInv
<1>7. Bound(fetch', queue', slots)  BY <1>2, <1>6, QueueKeeps
<1> QED  BY <1>1, <1>7 DEF OInv

(* A set of positions that is not empty has a last one.                        *)
LEMMA LastOf ==
  ASSUME NEW n \in Nat, NEW S \in SUBSET (1 .. n), S # {}
  PROVE  \E k \in S : \A j \in S : j <= k
<1> DEFINE D == {n - k : k \in S}
<1>1. D \subseteq Nat /\ D # {}
  <2>1. \A k \in S : k \in 1 .. n  OBVIOUS
  <2>2. \A k \in 1 .. n : n - k \in Nat  OBVIOUS
  <2> QED  BY <2>1, <2>2
<1>2. PICK m \in D : \A d \in D : ~(<<d, m>> \in OpToRel(<, Nat))
  <2> HIDE DEF D
  <2>1. IsWellFoundedOn(OpToRel(<, Nat), Nat)  BY NatLessThanWellFounded
  <2> QED  BY <1>1, <2>1, WFMin, Zenon
<1>3. \A d \in D : ~(d < m)
  <2> HIDE DEF D
  <2> QED  BY <1>1, <1>2 DEF OpToRel
<1>4. PICK k \in S : m = n - k  OBVIOUS
<1>5. \A j \in S : ~(n - j < m)  BY <1>3
<1>6. \A j \in S : j <= k  BY <1>4, <1>5
<1> QED  BY <1>6

LEMMA SeqTyped ==
  ASSUME NEW S, NEW n \in Nat, NEW q \in [1 .. n -> S]
  PROVE  q \in Seq(S)
OBVIOUS

LEMMA SettleFetchKeeps ==
  ASSUME OInv, NEW f \in Fetches, NEW ok \in BOOLEAN, SettleFetch(f, ok)
  PROVE  OInv'
<1> DEFINE i == Resolved(f)
           n == Slot(f, TRUE)
           all == IF i > Len(slots) THEN Append(slots, n) ELSE slots
           d == Recorded(all[i], f, ok)
           w == [fetch[f] EXCEPT !.stage = "settled", !.recorded = i]
<1>1. /\ fetch[f].stage = "waiting" /\ queue' = Unqueued(f)
      /\ slots' = [all EXCEPT ![i] = d]
      /\ fetch' = [fetch EXCEPT ![f] = w]
  <2>1. fetch[f].stage = "waiting" /\ queue' = Unqueued(f) /\ fetch' = [fetch EXCEPT ![f] = w]
    BY DEF SettleFetch, Waiting
  <2>2. slots' = [all EXCEPT ![i] = d]  BY DEF SettleFetch
  <2> QED  BY <2>1, <2>2
<1>2. n \in SlotStates /\ n.owner = f /\ n.responses = {}  BY SlotTyped
<1>3. fetch[f] \in FetchStates /\ fetch \in [Fetches -> FetchStates] /\ slots \in Seq(SlotStates)
  BY DEF OInv, Bound
<1>4. ~fetch[f].amid => i \in DOMAIN slots /\ slots[i].owner = f
  <2> SUFFICES ASSUME ~fetch[f].amid  PROVE i \in DOMAIN slots /\ slots[i].owner = f  OBVIOUS
  <2>1. OwnedBy(slots, fetch[f].bound, f)  BY <1>1 DEF OInv, Bound, FetchSound
  <2>2. fetch[f].bound \notin {Unbound, Null}  BY <1>3, <2>1 DEF OwnedBy, Unbound, Null
  <2> QED  BY <2>1, <2>2 DEF Resolved, OwnedBy
<1>5. i \in Int
  <2>1. fetch[f].bound \in Int /\ Len(slots) \in Nat /\ Alike(f) \subseteq 1 .. Len(slots)
    BY <1>3 DEF FetchStates, Alike
  <2>2. Alike(f) # {} => \E k \in Alike(f) : \A j \in Alike(f) : j <= k
    BY <2>1, LastOf
  <2> QED  BY <2>1, <2>2 DEF Resolved
<1>6. w \in FetchStates /\ w.stage = "settled" /\ w.recorded = i /\ w.amid = fetch[f].amid
  <2> HIDE DEF i
  <2> QED  BY <1>3, <1>5 DEF FetchStates
<1> HIDE DEF i, n
<1>7. Bound(fetch, queue, all)
  <2>1. CASE i > Len(slots)
    <3>1. all = Append(slots, n)  BY <2>1
    <3> QED  BY <1>2, <3>1, SlotKeeps DEF OInv
  <2>2. CASE ~(i > Len(slots))
    <3>1. all = slots  BY <2>2
    <3> QED  BY <3>1 DEF OInv
  <2> QED  BY <2>1, <2>2
<1>8. ~fetch[f].amid => i \in DOMAIN all /\ all[i].owner = f
  <2> SUFFICES ASSUME ~fetch[f].amid  PROVE i \in DOMAIN all /\ all[i].owner = f  OBVIOUS
  <2>1. i \in DOMAIN slots /\ slots[i].owner = f /\ ~(i > Len(slots))  BY <1>3, <1>4
  <2> QED  BY <2>1
<1> HIDE DEF all
<1>9. all \in Seq(SlotStates) /\ all \in [1 .. Len(all) -> SlotStates]  BY <1>7 DEF Bound
<1>10. i \in DOMAIN all => d \in SlotStates /\ d.owner = all[i].owner /\ d.responses = all[i].responses \cup {f}
  <2> SUFFICES ASSUME i \in DOMAIN all
               PROVE  d \in SlotStates /\ d.owner = all[i].owner /\ d.responses = all[i].responses \cup {f}
    OBVIOUS
  <2> DEFINE o == all[i]  e == o.error \/ ~ok  rs == o.responses \cup {f}
  <2>1. o \in SlotStates  BY <1>9
  <2>2. e \in BOOLEAN /\ rs \subseteq Fetches  BY <2>1 DEF SlotStates
  <2>3. d = [o EXCEPT !.done = TRUE, !.error = e, !.context = TRUE, !.responses = rs]  BY DEF Recorded
  <2> HIDE DEF o, e, rs, d
  <2>4. d \in SlotStates /\ d.owner = o.owner /\ d.responses = rs  BY <2>1, <2>2, <2>3 DEF SlotStates
  <2> QED  BY <2>4 DEF o, rs
<1> HIDE DEF d, w
<1>11. slots' \in Seq(SlotStates) /\ DOMAIN slots' = DOMAIN all
       /\ \A j \in DOMAIN all : slots'[j] = IF j = i THEN d ELSE all[j]
  <2>1. DOMAIN slots' = DOMAIN all /\ \A j \in DOMAIN all : slots'[j] = IF j = i THEN d ELSE all[j]
    BY <1>1, <1>9
  <2>2. slots' \in [1 .. Len(all) -> SlotStates]  BY <1>1, <1>9, <1>10, <2>1
  <2>3. Len(all) \in Nat  BY <1>9
  <2>4. slots' \in Seq(SlotStates)  BY <2>2, <2>3, SeqTyped
  <2> QED  BY <2>1, <2>4
<1>12. fetch' \in [Fetches -> FetchStates] /\ fetch'[f] = w /\ \A g \in Fetches : g # f => fetch'[g] = fetch[g]
  BY <1>1, <1>3, <1>6
<1>13. /\ queue' \in Seq(Fetches) /\ Distinct(queue')
       /\ \A j \in DOMAIN queue' : queue'[j] # f /\ \E k \in DOMAIN queue : queue'[j] = queue[k]
  BY <1>1, UnqueuedSound DEF OInv, Bound
<1>14. QueuedSound(fetch', queue')
  <2>1. \A k \in DOMAIN queue : queue[k] \in Fetches  BY DEF OInv, Bound
  <2> QED  BY <1>12, <1>13, <2>1 DEF OInv, Bound, QueuedSound
<1>15. ResponsesSound(fetch', slots')
  <2> SUFFICES ASSUME NEW j \in DOMAIN all, NEW g \in slots'[j].responses
               PROVE  fetch'[g].stage = "settled" /\ (fetch'[g].amid \/ slots'[j].owner = g)
    BY <1>11 DEF ResponsesSound
  <2>1. slots'[j].owner = all[j].owner  BY <1>10, <1>11
  <2>2. CASE g = f
    <3>1. fetch'[g].stage = "settled" /\ fetch'[g].amid = fetch[f].amid  BY <1>6, <1>12, <2>2
    <3>2. j = i
      <4> SUFFICES ASSUME j # i  PROVE FALSE  OBVIOUS
      <4>1. f \in all[j].responses  BY <1>11, <2>2
      <4> QED  BY <1>1, <1>7, <4>1 DEF Bound, ResponsesSound
    <3>3. fetch[f].amid \/ slots'[j].owner = g  BY <1>8, <2>1, <2>2, <3>2
    <3> QED  BY <3>1, <3>3
  <2>3. CASE g # f
    <3>1. g \in all[j].responses  BY <1>10, <1>11, <2>3
    <3>2. g \in Fetches  BY <1>7, <3>1, SettledTyped
    <3>3. fetch[g].stage = "settled" /\ (fetch[g].amid \/ all[j].owner = g)
      BY <1>7, <3>1 DEF Bound, ResponsesSound
    <3> QED  BY <1>12, <2>1, <2>3, <3>2, <3>3
  <2> QED  BY <2>2, <2>3
<1>16. \A g \in Fetches : FetchSound(fetch', slots', g)
  <2> SUFFICES ASSUME NEW g \in Fetches  PROVE FetchSound(fetch', slots', g)  OBVIOUS
  <2>0. \A j \in DOMAIN all : slots'[j].owner = all[j].owner  BY <1>10, <1>11
  <2>1. CASE g = f
    BY <1>6, <1>8, <1>11, <1>12, <2>0, <2>1 DEF FetchSound, OwnedBy
  <2>2. CASE g # f
    <3>1. FetchSound(fetch, all, g)  BY <1>7 DEF Bound
    <3> QED  BY <1>11, <1>12, <2>0, <2>2, <3>1 DEF FetchSound, OwnedBy
  <2> QED  BY <2>1, <2>2
<1> QED  BY <1>11, <1>12, <1>13, <1>14, <1>15, <1>16 DEF OInv, Bound

LEMMA InitBound == OInit => OInv
<1> SUFFICES ASSUME OInit  PROVE OInv  OBVIOUS
<1>1. fetch \in [Fetches -> FetchStates]  BY DEF OInit, FetchStates, Preludes, Unbound, Null
<1>2. \A f \in Fetches : fetch[f].stage = "none"  BY DEF OInit
<1>3. DOMAIN queue = {} /\ DOMAIN slots = {} /\ queue \in Seq(Fetches) /\ slots \in Seq(SlotStates)
  BY DEF OInit
<1> QED  BY <1>1, <1>2, <1>3 DEF OInv, Bound, Distinct, QueuedSound, ResponsesSound, FetchSound

LEMMA StepBound == OInv /\ [ONext]_ovars => OInv'
<1> SUFFICES ASSUME OInv, [ONext]_ovars  PROVE OInv'  OBVIOUS
<1>1. ASSUME NEW f \in Fetches, NEW p \in Preludes, Enter(f, p)  PROVE OInv'  BY <1>1, EnterKeeps
<1>2. ASSUME NEW f \in Fetches, Dispatch(f) \/ Redirect(f)  PROVE OInv'
  <2>1. Create(fetch, queue, f, TRUE)  BY <1>2 DEF Dispatch, Redirect
  <2> QED  BY <2>1, CreateKeeps DEF OInv
<1>3. CASE DirectCall
  <2>1. Create(fetch, queue, Foreign, FALSE)  BY <1>3 DEF DirectCall
  <2> QED  BY <2>1, CreateKeeps DEF OInv
<1>4. CASE UNCHANGED ovars  BY <1>4 DEF ovars, OInv
<1> QED  BY <1>1, <1>2, <1>3, <1>4, BindTimeoutKeeps, SettleFetchKeeps DEF ONext

(* A fetch that dispatched as it was called is recorded in its own slot,        *)
(* whatever comes between, for any number of fetches, slots and urls.           *)
THEOREM FetchesHaveTheirOwnSlot == OSpec => []OwnSlot
<1>1. OInv => OwnSlot
  <2> SUFFICES ASSUME OInv  PROVE OwnSlot  OBVIOUS
  <2>1. ASSUME NEW f \in Fetches, fetch[f].stage = "settled", ~fetch[f].amid
        PROVE  /\ slots[fetch[f].recorded].owner = f
               /\ \A g \in slots[fetch[f].recorded].responses : g = f \/ fetch[g].amid
    <3>1. OwnedBy(slots, fetch[f].recorded, f)  BY <2>1 DEF OInv, Bound, FetchSound
    <3> QED  BY <3>1 DEF OInv, Bound, OwnedBy, ResponsesSound
  <2>2. \A i \in DOMAIN queue : Waiting(queue[i])  BY DEF OInv, Bound, QueuedSound, Waiting
  <2> QED  BY <2>1, <2>2 DEF OwnSlot
<1> QED  BY <1>1, InitBound, StepBound, PTL DEF OSpec

------------------------------------------------------------------------------
(* A wrapper of ours that is on is the one that the store knows, and its owner  *)
(* is there; what a function wraps is older than itself, down to the driver.    *)
Functions_ ==
  [kind : {"driver", "sdk", "other"}, pred : Nat, owner : Sdks \cup {"none"}, active : BOOLEAN]
Older(fs) ==
  \A f \in DOMAIN fs : fs[f].pred \in 0 .. f - 1 /\ (fs[f].pred = 0 <=> f = 1) /\ (fs[f].kind = "driver" <=> f = 1)
OnlyOn(fs, st) == \A f \in DOMAIN fs : fs[f].kind = "sdk" /\ fs[f].active => f = st
Wrapped(fs, cur) == fs \in Seq(Functions_) /\ Older(fs) /\ cur \in DOMAIN fs
WInv ==
  /\ Wrapped(fns, current) /\ OnlyOn(fns, store)
  /\ store # 0 => store \in DOMAIN fns /\ fns[store].kind = "sdk" /\ fns[store].owner \in installed
  /\ installed \subseteq Sdks

LEMMA DeactivatedSound ==
  ASSUME NEW fs, NEW cur, Wrapped(fs, cur), NEW f, f = 0 \/ f \in DOMAIN fs
  PROVE  LET u == Deactivated(fs, f)
         IN  /\ Wrapped(u, cur) /\ DOMAIN u = DOMAIN fs /\ Len(u) = Len(fs)
             /\ \A g \in DOMAIN fs : /\ u[g].kind = fs[g].kind /\ u[g].pred = fs[g].pred
                                     /\ u[g].owner = fs[g].owner
                                     /\ u[g].active => fs[g].active /\ (g # f \/ fs[g].kind # "sdk")
<1> DEFINE u == Deactivated(fs, f)
<1>1. CASE f = 0 \/ fs[f].kind # "sdk"
  <2>1. u = fs  BY <1>1 DEF Deactivated
  <2>2. \A g \in DOMAIN fs : g # 0  BY DEF Wrapped
  <2> HIDE DEF u
  <2> QED  BY <1>1, <2>1, <2>2 DEF u
<1>2. CASE f # 0 /\ fs[f].kind = "sdk"
  <2> DEFINE w == [fs[f] EXCEPT !.active = FALSE]
  <2>0. f \in DOMAIN fs /\ fs \in Seq(Functions_) /\ fs[f] \in Functions_  BY <1>2 DEF Wrapped
  <2>1. u = [fs EXCEPT ![f] = w]  BY <1>2 DEF Deactivated
  <2>2. w \in Functions_ /\ w.kind = fs[f].kind /\ w.pred = fs[f].pred /\ w.owner = fs[f].owner /\ ~w.active
    BY <2>0 DEF Functions_
  <2> HIDE DEF w, u
  <2>3. /\ u \in Seq(Functions_) /\ DOMAIN u = DOMAIN fs /\ Len(u) = Len(fs)
        /\ \A g \in DOMAIN fs : u[g] = IF g = f THEN w ELSE fs[g]
    BY <2>0, <2>1, <2>2
  <2>4. Wrapped(u, cur)  BY <2>2, <2>3 DEF Wrapped, Older
  <2> QED  BY <2>2, <2>3, <2>4 DEF u
<1> QED  BY <1>1, <1>2

(* After restore none of ours is on.                                            *)
LEMMA RestoredSound ==
  ASSUME WInv
  PROVE  LET r == Restored(fns, current)
         IN  /\ Wrapped(r.fns, r.current) /\ Len(r.fns) = Len(fns)
             /\ \A f \in DOMAIN r.fns : ~(r.fns[f].kind = "sdk" /\ r.fns[f].active)
<1> DEFINE u == Deactivated(fns, store)
           c == IF store # 0 /\ current = store THEN fns[store].pred ELSE current
<1>1. Restored(fns, current) = [fns |-> u, current |-> c]  BY DEF Restored
<1>2. /\ Wrapped(u, current) /\ DOMAIN u = DOMAIN fns /\ Len(u) = Len(fns)
      /\ \A g \in DOMAIN fns : /\ u[g].kind = fns[g].kind /\ u[g].pred = fns[g].pred
                               /\ u[g].active => fns[g].active /\ (g # store \/ fns[g].kind # "sdk")
  BY DeactivatedSound DEF WInv
<1> HIDE DEF u
<1>3. c \in DOMAIN fns
  <2>1. CASE store # 0 /\ current = store
    <3>1. store \in DOMAIN fns /\ fns[store].kind = "sdk" /\ fns \in Seq(Functions_) /\ Older(fns)
      BY <2>1 DEF WInv, Wrapped
    <3>2. fns[store].pred \in 1 .. store - 1  BY <3>1 DEF Older
    <3>3. DOMAIN fns = 1 .. Len(fns) /\ Len(fns) \in Nat  BY <3>1
    <3> QED  BY <2>1, <3>1, <3>2, <3>3
  <2>2. CASE ~(store # 0 /\ current = store)  BY <2>2 DEF WInv, Wrapped
  <2> QED  BY <2>1, <2>2
<1> HIDE DEF c
<1>4. \A f \in DOMAIN u : ~(u[f].kind = "sdk" /\ u[f].active)  BY <1>2 DEF WInv, OnlyOn
<1>5. Wrapped(u, c)  BY <1>2, <1>3 DEF Wrapped
<1> QED  BY <1>1, <1>2, <1>4, <1>5

LEMMA WInitSound == DInit => WInv
<1> SUFFICES ASSUME DInit  PROVE WInv  OBVIOUS
<1> DEFINE d == [kind |-> "driver", pred |-> 0, owner |-> "none", active |-> TRUE]
<1>1. d \in Functions_ /\ d.kind = "driver" /\ d.pred = 0  BY DEF Functions_
<1>2. fns = << d >> /\ current = 1 /\ store = 0 /\ installed = {}  BY DEF DInit
<1> HIDE DEF d
<1>3. fns \in Seq(Functions_) /\ DOMAIN fns = {1} /\ fns[1] = d  BY <1>1, <1>2
<1> QED  BY <1>1, <1>2, <1>3 DEF WInv, Wrapped, Older, OnlyOn

LEMMA InstallSound ==
  ASSUME WInv, NEW i \in Sdks, Install(i)
  PROVE  WInv'
<1> DEFINE r == Restored(fns, current)
           ours == r.fns[r.current].kind = "sdk"
           v == Deactivated(r.fns, IF ours THEN r.current ELSE 0)
           p == IF ours THEN r.fns[r.current].pred ELSE r.current
           e == [kind |-> "sdk", pred |-> p, owner |-> i, active |-> TRUE]
<1>1. /\ Wrapped(r.fns, r.current)
      /\ \A f \in DOMAIN r.fns : ~(r.fns[f].kind = "sdk" /\ r.fns[f].active)
  BY RestoredSound
<1>2. fns' = Append(v, e) /\ current' = Len(fns') /\ store' = Len(fns') /\ installed' = installed \cup {i}
  BY DEF Install, OwnedWrapper
<1> HIDE DEF r
<1>3. r.fns \in Seq(Functions_) /\ Older(r.fns) /\ r.current \in DOMAIN r.fns  BY <1>1 DEF Wrapped
<1>4. /\ Wrapped(v, r.current) /\ DOMAIN v = DOMAIN r.fns /\ Len(v) = Len(r.fns)
      /\ \A g \in DOMAIN v : ~(v[g].kind = "sdk" /\ v[g].active)
  <2> DEFINE at == IF ours THEN r.current ELSE 0
  <2>1. at = 0 \/ at \in DOMAIN r.fns  BY <1>3
  <2> HIDE DEF at
  <2>2. LET u == Deactivated(r.fns, at)
        IN  /\ Wrapped(u, r.current) /\ DOMAIN u = DOMAIN r.fns /\ Len(u) = Len(r.fns)
            /\ \A g \in DOMAIN r.fns : u[g].kind = r.fns[g].kind /\ (u[g].active => r.fns[g].active)
    BY <1>1, <2>1, DeactivatedSound
  <2> QED  BY <1>1, <2>2 DEF at
<1>5. p \in 1 .. Len(r.fns) /\ Len(r.fns) \in Nat
  <2>1. DOMAIN r.fns = 1 .. Len(r.fns) /\ Len(r.fns) \in Nat  BY <1>3
  <2>2. CASE ours
    <3>1. r.fns[r.current].pred \in 1 .. r.current - 1  BY <1>3, <2>2 DEF Older
    <3> QED  BY <1>3, <2>1, <2>2, <3>1
  <2>3. CASE ~ours  BY <1>3, <2>1, <2>3
  <2> QED  BY <2>1, <2>2, <2>3
<1> HIDE DEF v, p
<1>6. e \in Functions_ /\ e.kind = "sdk" /\ e.pred = p /\ e.owner = i  BY <1>5 DEF Functions_
<1> HIDE DEF e, ours
<1>7. v \in Seq(Functions_) /\ Older(v)  BY <1>4 DEF Wrapped
<1> DEFINE n == Len(v) + 1
<1>8. /\ fns' \in Seq(Functions_) /\ Len(fns') = n /\ DOMAIN fns' = 1 .. n /\ fns'[n] = e
      /\ DOMAIN v = 1 .. n - 1 /\ n \in Nat /\ n >= 2 /\ p \in 1 .. n - 1
      /\ \A f \in DOMAIN v : fns'[f] = v[f]
  <2>1. Len(v) \in Nat /\ Len(v) >= 1  BY <1>4, <1>5, <1>7
  <2> QED  BY <1>2, <1>4, <1>5, <1>6, <1>7, <2>1
<1> HIDE DEF n
<1>9. Older(fns')
  <2> SUFFICES ASSUME NEW f \in 1 .. n
               PROVE  /\ fns'[f].pred \in 0 .. f - 1 /\ (fns'[f].pred = 0 <=> f = 1)
                      /\ (fns'[f].kind = "driver" <=> f = 1)
    BY <1>8 DEF Older
  <2>1. CASE f = n  BY <1>6, <1>8, <2>1
  <2>2. CASE f # n
    <3>1. f \in DOMAIN v /\ fns'[f] = v[f]  BY <1>8, <2>2
    <3> QED  BY <1>7, <3>1 DEF Older
  <2> QED  BY <2>1, <2>2
<1>10. OnlyOn(fns', n)
  <2>1. \A f \in 1 .. n : f = n \/ f \in DOMAIN v  BY <1>8
  <2> QED  BY <1>4, <1>8, <2>1 DEF OnlyOn
<1> QED  BY <1>2, <1>6, <1>8, <1>9, <1>10 DEF WInv, Wrapped

LEMMA UnwrapAllSound ==
  ASSUME WInv, NEW i \in Sdks, UnwrapAll(i)
  PROVE  WInv'
<1> DEFINE r == Restored(fns, current)
<1>1. /\ Wrapped(r.fns, r.current)
      /\ \A f \in DOMAIN r.fns : ~(r.fns[f].kind = "sdk" /\ r.fns[f].active)
  BY RestoredSound
<1>2. fns' = r.fns /\ current' = r.current /\ store' = 0 /\ installed' = installed \ {i}
  BY DEF UnwrapAll
<1> HIDE DEF r
<1> QED  BY <1>1, <1>2 DEF WInv, OnlyOn

LEMMA OthersSound ==
  ASSUME WInv, OthersWrap \/ OthersUnwrap
  PROVE  WInv'
<1>1. fns \in Seq(Functions_) /\ Older(fns) /\ current \in DOMAIN fns  BY DEF WInv, Wrapped
<1>2. CASE OthersWrap
  <2> DEFINE e == [kind |-> "other", pred |-> current, owner |-> "none", active |-> TRUE]
             n == Len(fns) + 1
  <2>1. fns' = Append(fns, e) /\ current' = Len(fns') /\ UNCHANGED <<store, installed>>
    BY <1>2 DEF OthersWrap
  <2>2. e \in Functions_ /\ e.kind = "other" /\ e.pred = current  BY <1>1 DEF Functions_
  <2> HIDE DEF e
  <2>3. /\ fns' \in Seq(Functions_) /\ Len(fns') = n /\ DOMAIN fns' = 1 .. n /\ fns'[n] = e
        /\ DOMAIN fns = 1 .. n - 1 /\ n \in Nat /\ n >= 2 /\ current \in 1 .. n - 1
        /\ \A f \in DOMAIN fns : fns'[f] = fns[f]
    BY <1>1, <2>1, <2>2
  <2> HIDE DEF n
  <2>4. Older(fns')
    <3> SUFFICES ASSUME NEW f \in 1 .. n
                 PROVE  /\ fns'[f].pred \in 0 .. f - 1 /\ (fns'[f].pred = 0 <=> f = 1)
                        /\ (fns'[f].kind = "driver" <=> f = 1)
      BY <2>3 DEF Older
    <3>1. CASE f = n  BY <2>2, <2>3, <3>1
    <3>2. CASE f # n
      <4>1. f \in DOMAIN fns /\ fns'[f] = fns[f]  BY <2>3, <3>2
      <4> QED  BY <1>1, <4>1 DEF Older
    <3> QED  BY <3>1, <3>2
  <2>5. OnlyOn(fns', store')
    <3>1. \A f \in 1 .. n : f = n \/ f \in DOMAIN fns  BY <2>3
    <3> QED  BY <2>1, <2>2, <2>3, <3>1 DEF WInv, OnlyOn
  <2> QED  BY <2>1, <2>3, <2>4, <2>5 DEF WInv, Wrapped
<1>3. CASE OthersUnwrap
  <2>1. PICK f \in DOMAIN fns : fns[f].kind = "other" /\ current' = fns[f].pred
    BY <1>3 DEF OthersUnwrap
  <2>2. fns[f].pred \in 1 .. f - 1  BY <1>1, <2>1 DEF Older
  <2>3. current' \in DOMAIN fns  BY <1>1, <2>1, <2>2
  <2> QED  BY <1>1, <1>3, <2>3 DEF OthersUnwrap, WInv, Wrapped, OnlyOn
<1> QED  BY <1>2, <1>3

LEMMA WStepSound == WInv /\ [WrapNext \/ QueryNext]_dvars => WInv'
<1> SUFFICES ASSUME WInv, [WrapNext \/ QueryNext]_dvars  PROVE WInv'  OBVIOUS
<1>1. CASE WrapNext  BY <1>1, InstallSound, UnwrapAllSound, OthersSound DEF WrapNext
<1>2. CASE QueryNext
  <2>1. CASE \E q \in Queries, c \in Contexts, d \in Drivers : \E shape \in Shapes(d) : Ask(q, d, shape, c)
    BY <2>1 DEF Ask, patchvars, WInv, Wrapped, OnlyOn
  <2>2. CASE \E q \in Queries, c \in Contexts : SendPooled(q, c)
    BY <2>2 DEF SendPooled, patchvars, WInv, Wrapped, OnlyOn
  <2>3. CASE \E q \in Queries, failed \in BOOLEAN : FinishQuery(q, failed)
    BY <2>3 DEF FinishQuery, patchvars, WInv, Wrapped, OnlyOn
  <2> QED  BY <1>2, <2>1, <2>2, <2>3 DEF QueryNext
<1>3. CASE UNCHANGED dvars  BY <1>3 DEF dvars, WInv, Wrapped, OnlyOn
<1> QED  BY <1>1, <1>2, <1>3

(* What is closed under the predecessors, and is not empty, reaches the driver.  *)
LEMMA ReachesDriver ==
  ASSUME WInv, NEW C \in SUBSET DOMAIN fns, C # {}, Closed(C)
  PROVE  1 \in C
<1>1. fns \in Seq(Functions_) /\ Older(fns)  BY DEF WInv, Wrapped
<1>2. C \subseteq Nat  BY <1>1
<1>3. PICK m \in C : \A f \in C : ~(<<f, m>> \in OpToRel(<, Nat))
  <2>1. IsWellFoundedOn(OpToRel(<, Nat), Nat)  BY NatLessThanWellFounded
  <2> QED  BY <1>2, <2>1, WFMin, Zenon
<1>4. \A f \in C : ~(f < m)  BY <1>2, <1>3 DEF OpToRel
<1>5. fns[m].pred \in 0 .. m - 1 /\ (fns[m].pred = 0 => m = 1) /\ m \in Nat  BY <1>1, <1>2 DEF Older
<1>6. fns[m].pred \notin C  BY <1>4, <1>5
<1> QED  BY <1>5, <1>6 DEF Closed

(* However the wrappers come and go, a call reaches the driver and is recorded   *)
(* by one instance at most, which is there.                                      *)
THEOREM WrappersAreSound == DSpec => []WrapsSound
<1>1. WInv => WrapsSound
  <2> SUFFICES ASSUME WInv  PROVE WrapsSound  OBVIOUS
  <2>1. 1 \in DOMAIN fns
    <3>1. fns \in Seq(Functions_) /\ current \in DOMAIN fns  BY DEF WInv, Wrapped
    <3> QED  BY <3>1
  <2>2. 1 \in Chain  BY <2>1, ReachesDriver DEF Chain
  <2>3. \A f \in Recording : f = store /\ f # 0
    <3>1. \A f \in DOMAIN fns : f # 0  BY DEF WInv, Wrapped
    <3> QED  BY <3>1 DEF Recording, Chain, WInv, OnlyOn
  <2>4. \A f \in Recording : fns[f].owner \in installed  BY <2>3 DEF WInv
  <2>5. Cardinality(Recording) <= 1
    <3>1. CASE Recording = {}  BY <3>1, FS_EmptySet
    <3>2. CASE Recording # {}
      <4>1. Recording = {store}  BY <2>3, <3>2
      <4> QED  BY <4>1, FS_Singleton
    <3> QED  BY <3>1, <3>2
  <2> QED  BY <2>2, <2>4, <2>5 DEF WrapsSound
<1> QED  BY <1>1, WInitSound, WStepSound, PTL DEF DSpec

-------------------------------------------------------------------------------
(* What is known of a query: where it stands, its records, and its part in the  *)
(* count of its context.  A query that is under way has no record, unless the   *)
(* pool sent it from another context.                                           *)
ShapesOfAll == UNION {Shapes(d) : d \in Drivers}
QueryStates ==
  [driver : Drivers \cup {"none"}, shape : ShapesOfAll \cup {"none"}, context : Contexts \cup {"none"},
   stage : {"none", "asked", "recorded", "unseen", "answered", "failed"}, sent : BOOLEAN]
Records == [query : Queries, context : Contexts, phase : {"done", "active"}, error : BOOLEAN]
At(rs, q) == {i \in DOMAIN rs : rs[i].query = q}
InFlight(w) == w.driver = "pool" /\ w.stage = "asked"
Way(qs, c, t) == {q \in Queries : InFlight(qs[q]) /\ qs[q].context = c /\ Statement[q] = t}
Counted(qs, act) ==
  /\ act \in [Contexts -> [Statements -> Nat]]
  /\ \A c \in Contexts, t \in Statements : act[c][t] = Cardinality(Way(qs, c, t))
Elsewhere(w, rs, k) == rs[k].context # w.context
Outcome(w, rs, k) == rs[k].phase = "done" /\ (rs[k].error <=> w.stage = "failed")
QuerySound(w, rs, q) ==
  /\ w.stage = "none" => At(rs, q) = {}
  /\ w.stage = "asked" =>
       /\ w.context \in Contexts
       /\ \/ At(rs, q) = {}
          \/ w.driver = "pool" /\ w.sent /\ \E k \in At(rs, q) : At(rs, q) = {k} /\ Elsewhere(w, rs, k)
  /\ w.stage \in {"answered", "failed"} =>
       \E k, l \in At(rs, q) :
         /\ At(rs, q) = {k, l} /\ Outcome(w, rs, k)
         /\ k = l \/ w.driver = "pipeline" \/ Elsewhere(w, rs, l)
QInv ==
  /\ query \in [Queries -> QueryStates] /\ records \in Seq(Records)
  /\ Counted(query, active)
  /\ \A q \in Queries : QuerySound(query[q], records, q)

LEMMA RecordPut ==
  ASSUME NEW rs \in Seq(Records), NEW q \in Queries, NEW c \in Contexts,
         NEW phase \in {"done", "active"}, NEW error \in BOOLEAN
  PROVE  LET u == Put(rs, q, c, phase, error)
         IN  /\ u \in Seq(Records) /\ Len(u) = Len(rs) + 1
             /\ At(u, q) = At(rs, q) \cup {Len(rs) + 1} /\ Len(rs) + 1 \notin At(rs, q)
             /\ \A p \in Queries \ {q} : At(u, p) = At(rs, p)
             /\ \A i \in DOMAIN rs : u[i] = rs[i]
             /\ u[Len(rs) + 1].context = c /\ u[Len(rs) + 1].phase = phase
             /\ u[Len(rs) + 1].error = error
<1> DEFINE e == [query |-> q, context |-> c, phase |-> phase, error |-> error]
           u == Append(rs, e)
<1>1. e \in Records /\ e.query = q /\ e.context = c /\ e.phase = phase /\ e.error = error  BY DEF Records
<1> HIDE DEF e
<1>2. /\ u \in Seq(Records) /\ Len(u) = Len(rs) + 1 /\ u[Len(rs) + 1] = e
      /\ DOMAIN rs = 1 .. Len(rs) /\ DOMAIN u = 1 .. Len(rs) + 1 /\ Len(rs) \in Nat
      /\ \A i \in DOMAIN rs : u[i] = rs[i]
  BY <1>1
<1> HIDE DEF u
<1>3. \A i \in DOMAIN u : i \in DOMAIN rs \/ i = Len(rs) + 1  BY <1>2
<1>4. At(u, q) = At(rs, q) \cup {Len(rs) + 1} /\ Len(rs) + 1 \notin At(rs, q)
  BY <1>1, <1>2, <1>3 DEF At
<1>5. \A p \in Queries \ {q} : At(u, p) = At(rs, p)  BY <1>1, <1>2, <1>3 DEF At
<1> QED  BY <1>1, <1>2, <1>4, <1>5 DEF Put, u, e

(* What is recorded for one query does not concern another.                     *)
LEMMA OtherQuery ==
  ASSUME NEW w, NEW rs, NEW u, NEW p, QuerySound(w, rs, p), At(u, p) = At(rs, p),
         \A i \in DOMAIN rs : u[i] = rs[i]
  PROVE  QuerySound(w, u, p)
<1>1. \A k \in At(rs, p) : u[k] = rs[k]  BY DEF At
<1> QED  BY <1>1 DEF QuerySound, Elsewhere, Outcome

LEMMA WayFinite ==
  ASSUME NEW qs, NEW c, NEW t
  PROVE  IsFiniteSet(Way(qs, c, t)) /\ Cardinality(Way(qs, c, t)) \in Nat
<1>1. Way(qs, c, t) \subseteq Queries  BY DEF Way
<1>2. IsFiniteSet(Way(qs, c, t))  BY <1>1, FS_Subset, QueriesAssumption
<1> QED  BY <1>2, FS_CardinalityType

LEMMA CountTyped ==
  ASSUME NEW act \in [Contexts -> [Statements -> Nat]], NEW c \in Contexts, NEW t \in Statements, NEW n \in Nat
  PROVE  LET u == [act EXCEPT ![c][t] = n]
         IN  /\ u \in [Contexts -> [Statements -> Nat]]
             /\ \A d \in Contexts, v \in Statements : u[d][v] = IF d = c /\ v = t THEN n ELSE act[d][v]
<1> DEFINE w == [act[c] EXCEPT ![t] = n]
<1>1. [act EXCEPT ![c][t] = n] = [act EXCEPT ![c] = w]  OBVIOUS
<1>2. w \in [Statements -> Nat] /\ \A v \in Statements : w[v] = IF v = t THEN n ELSE act[c][v]  OBVIOUS
<1> HIDE DEF w
<1> QED  BY <1>1, <1>2

(* The counts when a query of a pool begins, ends, or does neither.             *)
LEMMA CountSame ==
  ASSUME NEW qs, NEW act, Counted(qs, act), NEW us,
         \A q \in Queries : /\ InFlight(us[q]) <=> InFlight(qs[q])
                            /\ InFlight(qs[q]) => us[q].context = qs[q].context
  PROVE  Counted(us, act)
<1>1. \A c, t : Way(us, c, t) = Way(qs, c, t)  BY DEF Way
<1> QED  BY <1>1 DEF Counted

LEMMA CountBegins ==
  ASSUME NEW qs, NEW act, Counted(qs, act), NEW us, NEW q \in Queries,
         ~InFlight(qs[q]), InFlight(us[q]), us[q].context \in Contexts,
         \A p \in Queries \ {q} : us[p] = qs[p]
  PROVE  LET c == us[q].context  t == Statement[q]
         IN  Counted(us, [act EXCEPT ![c][t] = act[c][t] + 1])
<1> DEFINE c == us[q].context
           t == Statement[q]
           n == act[c][t] + 1
           u == [act EXCEPT ![c][t] = n]
<1>1. c \in Contexts /\ t \in Statements /\ act \in [Contexts -> [Statements -> Nat]]
  BY DEF Counted, Statements
<1>2. n \in Nat  BY <1>1
<1>3. Way(us, c, t) = Way(qs, c, t) \cup {q} /\ q \notin Way(qs, c, t)  BY DEF Way
<1>4. \A d, v : d # c \/ v # t => Way(us, d, v) = Way(qs, d, v)  BY DEF Way
<1> HIDE DEF c, t
<1>5. Cardinality(Way(us, c, t)) = n
  <2>1. IsFiniteSet(Way(qs, c, t))  BY WayFinite
  <2>2. Cardinality(Way(qs, c, t) \cup {q}) = Cardinality(Way(qs, c, t)) + 1  BY <1>3, <2>1, FS_AddElement
  <2> QED  BY <1>1, <1>3, <2>2 DEF Counted
<1> HIDE DEF n
<1>6. /\ u \in [Contexts -> [Statements -> Nat]]
      /\ \A d \in Contexts, v \in Statements : u[d][v] = IF d = c /\ v = t THEN n ELSE act[d][v]
  BY <1>1, <1>2, CountTyped
<1> HIDE DEF u
<1>7. Counted(us, u)  BY <1>4, <1>5, <1>6 DEF Counted
<1> QED  BY <1>7 DEF u, n, c, t

LEMMA CountEnds ==
  ASSUME NEW qs, NEW act, Counted(qs, act), NEW us, NEW q \in Queries,
         InFlight(qs[q]), ~InFlight(us[q]), qs[q].context \in Contexts,
         \A p \in Queries \ {q} : us[p] = qs[p]
  PROVE  LET c == qs[q].context  t == Statement[q]
         IN  Counted(us, [act EXCEPT ![c][t] = act[c][t] - 1])
<1> DEFINE c == qs[q].context
           t == Statement[q]
           n == act[c][t] - 1
           u == [act EXCEPT ![c][t] = n]
<1>1. c \in Contexts /\ t \in Statements /\ act \in [Contexts -> [Statements -> Nat]]
  BY DEF Counted, Statements
<1>3. Way(us, c, t) = Way(qs, c, t) \ {q} /\ q \in Way(qs, c, t)  BY DEF Way
<1>4. \A d, v : d # c \/ v # t => Way(us, d, v) = Way(qs, d, v)  BY DEF Way
<1> HIDE DEF c, t
<1>5. Cardinality(Way(us, c, t)) = n /\ n \in Nat
  <2>1. IsFiniteSet(Way(qs, c, t))  BY WayFinite
  <2>2. Cardinality(Way(qs, c, t) \ {q}) = Cardinality(Way(qs, c, t)) - 1  BY <1>3, <2>1, FS_RemoveElement
  <2>3. Cardinality(Way(us, c, t)) \in Nat  BY WayFinite
  <2> QED  BY <1>1, <1>3, <2>2, <2>3 DEF Counted
<1> HIDE DEF n
<1>6. /\ u \in [Contexts -> [Statements -> Nat]]
      /\ \A d \in Contexts, v \in Statements : u[d][v] = IF d = c /\ v = t THEN n ELSE act[d][v]
  BY <1>1, <1>5, CountTyped
<1> HIDE DEF u
<1>7. Counted(us, u)  BY <1>4, <1>5, <1>6 DEF Counted
<1> QED  BY <1>7 DEF u, n, c, t

LEMMA QInitSound == DInit => QInv
<1> SUFFICES ASSUME DInit  PROVE QInv  OBVIOUS
<1>1. query \in [Queries -> QueryStates] /\ \A q \in Queries : query[q].stage = "none"
  BY DEF DInit, QueryStates
<1>2. records \in Seq(Records) /\ DOMAIN records = {}  BY DEF DInit
<1>3. \A c \in Contexts, t \in Statements : Way(query, c, t) = {} /\ active[c][t] = 0
  BY <1>1 DEF Way, InFlight, DInit
<1>4. active \in [Contexts -> [Statements -> Nat]]  BY DEF DInit
<1>5. Counted(query, active)  BY <1>3, <1>4, FS_EmptySet DEF Counted
<1>6. \A q \in Queries : QuerySound(query[q], records, q)  BY <1>1, <1>2 DEF QuerySound, At
<1> QED  BY <1>1, <1>2, <1>5, <1>6 DEF QInv

(* A step that records for one query only, and changes nothing of the others.   *)
LEMMA QueryStep ==
  ASSUME QInv, NEW q \in Queries, NEW w \in QueryStates, query' = [query EXCEPT ![q] = w],
         records' \in Seq(Records), \A p \in Queries \ {q} : At(records', p) = At(records, p),
         \A i \in DOMAIN records : records'[i] = records[i],
         QuerySound(w, records', q), Counted(query', active')
  PROVE  QInv'
<1>1. query' \in [Queries -> QueryStates]  BY DEF QInv
<1>2. ASSUME NEW p \in Queries  PROVE QuerySound(query'[p], records', p)
  <2>1. CASE p = q  BY <2>1 DEF QInv
  <2>2. CASE p # q
    <3>1. query'[p] = query[p] /\ QuerySound(query[p], records, p)  BY <2>2 DEF QInv
    <3> QED  BY <2>2, <3>1, OtherQuery
  <2> QED  BY <2>1, <2>2
<1> QED  BY <1>1, <1>2 DEF QInv

LEMMA AskSound ==
  ASSUME QInv, NEW q \in Queries, NEW driver \in Drivers, NEW shape \in Shapes(driver), NEW c \in Contexts,
         Ask(q, driver, shape, c)
  PROVE  QInv'
<1> DEFINE seen == driver = "pg" /\ active[c][Statement[q]] > 0
           now  == shape \in {"stream", "cursor", "emitter"}
           stage == IF seen THEN "unseen" ELSE IF now THEN "recorded" ELSE "asked"
           w == [driver |-> driver, shape |-> shape, context |-> c, stage |-> stage, sent |-> driver # "pool"]
           phase == IF shape = "emitter" THEN "done" ELSE "active"
           t == Statement[q]
<1>1. /\ query[q].stage = "none" /\ query' = [query EXCEPT ![q] = w]
      /\ records' = IF seen \/ ~now THEN records ELSE Put(records, q, c, phase, FALSE)
      /\ active' = IF driver = "pool" /\ ~now THEN [active EXCEPT ![c][t] = active[c][t] + 1] ELSE active
  BY DEF Ask, Count
<1>2. w \in QueryStates /\ w.driver = driver /\ w.context = c /\ w.stage = stage
  <2>1. stage \in {"unseen", "recorded", "asked"} /\ shape \in ShapesOfAll  BY DEF ShapesOfAll
  <2>2. (driver # "pool") \in BOOLEAN  OBVIOUS
  <2> HIDE DEF stage
  <2> QED  BY <2>1, <2>2 DEF QueryStates
<1>3. phase \in {"done", "active"} /\ (seen \in BOOLEAN) /\ (now \in BOOLEAN)  OBVIOUS
<1>4. (seen => driver = "pg") /\ (stage = "asked" <=> ~seen /\ ~now) /\ stage \in {"unseen", "recorded", "asked"}
  OBVIOUS
<1> HIDE DEF w, seen, now, stage, phase
<1>5. records \in Seq(Records) /\ query \in [Queries -> QueryStates] /\ At(records, q) = {}
  BY <1>1 DEF QInv, QuerySound
<1>6. /\ records' \in Seq(Records) /\ \A p \in Queries \ {q} : At(records', p) = At(records, p)
      /\ \A i \in DOMAIN records : records'[i] = records[i]
  <2>1. CASE seen \/ ~now  BY <1>1, <1>5, <2>1
  <2>2. CASE ~(seen \/ ~now)
    <3>1. records' = Put(records, q, c, phase, FALSE)  BY <1>1, <2>2
    <3> DEFINE no == FALSE
    <3>2. no \in BOOLEAN  OBVIOUS
    <3>3. records' = Put(records, q, c, phase, no)  BY <3>1
    <3> HIDE DEF no
    <3> QED  BY <1>3, <1>5, <3>2, <3>3, RecordPut
  <2> QED  BY <2>1, <2>2
<1>7. QuerySound(w, records', q)
  <2>1. stage = "asked" => records' = records  BY <1>1, <1>4
  <2> QED  BY <1>2, <1>4, <1>5, <2>1 DEF QuerySound
<1>8. Counted(query', active')
  <2>0. query'[q] = w /\ \A p \in Queries \ {q} : query'[p] = query[p]  BY <1>1, <1>5
  <2>1. ~InFlight(query[q]) /\ Counted(query, active)  BY <1>1 DEF QInv, InFlight
  <2>2. CASE driver = "pool" /\ ~now
    <3>1. InFlight(query'[q]) /\ query'[q].context = c  BY <1>2, <1>4, <2>0, <2>2 DEF InFlight
    <3>2. active' = [active EXCEPT ![c][t] = active[c][t] + 1]  BY <1>1, <2>2
    <3>3. LET d == query'[q].context  v == Statement[q]
          IN  Counted(query', [active EXCEPT ![d][v] = active[d][v] + 1])
      BY <2>0, <2>1, <3>1, CountBegins
    <3> QED  BY <3>1, <3>2, <3>3
  <2>3. CASE ~(driver = "pool" /\ ~now)
    <3>1. ~InFlight(query'[q])  BY <1>2, <1>4, <2>0, <2>3 DEF InFlight
    <3>2. active' = active  BY <1>1, <2>3
    <3> QED  BY <2>0, <2>1, <3>1, <3>2, CountSame
  <2> QED  BY <2>2, <2>3
<1> QED  BY <1>1, <1>2, <1>6, <1>7, <1>8, QueryStep

LEMMA SendPooledSound ==
  ASSUME QInv, NEW q \in Queries, NEW c \in Contexts, SendPooled(q, c)
  PROVE  QInv'
<1> DEFINE o == query[q]
           w == [o EXCEPT !.sent = TRUE]
<1>1. /\ o.driver = "pool" /\ ~o.sent /\ o.stage \in {"asked", "recorded"}
      /\ query' = [query EXCEPT ![q] = w] /\ active' = active
      /\ records' = IF active[c][Statement[q]] > 0 THEN records ELSE Put(records, q, c, "done", FALSE)
  BY DEF SendPooled, Suppressed
<1>2. o \in QueryStates /\ records \in Seq(Records) /\ query \in [Queries -> QueryStates]
      /\ Counted(query, active) /\ QuerySound(o, records, q)
  BY DEF QInv
<1>3. w \in QueryStates /\ w.driver = o.driver /\ w.context = o.context /\ w.stage = o.stage /\ w.sent
  BY <1>2 DEF QueryStates
<1> HIDE DEF o, w
<1>4. Counted(query', active')
  <2>0. query'[q] = w /\ (\A p \in Queries \ {q} : query'[p] = query[p])  BY <1>1, <1>2
  <2>1. \A p \in Queries : /\ InFlight(query'[p]) <=> InFlight(query[p])
                           /\ InFlight(query[p]) => query'[p].context = query[p].context
    BY <1>3, <2>0 DEF InFlight, o
  <2> QED  BY <1>1, <1>2, <2>1, CountSame
<1>5. CASE active[c][Statement[q]] > 0
  <2>1. records' = records  BY <1>1, <1>5
  <2>2. QuerySound(w, records', q)  BY <1>1, <1>2, <1>3, <2>1 DEF QuerySound, Elsewhere
  <2> QED  BY <1>1, <1>2, <1>3, <1>4, <2>1, <2>2, QueryStep
<1>6. CASE ~(active[c][Statement[q]] > 0)
  <2> DEFINE n == Len(records) + 1
  <2>1. records' = Put(records, q, c, "done", FALSE)  BY <1>1, <1>6
  <2>2. /\ records' \in Seq(Records) /\ At(records', q) = At(records, q) \cup {n}
        /\ \A p \in Queries \ {q} : At(records', p) = At(records, p)
        /\ \A i \in DOMAIN records : records'[i] = records[i]
        /\ records'[n].context = c
    <3> DEFINE no == FALSE
    <3>1. no \in BOOLEAN /\ records' = Put(records, q, c, "done", no)  BY <2>1
    <3> HIDE DEF no
    <3> QED  BY <1>2, <3>1, RecordPut
  <2> HIDE DEF n
  <2>3. QuerySound(w, records', q)
    <3>1. CASE o.stage = "recorded"  BY <1>3, <3>1 DEF QuerySound
    <3>2. CASE o.stage = "asked"
      <4>1. o.context \in Contexts /\ At(records, q) = {}  BY <1>1, <1>2, <3>2 DEF QuerySound
      <4>2. c # o.context
        <5> SUFFICES ASSUME c = o.context  PROVE FALSE  OBVIOUS
        <5>1. q \in Way(query, c, Statement[q])  BY <1>1, <3>2 DEF Way, InFlight, o
        <5>2. Cardinality(Way(query, c, Statement[q])) # 0  BY <5>1, WayFinite, FS_EmptySet
        <5>3. Statement[q] \in Statements  BY DEF Statements
        <5> QED  BY <1>2, <1>6, <5>2, <5>3, WayFinite DEF Counted
      <4>3. n \in At(records', q) /\ At(records', q) = {n} /\ Elsewhere(w, records', n)
        BY <1>3, <2>2, <4>1, <4>2 DEF Elsewhere
      <4> QED  BY <1>1, <1>3, <3>2, <4>1, <4>3 DEF QuerySound
    <3> QED  BY <1>1, <3>1, <3>2
  <2> QED  BY <1>1, <1>3, <1>4, <2>2, <2>3, QueryStep
<1> QED  BY <1>5, <1>6

LEMMA FinishQuerySound ==
  ASSUME QInv, NEW q \in Queries, NEW failed \in BOOLEAN, FinishQuery(q, failed)
  PROVE  QInv'
<1> DEFINE o == query[q]
           c == o.context
           t == Statement[q]
           stage == IF failed THEN "failed" ELSE "answered"
           w == [o EXCEPT !.stage = stage]
           rs == Put(records, q, c, "done", failed)
           n == Len(records) + 1
<1>1. /\ o.stage = "asked" /\ o.sent /\ query' = [query EXCEPT ![q] = w]
      /\ records' = IF o.driver = "pipeline" THEN Put(rs, q, c, "done", failed) ELSE rs
      /\ active' = IF o.driver = "pool" THEN [active EXCEPT ![c][t] = active[c][t] - 1] ELSE active
  BY DEF FinishQuery, Count
<1>2. o \in QueryStates /\ records \in Seq(Records) /\ query \in [Queries -> QueryStates]
      /\ Counted(query, active) /\ QuerySound(o, records, q)
  BY DEF QInv
<1>3. /\ w \in QueryStates /\ w.driver = o.driver /\ w.context = o.context /\ w.stage = stage
      /\ stage \in {"failed", "answered"} /\ (failed <=> stage = "failed")
  BY <1>2 DEF QueryStates
<1>4. c \in Contexts /\ \/ At(records, q) = {}
                        \/ o.driver = "pool" /\ \E k \in At(records, q) : At(records, q) = {k} /\ Elsewhere(o, records, k)
  BY <1>1, <1>2 DEF QuerySound
<1> HIDE DEF w, rs, n, stage
<1>5. /\ rs \in Seq(Records) /\ At(rs, q) = At(records, q) \cup {n} /\ Len(rs) = n
      /\ \A p \in Queries \ {q} : At(rs, p) = At(records, p)
      /\ \A i \in DOMAIN records : rs[i] = records[i]
      /\ rs[n].context = c /\ rs[n].phase = "done" /\ rs[n].error = failed
  BY <1>2, <1>4, RecordPut DEF rs, n
<1>6. n \in DOMAIN rs /\ DOMAIN records \subseteq DOMAIN rs
  BY <1>2, <1>5 DEF n
<1>7. Counted(query', active')
  <2>0. query'[q] = w /\ (\A p \in Queries \ {q} : query'[p] = query[p])  BY <1>1, <1>2
  <2>1. ~InFlight(query'[q])  BY <1>3, <2>0 DEF InFlight
  <2>2. CASE o.driver = "pool"
    <3>1. InFlight(query[q]) /\ query[q].context \in Contexts  BY <1>1, <1>4, <2>2 DEF InFlight
    <3>2. LET d == query[q].context  v == Statement[q]
          IN  Counted(query', [active EXCEPT ![d][v] = active[d][v] - 1])
      BY <1>2, <2>0, <2>1, <3>1, CountEnds
    <3> QED  BY <1>1, <2>2, <3>2
  <2>3. CASE o.driver # "pool"
    <3>1. ~InFlight(query[q])  BY <2>3 DEF InFlight
    <3>2. active' = active  BY <1>1, <2>3
    <3> QED  BY <1>2, <2>0, <2>1, <3>1, <3>2, CountSame
  <2> QED  BY <2>2, <2>3
<1>8. CASE o.driver = "pipeline"
  <2> DEFINE m == Len(rs) + 1
  <2>1. records' = Put(rs, q, c, "done", failed)  BY <1>1, <1>8
  <2>2. /\ records' \in Seq(Records) /\ At(records', q) = At(rs, q) \cup {m}
        /\ \A p \in Queries \ {q} : At(records', p) = At(rs, p)
        /\ \A i \in DOMAIN rs : records'[i] = rs[i]
    BY <1>4, <1>5, <2>1, RecordPut
  <2> HIDE DEF m
  <2>3. At(records, q) = {}  BY <1>4, <1>8
  <2>4. QuerySound(w, records', q)
    <3>1. At(records', q) = {n, m} /\ n \in At(records', q) /\ m \in At(records', q)  BY <1>5, <2>2, <2>3
    <3>2. Outcome(w, records', n)  BY <1>3, <1>5, <1>6, <2>2 DEF Outcome
    <3> QED  BY <1>3, <1>8, <3>1, <3>2 DEF QuerySound
  <2>5. \A p \in Queries \ {q} : At(records', p) = At(records, p)  BY <1>5, <2>2
  <2>6. \A i \in DOMAIN records : records'[i] = records[i]  BY <1>5, <1>6, <2>2
  <2>7. query' = [query EXCEPT ![q] = w] /\ w \in QueryStates /\ records' \in Seq(Records)  BY <1>1, <1>3, <2>2
  <2> QED  BY <1>7, <2>4, <2>5, <2>6, <2>7, QueryStep
<1>9. CASE o.driver # "pipeline"
  <2>1. records' = rs  BY <1>1, <1>9
  <2>2. Outcome(w, rs, n) /\ n \in At(rs, q)  BY <1>3, <1>5 DEF Outcome
  <2>3. QuerySound(w, rs, q)
    <3>1. CASE At(records, q) = {}
      <4>1. At(rs, q) = {n, n}  BY <1>5, <3>1
      <4> QED  BY <1>3, <2>2, <4>1 DEF QuerySound
    <3>2. CASE At(records, q) # {}
      <4>1. PICK k \in At(records, q) : At(records, q) = {k} /\ Elsewhere(o, records, k)  BY <1>4, <3>2
      <4>2. k \in DOMAIN records  BY DEF At
      <4>3. At(rs, q) = {n, k} /\ Elsewhere(w, rs, k) /\ k \in At(rs, q)
        BY <1>3, <1>5, <4>1, <4>2 DEF Elsewhere
      <4> QED  BY <1>3, <2>2, <4>3 DEF QuerySound
    <3> QED  BY <3>1, <3>2
  <2> QED  BY <1>1, <1>3, <1>5, <1>7, <2>1, <2>3, QueryStep
<1> QED  BY <1>8, <1>9

LEMMA QStepSound == QInv /\ [WrapNext \/ QueryNext]_dvars => QInv'
<1> SUFFICES ASSUME QInv, [WrapNext \/ QueryNext]_dvars  PROVE QInv'  OBVIOUS
<1>1. CASE QueryNext  BY <1>1, AskSound, SendPooledSound, FinishQuerySound DEF QueryNext
<1>2. CASE WrapNext \/ UNCHANGED dvars
  <2>1. UNCHANGED queryvars
    BY <1>2 DEF WrapNext, Install, UnwrapAll, OthersWrap, OthersUnwrap, dvars, queryvars
  <2> QED  BY <2>1 DEF queryvars, QInv
<1> QED  BY <1>1, <1>2

(* Every query that was answered is recorded, once or, where the code records   *)
(* twice, twice; and the counts of the pools come back to zero.                 *)
THEOREM QueriesAreRecorded == DSpec => []QueriesRecorded
<1>1. QInv => QueriesRecorded
  <2> SUFFICES ASSUME QInv  PROVE QueriesRecorded  OBVIOUS
  <2>1. ASSUME NEW q \in Queries, Replied(q)
        PROVE  /\ \E i \in DOMAIN records :
                    records[i].query = q /\ records[i].phase = "done" /\ (records[i].error <=> query[q].stage = "failed")
               /\ Times(q) <= IF query[q].driver = "pipeline" \/ ~Known(q) THEN 2 ELSE 1
    <3>1. PICK k \in At(records, q), l \in At(records, q) :
             /\ At(records, q) = {k, l} /\ Outcome(query[q], records, k)
             /\ k = l \/ query[q].driver = "pipeline" \/ Elsewhere(query[q], records, l)
      BY <2>1 DEF QInv, QuerySound, Replied
    <3>2. k \in DOMAIN records /\ records[k].query = q /\ l \in DOMAIN records /\ records[l].query = q
      BY DEF At
    <3>3. Times(q) = Cardinality({k, l})  BY <3>1 DEF Times, At
    <3>4. CASE k = l
      <4>1. {k, l} = {k}  BY <3>4
      <4> QED  BY <3>1, <3>2, <3>3, <4>1, FS_Singleton DEF Outcome
    <3>5. CASE k # l
      <4>1. query[q].driver = "pipeline" \/ ~Known(q)  BY <3>1, <3>2, <3>5 DEF Known, Elsewhere
      <4>2. IsFiniteSet({k}) /\ Cardinality({k}) = 1  BY FS_Singleton
      <4>3. Cardinality({k} \cup {l}) = 2  BY <3>5, <4>2, FS_AddElement
      <4>4. {k, l} = {k} \cup {l}  OBVIOUS
      <4> QED  BY <3>1, <3>2, <3>3, <4>1, <4>3, <4>4 DEF Outcome
    <3> QED  BY <3>4, <3>5
  <2>2. \A c \in Contexts, t \in Statements :
          active[c][t] = Cardinality({q \in Queries : query[q].driver = "pool" /\ query[q].stage = "asked"
                                                      /\ query[q].context = c /\ Statement[q] = t})
    BY DEF QInv, Counted, Way, InFlight
  <2> QED  BY <2>1, <2>2 DEF QueriesRecorded
<1> QED  BY <1>1, QInitSound, QStepSound, PTL DEF DSpec

---------------------------------------------------------------------------------
(* Bodies: chunks are collected by accumulators that are used again.             *)
(* What the variables of body capture hold, as one record t.                     *)
Streams == [kind : BodyKinds \cup {"none"}, stage : {"none", "open", "ended"}, acc : Nat,
            held : BOOLEAN, sent : 0 .. MaxChunks]
BodySlots == [state : Nat, record : Seq(Bodies), truncated : BOOLEAN, ref : Nat, done : BOOLEAN]
Accumulators ==
  {x \in [chunks : Seq(Bodies), total : Nat, truncated : BOOLEAN, finalized : BOOLEAN, hashed : BOOLEAN] :
     Len(x.chunks) <= x.total}

BodyTyped(t) ==
  /\ t = [body |-> t.body, slot |-> t.slot, acc |-> t.acc, pool |-> t.pool,
          spool |-> t.spool, hist |-> t.hist]
  /\ t.body \in [Bodies -> Streams] /\ t.slot \in [Bodies -> BodySlots]
  /\ t.acc \in Seq(Accumulators) /\ t.pool \in Seq(1 .. Len(t.acc))
  /\ t.hist \in [broken : BOOLEAN, threw : BOOLEAN]
  /\ \A b \in Bodies : t.body[b].acc <= Len(t.acc) /\ t.slot[b].state <= Len(t.acc)

(* Nobody shares: a slot, or the pool, refers to an accumulator alone.           *)
Unshared(t) ==
  /\ \A b, c \in Bodies : t.slot[b].state = t.slot[c].state /\ t.slot[b].state # None => b = c
  /\ \A i, j \in DOMAIN t.pool : t.pool[i] = t.pool[j] => i = j
  /\ \A i \in DOMAIN t.pool : \A b \in Bodies : t.slot[b].state # t.pool[i]

(* The stream and the handler of body b.                                         *)
Handled(t, b) ==
  LET x == t.body[b] IN
    /\ x.held => x.stage = "open" \/ x.kind = "outbound"
    /\ x.kind = "fetch" /\ x.stage = "open" => x.held
    /\ x.stage = "none" => x.acc = None /\ ~x.held
    /\ x.acc = None => /\ t.slot[b].state = None /\ t.slot[b].record = << >> /\ x.sent = 0
                       /\ ~t.slot[b].truncated
    /\ x.held /\ x.stage = "open" /\ x.acc # None =>
         t.slot[b].state = x.acc /\ ~t.acc[x.acc].hashed

(* What is recorded in the slot of b, and what is collected for it.              *)
Shows(t, b, limit, spooling) ==
  LET d == t.slot[b] IN
    /\ \A i \in DOMAIN d.record : d.record[i] = b
    /\ d.record # << >> /\ ~spooling =>
         Len(d.record) <= limit /\ (d.truncated <=> t.body[b].sent > Len(d.record))
Collects(t, b, limit) ==
  LET d == t.slot[b]  q == t.acc[d.state].chunks  sent == t.body[b].sent IN
    d.state # None =>
      /\ t.body[b].acc = d.state /\ d.record = << >>
      /\ \A i \in DOMAIN q : q[i] = b
      /\ Len(q) <= limit
      /\ d.truncated => Len(q) >= limit /\ sent > Len(q)
      /\ ~d.truncated => sent = Len(q)

BodyOK(t, limit, spooling) ==
  /\ Unshared(t) /\ ~t.hist.threw
  /\ \A b \in Bodies : Handled(t, b) /\ Shows(t, b, limit, spooling) /\ Collects(t, b, limit)

(* The account of the spool.                                                     *)
EntryShaped(e) == e = [req |-> e.req, len |-> e.len, size |-> e.size, state |-> e.state,
                       old |-> e.old, late |-> e.late]
SpoolOK(sp) ==
  /\ sp = [entries |-> sp.entries, next |-> sp.next, done |-> sp.done]
  /\ sp.next \in Nat \ {0} /\ IsFiniteSet(DOMAIN sp.entries)
  /\ DOMAIN sp.entries \subseteq 1 .. sp.next - 1
  /\ \A id \in DOMAIN sp.entries : sp.entries[id].len \in Nat /\ EntryShaped(sp.entries[id])
  /\ Used(sp) <= GlobalMax + 1
  /\ \A id \in DOMAIN sp.entries :
       /\ RequestBytes(sp, sp.entries[id].req) <= RequestMax + 1
       /\ sp.entries[id].req \in sp.done => sp.entries[id].late \/ sp.entries[id].state = "sweepable"

(* Every call but an inbound one gets an accumulator at once, and remembers it.  *)
Equipped(streams) ==
  \A b \in Bodies : streams[b].stage # "none" /\ streams[b].kind # "inbound"
                    => streams[b].acc # None

LEMMA NoAccTyped == NoAcc \in Accumulators
<1>1. << >> \in Seq(Bodies) /\ Len(<< >>) = 0  OBVIOUS
<1> QED  BY <1>1 DEF NoAcc, Accumulators

LEMMA ButLast ==
  ASSUME NEW S, NEW q \in Seq(S), q # << >>
  PROVE  /\ SubSeq(q, 1, Len(q) - 1) \in Seq(S) /\ Len(SubSeq(q, 1, Len(q) - 1)) = Len(q) - 1
         /\ \A i \in 1 .. Len(q) - 1 : SubSeq(q, 1, Len(q) - 1)[i] = q[i]
         /\ Len(q) \in DOMAIN q /\ Len(q) - 1 \in Nat /\ Len(q) \in Nat
<1>1. Len(q) \in Nat \ {0} /\ DOMAIN q = 1 .. Len(q)  OBVIOUS
<1>2. Len(q) - 1 \in 0 .. Len(q) /\ Len(q) - 1 \in Nat  BY <1>1
<1> DEFINE n == Len(q) - 1
<1> HIDE DEF n
<1>3. SubSeq(q, 1, n) \in Seq(S) /\ Len(SubSeq(q, 1, n)) = n /\ \A i \in 1 .. n : SubSeq(q, 1, n)[i] = q[i]
  BY <1>1, <1>2 DEF n
<1> QED  BY <1>1, <1>2, <1>3 DEF n

LEMMA Wider ==
  ASSUME NEW S, NEW T, S \subseteq T, NEW q \in Seq(S)
  PROVE  q \in Seq(T)
<1>1. Len(q) \in Nat /\ q \in [1 .. Len(q) -> T]  OBVIOUS
<1> QED  BY <1>1

(* An accumulator from the pool, or a new one.                                   *)
Creates(t, b, a, u) ==
  /\ BodyTyped(u) /\ u.acc[a] = NoAcc /\ a # None
  /\ u.body = [t.body EXCEPT ![b] = [@ EXCEPT !.acc = a]]
  /\ u.slot = [t.slot EXCEPT ![b] = [@ EXCEPT !.state = a]]
  /\ u.hist = t.hist /\ u.spool = t.spool
  /\ \A i \in 1 .. Len(t.acc) : i # a => u.acc[i] = t.acc[i]
  /\ a > Len(t.acc) \/ \E n \in DOMAIN t.pool : a = t.pool[n] /\ n = Len(t.pool)
  /\ \A i \in DOMAIN u.pool : i \in DOMAIN t.pool /\ i # Len(t.pool) /\ u.pool[i] = t.pool[i]

LEMMA CreateParts ==
  ASSUME NEW t, BodyTyped(t), NEW b \in Bodies, NEW u, u = CreateState(t, b)
  PROVE  \E a \in 1 .. Len(u.acc) : Creates(t, b, a, u)
<1> DEFINE fresh == t.pool = << >>
           a == IF fresh THEN Len(t.acc) + 1 ELSE t.pool[Len(t.pool)]
           rest == IF fresh THEN t.pool ELSE SubSeq(t.pool, 1, Len(t.pool) - 1)
           grown == IF fresh THEN Append(t.acc, NoAcc) ELSE [t.acc EXCEPT ![a] = NoAcc]
<1>1. /\ t = [body |-> t.body, slot |-> t.slot, acc |-> t.acc, pool |-> t.pool,
              spool |-> t.spool, hist |-> t.hist]
      /\ t.body \in [Bodies -> Streams] /\ t.slot \in [Bodies -> BodySlots]
      /\ t.acc \in Seq(Accumulators) /\ t.pool \in Seq(1 .. Len(t.acc)) /\ Len(t.acc) \in Nat
  BY DEF BodyTyped
<1>2. /\ u.body = [t.body EXCEPT ![b] = [@ EXCEPT !.acc = a]]
      /\ u.slot = [t.slot EXCEPT ![b] = [@ EXCEPT !.state = a]]
      /\ u.acc = grown /\ u.pool = rest /\ u.hist = t.hist /\ u.spool = t.spool
      /\ u = [body |-> u.body, slot |-> u.slot, acc |-> u.acc, pool |-> u.pool,
              spool |-> u.spool, hist |-> u.hist]
  BY <1>1 DEF CreateState
<1>3. /\ grown \in Seq(Accumulators) /\ Len(grown) >= Len(t.acc) /\ a \in 1 .. Len(grown) /\ grown[a] = NoAcc
      /\ \A i \in 1 .. Len(t.acc) : i # a => grown[i] = t.acc[i]
      /\ Len(grown) \in Nat
  <2>1. CASE fresh
    <3>1. a = Len(t.acc) + 1 /\ grown = Append(t.acc, NoAcc)  BY <2>1
    <3> QED  BY <1>1, <3>1, NoAccTyped
  <2>2. CASE ~fresh
    <3>1. Len(t.pool) \in DOMAIN t.pool /\ a = t.pool[Len(t.pool)] /\ a \in 1 .. Len(t.acc)
          /\ grown = [t.acc EXCEPT ![a] = NoAcc]
      BY <1>1, <2>2
    <3> HIDE DEF a, grown
    <3>2. grown \in Seq(Accumulators) /\ Len(grown) = Len(t.acc)  BY <1>1, <3>1, NoAccTyped
    <3> QED  BY <1>1, <3>1, <3>2
  <2> QED  BY <2>1, <2>2
<1>4. /\ rest \in Seq(1 .. Len(t.acc))
      /\ \A i \in DOMAIN rest : i \in DOMAIN t.pool /\ i # Len(t.pool) /\ rest[i] = t.pool[i]
      /\ a > Len(t.acc) \/ \E n \in DOMAIN t.pool : a = t.pool[n] /\ n = Len(t.pool)
  <2>1. CASE fresh  BY <1>1, <2>1
  <2>2. CASE ~fresh
    <3>1. Len(t.pool) \in Nat \ {0} /\ rest = SubSeq(t.pool, 1, Len(t.pool) - 1)  BY <1>1, <2>2
    <3>2. /\ rest \in Seq(1 .. Len(t.acc)) /\ Len(rest) = Len(t.pool) - 1
          /\ \A i \in 1 .. Len(t.pool) - 1 : rest[i] = t.pool[i]
      BY <1>1, <2>2, <3>1, ButLast
    <3>3. Len(t.pool) \in DOMAIN t.pool /\ a = t.pool[Len(t.pool)]  BY <1>1, <2>2
    <3> QED  BY <1>1, <3>1, <3>2, <3>3
  <2> QED  BY <2>1, <2>2
<1> HIDE DEF a, grown, rest
<1>5. rest \in Seq(1 .. Len(grown))
  <2>1. 1 .. Len(t.acc) \subseteq 1 .. Len(grown)  BY <1>1, <1>3
  <2> QED  BY <1>4, <2>1, Wider
<1>6. a \in Nat /\ a # None  BY <1>3 DEF None
<1>7. u.body \in [Bodies -> Streams] /\ u.slot \in [Bodies -> BodySlots]
  <2>1. t.body[b] \in Streams /\ t.slot[b] \in BodySlots  BY <1>1
  <2>2. [t.body[b] EXCEPT !.acc = a] \in Streams  BY <1>6, <2>1 DEF Streams
  <2>3. [t.slot[b] EXCEPT !.state = a] \in BodySlots  BY <1>6, <2>1 DEF BodySlots
  <2> QED  BY <1>1, <1>2, <2>2, <2>3
<1>8. \A c \in Bodies : u.body[c].acc <= Len(grown) /\ u.slot[c].state <= Len(grown)
  <2> SUFFICES ASSUME NEW c \in Bodies  PROVE u.body[c].acc <= Len(grown) /\ u.slot[c].state <= Len(grown)
    OBVIOUS
  <2>1. /\ t.body[c].acc \in Nat /\ t.slot[c].state \in Nat
        /\ t.body[c].acc <= Len(t.acc) /\ t.slot[c].state <= Len(t.acc)
    BY <1>1 DEF BodyTyped, Streams, BodySlots
  <2>2. /\ u.body[c].acc = t.body[c].acc \/ u.body[c].acc = a
        /\ u.slot[c].state = t.slot[c].state \/ u.slot[c].state = a
    BY <1>1, <1>2 DEF Streams, BodySlots
  <2> QED  BY <1>1, <1>3, <2>1, <2>2
<1>9. BodyTyped(u)  BY <1>1, <1>2, <1>3, <1>5, <1>7, <1>8 DEF BodyTyped
<1> QED  BY <1>2, <1>3, <1>4, <1>6, <1>9 DEF Creates

LEMMA CreateOK ==
  ASSUME NEW t, BodyTyped(t), NEW b \in Bodies, NEW limit \in Nat, NEW spooling, NEW u,
         u = CreateState(t, b), Unshared(t), ~t.hist.threw,
         \A c \in Bodies \ {b} : Handled(t, c) /\ Shows(t, c, limit, spooling) /\ Collects(t, c, limit),
         t.body[b].stage = "open", t.body[b].held, t.body[b].sent = 0,
         t.slot[b].state = None, t.slot[b].record = << >>, ~t.slot[b].truncated
  PROVE  BodyTyped(u) /\ BodyOK(u, limit, spooling)
<1>0. PICK a \in 1 .. Len(u.acc) : Creates(t, b, a, u)  BY CreateParts
<1>1. /\ BodyTyped(u) /\ u.acc[a] = NoAcc /\ a # None
      /\ u.body = [t.body EXCEPT ![b] = [@ EXCEPT !.acc = a]]
      /\ u.slot = [t.slot EXCEPT ![b] = [@ EXCEPT !.state = a]]
      /\ u.hist = t.hist /\ u.spool = t.spool
      /\ \A i \in 1 .. Len(t.acc) : i # a => u.acc[i] = t.acc[i]
      /\ a > Len(t.acc) \/ \E n \in DOMAIN t.pool : a = t.pool[n] /\ n = Len(t.pool)
      /\ \A i \in DOMAIN u.pool : i \in DOMAIN t.pool /\ i # Len(t.pool) /\ u.pool[i] = t.pool[i]
  BY <1>0 DEF Creates
<1>2. /\ t.body \in [Bodies -> Streams] /\ t.slot \in [Bodies -> BodySlots]
      /\ t.acc \in Seq(Accumulators) /\ t.pool \in Seq(1 .. Len(t.acc)) /\ Len(t.acc) \in Nat
      /\ \A c \in Bodies : t.slot[c].state \in 0 .. Len(t.acc) /\ t.body[c].acc \in 0 .. Len(t.acc)
  BY DEF BodyTyped, BodySlots, Streams
<1>3. /\ \A c \in Bodies \ {b} : u.slot[c] = t.slot[c] /\ u.body[c] = t.body[c]
      /\ u.slot[b].state = a /\ u.slot[b].record = << >> /\ ~u.slot[b].truncated
      /\ u.body[b].acc = a /\ u.body[b].stage = "open" /\ u.body[b].sent = 0 /\ u.body[b].held
      /\ u.body[b].kind = t.body[b].kind
  BY <1>1, <1>2 DEF BodySlots, Streams
<1>4. \A c \in Bodies : t.slot[c].state # a
  <2> SUFFICES ASSUME NEW c \in Bodies, t.slot[c].state = a  PROVE FALSE  OBVIOUS
  <2>1. a \in 1 .. Len(t.acc) /\ a <= Len(t.acc)  BY <1>1, <1>2
  <2>2. PICK n \in DOMAIN t.pool : a = t.pool[n]  BY <1>1, <1>2, <2>1
  <2> QED  BY <2>2 DEF Unshared
<1>5. Unshared(u)
  <2>1. \A c, d \in Bodies : u.slot[c].state = u.slot[d].state /\ u.slot[c].state # None => c = d
    BY <1>3, <1>4 DEF Unshared
  <2>2. \A i, j \in DOMAIN u.pool : u.pool[i] = u.pool[j] => i = j  BY <1>1 DEF Unshared
  <2>3. \A i \in DOMAIN u.pool : u.pool[i] # a
    <3> SUFFICES ASSUME NEW i \in DOMAIN u.pool, u.pool[i] = a  PROVE FALSE  OBVIOUS
    <3>1. i \in DOMAIN t.pool /\ i # Len(t.pool) /\ t.pool[i] = a /\ a \in 1 .. Len(t.acc)
      BY <1>1, <1>2
    <3>2. PICK n \in DOMAIN t.pool : a = t.pool[n] /\ n = Len(t.pool)  BY <1>1, <1>2, <3>1
    <3> QED  BY <3>1, <3>2 DEF Unshared
  <2>4. \A i \in DOMAIN u.pool : \A c \in Bodies : u.slot[c].state # u.pool[i]
    BY <1>1, <1>3, <2>3 DEF Unshared
  <2> QED  BY <2>1, <2>2, <2>4 DEF Unshared
<1>6. ASSUME NEW c \in Bodies \ {b}
      PROVE  Handled(u, c) /\ Shows(u, c, limit, spooling) /\ Collects(u, c, limit)
  <2>1. t.slot[c].state # None => u.acc[t.slot[c].state] = t.acc[t.slot[c].state]
    <3> SUFFICES ASSUME t.slot[c].state # None
                 PROVE  u.acc[t.slot[c].state] = t.acc[t.slot[c].state]
      OBVIOUS
    <3>1. t.slot[c].state \in 1 .. Len(t.acc) /\ t.slot[c].state # a  BY <1>2, <1>4 DEF None
    <3> QED  BY <1>1, <3>1
  <2>2. u.slot[c] = t.slot[c] /\ u.body[c] = t.body[c]  BY <1>3
  <2>3. Handled(t, c) /\ Shows(t, c, limit, spooling) /\ Collects(t, c, limit)  OBVIOUS
  <2>4. Handled(u, c)
    <3> DEFINE x == t.body[c]
    <3>1. x.held /\ x.stage = "open" /\ x.acc # None =>
            u.slot[c].state = x.acc /\ ~u.acc[x.acc].hashed
      BY <2>1, <2>2, <2>3 DEF Handled
    <3> QED  BY <2>2, <2>3, <3>1 DEF Handled
  <2>5. Shows(u, c, limit, spooling)  BY <2>2, <2>3 DEF Shows
  <2>6. Collects(u, c, limit)  BY <2>1, <2>2, <2>3 DEF Collects
  <2> QED  BY <2>4, <2>5, <2>6
<1>7. Handled(u, b)  BY <1>1, <1>3 DEF Handled, NoAcc
<1>8. Shows(u, b, limit, spooling)  BY <1>3 DEF Shows
<1>9. Collects(u, b, limit)
  <2>1. u.acc[a].chunks = << >> /\ Len(<< >>) = 0 /\ DOMAIN << >> = {}  BY <1>1 DEF NoAcc
  <2> QED  BY <1>3, <2>1 DEF Collects
<1> QED  BY <1>1, <1>5, <1>6, <1>7, <1>8, <1>9 DEF BodyOK

(* An accumulator goes back to the pool.                                         *)
Drops(t, b, a, u) ==
  /\ BodyTyped(u) /\ u.body = t.body
  /\ u.slot = [t.slot EXCEPT ![b] = [@ EXCEPT !.state = None]]
  /\ u.hist = t.hist /\ u.spool = t.spool /\ Len(u.acc) = Len(t.acc)
  /\ \A i \in 1 .. Len(t.acc) : i # a => u.acc[i] = t.acc[i]
  /\ u.pool = t.pool \/ u.pool = Append(t.pool, a)

LEMMA DropParts ==
  ASSUME NEW t, BodyTyped(t), NEW b \in Bodies, NEW a \in 1 .. Len(t.acc), NEW u, u = Drop(t, b, a)
  PROVE  Drops(t, b, a, u)
<1>1. /\ t = [body |-> t.body, slot |-> t.slot, acc |-> t.acc, pool |-> t.pool,
              spool |-> t.spool, hist |-> t.hist]
      /\ t.body \in [Bodies -> Streams] /\ t.slot \in [Bodies -> BodySlots]
      /\ t.acc \in Seq(Accumulators) /\ t.pool \in Seq(1 .. Len(t.acc)) /\ Len(t.acc) \in Nat
  BY DEF BodyTyped
<1>2. /\ u.body = t.body /\ u.hist = t.hist /\ u.spool = t.spool
      /\ u.slot = [t.slot EXCEPT ![b] = [@ EXCEPT !.state = None]]
      /\ u.acc = [t.acc EXCEPT ![a] = NoAcc]
      /\ u.pool = t.pool \/ u.pool = Append(t.pool, a)
      /\ u = [body |-> u.body, slot |-> u.slot, acc |-> u.acc, pool |-> u.pool,
              spool |-> u.spool, hist |-> u.hist]
  BY <1>1 DEF Drop, ReleaseState
<1>3. u.acc \in Seq(Accumulators) /\ Len(u.acc) = Len(t.acc)
      /\ \A i \in 1 .. Len(t.acc) : i # a => u.acc[i] = t.acc[i]
  BY <1>1, <1>2, NoAccTyped
<1>4. u.pool \in Seq(1 .. Len(t.acc))
  <2>1. CASE u.pool = t.pool  BY <1>1, <2>1
  <2>2. CASE u.pool = Append(t.pool, a)  BY <1>1, <2>2
  <2> QED  BY <1>2, <2>1, <2>2
<1>5. u.slot \in [Bodies -> BodySlots]
  <2>1. t.slot[b] \in BodySlots /\ None \in Nat  BY <1>1 DEF None
  <2>2. [t.slot[b] EXCEPT !.state = None] \in BodySlots  BY <2>1 DEF BodySlots
  <2> QED  BY <1>1, <1>2, <2>2
<1>6. \A c \in Bodies : u.slot[c].state <= Len(t.acc)
  <2> SUFFICES ASSUME NEW c \in Bodies  PROVE u.slot[c].state <= Len(t.acc)  OBVIOUS
  <2>1. t.slot[c].state <= Len(t.acc)  BY DEF BodyTyped
  <2>2. u.slot[c].state = t.slot[c].state \/ u.slot[c].state = 0  BY <1>1, <1>2 DEF None, BodySlots
  <2> QED  BY <1>1, <2>1, <2>2
<1>7. BodyTyped(u)  BY <1>1, <1>2, <1>3, <1>4, <1>5, <1>6 DEF BodyTyped
<1> QED  BY <1>2, <1>3, <1>7 DEF Drops

Alone(t, b, a) ==
  /\ \A c \in Bodies \ {b} : t.slot[c].state # a
  /\ \A i \in DOMAIN t.pool : t.pool[i] # a

LEMMA OwnIsAlone ==
  ASSUME NEW t, BodyTyped(t), Unshared(t), NEW b \in Bodies, t.slot[b].state # None
  PROVE  Alone(t, b, t.slot[b].state) /\ t.slot[b].state \in 1 .. Len(t.acc)
<1>1. t.slot[b] \in BodySlots /\ t.slot[b].state <= Len(t.acc)  BY DEF BodyTyped
<1>2. t.slot[b].state \in 1 .. Len(t.acc)  BY <1>1 DEF BodySlots, None, BodyTyped
<1>3. \A c \in Bodies : t.slot[c].state = t.slot[b].state => c = b  BY DEF Unshared
<1> QED  BY <1>2, <1>3 DEF Alone, Unshared

Aside(t, u, b, a) ==
  /\ \A c \in Bodies \ {b} : t.slot[c].state # a
  /\ \A c \in Bodies \ {b} : u.slot[c] = t.slot[c] /\ u.body[c] = t.body[c]
  /\ \A i \in 1 .. Len(t.acc) : i # a => u.acc[i] = t.acc[i]

(* All is well with the bodies other than b, whatever befell the accumulator a.  *)
Others_OK(t, b, limit, spooling) ==
  \A c \in Bodies \ {b} : Handled(t, c) /\ Shows(t, c, limit, spooling) /\ Collects(t, c, limit)

LEMMA OthersStay ==
  ASSUME NEW t, BodyTyped(t), NEW b \in Bodies, NEW limit, NEW spooling, NEW a, NEW u,
         Others_OK(t, b, limit, spooling), Aside(t, u, b, a)
  PROVE  Others_OK(u, b, limit, spooling)
<1> SUFFICES ASSUME NEW c \in Bodies \ {b}
             PROVE  Handled(u, c) /\ Shows(u, c, limit, spooling) /\ Collects(u, c, limit)
  BY DEF Others_OK
<1>1. t.slot[c].state # None => u.acc[t.slot[c].state] = t.acc[t.slot[c].state]
  <2> SUFFICES ASSUME t.slot[c].state # None
               PROVE  u.acc[t.slot[c].state] = t.acc[t.slot[c].state]
    OBVIOUS
  <2>1. t.slot[c] \in BodySlots /\ t.slot[c].state <= Len(t.acc)  BY DEF BodyTyped
  <2>2. t.slot[c].state \in 1 .. Len(t.acc)  BY <2>1 DEF None, BodySlots, BodyTyped
  <2> QED  BY <2>2 DEF Aside
<1>2. u.slot[c] = t.slot[c] /\ u.body[c] = t.body[c]  BY DEF Aside
<1>3. Handled(t, c) /\ Shows(t, c, limit, spooling) /\ Collects(t, c, limit)  BY DEF Others_OK
<1>4. Handled(u, c)  BY <1>1, <1>2, <1>3 DEF Handled
<1>5. Shows(u, c, limit, spooling)  BY <1>2, <1>3 DEF Shows
<1>6. Collects(u, c, limit)  BY <1>1, <1>2, <1>3 DEF Collects
<1> QED  BY <1>4, <1>5, <1>6

LEMMA DropOK ==
  ASSUME NEW t, BodyTyped(t), NEW b \in Bodies, NEW a \in 1 .. Len(t.acc), NEW u, u = Drop(t, b, a),
         NEW limit, NEW spooling, Unshared(t), ~t.hist.threw, Alone(t, b, a),
         Others_OK(t, b, limit, spooling), Handled(t, b), Shows(t, b, limit, spooling),
         ~t.body[b].held \/ t.body[b].stage # "open"
  PROVE  BodyTyped(u) /\ BodyOK(u, limit, spooling)
<1>0. Drops(t, b, a, u)  BY DropParts
<1>1. /\ BodyTyped(u) /\ u.body = t.body
      /\ u.slot = [t.slot EXCEPT ![b] = [@ EXCEPT !.state = None]] /\ t.slot \in [Bodies -> BodySlots]
      /\ u.hist = t.hist /\ Len(u.acc) = Len(t.acc) /\ t.pool \in Seq(1 .. Len(t.acc))
      /\ \A i \in 1 .. Len(t.acc) : i # a => u.acc[i] = t.acc[i]
      /\ u.pool = t.pool \/ u.pool = Append(t.pool, a)
  BY <1>0 DEF Drops, BodyTyped
<1>2. /\ \A c \in Bodies \ {b} : u.slot[c] = t.slot[c]
      /\ u.slot[b].state = None /\ u.slot[b].record = t.slot[b].record
      /\ u.slot[b].truncated = t.slot[b].truncated
  BY <1>1 DEF BodySlots
<1>3. \A c \in Bodies : u.slot[c].state = None \/ (u.slot[c].state = t.slot[c].state /\ c # b)
  BY <1>2
<1>4. \A i \in DOMAIN u.pool : u.pool[i] = a \/ (i \in DOMAIN t.pool /\ u.pool[i] = t.pool[i])
  <2>1. CASE u.pool = t.pool  BY <2>1
  <2>2. CASE u.pool = Append(t.pool, a)
    <3>1. /\ DOMAIN u.pool = 1 .. Len(t.pool) + 1 /\ u.pool[Len(t.pool) + 1] = a
          /\ DOMAIN t.pool = 1 .. Len(t.pool) /\ Len(t.pool) \in Nat
          /\ \A i \in 1 .. Len(t.pool) : u.pool[i] = t.pool[i]
      BY <1>1, <2>2
    <3> QED  BY <3>1
  <2> QED  BY <1>1, <2>1, <2>2
<1>5. a # None  BY DEF None
<1>6. Unshared(u)
  <2>1. \A c, d \in Bodies : u.slot[c].state = u.slot[d].state /\ u.slot[c].state # None => c = d
    BY <1>3 DEF Unshared
  <2>2. \A i \in DOMAIN u.pool : \A c \in Bodies : u.slot[c].state # u.pool[i]
    <3> SUFFICES ASSUME NEW i \in DOMAIN u.pool, NEW c \in Bodies  PROVE u.slot[c].state # u.pool[i]
      OBVIOUS
    <3>1. CASE u.slot[c].state = None
      <4>1. u.pool \in Seq(1 .. Len(u.acc))  BY <1>1 DEF BodyTyped
      <4>2. u.pool[i] \in 1 .. Len(u.acc)  BY <4>1
      <4>3. Len(u.acc) \in Nat  BY <1>1 DEF BodyTyped
      <4> QED  BY <3>1, <4>2, <4>3 DEF None
    <3>2. CASE u.slot[c].state = t.slot[c].state /\ c # b
      BY <1>4, <3>2 DEF Alone, Unshared
    <3> QED  BY <1>3, <3>1, <3>2
  <2>3. \A i, j \in DOMAIN u.pool : u.pool[i] = u.pool[j] => i = j
    <3>1. CASE u.pool = t.pool  BY <3>1 DEF Unshared
    <3>2. CASE u.pool = Append(t.pool, a)
      <4>1. /\ DOMAIN u.pool = 1 .. Len(t.pool) + 1 /\ u.pool[Len(t.pool) + 1] = a
            /\ DOMAIN t.pool = 1 .. Len(t.pool) /\ Len(t.pool) \in Nat
            /\ \A i \in 1 .. Len(t.pool) : u.pool[i] = t.pool[i] /\ u.pool[i] # a
        BY <1>1, <3>2 DEF Alone
      <4>2. \A i \in DOMAIN u.pool : i \in 1 .. Len(t.pool) \/ i = Len(t.pool) + 1  BY <4>1
      <4> QED  BY <4>1, <4>2 DEF Unshared
    <3> QED  BY <1>1, <3>1, <3>2
  <2> QED  BY <2>1, <2>2, <2>3 DEF Unshared
<1>7. Others_OK(u, b, limit, spooling)
  <2>1. \A c \in Bodies \ {b} : t.slot[c].state # a  BY DEF Alone
  <2>2. \A c \in Bodies \ {b} : u.slot[c] = t.slot[c] /\ u.body[c] = t.body[c]  BY <1>1, <1>2
  <2>3. \A i \in 1 .. Len(t.acc) : i # a => u.acc[i] = t.acc[i]  BY <1>1
  <2>4. Aside(t, u, b, a)  BY <2>1, <2>2, <2>3 DEF Aside
  <2> QED  BY <2>4, OthersStay
<1>8. Handled(u, b)  BY <1>1, <1>2 DEF Handled
<1>9. Shows(u, b, limit, spooling)  BY <1>1, <1>2 DEF Shows
<1>10. Collects(u, b, limit)  BY <1>2 DEF Collects
<1> QED  BY <1>1, <1>6, <1>7, <1>8, <1>9, <1>10 DEF BodyOK, Others_OK

LEMMA OKParts ==
  ASSUME NEW t, NEW limit, NEW spooling, BodyOK(t, limit, spooling), NEW b \in Bodies
  PROVE  /\ Unshared(t) /\ ~t.hist.threw /\ Others_OK(t, b, limit, spooling)
         /\ Handled(t, b) /\ Shows(t, b, limit, spooling) /\ Collects(t, b, limit)
BY DEF BodyOK, Others_OK

LEMMA AppendOne ==
  ASSUME NEW S, NEW q \in Seq(S), NEW e \in S
  PROVE  /\ Append(q, e) \in Seq(S) /\ Len(Append(q, e)) = Len(q) + 1 /\ Len(q) \in Nat
         /\ \A i \in DOMAIN Append(q, e) : Append(q, e)[i] = e \/ (i \in DOMAIN q /\ Append(q, e)[i] = q[i])
OBVIOUS

(* One more chunk.                                                               *)
LEMMA ChunkTyped ==
  ASSUME NEW t, BodyTyped(t), NEW b \in Bodies, t.body[b].acc # None, NEW u, u = CaptureChunk(t, b)
  PROVE  BodyTyped(u) /\ u.body = t.body /\ u.spool = t.spool /\ u.hist.broken = t.hist.broken
<1> DEFINE a == t.body[b].acc
           over == Len(t.acc[a].chunks) >= ByteLimit
           x == [t.acc[a] EXCEPT !.total = @ + 1, !.chunks = IF over THEN @ ELSE Append(@, b),
                                 !.truncated = over]
<1>1. /\ t = [body |-> t.body, slot |-> t.slot, acc |-> t.acc, pool |-> t.pool,
              spool |-> t.spool, hist |-> t.hist]
      /\ t.body \in [Bodies -> Streams] /\ t.slot \in [Bodies -> BodySlots]
      /\ t.acc \in Seq(Accumulators) /\ t.pool \in Seq(1 .. Len(t.acc)) /\ Len(t.acc) \in Nat
      /\ t.hist \in [broken : BOOLEAN, threw : BOOLEAN] /\ a <= Len(t.acc)
  BY DEF BodyTyped
<1>2. a \in 1 .. Len(t.acc) /\ t.acc[a] \in Accumulators  BY <1>1 DEF Streams, None
<1>3. CASE t.acc[a].hashed
  <2>1. u = [t EXCEPT !.hist.threw = TRUE]  BY <1>3 DEF CaptureChunk
  <2>2. /\ u.hist = [t.hist EXCEPT !.threw = TRUE] /\ u.body = t.body /\ u.slot = t.slot
        /\ u.acc = t.acc /\ u.pool = t.pool /\ u.spool = t.spool
        /\ u = [body |-> u.body, slot |-> u.slot, acc |-> u.acc, pool |-> u.pool,
                spool |-> u.spool, hist |-> u.hist]
    BY <1>1, <2>1
  <2>3. u.hist \in [broken : BOOLEAN, threw : BOOLEAN] /\ u.hist.broken = t.hist.broken
    BY <1>1, <2>2
  <2> QED  BY <2>2, <2>3 DEF BodyTyped
<1>4. CASE ~t.acc[a].hashed
  <2> HIDE DEF over
  <2>1. /\ u.body = t.body /\ u.pool = t.pool /\ u.spool = t.spool /\ u.hist = t.hist
        /\ u.acc = [t.acc EXCEPT ![a] = x]
        /\ u.slot = [t.slot EXCEPT ![b] = [t.slot[b] EXCEPT !.truncated = @ \/ over]]
        /\ u = [body |-> u.body, slot |-> u.slot, acc |-> u.acc, pool |-> u.pool,
                spool |-> u.spool, hist |-> u.hist]
    BY <1>1, <1>2, <1>4 DEF CaptureChunk, over
  <2>2. over \in BOOLEAN  BY DEF over
  <2>3. x \in Accumulators
    <3>1. t.acc[a].chunks \in Seq(Bodies) /\ t.acc[a].total + 1 \in Nat
          /\ Len(t.acc[a].chunks) <= t.acc[a].total /\ t.acc[a].total \in Nat
      BY <1>2 DEF Accumulators
    <3>2. /\ (IF over THEN t.acc[a].chunks ELSE Append(t.acc[a].chunks, b)) \in Seq(Bodies)
          /\ Len(IF over THEN t.acc[a].chunks ELSE Append(t.acc[a].chunks, b)) <= t.acc[a].total + 1
      <4>1. CASE over
        <5> DEFINE c == t.acc[a].chunks
                   e == Append(c, b)
                   n == t.acc[a].total
        <5>1. c \in Seq(Bodies) /\ n \in Nat /\ Len(c) <= n  BY <3>1
        <5> HIDE DEF c, e, n
        <5>2. (IF over THEN c ELSE e) = c  BY <4>1
        <5>3. Len(c) \in Nat /\ Len(c) <= n + 1  BY <5>1
        <5> QED  BY <5>1, <5>2, <5>3 DEF c, e, n
      <4>2. CASE ~over
        <5>1. /\ Append(t.acc[a].chunks, b) \in Seq(Bodies)
              /\ Len(Append(t.acc[a].chunks, b)) = Len(t.acc[a].chunks) + 1
              /\ Len(t.acc[a].chunks) \in Nat
          <6> DEFINE c == t.acc[a].chunks
          <6>1. c \in Seq(Bodies)  BY <3>1
          <6> HIDE DEF c
          <6>2. Append(c, b) \in Seq(Bodies) /\ Len(Append(c, b)) = Len(c) + 1 /\ Len(c) \in Nat
            BY <6>1, AppendOne
          <6> QED  BY <6>2 DEF c
        <5> QED  BY <3>1, <4>2, <5>1
      <4> QED  BY <4>1, <4>2
    <3>3. \A q \in Seq(Bodies), n \in Nat : Len(q) <= n =>
            [t.acc[a] EXCEPT !.total = n, !.chunks = q, !.truncated = over] \in Accumulators
      BY <1>2, <2>2 DEF Accumulators
    <3> DEFINE q == IF over THEN t.acc[a].chunks ELSE Append(t.acc[a].chunks, b)
               n == t.acc[a].total + 1
    <3>4. x = [t.acc[a] EXCEPT !.total = n, !.chunks = q, !.truncated = over]  OBVIOUS
    <3> HIDE DEF x, q
    <3> QED  BY <3>1, <3>2, <3>3, <3>4 DEF q
  <2> HIDE DEF a, x
  <2>4. u.acc \in Seq(Accumulators) /\ Len(u.acc) = Len(t.acc)  BY <1>1, <1>2, <2>1, <2>3
  <2>5. u.slot \in [Bodies -> BodySlots]
    <3>1. t.slot[b] \in BodySlots  BY <1>1
    <3> DEFINE z == [t.slot[b] EXCEPT !.truncated = @ \/ over]
    <3>2. z \in BodySlots  BY <2>2, <3>1 DEF BodySlots
    <3>3. u.slot = [t.slot EXCEPT ![b] = z]  BY <2>1
    <3> HIDE DEF z
    <3> QED  BY <1>1, <3>2, <3>3
  <2>6. \A c \in Bodies : u.slot[c].state = t.slot[c].state  BY <1>1, <2>1 DEF BodySlots
  <2> QED  BY <1>1, <2>1, <2>4, <2>5, <2>6 DEF BodyTyped
<1> QED  BY <1>3, <1>4

(* The stream and the slot of b, the spool and the history change.               *)
With(t, b, x, d, sp, h) ==
  [body |-> [t.body EXCEPT ![b] = x], slot |-> [t.slot EXCEPT ![b] = d],
   acc |-> t.acc, pool |-> t.pool, spool |-> sp, hist |-> h]
Apart(t, u, b, x, d) ==
  /\ u.body[b] = x /\ u.slot[b] = d /\ u.acc = t.acc /\ u.pool = t.pool
  /\ \A c \in Bodies \ {b} : u.slot[c] = t.slot[c] /\ u.body[c] = t.body[c]
Histories == [broken : BOOLEAN, threw : BOOLEAN]

LEMMA WithTyped ==
  ASSUME NEW t, BodyTyped(t), NEW b \in Bodies, NEW x \in Streams, NEW d \in BodySlots,
         x.acc <= Len(t.acc), d.state <= Len(t.acc), NEW h \in Histories, NEW sp,
         NEW u, u = With(t, b, x, d, sp, h)
  PROVE  BodyTyped(u) /\ Apart(t, u, b, x, d) /\ u.spool = sp /\ u.hist = h
<1>1. /\ t.body \in [Bodies -> Streams] /\ t.slot \in [Bodies -> BodySlots]
      /\ t.acc \in Seq(Accumulators) /\ t.pool \in Seq(1 .. Len(t.acc))
      /\ \A c \in Bodies : t.body[c].acc <= Len(t.acc) /\ t.slot[c].state <= Len(t.acc)
  BY DEF BodyTyped
<1>2. /\ u.body = [t.body EXCEPT ![b] = x] /\ u.slot = [t.slot EXCEPT ![b] = d]
      /\ u.acc = t.acc /\ u.pool = t.pool /\ u.spool = sp /\ u.hist = h
      /\ u = [body |-> u.body, slot |-> u.slot, acc |-> u.acc, pool |-> u.pool,
              spool |-> u.spool, hist |-> u.hist]
  BY DEF With
<1>3. u.body \in [Bodies -> Streams] /\ u.slot \in [Bodies -> BodySlots]  BY <1>1, <1>2
<1>4. Apart(t, u, b, x, d)  BY <1>1, <1>2 DEF Apart
<1>5. \A c \in Bodies : u.body[c].acc <= Len(u.acc) /\ u.slot[c].state <= Len(u.acc)
  BY <1>1, <1>2, <1>4 DEF Apart
<1> QED  BY <1>1, <1>2, <1>3, <1>4, <1>5 DEF BodyTyped, Histories

(* What it takes for all to be well after that.                                  *)
LEMMA WithOK ==
  ASSUME NEW t, BodyTyped(t), NEW b \in Bodies, NEW x, NEW d, NEW u, BodyTyped(u), Apart(t, u, b, x, d),
         NEW limit, NEW spooling, Unshared(t), Others_OK(t, b, limit, spooling),
         d.state = t.slot[b].state \/ d.state = None
  PROVE  Unshared(u) /\ Others_OK(u, b, limit, spooling)
<1>1. /\ u.body[b] = x /\ u.slot[b] = d /\ u.acc = t.acc /\ u.pool = t.pool
      /\ \A c \in Bodies \ {b} : u.slot[c] = t.slot[c] /\ u.body[c] = t.body[c]
  BY DEF Apart
<1>2. \A c \in Bodies : u.slot[c].state = None \/ u.slot[c].state = t.slot[c].state  BY <1>1
<1>3. \A i \in DOMAIN u.pool : u.pool[i] # None
  BY <1>1 DEF BodyTyped, None
<1>4. Unshared(u)  BY <1>1, <1>2, <1>3 DEF Unshared
<1>5. Others_OK(u, b, limit, spooling)
  BY <1>1 DEF Others_OK, Handled, Shows, Collects
<1> QED  BY <1>4, <1>5

(* The end of a body: its accumulator is final, or not used at all.              *)
Finalizes(t, b, a, f) ==
  /\ BodyTyped(f) /\ f.spool = t.spool /\ f.hist = t.hist /\ f.pool = t.pool /\ f.body = t.body
  /\ Len(f.acc) = Len(t.acc) /\ f.acc[a].chunks = t.acc[a].chunks
  /\ f.slot = [t.slot EXCEPT ![b] = [t.slot[b] EXCEPT !.record = << >>]]
  /\ \A i \in 1 .. Len(t.acc) : i # a => f.acc[i] = t.acc[i]
Settled(t, b, a, u) ==
  \E f : Finalizes(t, b, a, f) /\ (u = f \/ u = Drop(f, b, a))

LEMMA FinalizeParts ==
  ASSUME NEW t, BodyTyped(t), NEW b \in Bodies, NEW a, a = t.body[b].acc, a # None,
         NEW u, u = FinalizeCapture(t, b)
  PROVE  Settled(t, b, a, u) /\ a \in 1 .. Len(t.acc)
<1>1. /\ t = [body |-> t.body, slot |-> t.slot, acc |-> t.acc, pool |-> t.pool,
              spool |-> t.spool, hist |-> t.hist]
      /\ t.body \in [Bodies -> Streams] /\ t.slot \in [Bodies -> BodySlots]
      /\ t.acc \in Seq(Accumulators) /\ t.pool \in Seq(1 .. Len(t.acc)) /\ Len(t.acc) \in Nat
      /\ a <= Len(t.acc)
  BY DEF BodyTyped
<1>2. a \in 1 .. Len(t.acc) /\ t.acc[a] \in Accumulators  BY <1>1 DEF Streams, None
<1> DEFINE more == Hashing /\ ~(t.acc[a].chunks = << >>)
           y == [t.acc[a] EXCEPT !.finalized = TRUE, !.hashed = @ \/ more]
           d == [t.slot[b] EXCEPT !.record = << >>]
           f == [t EXCEPT !.acc[a] = [t.acc[a] EXCEPT !.finalized = TRUE, !.hashed = @ \/ more],
                          !.slot[b].record = << >>]
<1>3. u = f \/ u = Drop(f, b, a)
  <2>1. CASE t.acc[a].chunks = << >> /\ ~t.acc[a].truncated  BY <2>1 DEF FinalizeCapture
  <2>2. CASE ~(t.acc[a].chunks = << >> /\ ~t.acc[a].truncated)  BY <2>2 DEF FinalizeCapture
  <2> QED  BY <2>1, <2>2
<1>4. /\ f.body = t.body /\ f.pool = t.pool /\ f.spool = t.spool /\ f.hist = t.hist
      /\ f.acc = [t.acc EXCEPT ![a] = y] /\ f.slot = [t.slot EXCEPT ![b] = d]
      /\ f = [body |-> f.body, slot |-> f.slot, acc |-> f.acc, pool |-> f.pool,
              spool |-> f.spool, hist |-> f.hist]
  <2>1. f = [t EXCEPT !.acc[a] = y, !.slot[b].record = << >>]  OBVIOUS
  <2> HIDE DEF y, f
  <2> QED  BY <1>1, <2>1
<1>5. y \in Accumulators /\ y.chunks = t.acc[a].chunks
  <2>1. more \in BOOLEAN  OBVIOUS
  <2> HIDE DEF more
  <2> QED  BY <1>2, <2>1 DEF Accumulators
<1> HIDE DEF y, f
<1>6. /\ f.acc \in Seq(Accumulators) /\ Len(f.acc) = Len(t.acc) /\ f.acc[a] = y
      /\ \A i \in 1 .. Len(t.acc) : i # a => f.acc[i] = t.acc[i]
  BY <1>1, <1>2, <1>4, <1>5
<1>7. d \in BodySlots /\ d.state = t.slot[b].state
  <2>1. t.slot[b] \in BodySlots /\ << >> \in Seq(Bodies)  BY <1>1
  <2> QED  BY <2>1 DEF BodySlots
<1>8. f.slot \in [Bodies -> BodySlots] /\ \A c \in Bodies : f.slot[c].state = t.slot[c].state
  <2> HIDE DEF d
  <2> QED  BY <1>1, <1>4, <1>7
<1>9. BodyTyped(f)  BY <1>1, <1>4, <1>6, <1>8 DEF BodyTyped
<1>10. Finalizes(t, b, a, f)  BY <1>4, <1>5, <1>6, <1>9 DEF Finalizes
<1> QED  BY <1>2, <1>3, <1>10 DEF Settled

LEMMA FinalizeTyped ==
  ASSUME NEW t, BodyTyped(t), NEW b \in Bodies, t.body[b].acc # None, NEW u, u = FinalizeCapture(t, b)
  PROVE  BodyTyped(u) /\ u.body = t.body /\ u.spool = t.spool /\ u.hist = t.hist
<1> DEFINE a == t.body[b].acc
<1>1. Settled(t, b, a, u) /\ a \in 1 .. Len(t.acc)  BY FinalizeParts
<1>2. PICK f : Finalizes(t, b, a, f) /\ (u = f \/ u = Drop(f, b, a))  BY <1>1 DEF Settled
<1>3. BodyTyped(f) /\ f.body = t.body /\ f.spool = t.spool /\ f.hist = t.hist /\ Len(f.acc) = Len(t.acc)
  BY <1>2 DEF Finalizes
<1>4. CASE u = f  BY <1>3, <1>4
<1>5. CASE u = Drop(f, b, a)
  <2>1. a \in 1 .. Len(f.acc)  BY <1>1, <1>3
  <2> HIDE DEF a
  <2>2. Drops(f, b, a, u)  BY <1>3, <1>5, <2>1, DropParts
  <2> QED  BY <1>3, <2>2 DEF Drops
<1> QED  BY <1>2, <1>4, <1>5

LEMMA FinalizeOK ==
  ASSUME NEW t, BodyTyped(t), NEW b \in Bodies, NEW u, u = FinalizeCapture(t, b),
         NEW limit, NEW spooling, Unshared(t), ~t.hist.threw, Others_OK(t, b, limit, spooling),
         Handled(t, b), Collects(t, b, limit), t.body[b].acc # None,
         t.slot[b].state = t.body[b].acc, t.body[b].stage # "open"
  PROVE  BodyOK(u, limit, spooling)
<1> DEFINE a == t.body[b].acc
<1>1. Settled(t, b, a, u) /\ a \in 1 .. Len(t.acc)  BY FinalizeParts
<1>2. PICK f : Finalizes(t, b, a, f) /\ (u = f \/ u = Drop(f, b, a))  BY <1>1 DEF Settled
<1>3. /\ BodyTyped(f) /\ f.hist = t.hist /\ f.pool = t.pool /\ f.body = t.body
      /\ Len(f.acc) = Len(t.acc) /\ f.acc[a].chunks = t.acc[a].chunks
      /\ f.slot = [t.slot EXCEPT ![b] = [t.slot[b] EXCEPT !.record = << >>]]
      /\ \A i \in 1 .. Len(t.acc) : i # a => f.acc[i] = t.acc[i]
      /\ t.slot \in [Bodies -> BodySlots]
  BY <1>2 DEF Finalizes, BodyTyped
<1>4. Alone(t, b, a)  BY OwnIsAlone
<1>5. /\ \A c \in Bodies \ {b} : f.slot[c] = t.slot[c] /\ f.body[c] = t.body[c]
      /\ f.slot[b].state = a /\ f.slot[b].record = << >> /\ f.slot[b].truncated = t.slot[b].truncated
      /\ \A c \in Bodies : f.slot[c].state = t.slot[c].state
  BY <1>3 DEF BodySlots
<1>6. Unshared(f)  BY <1>3, <1>5 DEF Unshared
<1>7. Others_OK(f, b, limit, spooling)
  <2>1. Aside(t, f, b, a)  BY <1>3, <1>4, <1>5 DEF Aside, Alone
  <2> QED  BY <2>1, OthersStay
<1>8. Handled(f, b)  BY <1>3, <1>5 DEF Handled
<1>9. Shows(f, b, limit, spooling)  BY <1>5 DEF Shows
<1>10. Collects(f, b, limit)
  <2>1. a = t.slot[b].state /\ a = t.body[b].acc /\ f.body[b] = t.body[b]  BY <1>3
  <2> HIDE DEF a
  <2>2. f.acc[f.slot[b].state].chunks = t.acc[t.slot[b].state].chunks  BY <1>3, <1>5, <2>1
  <2>3. t.slot[b].record = << >>  BY <1>1, <2>1 DEF Collects, None
  <2> QED  BY <1>5, <2>1, <2>2, <2>3 DEF Collects
<1>11. CASE u = f  BY <1>3, <1>6, <1>7, <1>8, <1>9, <1>10, <1>11 DEF BodyOK, Others_OK
<1>12. CASE u = Drop(f, b, a)
  <2>1. Alone(f, b, a)  BY <1>3, <1>4, <1>5 DEF Alone
  <2>2. a \in 1 .. Len(f.acc) /\ ~f.hist.threw /\ f.body[b].stage # "open"  BY <1>1, <1>3
  <2> HIDE DEF a
  <2> QED  BY <1>3, <1>6, <1>7, <1>8, <1>9, <1>12, <2>1, <2>2, DropOK
<1> QED  BY <1>2, <1>11, <1>12

(* What is recorded of body b, or a reference into the spool; sp is the spool.   *)
Keeps(t, b, sp) ==
  \/ sp = t.spool
  \/ \E size, len \in Nat, complete \in BOOLEAN : \E pressure :
       len <= size + 1 /\ sp = Stored(t.spool, RequestOf[b], size, len, complete, pressure).spool
Written(t, b, d, sp) ==
  LET q == t.acc[t.slot[b].state].chunks IN
    /\ d \in BodySlots /\ d.state = t.slot[b].state /\ Keeps(t, b, sp)
    /\ \/ d.record = q /\ d.truncated = t.slot[b].truncated
       \/ opts.spooling /\ \A i \in DOMAIN d.record : i \in DOMAIN q /\ d.record[i] = q[i]
Materializes(t, b, u) ==
  /\ t.slot[b].state # None /\ t.slot[b].record = << >>
  /\ \E d, sp : Written(t, b, d, sp)
       /\ u = Drop(With(t, b, t.body[b], d, sp, t.hist), b, t.slot[b].state)

LEMMA LenNat ==
  ASSUME NEW S, NEW q \in Seq(S)
  PROVE  Len(q) \in Nat
OBVIOUS

LEMMA Prefix ==
  ASSUME NEW S, NEW q \in Seq(S), NEW n \in 0 .. Len(q)
  PROVE  /\ SubSeq(q, 1, n) \in Seq(S)
         /\ \A i \in DOMAIN SubSeq(q, 1, n) : i \in DOMAIN q /\ SubSeq(q, 1, n)[i] = q[i]
OBVIOUS

LEMMA MaterializeParts ==
  ASSUME NEW t, BodyTyped(t), t.spool.next \in Nat, NEW b \in Bodies, NEW len \in 0 .. 1, NEW pressure,
         opts.spooling \in BOOLEAN, NEW u, u = MaterializeBody(t, b, len, pressure)
  PROVE  u = t \/ Materializes(t, b, u)
<1> DEFINE a == t.slot[b].state
           x == t.acc[a]
           size == Len(x.chunks)
           stored == Stored(t.spool, RequestOf[b], x.total, size + len, size >= x.total, pressure)
           cut == Shorter(Preview, size)
           d == [t.slot[b] EXCEPT !.ref = stored.ref, !.truncated = Preview < x.total,
                                  !.record = SubSeq(x.chunks, 1, cut)]
           e == [t.slot[b] EXCEPT !.record = x.chunks]
<1>1. /\ t = [body |-> t.body, slot |-> t.slot, acc |-> t.acc, pool |-> t.pool,
              spool |-> t.spool, hist |-> t.hist]
      /\ t.body \in [Bodies -> Streams] /\ t.slot \in [Bodies -> BodySlots]
      /\ t.acc \in Seq(Accumulators) /\ Len(t.acc) \in Nat
      /\ t.slot[b] \in BodySlots /\ a \in Nat /\ a <= Len(t.acc)
  BY DEF BodyTyped, BodySlots
<1>2. [t.body EXCEPT ![b] = t.body[b]] = t.body  BY <1>1
<1>3. CASE a = None \/ t.slot[b].record # << >>  BY <1>3 DEF MaterializeBody
<1>4. CASE a # None /\ t.slot[b].record = << >>
  <2>1. x \in Accumulators  BY <1>1, <1>4 DEF None
  <2>2. /\ x.chunks \in Seq(Bodies) /\ x.total \in Nat /\ size \in Nat /\ size <= x.total
        /\ cut \in 0 .. size
    <3>1. x.chunks \in Seq(Bodies) /\ x.total \in Nat /\ Len(x.chunks) <= x.total
      BY <2>1 DEF Accumulators
    <3>2. Len(x.chunks) \in Nat  BY <3>1, LenNat
    <3> QED  BY <3>1, <3>2, SpoolAssumption DEF Shorter
  <2>3. CASE opts.spooling /\ x.total > MaxPayload
    <3>1. u = Drop([t EXCEPT !.spool = stored.spool, !.slot[b] = d], b, a)
      BY <1>4, <2>3 DEF MaterializeBody
    <3>2. stored.ref \in Nat  BY DEF Stored
    <3>3. [t EXCEPT !.spool = stored.spool, !.slot[b] = d] = With(t, b, t.body[b], d, stored.spool, t.hist)
      <4> DEFINE z == [t EXCEPT !.spool = stored.spool, !.slot[b] = d]
      <4> HIDE DEF d, stored
      <4>1. /\ z.body = t.body /\ z.acc = t.acc /\ z.pool = t.pool /\ z.hist = t.hist
            /\ z.spool = stored.spool /\ z.slot = [t.slot EXCEPT ![b] = d]
            /\ z = [body |-> z.body, slot |-> z.slot, acc |-> z.acc, pool |-> z.pool,
                    spool |-> z.spool, hist |-> z.hist]
        <5>1. t = [body |-> t.body, slot |-> t.slot, acc |-> t.acc, pool |-> t.pool,
                   spool |-> t.spool, hist |-> t.hist]
          BY <1>1
        <5> DEFINE sp == stored.spool
        <5> HIDE DEF sp
        <5>2. z = [t EXCEPT !.spool = sp, !.slot[b] = d]  BY DEF sp
        <5> HIDE DEF z
        <5> QED  BY <5>1, <5>2 DEF sp
      <4> HIDE DEF z
      <4> QED  BY <1>2, <4>1 DEF With, z
    <3>4. d \in BodySlots /\ d.state = a /\ d.record = SubSeq(x.chunks, 1, cut)
      <4> DEFINE q == SubSeq(x.chunks, 1, cut)
                 v == Preview < x.total
                 r == stored.ref
      <4>1. q \in Seq(Bodies)  BY <2>2, Prefix
      <4>2. v \in BOOLEAN /\ r \in Nat
        <5> HIDE DEF d, q, x, stored
        <5>1. v \in BOOLEAN  OBVIOUS
        <5>2. r \in Nat  BY <3>2
        <5> QED  BY <5>1, <5>2
      <4>3. d = [t.slot[b] EXCEPT !.ref = r, !.truncated = v, !.record = q]  OBVIOUS
      <4> HIDE DEF d, q, v, r
      <4>4. d \in BodySlots /\ d.state = a /\ d.record = q  BY <1>1, <4>1, <4>2, <4>3 DEF BodySlots
      <4> QED  BY <4>4 DEF q
    <3>5. \A i \in DOMAIN d.record : i \in DOMAIN x.chunks /\ d.record[i] = x.chunks[i]
      <4>1. /\ x.chunks \in Seq(Bodies) /\ cut \in 0 .. Len(x.chunks) /\ d.record = SubSeq(x.chunks, 1, cut)
        BY <2>2, <3>4
      <4> HIDE DEF d, cut
      <4> QED  BY <4>1, Prefix
    <3>6. Keeps(t, b, stored.spool)
      <4>1. x.total \in Nat /\ size \in Nat /\ size <= x.total  BY <2>2
      <4> HIDE DEF x, size
      <4>2. size + len \in Nat /\ size + len <= x.total + 1  BY <4>1
      <4>3. (size >= x.total) \in BOOLEAN  OBVIOUS
      <4> QED  BY <4>1, <4>2, <4>3 DEF Keeps
    <3>7. Written(t, b, d, stored.spool)  BY <2>3, <3>4, <3>5, <3>6 DEF Written
    <3> HIDE DEF d, stored
    <3> QED  BY <1>4, <3>1, <3>3, <3>7 DEF Materializes
  <2>4. CASE ~(opts.spooling /\ x.total > MaxPayload)
    <3>1. u = Drop([t EXCEPT !.slot[b].record = x.chunks], b, a)
      BY <1>4, <2>4 DEF MaterializeBody
    <3>2. e \in BodySlots /\ e.state = a /\ e.record = x.chunks /\ e.truncated = t.slot[b].truncated
      BY <1>1, <2>2 DEF BodySlots
    <3>3. [t EXCEPT !.slot[b].record = x.chunks] = With(t, b, t.body[b], e, t.spool, t.hist)
      <4>1. [t EXCEPT !.slot[b].record = x.chunks] = [t EXCEPT !.slot[b] = e]  OBVIOUS
      <4> HIDE DEF e
      <4> QED  BY <1>1, <1>2, <4>1 DEF With
    <3>4. Written(t, b, e, t.spool)  BY <3>2 DEF Written, Keeps
    <3> HIDE DEF e
    <3> QED  BY <1>4, <3>1, <3>3, <3>4 DEF Materializes
  <2> QED  BY <2>3, <2>4
<1> QED  BY <1>3, <1>4

LEMMA MaterializeTyped ==
  ASSUME NEW t, BodyTyped(t), NEW b \in Bodies, NEW u, u = t \/ Materializes(t, b, u)
  PROVE  BodyTyped(u) /\ u.body = t.body /\ Keeps(t, b, u.spool) /\ u.hist = t.hist
<1>1. CASE u = t  BY <1>1 DEF Keeps
<1>2. CASE Materializes(t, b, u)
  <2>1. PICK d, sp : Written(t, b, d, sp)
                     /\ u = Drop(With(t, b, t.body[b], d, sp, t.hist), b, t.slot[b].state)
    BY <1>2 DEF Materializes
  <2> DEFINE m == With(t, b, t.body[b], d, sp, t.hist)
  <2>2. /\ t.body[b] \in Streams /\ d \in BodySlots /\ t.hist \in Histories /\ t.body[b].acc <= Len(t.acc)
        /\ d.state = t.slot[b].state /\ d.state <= Len(t.acc) /\ t.slot[b].state # None
        /\ t.slot[b] \in BodySlots /\ t.body \in [Bodies -> Streams] /\ Len(t.acc) \in Nat
    <3>1. /\ t.body \in [Bodies -> Streams] /\ t.slot \in [Bodies -> BodySlots] /\ t.hist \in Histories
          /\ t.body[b].acc <= Len(t.acc) /\ t.slot[b].state <= Len(t.acc) /\ t.acc \in Seq(Accumulators)
      BY DEF BodyTyped, Histories
    <3>2. d \in BodySlots /\ d.state = t.slot[b].state  BY <2>1 DEF Written
    <3>3. t.slot[b].state # None  BY <1>2 DEF Materializes
    <3> QED  BY <3>1, <3>2, <3>3, LenNat
  <2>3. m = With(t, b, t.body[b], d, sp, t.hist)  OBVIOUS
  <2> HIDE DEF m
  <2>4. BodyTyped(m) /\ Apart(t, m, b, t.body[b], d) /\ m.spool = sp /\ m.hist = t.hist
    BY <2>2, <2>3, WithTyped
  <2>5. m.body = t.body  BY <2>2, <2>3 DEF With
  <2>6. t.slot[b].state \in 1 .. Len(m.acc)  BY <2>2, <2>4 DEF BodySlots, None, Apart
  <2>7. Drops(m, b, t.slot[b].state, u)  BY <2>1, <2>3, <2>4, <2>6, DropParts
  <2> QED  BY <2>1, <2>4, <2>5, <2>7 DEF Drops, Written
<1> QED  BY <1>1, <1>2

LEMMA MaterializeOK ==
  ASSUME NEW t, BodyTyped(t), NEW b \in Bodies, NEW u, u = t \/ Materializes(t, b, u),
         NEW limit, BodyOK(t, limit, opts.spooling), ~t.body[b].held
  PROVE  BodyOK(u, limit, opts.spooling)
<1>1. CASE u = t  BY <1>1
<1>2. CASE Materializes(t, b, u)
  <2>1. PICK d, sp : Written(t, b, d, sp)
                     /\ u = Drop(With(t, b, t.body[b], d, sp, t.hist), b, t.slot[b].state)
    BY <1>2 DEF Materializes
  <2> DEFINE m == With(t, b, t.body[b], d, sp, t.hist)
             a == t.slot[b].state
             q == t.acc[a].chunks
  <2>2. /\ t.body[b] \in Streams /\ d \in BodySlots /\ t.hist \in Histories /\ t.body[b].acc <= Len(t.acc)
        /\ d.state = a /\ d.state <= Len(t.acc) /\ a # None
        /\ t.slot[b] \in BodySlots /\ t.body \in [Bodies -> Streams] /\ Len(t.acc) \in Nat
    <3>1. /\ t.body \in [Bodies -> Streams] /\ t.slot \in [Bodies -> BodySlots] /\ t.hist \in Histories
          /\ t.body[b].acc <= Len(t.acc) /\ t.slot[b].state <= Len(t.acc) /\ t.acc \in Seq(Accumulators)
      BY DEF BodyTyped, Histories
    <3>2. d \in BodySlots /\ d.state = t.slot[b].state  BY <2>1 DEF Written
    <3>3. t.slot[b].state # None  BY <1>2 DEF Materializes
    <3> QED  BY <3>1, <3>2, <3>3, LenNat
  <2>3. m = With(t, b, t.body[b], d, sp, t.hist)  OBVIOUS
  <2>4. /\ Unshared(t) /\ ~t.hist.threw /\ Others_OK(t, b, limit, opts.spooling)
        /\ Handled(t, b) /\ Shows(t, b, limit, opts.spooling) /\ Collects(t, b, limit)
    BY OKParts
  <2> HIDE DEF m
  <2>5. BodyTyped(m) /\ Apart(t, m, b, t.body[b], d) /\ m.spool = sp /\ m.hist = t.hist
    BY <2>2, <2>3, WithTyped
  <2>6. Unshared(m) /\ Others_OK(m, b, limit, opts.spooling)  BY <2>2, <2>4, <2>5, WithOK
  <2>7. m.body[b] = t.body[b] /\ m.slot[b] = d /\ m.acc = t.acc /\ m.pool = t.pool  BY <2>5 DEF Apart
  <2>8. Alone(t, b, a) /\ a \in 1 .. Len(t.acc)  BY <2>2, <2>4, OwnIsAlone
  <2>9. Alone(m, b, a)  BY <2>5, <2>8 DEF Alone, Apart
  <2>10. /\ t.body[b].acc = a /\ t.slot[b].record = << >> /\ (\A i \in DOMAIN q : q[i] = b)
         /\ Len(q) <= limit /\ (t.slot[b].truncated => t.body[b].sent > Len(q))
         /\ (~t.slot[b].truncated => t.body[b].sent = Len(q)) /\ Len(q) \in Nat
    <3>1. t.acc[a] \in Accumulators  BY <2>8 DEF BodyTyped
    <3>2. Len(q) \in Nat  BY <3>1 DEF Accumulators
    <3> QED  BY <2>2, <2>4, <3>2 DEF Collects
  <2>11. Handled(m, b)
    <3>1. ~m.body[b].held /\ m.body[b].acc = a  BY <2>7, <2>10
    <3> QED  BY <2>2, <2>4, <2>7, <2>10, <3>1 DEF Handled
  <2>12. Shows(m, b, limit, opts.spooling)
    <3>1. CASE d.record = q /\ d.truncated = t.slot[b].truncated
      <4>1. d.truncated \in BOOLEAN /\ t.body[b].sent \in Nat
        BY <2>2 DEF BodySlots, Streams
      <4>2. d.truncated <=> t.body[b].sent > Len(q)
        <5>1. CASE d.truncated  BY <2>10, <3>1, <5>1
        <5>2. CASE ~d.truncated
          <6>1. ~(t.body[b].sent > Len(q))  BY <2>10, <3>1, <5>2
          <6> QED  BY <5>2, <6>1
        <5> QED  BY <5>1, <5>2
      <4> QED  BY <2>7, <2>10, <3>1, <4>2 DEF Shows
    <3>2. CASE opts.spooling /\ \A i \in DOMAIN d.record : i \in DOMAIN q /\ d.record[i] = q[i]
      BY <2>7, <2>10, <3>2 DEF Shows
    <3> QED  BY <2>1, <3>1, <3>2 DEF Written
  <2>13. ~m.hist.threw /\ a \in 1 .. Len(m.acc) /\ ~m.body[b].held  BY <2>4, <2>5, <2>7, <2>8
  <2>14. u = Drop(m, b, a)  BY <2>1, <2>3
  <2> HIDE DEF a
  <2> QED  BY <2>5, <2>6, <2>9, <2>11, <2>12, <2>13, <2>14, DropOK
<1> QED  BY <1>1, <1>2

(* The bytes of a set of entries.                                                *)
Bytes(ent, ids) == SumOf([id \in ids |-> ent[id].len], ids)
OfRequest(ent, req) == {id \in DOMAIN ent : ent[id].req = req}
Measured(ent) == IsFiniteSet(DOMAIN ent) /\ \A id \in DOMAIN ent : ent[id].len \in Nat

LEMMA UsedIsBytes ==
  ASSUME NEW sp, NEW req
  PROVE  /\ Used(sp) = Bytes(sp.entries, DOMAIN sp.entries)
         /\ RequestBytes(sp, req) = Bytes(sp.entries, OfRequest(sp.entries, req))
BY DEF Used, UsedBy, RequestBytes, Bytes, SumOf, OfRequest

LEMMA BytesNat ==
  ASSUME NEW ent, Measured(ent), NEW ids \in SUBSET DOMAIN ent
  PROVE  Bytes(ent, ids) \in Nat /\ IsFiniteSet(ids)
<1>1. IsFiniteSet(ids)  BY FS_Subset DEF Measured
<1> DEFINE f == [id \in ids |-> ent[id].len]
<1>2. \A x \in ids : f[x] \in Nat  BY DEF Measured
<1> HIDE DEF f
<1>3. SumOf(f, ids) \in Nat  BY <1>1, <1>2, SumNat
<1> QED  BY <1>1, <1>3 DEF Bytes, f

(* Of what is left the bytes are at most what they were.                         *)
LEMMA BytesLess ==
  ASSUME NEW ent, Measured(ent), NEW new, NEW ids \in SUBSET DOMAIN ent, NEW kept \in SUBSET ids,
         \A id \in kept : new[id].len = ent[id].len
  PROVE  Bytes(new, kept) <= Bytes(ent, ids)
<1> DEFINE f == [id \in ids |-> ent[id].len]
           g == [id \in kept |-> new[id].len]
<1>1. IsFiniteSet(ids) /\ IsFiniteSet(kept)  BY BytesNat, FS_Subset
<1>2. \A x \in ids : f[x] \in Nat  BY DEF Measured
<1>3. \A x \in kept : g[x] = f[x]  OBVIOUS
<1> HIDE DEF f, g
<1>4. SumOf(f, kept) <= SumOf(f, ids)  BY <1>1, <1>2, SumMonotone
<1>5. SumOf(g, kept) = SumOf(f, kept)  BY <1>1, <1>3, SumSame
<1> QED  BY <1>4, <1>5 DEF Bytes, f, g

(* One entry more.                                                               *)
LEMMA BytesMore ==
  ASSUME NEW ent, Measured(ent), NEW new, NEW ids \in SUBSET DOMAIN ent, NEW n, n \notin ids,
         new[n].len \in Nat, \A id \in ids : new[id].len = ent[id].len
  PROVE  Bytes(new, ids \cup {n}) = new[n].len + Bytes(ent, ids)
<1> DEFINE f == [id \in ids |-> ent[id].len]
           g == [id \in ids \cup {n} |-> new[id].len]
<1>1. IsFiniteSet(ids)  BY BytesNat
<1>2. \A x \in ids \cup {n} : g[x] \in Nat  BY DEF Measured
<1>3. (\A x \in ids : g[x] = f[x]) /\ g[n] = new[n].len  OBVIOUS
<1> HIDE DEF f, g
<1>4. SumOf(g, ids \cup {n}) = g[n] + SumOf(g, ids)  BY <1>1, <1>2, SumWith
<1>5. SumOf(g, ids) = SumOf(f, ids)  BY <1>1, <1>3, SumSame
<1> QED  BY <1>3, <1>4, <1>5 DEF Bytes, f, g

(* Entries are taken away, or stay and keep what counts.                         *)
Lasts(e, f) == /\ EntryShaped(f) /\ f.req = e.req /\ f.len = e.len /\ f.late = e.late
               /\ e.state = "sweepable" => f.state = "sweepable"
Outlast(sp, v) ==
  /\ v = [entries |-> v.entries, next |-> v.next, done |-> v.done]
  /\ v.next \in Nat /\ v.next >= sp.next
  /\ DOMAIN v.entries \subseteq DOMAIN sp.entries
  /\ \A id \in DOMAIN v.entries : Lasts(sp.entries[id], v.entries[id])
  /\ \A id \in DOMAIN v.entries :
       v.entries[id].req \in v.done => v.entries[id].req \in sp.done \/ v.entries[id].state = "sweepable"

LEMMA OutlastOK ==
  ASSUME NEW sp, SpoolOK(sp), NEW v, Outlast(sp, v)
  PROVE  SpoolOK(v)
<1> DEFINE old == sp.entries
           new == v.entries
<1>1. /\ Measured(old) /\ DOMAIN new \subseteq DOMAIN old /\ IsFiniteSet(DOMAIN new)
      /\ \A id \in DOMAIN new : Lasts(old[id], new[id])
      /\ sp.next \in Nat \ {0} /\ v.next \in Nat /\ v.next >= sp.next
      /\ DOMAIN old \subseteq 1 .. sp.next - 1
  BY FS_Subset DEF SpoolOK, Outlast, Measured
<1>2. \A id \in DOMAIN new : /\ new[id].len = old[id].len /\ new[id].len \in Nat /\ EntryShaped(new[id])
                             /\ new[id].req = old[id].req
  BY <1>1 DEF Lasts, Measured
<1>3. v.next \in Nat \ {0} /\ DOMAIN new \subseteq 1 .. v.next - 1  BY <1>1
<1>4. Used(v) <= GlobalMax + 1
  <2>1. Bytes(new, DOMAIN new) <= Bytes(old, DOMAIN old)  BY <1>1, <1>2, BytesLess
  <2>2. Bytes(new, DOMAIN new) \in Nat
    <3>1. Measured(new)  BY <1>1, <1>2 DEF Measured
    <3> QED  BY <3>1, BytesNat
  <2>3. Bytes(old, DOMAIN old) \in Nat  BY <1>1, BytesNat
  <2>4. Used(v) = Bytes(new, DOMAIN new) /\ Used(sp) = Bytes(old, DOMAIN old)  BY UsedIsBytes
  <2>5. Used(sp) <= GlobalMax + 1  BY DEF SpoolOK
  <2> HIDE DEF old, new
  <2> QED  BY <2>1, <2>2, <2>3, <2>4, <2>5, SpoolAssumption
<1>5. ASSUME NEW id \in DOMAIN new
      PROVE  /\ RequestBytes(v, new[id].req) <= RequestMax + 1
             /\ new[id].req \in v.done => new[id].late \/ new[id].state = "sweepable"
  <2> DEFINE req == new[id].req
             some == OfRequest(new, req)
             all == OfRequest(old, req)
  <2>1. id \in DOMAIN old /\ req = old[id].req  BY <1>1, <1>2
  <2>2. some \in SUBSET all /\ all \in SUBSET DOMAIN old /\ some \in SUBSET DOMAIN new
    BY <1>1, <1>2 DEF OfRequest
  <2>3. \A x \in some : new[x].len = old[x].len  BY <1>2, <2>2
  <2>4. RequestBytes(sp, req) <= RequestMax + 1  BY <2>1 DEF SpoolOK
  <2>5. RequestBytes(sp, req) = Bytes(old, all) /\ RequestBytes(v, req) = Bytes(new, some)  BY UsedIsBytes
  <2>6. Measured(new)  BY <1>1, <1>2 DEF Measured
  <2>7. Lasts(old[id], new[id])  BY <1>1
  <2>8. /\ req \in v.done => req \in sp.done \/ new[id].state = "sweepable"
        /\ req \in sp.done => old[id].late \/ old[id].state = "sweepable"
    BY <2>1 DEF Outlast, SpoolOK
  <2> HIDE DEF some, all, old, new, req
  <2>9. Bytes(new, some) <= Bytes(old, all)  BY <1>1, <2>2, <2>3, BytesLess
  <2>10. Bytes(new, some) \in Nat /\ Bytes(old, all) \in Nat  BY <1>1, <2>2, <2>6, BytesNat
  <2>11. RequestBytes(v, req) <= RequestMax + 1  BY <2>4, <2>5, <2>9, <2>10, SpoolAssumption
  <2> QED  BY <2>7, <2>8, <2>11 DEF Lasts, req
<1> HIDE DEF old
<1>6. v = [entries |-> v.entries, next |-> v.next, done |-> v.done]  BY DEF Outlast
<1> QED  BY <1>1, <1>2, <1>3, <1>4, <1>5, <1>6 DEF SpoolOK

LEMMA SweepOutlasts ==
  ASSUME NEW sp, SpoolOK(sp)
  PROVE  Outlast(sp, Sweep(sp)) /\ Sweep(sp).next = sp.next /\ Sweep(sp).done = sp.done
<1> DEFINE v == Sweep(sp)
           kept == {id \in DOMAIN sp.entries : ~sp.entries[id].old}
<1>1. sp = [entries |-> sp.entries, next |-> sp.next, done |-> sp.done] /\ sp.next \in Nat  BY DEF SpoolOK
<1>2. /\ v.entries = [id \in kept |-> sp.entries[id]] /\ v.next = sp.next /\ v.done = sp.done
      /\ v = [entries |-> v.entries, next |-> v.next, done |-> v.done]
  BY <1>1 DEF Sweep, Restrict
<1>3. \A id \in kept : EntryShaped(sp.entries[id])  BY DEF SpoolOK
<1> HIDE DEF v
<1>4. \A id \in DOMAIN v.entries : Lasts(sp.entries[id], v.entries[id])  BY <1>2, <1>3 DEF Lasts
<1>5. DOMAIN v.entries \subseteq DOMAIN sp.entries  BY <1>2
<1> QED  BY <1>1, <1>2, <1>4, <1>5 DEF Outlast, v

LEMMA SweepOK ==
  ASSUME NEW sp, SpoolOK(sp)
  PROVE  SpoolOK(Sweep(sp)) /\ Sweep(sp).next = sp.next /\ Sweep(sp).done = sp.done
BY SweepOutlasts, OutlastOK

LEMMA CompleteOK ==
  ASSUME NEW sp, SpoolOK(sp), NEW req
  PROVE  SpoolOK(MarkRequestComplete(sp, req))
<1> DEFINE v == MarkRequestComplete(sp, req)
           mark(e) == IF e.req = req THEN [e EXCEPT !.state = "sweepable"] ELSE e
<1>1. sp = [entries |-> sp.entries, next |-> sp.next, done |-> sp.done] /\ sp.next \in Nat  BY DEF SpoolOK
<1>2. /\ v.entries = [id \in DOMAIN sp.entries |-> mark(sp.entries[id])] /\ v.next = sp.next
      /\ v.done = sp.done \cup {req} /\ v = [entries |-> v.entries, next |-> v.next, done |-> v.done]
  <2> DEFINE all == [id \in DOMAIN sp.entries |-> mark(sp.entries[id])]
  <2>1. v = [sp EXCEPT !.done = @ \cup {req}, !.entries = all]  BY DEF MarkRequestComplete
  <2> HIDE DEF v, all
  <2>2. /\ v.entries = all /\ v.next = sp.next /\ v.done = sp.done \cup {req}
        /\ v = [entries |-> v.entries, next |-> v.next, done |-> v.done]
    BY <1>1, <2>1
  <2> QED  BY <2>2 DEF all
<1>3. ASSUME NEW e, EntryShaped(e)
      PROVE  Lasts(e, mark(e)) /\ (e.req = req => mark(e).state = "sweepable")
  BY <1>3 DEF EntryShaped, Lasts
<1>4. \A id \in DOMAIN sp.entries : EntryShaped(sp.entries[id])  BY DEF SpoolOK
<1> HIDE DEF v, mark
<1>5. \A id \in DOMAIN v.entries : /\ Lasts(sp.entries[id], v.entries[id])
                                   /\ sp.entries[id].req = req => v.entries[id].state = "sweepable"
  BY <1>2, <1>3, <1>4
<1>6. \A id \in DOMAIN v.entries :
        v.entries[id].req \in v.done => v.entries[id].req \in sp.done \/ v.entries[id].state = "sweepable"
  BY <1>2, <1>5 DEF Lasts
<1>7. DOMAIN v.entries \subseteq DOMAIN sp.entries  BY <1>2
<1>8. Outlast(sp, v)  BY <1>1, <1>2, <1>5, <1>6, <1>7 DEF Outlast
<1> QED  BY <1>8, OutlastOK DEF v

LEMMA ExpireOK ==
  ASSUME NEW sp, SpoolOK(sp)
  PROVE  SpoolOK(Expire(sp))
<1> DEFINE v == Expire(sp)
           aged(e) == [e EXCEPT !.old = e.state = "sweepable"]
<1>1. sp = [entries |-> sp.entries, next |-> sp.next, done |-> sp.done] /\ sp.next \in Nat  BY DEF SpoolOK
<1>2. /\ v.entries = [id \in DOMAIN sp.entries |-> aged(sp.entries[id])] /\ v.next = sp.next
      /\ v.done = sp.done /\ v = [entries |-> v.entries, next |-> v.next, done |-> v.done]
  BY <1>1 DEF Expire
<1>3. ASSUME NEW e, EntryShaped(e)  PROVE Lasts(e, aged(e))
  BY <1>3 DEF EntryShaped, Lasts
<1>4. \A id \in DOMAIN sp.entries : EntryShaped(sp.entries[id])  BY DEF SpoolOK
<1> HIDE DEF v, aged
<1>5. \A id \in DOMAIN v.entries : Lasts(sp.entries[id], v.entries[id])  BY <1>2, <1>3, <1>4
<1>6. DOMAIN v.entries \subseteq DOMAIN sp.entries  BY <1>2
<1>7. Outlast(sp, v)  BY <1>1, <1>2, <1>5, <1>6 DEF Outlast
<1> QED  BY <1>7, OutlastOK DEF v

(* A blob goes in only if the limits have room for its size, and is at most a    *)
(* byte longer than that.                                                        *)
LEMMA StoredOK ==
  ASSUME NEW sp, SpoolOK(sp), NEW req, NEW size \in Nat, NEW len \in Nat, len <= size + 1,
         NEW complete, NEW pressure
  PROVE  SpoolOK(Stored(sp, req, size, len, complete, pressure).spool)
<1> DEFINE w == Sweep(sp)
           n == sp.next
           e == [req |-> req, len |-> len, size |-> size, state |-> "active", old |-> FALSE,
                 late |-> req \in sp.done]
           v == Stored(sp, req, size, len, complete, pressure).spool
<1>1. SpoolOK(w) /\ w.next = n /\ w.done = sp.done  BY SweepOK
<1>2. /\ w = [entries |-> w.entries, next |-> w.next, done |-> w.done] /\ n \in Nat \ {0}
      /\ DOMAIN w.entries \subseteq 1 .. n - 1 /\ Measured(w.entries)
  BY <1>1 DEF SpoolOK, Measured
<1>3. CASE PreviewOnly(w, req, size, complete, pressure)
  <2>1. v = [w EXCEPT !.next = n + 1]  BY <1>3 DEF Stored
  <2> HIDE DEF v, w, n
  <2>2. /\ v.entries = w.entries /\ v.next = n + 1 /\ v.done = w.done
        /\ v = [entries |-> v.entries, next |-> v.next, done |-> v.done]
    BY <1>2, <2>1
  <2>3. \A id \in DOMAIN w.entries : EntryShaped(w.entries[id])  BY <1>1 DEF SpoolOK
  <2>4. \A id \in DOMAIN v.entries : Lasts(w.entries[id], v.entries[id])  BY <2>2, <2>3 DEF Lasts
  <2>5. Outlast(w, v)  BY <1>1, <1>2, <2>2, <2>4 DEF Outlast
  <2> QED  BY <1>1, <2>5, OutlastOK DEF v
<1>4. CASE ~PreviewOnly(w, req, size, complete, pressure)
  <2>1. v = [w EXCEPT !.next = n + 1,
                      !.entries = [x \in DOMAIN w.entries \cup {n} |-> IF x = n THEN e ELSE w.entries[x]]]
    BY <1>1, <1>4 DEF Stored
  <2>2. RequestBytes(w, req) + size <= RequestMax /\ Used(w) + size <= GlobalMax
    <3>1. ~(RequestBytes(w, req) + size > RequestMax) /\ ~(Used(w) + size > GlobalMax)
      BY <1>4 DEF PreviewOnly
    <3>2. RequestBytes(w, req) \in Nat /\ Used(w) \in Nat
      <4>1. OfRequest(w.entries, req) \in SUBSET DOMAIN w.entries  BY DEF OfRequest
      <4> QED  BY <1>2, <4>1, BytesNat, UsedIsBytes
    <3> HIDE DEF w
    <3> QED  BY <3>1, <3>2, SpoolAssumption
  <2> DEFINE old == w.entries
             new == v.entries
  <2>3. n \notin DOMAIN old  BY <1>2
  <2>4. EntryShaped(e) /\ e.len = len /\ e.req = req /\ (e.req \in sp.done => e.late)  BY DEF EntryShaped
  <2> HIDE DEF w, e, v, n
  <2>5. /\ v.entries = [x \in DOMAIN old \cup {n} |-> IF x = n THEN e ELSE old[x]]
        /\ v.next = n + 1 /\ v.done = w.done /\ v = [entries |-> v.entries, next |-> v.next, done |-> v.done]
    <3> DEFINE both == [x \in DOMAIN old \cup {n} |-> IF x = n THEN e ELSE old[x]]
    <3>1. v = [w EXCEPT !.next = n + 1, !.entries = both]  BY <2>1
    <3> HIDE DEF both
    <3>3. /\ v.entries = both /\ v.next = n + 1 /\ v.done = w.done
          /\ v = [entries |-> v.entries, next |-> v.next, done |-> v.done]
      BY <1>2, <3>1
    <3> QED  BY <3>3 DEF both
  <2>6. /\ DOMAIN new = DOMAIN old \cup {n} /\ new[n] = e /\ (\A x \in DOMAIN old : new[x] = old[x])
        /\ IsFiniteSet(DOMAIN new) /\ \A x \in DOMAIN new : new[x].len \in Nat /\ EntryShaped(new[x])
    <3>1. \A x \in DOMAIN old : old[x].len \in Nat /\ EntryShaped(old[x])  BY <1>1 DEF SpoolOK
    <3>2. DOMAIN new = DOMAIN old \cup {n} /\ new[n] = e /\ (\A x \in DOMAIN old : new[x] = old[x])
      BY <2>3, <2>5
    <3>3. IsFiniteSet(DOMAIN old \cup {n})  BY <1>2, FS_AddElement DEF Measured
    <3> QED  BY <2>4, <3>1, <3>2, <3>3
  <2> HIDE DEF new
  <2>7. Used(v) <= GlobalMax + 1
    <3>1. Bytes(new, DOMAIN old \cup {n}) = len + Bytes(old, DOMAIN old)
      <4>1. /\ \A x \in DOMAIN old : new[x].len = old[x].len
            /\ new[n].len = len
        BY <2>4, <2>6
      <4> HIDE DEF old
      <4> QED  BY <1>2, <2>3, <4>1, BytesMore DEF old
    <3>2. Used(v) = Bytes(new, DOMAIN new) /\ Used(w) = Bytes(old, DOMAIN old)  BY UsedIsBytes DEF new
    <3>3. Used(w) \in Nat  BY <1>2, <3>2, BytesNat
    <3> QED  BY <2>2, <2>6, <3>1, <3>2, <3>3, SpoolAssumption
  <2>8. ASSUME NEW id \in DOMAIN new
        PROVE  /\ RequestBytes(v, new[id].req) <= RequestMax + 1
               /\ new[id].req \in v.done => new[id].late \/ new[id].state = "sweepable"
    <3> DEFINE r == new[id].req
               all == OfRequest(old, r)
    <3>0. all \in SUBSET DOMAIN old  BY DEF OfRequest
    <3>1. RequestBytes(v, r) = Bytes(new, OfRequest(new, r)) /\ RequestBytes(w, r) = Bytes(old, all)
      BY UsedIsBytes DEF new
    <3>2. Bytes(old, all) \in Nat  BY <1>2, <3>0, BytesNat
    <3>3. CASE r = req
      <4>1. OfRequest(new, r) = all \cup {n}  BY <2>3, <2>4, <2>6, <3>3 DEF OfRequest
      <4>2. Bytes(new, all \cup {n}) = len + Bytes(old, all)
        <5>1. (\A x \in all : new[x].len = old[x].len) /\ new[n].len = len /\ n \notin all
          BY <2>3, <2>4, <2>6, <3>0
        <5> HIDE DEF all, old
        <5> QED  BY <1>2, <3>0, <5>1, BytesMore DEF old
      <4>3. RequestBytes(v, r) <= RequestMax + 1
        <5> HIDE DEF all, r
        <5> QED  BY <2>2, <3>1, <3>2, <3>3, <4>1, <4>2, SpoolAssumption
      <4>4. r \in v.done => new[id].late \/ new[id].state = "sweepable"
        <5>1. CASE id = n  BY <1>1, <2>4, <2>5, <2>6, <5>1
        <5>2. CASE id # n  BY <1>1, <2>5, <2>6, <5>2 DEF SpoolOK
        <5> QED  BY <5>1, <5>2
      <4> QED  BY <4>3, <4>4
    <3>4. CASE r # req
      <4>1. id \in DOMAIN old /\ new[id] = old[id]  BY <2>4, <2>6, <3>4
      <4>2. OfRequest(new, r) = all /\ \A x \in all : new[x].len = old[x].len
        BY <2>3, <2>4, <2>6, <3>4 DEF OfRequest
      <4>3. Bytes(new, all) <= Bytes(old, all)
        <5> HIDE DEF all, old
        <5> QED  BY <1>2, <3>0, <4>2, BytesLess DEF old
      <4>4. RequestBytes(w, r) <= RequestMax + 1
            /\ (r \in w.done => new[id].late \/ new[id].state = "sweepable")
        BY <1>1, <4>1 DEF SpoolOK
      <4>5. Bytes(new, all) \in Nat
        <5>1. Measured(new)  BY <2>6 DEF Measured
        <5> QED  BY <2>6, <3>0, <5>1, BytesNat
      <4>6. RequestBytes(v, r) <= RequestMax + 1
        <5> HIDE DEF all, r
        <5> QED  BY <3>1, <3>2, <4>2, <4>3, <4>4, <4>5, SpoolAssumption
      <4> QED  BY <2>5, <4>4, <4>6
    <3> QED  BY <3>3, <3>4
  <2>9. v.next \in Nat \ {0} /\ DOMAIN new \subseteq 1 .. v.next - 1  BY <1>2, <2>5, <2>6
  <2> QED  BY <2>5, <2>6, <2>7, <2>8, <2>9 DEF SpoolOK, v, new
<1> QED  BY <1>3, <1>4

Options == [spooling : BOOLEAN, hashing : BOOLEAN]
Good(u) ==
  /\ BodyTyped(u) /\ SpoolOK(u.spool) /\ Equipped(u.body)
  /\ ~u.hist.broken => BodyOK(u, ByteLimit, opts.spooling)
BodyInv == Good(Now) /\ opts \in Options

LEMMA NowIs ==
  /\ Now.body = body /\ Now.slot = slot /\ Now.acc = acc /\ Now.pool = pool
  /\ Now.spool = spool /\ Now.hist = hist
BY DEF Now

LEMMA Limits ==
  ASSUME opts \in Options
  PROVE  ByteLimit \in Nat /\ opts.spooling \in BOOLEAN
BY SpoolAssumption, BodyAssumption DEF ByteLimit, Options

LEMMA Arrives ==
  ASSUME NEW u, Good(u), opts \in Options, Becomes(u)
  PROVE  BodyInv'
<1>1. /\ body' = u.body /\ slot' = u.slot /\ acc' = u.acc /\ pool' = u.pool
      /\ spool' = u.spool /\ hist' = u.hist /\ opts' = opts
  BY DEF Becomes
<1>2. Now' = u
  <2>1. u = [body |-> u.body, slot |-> u.slot, acc |-> u.acc, pool |-> u.pool,
             spool |-> u.spool, hist |-> u.hist]
    BY DEF Good, BodyTyped
  <2>2. Now' = [body |-> body', slot |-> slot', acc |-> acc', pool |-> pool',
                spool |-> spool', hist |-> hist']
    BY DEF Now
  <2> QED  BY <1>1, <2>1, <2>2
<1>3. ByteLimit' = ByteLimit  BY <1>1 DEF ByteLimit
<1>4. Good(Now)'
  <2>1. BodyTyped(u) /\ SpoolOK(u.spool) /\ Equipped(u.body)
        /\ (~u.hist.broken => BodyOK(u, ByteLimit, opts.spooling))
    BY DEF Good
  <2>2. ByteLimit' = ByteLimit /\ opts'.spooling = opts.spooling  BY <1>1, <1>3
  <2> QED  BY <1>2, <2>1, <2>2 DEF Good
<1> QED  BY <1>1, <1>4 DEF BodyInv

(* What is known of body b before a step.                                        *)
BodyKnown(b) ==
  /\ BodyTyped(Now) /\ SpoolOK(Now.spool) /\ body[b] \in Streams /\ slot[b] \in BodySlots
  /\ body[b].acc <= Len(Now.acc) /\ slot[b].state <= Len(Now.acc) /\ hist \in Histories
  /\ Equipped(body) /\ opts \in Options /\ Len(acc) \in Nat
  /\ body \in [Bodies -> Streams] /\ slot \in [Bodies -> BodySlots]
LEMMA KnownNow ==
  ASSUME BodyInv, NEW b \in Bodies
  PROVE  BodyKnown(b)
<1>1. BodyTyped(Now) /\ SpoolOK(Now.spool) /\ Equipped(body) /\ opts \in Options
  BY NowIs DEF BodyInv, Good
<1>2. /\ body \in [Bodies -> Streams] /\ slot \in [Bodies -> BodySlots] /\ hist \in Histories
      /\ acc \in Seq(Accumulators)
      /\ \A c \in Bodies : body[c].acc <= Len(Now.acc) /\ slot[c].state <= Len(Now.acc)
  BY <1>1, NowIs DEF BodyTyped, Histories
<1>3. Len(acc) \in Nat  BY <1>2, LenNat
<1> QED  BY <1>1, <1>2, <1>3 DEF BodyKnown

LEMMA SoundNow ==
  ASSUME BodyInv, NEW b \in Bodies, ~hist.broken
  PROVE  /\ BodyOK(Now, ByteLimit, opts.spooling)
         /\ Unshared(Now) /\ ~Now.hist.threw /\ Others_OK(Now, b, ByteLimit, opts.spooling)
         /\ Handled(Now, b) /\ Shows(Now, b, ByteLimit, opts.spooling) /\ Collects(Now, b, ByteLimit)
<1>1. BodyOK(Now, ByteLimit, opts.spooling)  BY NowIs DEF BodyInv, Good
<1> QED  BY <1>1, OKParts

LEMMA EquippedWith ==
  ASSUME Equipped(body), NEW b \in Bodies, NEW x, NEW u, NEW d, Apart(Now, u, b, x, d),
         x.stage # "none" /\ x.kind # "inbound" => x.acc # None
  PROVE  Equipped(u.body)
<1>1. u.body[b] = x /\ \A c \in Bodies \ {b} : u.body[c] = body[c]  BY NowIs DEF Apart
<1> QED  BY <1>1 DEF Equipped

(* All is well when b is, and nothing but b changed.                             *)
LEMMA LocalGood ==
  ASSUME BodyInv, NEW b \in Bodies, NEW x \in Streams, NEW d \in BodySlots, NEW u,
         u = With(Now, b, x, d, spool, hist), x.acc = body[b].acc, d.state = slot[b].state,
         x.stage # "none" /\ x.kind # "inbound" => x.acc # None,
         ~hist.broken => Handled(u, b) /\ Shows(u, b, ByteLimit, opts.spooling) /\ Collects(u, b, ByteLimit)
  PROVE  Good(u)
<1>1. BodyKnown(b)  BY KnownNow
<1>2. /\ BodyTyped(Now) /\ x.acc <= Len(Now.acc) /\ d.state <= Len(Now.acc) /\ hist \in Histories
      /\ SpoolOK(spool) /\ Equipped(body)
  BY <1>1, NowIs DEF BodyKnown
<1>3. BodyTyped(u) /\ Apart(Now, u, b, x, d) /\ u.spool = spool /\ u.hist = hist  BY <1>2, WithTyped
<1>4. Equipped(u.body)  BY <1>2, <1>3, EquippedWith
<1>5. ~hist.broken => BodyOK(u, ByteLimit, opts.spooling)
  <2> SUFFICES ASSUME ~hist.broken  PROVE BodyOK(u, ByteLimit, opts.spooling)  OBVIOUS
  <2>1. /\ Unshared(Now) /\ ~hist.threw /\ Others_OK(Now, b, ByteLimit, opts.spooling)
        /\ d.state = Now.slot[b].state
    BY SoundNow, NowIs
  <2>2. Unshared(u) /\ Others_OK(u, b, ByteLimit, opts.spooling)  BY <1>2, <1>3, <2>1, WithOK
  <2> QED  BY <1>3, <2>1, <2>2 DEF BodyOK, Others_OK
<1> QED  BY <1>2, <1>3, <1>4, <1>5 DEF Good

(* b is done with its accumulator.                                               *)
LEMMA DropGood ==
  ASSUME BodyInv, NEW b \in Bodies, NEW x \in Streams, NEW d \in BodySlots, NEW h \in Histories, NEW v, NEW u,
         v = With(Now, b, x, d, spool, h), NEW a \in 1 .. Len(acc), u = Drop(v, b, a),
         x.acc = body[b].acc, d.state = slot[b].state \/ d.state = None,
         x.stage # "none" /\ x.kind # "inbound" => x.acc # None,
         ~h.broken => /\ h = hist /\ a = slot[b].state
                      /\ Handled(v, b) /\ Shows(v, b, ByteLimit, opts.spooling)
                      /\ ~x.held \/ x.stage # "open"
  PROVE  Good(u)
<1>1. BodyKnown(b)  BY KnownNow
<1>2. /\ BodyTyped(Now) /\ x.acc <= Len(Now.acc) /\ d.state <= Len(Now.acc)
      /\ SpoolOK(spool) /\ Equipped(body)
  BY <1>1, NowIs DEF BodyKnown, None
<1>3. BodyTyped(v) /\ Apart(Now, v, b, x, d) /\ v.spool = spool /\ v.hist = h  BY <1>2, WithTyped
<1>4. Equipped(v.body)  BY <1>2, <1>3, EquippedWith
<1>5. a \in 1 .. Len(v.acc)  BY <1>3, NowIs DEF Apart
<1>6. Drops(v, b, a, u)  BY <1>3, <1>5, DropParts
<1>7. BodyTyped(u) /\ u.body = v.body /\ u.hist = h /\ u.spool = spool  BY <1>3, <1>6 DEF Drops
<1>8. ~h.broken => BodyOK(u, ByteLimit, opts.spooling)
  <2> SUFFICES ASSUME ~h.broken  PROVE BodyOK(u, ByteLimit, opts.spooling)  OBVIOUS
  <2>1. h = hist /\ a = Now.slot[b].state /\ a # None  BY NowIs DEF None
  <2>2. /\ Unshared(Now) /\ ~h.threw /\ Others_OK(Now, b, ByteLimit, opts.spooling)
        /\ d.state = Now.slot[b].state \/ d.state = None
    BY <2>1, SoundNow, NowIs
  <2>3. Unshared(v) /\ Others_OK(v, b, ByteLimit, opts.spooling)  BY <1>2, <1>3, <2>2, WithOK
  <2>4. Alone(Now, b, a)  BY <1>2, <2>1, <2>2, OwnIsAlone
  <2>5. Alone(v, b, a)  BY <1>3, <2>4 DEF Alone, Apart
  <2>6. ~v.hist.threw /\ (~v.body[b].held \/ v.body[b].stage # "open")
    BY <1>3, <2>2 DEF Apart
  <2>7. Handled(v, b) /\ Shows(v, b, ByteLimit, opts.spooling)  OBVIOUS
  <2> HIDE DEF Handled, Shows
  <2> QED  BY <1>3, <1>5, <2>3, <2>5, <2>6, <2>7, DropOK
<1> QED  BY <1>2, <1>4, <1>7, <1>8 DEF Good

(* A body that was cut into is only typed.                                       *)
LEMMA CutGood ==
  ASSUME NEW t, BodyTyped(t), SpoolOK(t.spool), Equipped(t.body)
  PROVE  Good(Cut(t))
<1> DEFINE u == Cut(t)
<1>1. /\ t = [body |-> t.body, slot |-> t.slot, acc |-> t.acc, pool |-> t.pool,
              spool |-> t.spool, hist |-> t.hist]
      /\ t.hist \in [broken : BOOLEAN, threw : BOOLEAN]
  BY DEF BodyTyped
<1>2. /\ u.body = t.body /\ u.slot = t.slot /\ u.acc = t.acc /\ u.pool = t.pool /\ u.spool = t.spool
      /\ u.hist = [t.hist EXCEPT !.broken = TRUE]
      /\ u = [body |-> u.body, slot |-> u.slot, acc |-> u.acc, pool |-> u.pool,
              spool |-> u.spool, hist |-> u.hist]
  <2>1. u = [t EXCEPT !.hist.broken = TRUE]  BY DEF Cut
  <2> HIDE DEF u
  <2>2. t = [body |-> t.body, slot |-> t.slot, acc |-> t.acc, pool |-> t.pool,
             spool |-> t.spool, hist |-> t.hist]
    BY <1>1
  <2> DEFINE h == [t.hist EXCEPT !.broken = TRUE]
  <2>3. u = [t EXCEPT !.hist = h]  BY <2>1
  <2> HIDE DEF h
  <2> QED  BY <2>2, <2>3 DEF h
<1>3. u.hist \in [broken : BOOLEAN, threw : BOOLEAN] /\ u.hist.broken  BY <1>1, <1>2
<1> HIDE DEF u
<1>4. BodyTyped(u)  BY <1>2, <1>3 DEF BodyTyped
<1>5. Good(u)  BY <1>2, <1>3, <1>4 DEF Good
<1> QED  BY <1>5 DEF u

LEMMA PutBack ==
  ASSUME NEW b \in Bodies, BodyKnown(b)
  PROVE  [body EXCEPT ![b] = body[b]] = body /\ [slot EXCEPT ![b] = slot[b]] = slot
BY DEF BodyKnown

LEMMA BeginInv ==
  ASSUME BodyInv, NEW b \in Bodies, NEW kind \in KindsOf[b], Begin(b, kind)
  PROVE  BodyInv'
<1> DEFINE x == [body[b] EXCEPT !.kind = kind, !.stage = "open", !.held = TRUE]
           d == [slot[b] EXCEPT !.done = kind = "fetch"]
           t == With(Now, b, x, d, spool, hist)
<1>1. BodyKnown(b)  BY KnownNow
<1>2. /\ body[b] \in Streams /\ slot[b] \in BodySlots /\ kind \in BodyKinds
      /\ body[b].acc <= Len(Now.acc) /\ slot[b].state <= Len(Now.acc) /\ hist \in Histories
      /\ SpoolOK(spool) /\ Equipped(body) /\ opts \in Options /\ BodyTyped(Now)
  BY <1>1, BodyAssumption, NowIs DEF BodyKnown
<1>3. body[b].stage = "none" /\ Becomes(IF kind = "inbound" THEN t ELSE CreateState(t, b))
  <2>1. [Now EXCEPT !.body[b] = [@ EXCEPT !.kind = kind, !.stage = "open", !.held = TRUE],
                    !.slot[b].done = kind = "fetch"] = t
    <3> DEFINE z == [Now EXCEPT !.body[b] = [@ EXCEPT !.kind = kind, !.stage = "open", !.held = TRUE],
                                !.slot[b].done = kind = "fetch"]
    <3>1. z = [Now EXCEPT !.body[b] = x, !.slot[b] = d]  BY NowIs
    <3> HIDE DEF x, d, z
    <3>2. z = t  BY <3>1 DEF With, Now
    <3> QED  BY <3>2 DEF z
  <2> HIDE DEF t
  <2> QED  BY <2>1 DEF Begin
<1>4. /\ x \in Streams /\ d \in BodySlots /\ x.acc = body[b].acc /\ x.held /\ x.stage = "open"
      /\ x.kind = kind /\ x.sent = body[b].sent
      /\ d.state = slot[b].state /\ d.record = slot[b].record /\ d.truncated = slot[b].truncated
  BY <1>2 DEF Streams, BodySlots
<1>5. ~hist.broken => /\ body[b].acc = None /\ slot[b].state = None /\ slot[b].record = << >>
                      /\ body[b].sent = 0 /\ ~slot[b].truncated
  <2> SUFFICES ASSUME ~hist.broken
               PROVE  /\ body[b].acc = None /\ slot[b].state = None /\ slot[b].record = << >>
                      /\ body[b].sent = 0 /\ ~slot[b].truncated
    OBVIOUS
  <2>1. Handled(Now, b)  BY SoundNow
  <2> QED  BY <1>3, <2>1, NowIs DEF Handled
<1>6. t = With(Now, b, x, d, spool, hist)  OBVIOUS
<1> HIDE DEF x, d, t
<1>7. BodyTyped(t) /\ Apart(Now, t, b, x, d) /\ t.spool = spool /\ t.hist = hist
  <2>1. x.acc <= Len(Now.acc) /\ d.state <= Len(Now.acc)  BY <1>2, <1>4
  <2> QED  BY <1>2, <1>4, <1>6, <2>1, WithTyped
<1>8. t.body[b] = x /\ t.slot[b] = d  BY <1>7 DEF Apart
<1>9. CASE kind = "inbound"
  <2>1. ~hist.broken => Handled(t, b) /\ Shows(t, b, ByteLimit, opts.spooling) /\ Collects(t, b, ByteLimit)
    BY <1>4, <1>5, <1>8, <1>9 DEF Handled, Shows, Collects
  <2>2. Good(t)  BY <1>4, <1>6, <1>9, <2>1, LocalGood
  <2> QED  BY <1>2, <1>3, <1>9, <2>2, Arrives
<1>10. CASE kind # "inbound"
  <2> DEFINE u == CreateState(t, b)
  <2>1. u = CreateState(t, b)  OBVIOUS
  <2> HIDE DEF u
  <2>2. PICK a \in 1 .. Len(u.acc) : Creates(t, b, a, u)  BY <1>7, <2>1, CreateParts
  <2>3. /\ BodyTyped(u) /\ u.body = [t.body EXCEPT ![b] = [@ EXCEPT !.acc = a]] /\ a # None
        /\ u.hist = hist /\ u.spool = spool
    BY <1>7, <2>2 DEF Creates
  <2>4. Equipped(u.body)
    <3>1. t.body \in [Bodies -> Streams] /\ \A c \in Bodies \ {b} : t.body[c] = body[c]
      BY <1>7, NowIs DEF BodyTyped, Apart
    <3>2. u.body[b].acc = a /\ \A c \in Bodies \ {b} : u.body[c] = body[c]
      BY <2>3, <3>1 DEF Streams
    <3> QED  BY <1>2, <2>3, <3>2 DEF Equipped
  <2>5. ~u.hist.broken => BodyOK(u, ByteLimit, opts.spooling)
    <3> SUFFICES ASSUME ~hist.broken  PROVE BodyOK(u, ByteLimit, opts.spooling)  BY <2>3
    <3>1. /\ Unshared(Now) /\ ~hist.threw /\ Others_OK(Now, b, ByteLimit, opts.spooling)
          /\ d.state = Now.slot[b].state
      BY <1>4, SoundNow, NowIs
    <3>2. Unshared(t) /\ Others_OK(t, b, ByteLimit, opts.spooling)  BY <1>2, <1>7, <3>1, WithOK
    <3>3. \A c \in Bodies \ {b} : /\ Handled(t, c) /\ Shows(t, c, ByteLimit, opts.spooling)
                                  /\ Collects(t, c, ByteLimit)
      BY <3>2 DEF Others_OK
    <3>4. /\ t.body[b].stage = "open" /\ t.body[b].held /\ t.body[b].sent = 0
          /\ t.slot[b].state = None /\ t.slot[b].record = << >> /\ ~t.slot[b].truncated
          /\ ~t.hist.threw /\ ByteLimit \in Nat
      BY <1>2, <1>4, <1>5, <1>7, <1>8, <3>1, Limits
    <3> QED  BY <1>7, <2>1, <3>2, <3>3, <3>4, CreateOK
  <2>6. Good(u)  BY <1>2, <2>3, <2>4, <2>5 DEF Good
  <2> QED  BY <1>2, <1>3, <1>10, <2>1, <2>6, Arrives
<1> QED  BY <1>9, <1>10

LEMMA AttachInv ==
  ASSUME BodyInv, NEW b \in Bodies, Attach(b)
  PROVE  BodyInv'
<1> DEFINE u == CreateState(Now, b)
<1>1. BodyKnown(b)  BY KnownNow
<1>2. /\ Becomes(u) /\ body[b].stage = "open" /\ body[b].held /\ body[b].acc = None
  BY DEF Attach, Open
<1>3. /\ BodyTyped(Now) /\ SpoolOK(spool) /\ Equipped(body) /\ opts \in Options
      /\ body \in [Bodies -> Streams]
  BY <1>1, NowIs DEF BodyKnown
<1>4. u = CreateState(Now, b)  OBVIOUS
<1> HIDE DEF u
<1>5. PICK a \in 1 .. Len(u.acc) : Creates(Now, b, a, u)  BY <1>3, <1>4, CreateParts
<1>6. /\ BodyTyped(u) /\ u.body = [body EXCEPT ![b] = [@ EXCEPT !.acc = a]] /\ a # None
      /\ u.hist = hist /\ u.spool = spool
  BY <1>5, NowIs DEF Creates
<1>7. Equipped(u.body)
  <2>1. u.body[b].acc = a /\ \A c \in Bodies \ {b} : u.body[c] = body[c]  BY <1>3, <1>6 DEF Streams
  <2> QED  BY <1>3, <1>6, <2>1 DEF Equipped
<1>8. ~u.hist.broken => BodyOK(u, ByteLimit, opts.spooling)
  <2> SUFFICES ASSUME ~hist.broken  PROVE BodyOK(u, ByteLimit, opts.spooling)  BY <1>6
  <2>1. /\ Unshared(Now) /\ ~Now.hist.threw /\ Others_OK(Now, b, ByteLimit, opts.spooling)
        /\ Handled(Now, b)
    BY SoundNow
  <2>2. \A c \in Bodies \ {b} : /\ Handled(Now, c) /\ Shows(Now, c, ByteLimit, opts.spooling)
                                /\ Collects(Now, c, ByteLimit)
    BY <2>1 DEF Others_OK
  <2>3. /\ Now.body[b].stage = "open" /\ Now.body[b].held /\ Now.body[b].sent = 0
        /\ Now.slot[b].state = None /\ Now.slot[b].record = << >> /\ ~Now.slot[b].truncated
        /\ ByteLimit \in Nat
    BY <1>2, <1>3, <2>1, NowIs, Limits DEF Handled
  <2> QED  BY <1>3, <1>4, <2>1, <2>2, <2>3, CreateOK
<1>9. Good(u)  BY <1>3, <1>6, <1>7, <1>8 DEF Good
<1> QED  BY <1>2, <1>3, <1>9, Arrives

LEMMA SpoolInv ==
  ASSUME BodyInv, NEW sp, SpoolOK(sp), Becomes([Now EXCEPT !.spool = sp])
  PROVE  BodyInv'
<1> DEFINE u == [Now EXCEPT !.spool = sp]
<1>1. /\ u.body = body /\ u.slot = slot /\ u.acc = acc /\ u.pool = pool /\ u.spool = sp /\ u.hist = hist
      /\ u = [body |-> u.body, slot |-> u.slot, acc |-> u.acc, pool |-> u.pool,
              spool |-> u.spool, hist |-> u.hist]
  BY DEF Now
<1>2. /\ BodyTyped(Now) /\ Equipped(body) /\ opts \in Options
      /\ ~hist.broken => BodyOK(Now, ByteLimit, opts.spooling)
  BY NowIs DEF BodyInv, Good
<1>3. Becomes(u)  OBVIOUS
<1> HIDE DEF u
<1>4. BodyTyped(u)  BY <1>1, <1>2, NowIs DEF BodyTyped
<1>5. BodyOK(Now, ByteLimit, opts.spooling) => BodyOK(u, ByteLimit, opts.spooling)
  BY <1>1, NowIs DEF BodyOK, Unshared, Handled, Shows, Collects
<1>6. Good(u)  BY <1>1, <1>2, <1>4, <1>5 DEF Good
<1> QED  BY <1>2, <1>3, <1>6, Arrives

LEMMA CompleteRequestInv ==
  ASSUME BodyInv, NEW b \in Bodies, CompleteRequest(b)
  PROVE  BodyInv'
<1>1. SpoolOK(spool)  BY NowIs DEF BodyInv, Good
<1>2. SpoolOK(Sweep(MarkRequestComplete(spool, RequestOf[b])))  BY <1>1, CompleteOK, SweepOK
<1>3. Becomes([Now EXCEPT !.spool = Sweep(MarkRequestComplete(spool, RequestOf[b]))])
  BY NowIs DEF CompleteRequest
<1> QED  BY <1>2, <1>3, SpoolInv

LEMMA PassTtlInv ==
  ASSUME BodyInv, PassTtl
  PROVE  BodyInv'
<1>1. SpoolOK(spool)  BY NowIs DEF BodyInv, Good
<1>2. SpoolOK(Expire(spool))  BY <1>1, ExpireOK
<1>3. Becomes([Now EXCEPT !.spool = Expire(spool)])  BY NowIs DEF PassTtl
<1> QED  BY <1>2, <1>3, SpoolInv

(* What is known of a handler that still holds the accumulator of b.             *)
LEMMA HeldOwn ==
  ASSUME BodyInv, NEW b \in Bodies, Open(b), body[b].held, body[b].acc # None, ~hist.broken
  PROVE  /\ slot[b].state = body[b].acc /\ ~acc[body[b].acc].hashed /\ slot[b].record = << >>
         /\ body[b].acc \in 1 .. Len(acc)
<1>1. BodyKnown(b)  BY KnownNow
<1>2. Handled(Now, b) /\ Collects(Now, b, ByteLimit)  BY SoundNow
<1>3. slot[b].state = body[b].acc /\ ~acc[body[b].acc].hashed  BY <1>2, NowIs DEF Handled, Open
<1>4. slot[b].record = << >>  BY <1>2, <1>3, NowIs DEF Collects
<1>5. body[b].acc \in 1 .. Len(acc)  BY <1>1, NowIs DEF BodyKnown, Streams, None
<1> QED  BY <1>3, <1>4, <1>5

LEMMA AccOf ==
  ASSUME BodyInv, NEW b \in Bodies, body[b].acc # None
  PROVE  body[b].acc \in 1 .. Len(acc)
<1>1. BodyKnown(b)  BY KnownNow
<1> QED  BY <1>1, NowIs DEF BodyKnown, Streams, None

LEMMA SkipOutboundInv ==
  ASSUME BodyInv, NEW b \in Bodies, SkipOutbound(b)
  PROVE  BodyInv'
<1> DEFINE x == [body[b] EXCEPT !.held = FALSE]
           d == [slot[b] EXCEPT !.state = None]
           v == With(Now, b, x, d, spool, hist)
           a == body[b].acc
           u == Drop(v, b, a)
<1>1. BodyKnown(b)  BY KnownNow
<1>2. /\ body[b] \in Streams /\ slot[b] \in BodySlots /\ hist \in Histories /\ Equipped(body)
      /\ opts \in Options
  BY <1>1 DEF BodyKnown
<1>3. Open(b) /\ body[b].kind = "outbound" /\ body[b].held /\ Becomes(u)
  <2>1. [Now EXCEPT !.body[b].held = FALSE, !.slot[b].state = None] = v
    <3> DEFINE z == [Now EXCEPT !.body[b].held = FALSE, !.slot[b].state = None]
    <3>1. z = [Now EXCEPT !.body[b] = x, !.slot[b] = d]  BY NowIs
    <3> HIDE DEF x, d, z
    <3>2. z = v  BY <3>1 DEF With, Now
    <3> QED  BY <3>2 DEF z
  <2> HIDE DEF v
  <2> QED  BY <2>1 DEF SkipOutbound
<1>4. a # None  BY <1>2, <1>3 DEF Equipped, Open
<1>5. a \in 1 .. Len(acc)  BY <1>4, AccOf
<1>6. /\ x \in Streams /\ x.acc = a /\ ~x.held /\ x.stage = body[b].stage /\ x.kind = body[b].kind
      /\ x.sent = body[b].sent
      /\ d \in BodySlots /\ d.state = None /\ d.record = slot[b].record
  BY <1>2 DEF Streams, BodySlots, None
<1>7. v = With(Now, b, x, d, spool, hist) /\ u = Drop(v, b, a)  OBVIOUS
<1> HIDE DEF x, d, v, a, u
<1>8. v.body[b] = x /\ v.slot[b] = d
  BY <1>1, <1>7, NowIs DEF With, BodyKnown
<1>9. ~hist.broken => a = slot[b].state /\ Handled(v, b) /\ Shows(v, b, ByteLimit, opts.spooling)
  <2> SUFFICES ASSUME ~hist.broken
               PROVE  a = slot[b].state /\ Handled(v, b) /\ Shows(v, b, ByteLimit, opts.spooling)
    OBVIOUS
  <2>1. slot[b].state = a /\ slot[b].record = << >>  BY <1>3, <1>4, HeldOwn DEF a
  <2>2. body[b].stage = "open"  BY <1>3 DEF Open
  <2>3. Handled(v, b)  BY <1>3, <1>4, <1>6, <1>8, <2>2 DEF Handled
  <2>4. Shows(v, b, ByteLimit, opts.spooling)  BY <1>6, <1>8, <2>1 DEF Shows
  <2> QED  BY <2>1, <2>3, <2>4
<1>10. Good(u)
  <2>1. x.acc = body[b].acc  BY <1>6 DEF a
  <2> HIDE DEF Good
  <2> QED  BY <1>2, <1>4, <1>5, <1>6, <1>7, <1>9, <2>1, DropGood
<1> QED  BY <1>2, <1>3, <1>10, Arrives

LEMMA FailStreamInv ==
  ASSUME BodyInv, NEW b \in Bodies, FailStream(b)
  PROVE  BodyInv'
<1> DEFINE x == [body[b] EXCEPT !.stage = "ended", !.held = FALSE]
           d == [slot[b] EXCEPT !.truncated = TRUE]
           v == With(Now, b, x, d, spool, hist)
           a == body[b].acc
           u == Drop(v, b, a)
<1>1. BodyKnown(b)  BY KnownNow
<1>2. /\ body[b] \in Streams /\ slot[b] \in BodySlots /\ hist \in Histories /\ Equipped(body)
      /\ opts \in Options
  BY <1>1 DEF BodyKnown
<1>3. Open(b) /\ body[b].kind = "fetch" /\ Becomes(u)
  <2>1. [Now EXCEPT !.body[b].stage = "ended", !.body[b].held = FALSE, !.slot[b].truncated = TRUE] = v
    <3> DEFINE z == [Now EXCEPT !.body[b].stage = "ended", !.body[b].held = FALSE, !.slot[b].truncated = TRUE]
    <3>1. z = [Now EXCEPT !.body[b] = x, !.slot[b] = d]
      <4>1. z = [[Now EXCEPT !.body[b].stage = "ended", !.body[b].held = FALSE] EXCEPT !.slot[b] = d]  BY NowIs
      <4>2. [Now EXCEPT !.body[b].stage = "ended", !.body[b].held = FALSE] = [Now EXCEPT !.body[b] = x]
        <5>1. [body EXCEPT ![b].stage = "ended", ![b].held = FALSE] = [body EXCEPT ![b] = x]
          BY <1>1 DEF BodyKnown, Streams
        <5> QED  BY <5>1 DEF Now
      <4> HIDE DEF x, d, z
      <4> QED  BY <4>1, <4>2
    <3> HIDE DEF x, d, z
    <3>2. z = v  BY <3>1 DEF With, Now
    <3> QED  BY <3>2 DEF z
  <2> HIDE DEF v
  <2> QED  BY <2>1 DEF FailStream
<1>4. a # None  BY <1>2, <1>3 DEF Equipped, Open
<1>5. a \in 1 .. Len(acc)  BY <1>4, AccOf
<1>6. /\ x \in Streams /\ x.acc = a /\ ~x.held /\ x.stage = "ended" /\ x.kind = body[b].kind
      /\ x.sent = body[b].sent
      /\ d \in BodySlots /\ d.state = slot[b].state /\ d.record = slot[b].record
  BY <1>2 DEF Streams, BodySlots
<1>7. v = With(Now, b, x, d, spool, hist) /\ u = Drop(v, b, a)  OBVIOUS
<1> HIDE DEF x, d, v, a, u
<1>8. v.body[b] = x /\ v.slot[b] = d
  BY <1>1, <1>7, NowIs DEF With, BodyKnown
<1>9. ~hist.broken => a = slot[b].state /\ Handled(v, b) /\ Shows(v, b, ByteLimit, opts.spooling)
  <2> SUFFICES ASSUME ~hist.broken
               PROVE  a = slot[b].state /\ Handled(v, b) /\ Shows(v, b, ByteLimit, opts.spooling)
    OBVIOUS
  <2>0. body[b].held  BY <1>3, SoundNow, NowIs DEF Handled, Open
  <2>1. slot[b].state = a /\ slot[b].record = << >>  BY <1>3, <1>4, <2>0, HeldOwn DEF a
  <2>3. Handled(v, b)  BY <1>3, <1>4, <1>6, <1>8 DEF Handled
  <2>4. Shows(v, b, ByteLimit, opts.spooling)  BY <1>6, <1>8, <2>1 DEF Shows
  <2> QED  BY <2>1, <2>3, <2>4
<1>10. Good(u)
  <2>1. x.acc = body[b].acc  BY <1>6 DEF a
  <2> HIDE DEF Good
  <2> QED  BY <1>2, <1>4, <1>5, <1>6, <1>7, <1>9, <2>1, DropGood
<1> QED  BY <1>2, <1>3, <1>10, Arrives

LEMMA SlotDoneInv ==
  ASSUME BodyInv, NEW b \in Bodies, SlotDone(b)
  PROVE  BodyInv'
<1> DEFINE x == [body[b] EXCEPT !.held = FALSE]
           d == [slot[b] EXCEPT !.done = TRUE]
           t == With(Now, b, body[b], d, spool, hist)
           u == With(Now, b, x, d, spool, hist)
           a == body[b].acc
<1>1. BodyKnown(b)  BY KnownNow
<1>2. /\ body[b] \in Streams /\ slot[b] \in BodySlots /\ hist \in Histories /\ Equipped(body)
      /\ opts \in Options /\ body \in [Bodies -> Streams] /\ slot \in [Bodies -> BodySlots]
  BY <1>1 DEF BodyKnown
<1>3. \/ body[b].kind = "outbound" /\ body[b].stage = "ended" /\ Becomes(u)
      \/ body[b].kind = "inbound" /\ body[b].held /\ a # None /\ Becomes(Drop(u, b, a))
      \/ body[b].kind = "inbound" /\ ~(body[b].held /\ a # None) /\ Becomes(u)
      \/ body[b].kind = "request" /\ Becomes(t)
  <2> DEFINE y == [Now EXCEPT !.slot[b].done = TRUE]
             z == [y EXCEPT !.body[b].held = FALSE]
  <2>1. y = t
    <3>1. y = [Now EXCEPT !.slot[b] = d]  BY NowIs
    <3> HIDE DEF d, y
    <3> QED  BY <1>1, <3>1, PutBack DEF With, Now
  <2> HIDE DEF y
  <2>2. z = u
    <3>1. t.body = body
      BY <1>1, PutBack, NowIs DEF With
    <3>2. z = [t EXCEPT !.body[b] = x]  BY <2>1, <3>1
    <3> HIDE DEF d, x, z
    <3> QED  BY <3>1, <3>2 DEF With, Now
  <2>3. \/ body[b].kind = "outbound" /\ body[b].stage = "ended" /\ Becomes(z)
        \/ body[b].kind = "inbound" /\ Becomes(IF body[b].held /\ body[b].acc /= None THEN Drop(z, b, body[b].acc) ELSE z)
        \/ body[b].kind = "request" /\ Becomes(y)
    BY DEF SlotDone, y
  <2> HIDE DEF t, u, z
  <2> QED  BY <2>1, <2>2, <2>3
<1>4. /\ x \in Streams /\ x.acc = a /\ ~x.held /\ x.stage = body[b].stage /\ x.kind = body[b].kind
      /\ x.sent = body[b].sent
      /\ d \in BodySlots /\ d.state = slot[b].state /\ d.record = slot[b].record
      /\ d.truncated = slot[b].truncated
  BY <1>2 DEF Streams, BodySlots
<1>5. /\ t = With(Now, b, body[b], d, spool, hist) /\ u = With(Now, b, x, d, spool, hist)
      /\ a = body[b].acc
  OBVIOUS
<1> HIDE DEF x, d, t, u, a
<1>6. /\ u.body[b] = x /\ u.slot[b] = d /\ t.body[b] = body[b] /\ t.slot[b] = d /\ u.acc = acc /\ t.acc = acc
  BY <1>2, <1>5, NowIs DEF With
<1>7. ~hist.broken => Handled(Now, b) /\ Shows(Now, b, ByteLimit, opts.spooling) /\ Collects(Now, b, ByteLimit)
  BY SoundNow
<1>8. body[b].stage # "none" /\ body[b].kind # "inbound" => a # None  BY <1>2, <1>5 DEF Equipped
<1>9. body[b].kind # "fetch" /\ ~hist.broken =>
        Handled(u, b) /\ Shows(u, b, ByteLimit, opts.spooling) /\ Collects(u, b, ByteLimit)
  BY <1>4, <1>5, <1>6, <1>7, NowIs DEF Handled, Shows, Collects
<1>10. CASE body[b].kind # "fetch" /\ Becomes(u)
  <2>1. Good(u)  BY <1>4, <1>5, <1>8, <1>9, <1>10, LocalGood
  <2> QED  BY <1>2, <1>10, <2>1, Arrives
<1>11. CASE body[b].kind = "request" /\ Becomes(t)
  <2>1. ~hist.broken => Handled(t, b) /\ Shows(t, b, ByteLimit, opts.spooling) /\ Collects(t, b, ByteLimit)
    BY <1>4, <1>6, <1>7, NowIs DEF Handled, Shows, Collects
  <2>2. Good(t)  BY <1>2, <1>4, <1>5, <1>8, <2>1, LocalGood
  <2> QED  BY <1>2, <1>11, <2>2, Arrives
<1>12. CASE body[b].kind = "inbound" /\ body[b].held /\ a # None /\ Becomes(Drop(u, b, a))
  <2> DEFINE v == Drop(u, b, a)
  <2>1. v = Drop(u, b, a) /\ a \in 1 .. Len(acc)  BY <1>5, <1>12, AccOf
  <2> HIDE DEF v
  <2>2. ~hist.broken => a = slot[b].state /\ Handled(u, b) /\ Shows(u, b, ByteLimit, opts.spooling)
    <3> SUFFICES ASSUME ~hist.broken
                 PROVE  a = slot[b].state /\ Handled(u, b) /\ Shows(u, b, ByteLimit, opts.spooling)
      OBVIOUS
    <3>1. Open(b)  BY <1>7, <1>12, NowIs DEF Handled, Open
    <3>2. slot[b].state = a  BY <1>5, <1>12, <3>1, HeldOwn
    <3> QED  BY <1>9, <1>12, <3>2
  <2>3. Good(v)
    <3> HIDE DEF Good
    <3> QED  BY <1>2, <1>4, <1>5, <1>12, <2>1, <2>2, DropGood
  <2> QED  BY <1>2, <1>12, <2>1, <2>3, Arrives
<1> QED  BY <1>3, <1>10, <1>11, <1>12

LEMMA ReleaseSlotInv ==
  ASSUME BodyInv, NEW b \in Bodies, ReleaseSlot(b)
  PROVE  BodyInv'
<1> DEFINE d == [slot[b] EXCEPT !.record = << >>, !.truncated = FALSE, !.ref = 0]
           t == With(Now, b, body[b], d, spool, hist)
           a == slot[b].state
           u == IF a = None THEN t ELSE Drop(t, b, a)
<1>1. BodyKnown(b)  BY KnownNow
<1>2. /\ body[b] \in Streams /\ slot[b] \in BodySlots /\ hist \in Histories /\ Equipped(body)
      /\ opts \in Options /\ body \in [Bodies -> Streams] /\ slot \in [Bodies -> BodySlots]
      /\ Len(acc) \in Nat /\ a <= Len(acc) /\ BodyTyped(Now) /\ SpoolOK(spool)
      /\ body[b].acc <= Len(Now.acc)
  BY <1>1, NowIs DEF BodyKnown
<1>3. Becomes(IF UnderWay(b) THEN Cut(u) ELSE u)
  <2> DEFINE z == [Now EXCEPT !.slot[b] = [@ EXCEPT !.record = << >>, !.truncated = FALSE, !.ref = 0]]
  <2>1. z = t
    <3>1. z = [Now EXCEPT !.slot[b] = d]  BY NowIs
    <3> HIDE DEF d, z
    <3> QED  BY <1>1, <3>1, PutBack DEF With, Now
  <2> HIDE DEF t
  <2> QED  BY <2>1 DEF ReleaseSlot
<1>4. d \in BodySlots /\ d.state = a /\ d.record = << >> /\ ~d.truncated
  <2>1. << >> \in Seq(Bodies) /\ 0 \in Nat  OBVIOUS
  <2> QED  BY <1>2, <2>1 DEF BodySlots
<1>5. t = With(Now, b, body[b], d, spool, hist) /\ a = slot[b].state
      /\ u = IF a = None THEN t ELSE Drop(t, b, a)
  OBVIOUS
<1> HIDE DEF d, t, u, a
<1>6. t.body[b] = body[b] /\ t.slot[b] = d /\ t.acc = acc  BY <1>2, <1>5, NowIs DEF With
<1>7. ~hist.broken => Handled(Now, b) /\ Collects(Now, b, ByteLimit)  BY SoundNow
<1>8. body[b].stage # "none" /\ body[b].kind # "inbound" => body[b].acc # None  BY <1>2 DEF Equipped
<1>9. Shows(t, b, ByteLimit, opts.spooling)  BY <1>4, <1>6 DEF Shows
<1>10. ~hist.broken => Handled(t, b)
  BY <1>4, <1>5, <1>6, <1>7, NowIs DEF Handled
<1>11. CASE a = None
  <2>1. ~UnderWay(b) /\ u = t  BY <1>5, <1>11 DEF UnderWay
  <2>2. Collects(t, b, ByteLimit)  BY <1>4, <1>6, <1>11 DEF Collects
  <2>3. Good(t)  BY <1>2, <1>4, <1>5, <1>8, <1>9, <1>10, <2>2, LocalGood
  <2> QED  BY <1>2, <1>3, <2>1, <2>3, Arrives
<1>12. CASE a # None
  <2>1. a \in 1 .. Len(acc)  BY <1>2, <1>5, <1>12 DEF BodySlots, None
  <2>2. u = Drop(t, b, a)  BY <1>5, <1>12
  <2>3. CASE ~UnderWay(b)
    <3>1. ~body[b].held  BY <1>5, <1>12, <2>3 DEF UnderWay
    <3>2. Good(u)
      <4>1. ~hist.broken => /\ a = slot[b].state
                            /\ Handled(t, b) /\ Shows(t, b, ByteLimit, opts.spooling)
        BY <1>5, <1>9, <1>10
      <4>2. d.state = slot[b].state  BY <1>4, <1>5
      <4> HIDE DEF Good
      <4> QED  BY <1>2, <1>4, <1>5, <1>8, <2>1, <2>2, <3>1, <4>1, <4>2, DropGood
    <3> QED  BY <1>2, <1>3, <2>3, <3>2, Arrives
  <2>4. CASE UnderWay(b)
    <3>1. BodyTyped(t) /\ Apart(Now, t, b, body[b], d) /\ t.spool = spool
      <4>1. d.state <= Len(Now.acc)  BY <1>2, <1>4, NowIs
      <4> QED  BY <1>2, <1>4, <1>5, <4>1, WithTyped
    <3>2. a \in 1 .. Len(t.acc)  BY <1>6, <2>1
    <3>3. Drops(t, b, a, u)  BY <2>2, <3>1, <3>2, DropParts
    <3>4. BodyTyped(u) /\ u.body = t.body /\ u.spool = spool  BY <3>1, <3>3 DEF Drops
    <3>5. Equipped(t.body)  BY <1>2, <1>8, <3>1, EquippedWith
    <3>6. Good(Cut(u))  BY <1>2, <3>4, <3>5, CutGood
    <3> QED  BY <1>2, <1>3, <2>4, <3>6, Arrives
  <2> QED  BY <2>3, <2>4
<1> QED  BY <1>11, <1>12

LEMMA KeepsOK ==
  ASSUME NEW t, SpoolOK(t.spool), NEW b, NEW sp, Keeps(t, b, sp)
  PROVE  SpoolOK(sp)
<1>1. CASE sp = t.spool  BY <1>1
<1>2. CASE ~(sp = t.spool)
  <2>1. PICK size, len \in Nat, complete \in BOOLEAN :
          \E pressure : /\ len <= size + 1
                        /\ sp = Stored(t.spool, RequestOf[b], size, len, complete, pressure).spool
    BY <1>2 DEF Keeps
  <2>2. PICK pressure : /\ len <= size + 1
                        /\ sp = Stored(t.spool, RequestOf[b], size, len, complete, pressure).spool
    BY <2>1
  <2> QED  BY <2>2, StoredOK
<1> QED  BY <1>1, <1>2

LEMMA CaptureBodyInv ==
  ASSUME BodyInv, NEW b \in Bodies, NEW len \in 0 .. 1, NEW pressure, CaptureBody(b, len, pressure)
  PROVE  BodyInv'
<1> DEFINE t == MaterializeBody(Now, b, len, pressure)
<1>1. BodyKnown(b)  BY KnownNow
<1>2. BodyTyped(Now) /\ SpoolOK(Now.spool) /\ Equipped(Now.body) /\ opts \in Options
  BY <1>1, NowIs DEF BodyKnown
<1>3. /\ slot[b].state # None /\ Becomes(IF UnderWay(b) THEN Cut(t) ELSE t)
  BY DEF CaptureBody
<1>4. t = MaterializeBody(Now, b, len, pressure)  OBVIOUS
<1> HIDE DEF t
<1>5. t = Now \/ Materializes(Now, b, t)
  <2>1. Now.spool.next \in Nat /\ opts.spooling \in BOOLEAN  BY <1>2, Limits DEF SpoolOK
  <2> QED  BY <1>2, <1>4, <2>1, MaterializeParts
<1>6. BodyTyped(t) /\ t.body = Now.body /\ Keeps(Now, b, t.spool) /\ t.hist = Now.hist
  BY <1>2, <1>5, MaterializeTyped
<1>7. SpoolOK(t.spool)  BY <1>2, <1>6, KeepsOK
<1>8. CASE UnderWay(b)
  <2>1. Good(Cut(t))  BY <1>2, <1>6, <1>7, CutGood
  <2> QED  BY <1>2, <1>3, <1>8, <2>1, Arrives
<1>9. CASE ~UnderWay(b)
  <2>1. ~Now.body[b].held  BY <1>3, <1>9, NowIs DEF UnderWay
  <2>2. ~hist.broken => BodyOK(t, ByteLimit, opts.spooling)
    <3> SUFFICES ASSUME ~hist.broken  PROVE BodyOK(t, ByteLimit, opts.spooling)  OBVIOUS
    <3>1. BodyOK(Now, ByteLimit, opts.spooling)  BY SoundNow
    <3> QED  BY <1>2, <1>5, <2>1, <3>1, MaterializeOK
  <2>3. Good(t)  BY <1>2, <1>6, <1>7, <2>2, NowIs DEF Good
  <2> QED  BY <1>2, <1>3, <1>9, <2>3, Arrives
<1> QED  BY <1>8, <1>9

LEMMA EndAgainInv ==
  ASSUME BodyInv, NEW b \in Bodies, EndAgain(b)
  PROVE  BodyInv'
<1> DEFINE u == FinalizeCapture(Now, b)
<1>1. BodyKnown(b)  BY KnownNow
<1>2. BodyTyped(Now) /\ SpoolOK(Now.spool) /\ Equipped(Now.body) /\ opts \in Options
  BY <1>1, NowIs DEF BodyKnown
<1>3. /\ body[b].stage = "ended" /\ body[b].kind = "outbound" /\ Becomes(Cut(u))
  BY DEF EndAgain
<1>4. Now.body[b].acc # None  BY <1>2, <1>3, NowIs DEF Equipped
<1>5. u = FinalizeCapture(Now, b)  OBVIOUS
<1> HIDE DEF u
<1>6. BodyTyped(u) /\ u.body = Now.body /\ u.spool = Now.spool  BY <1>2, <1>4, <1>5, FinalizeTyped
<1>7. Good(Cut(u))  BY <1>2, <1>6, CutGood
<1> QED  BY <1>2, <1>3, <1>7, Arrives

LEMMA EndBodyInv ==
  ASSUME BodyInv, NEW b \in Bodies, NEW len \in 0 .. 1, NEW pressure, EndBody(b, len, pressure)
  PROVE  BodyInv'
<1> DEFINE x == [body[b] EXCEPT !.stage = "ended", !.held = body[b].held /\ body[b].kind = "outbound"]
           d == [slot[b] EXCEPT !.done = @ \/ body[b].kind = "response"]
           t == With(Now, b, x, d, spool, hist)
           f == FinalizeCapture(t, b)
           u == MaterializeBody(f, b, len, pressure)
<1>1. BodyKnown(b)  BY KnownNow
<1>2. /\ body[b] \in Streams /\ slot[b] \in BodySlots /\ hist \in Histories /\ Equipped(body)
      /\ opts \in Options /\ body \in [Bodies -> Streams] /\ slot \in [Bodies -> BodySlots]
      /\ BodyTyped(Now) /\ SpoolOK(spool) /\ body[b].acc <= Len(Now.acc) /\ slot[b].state <= Len(Now.acc)
  BY <1>1, NowIs DEF BodyKnown
<1>3. /\ Open(b) /\ body[b].held
      /\ Becomes(IF body[b].acc = None THEN t ELSE IF body[b].kind = "fetch" THEN u ELSE f)
  <2> DEFINE z == [Now EXCEPT !.body[b] = [@ EXCEPT !.stage = "ended",
                                                    !.held = body[b].held /\ body[b].kind = "outbound"],
                              !.slot[b].done = @ \/ body[b].kind = "response"]
  <2>1. z = t
    <3>1. z = [Now EXCEPT !.body[b] = x, !.slot[b] = d]  BY NowIs
    <3> HIDE DEF x, d, z
    <3> QED  BY <3>1 DEF With, Now
  <2> HIDE DEF t
  <2> QED  BY <2>1 DEF EndBody
<1>4. /\ x \in Streams /\ x.acc = body[b].acc /\ x.stage = "ended" /\ x.kind = body[b].kind
      /\ x.sent = body[b].sent /\ (x.held => x.kind = "outbound")
  BY <1>2 DEF Streams
<1>5. /\ d \in BodySlots /\ d.state = slot[b].state /\ d.record = slot[b].record
      /\ d.truncated = slot[b].truncated
  <2> DEFINE n == slot[b].done \/ body[b].kind = "response"
  <2>1. n \in BOOLEAN  OBVIOUS
  <2>2. d = [slot[b] EXCEPT !.done = n]  OBVIOUS
  <2> HIDE DEF n, d
  <2> QED  BY <1>2, <2>1, <2>2 DEF BodySlots
<1>6. /\ t = With(Now, b, x, d, spool, hist) /\ f = FinalizeCapture(t, b)
      /\ u = MaterializeBody(f, b, len, pressure)
  OBVIOUS
<1> HIDE DEF x, d, t, f, u
<1>7. BodyTyped(t) /\ Apart(Now, t, b, x, d) /\ t.spool = spool /\ t.hist = hist
  <2>1. x.acc <= Len(Now.acc) /\ d.state <= Len(Now.acc)  BY <1>2, <1>4, <1>5
  <2> QED  BY <1>2, <1>4, <1>5, <1>6, <2>1, WithTyped
<1>8. t.body[b] = x /\ t.slot[b] = d /\ t.acc = acc  BY <1>7, NowIs DEF Apart
<1>9. x.stage # "none" /\ x.kind # "inbound" => x.acc # None
  BY <1>2, <1>3, <1>4 DEF Equipped, Open
<1>10. ~hist.broken => Handled(Now, b) /\ Shows(Now, b, ByteLimit, opts.spooling) /\ Collects(Now, b, ByteLimit)
  BY SoundNow
<1>11. ~hist.broken => Handled(t, b) /\ Shows(t, b, ByteLimit, opts.spooling) /\ Collects(t, b, ByteLimit)
  <2> SUFFICES ASSUME ~hist.broken
               PROVE  Handled(t, b) /\ Shows(t, b, ByteLimit, opts.spooling) /\ Collects(t, b, ByteLimit)
    OBVIOUS
  <2>1. Handled(t, b)  BY <1>4, <1>5, <1>8, <1>10, NowIs DEF Handled
  <2>2. Shows(t, b, ByteLimit, opts.spooling)  BY <1>4, <1>5, <1>8, <1>10, NowIs DEF Shows
  <2>3. Collects(t, b, ByteLimit)  BY <1>4, <1>5, <1>8, <1>10, NowIs DEF Collects
  <2> QED  BY <2>1, <2>2, <2>3
<1>12. Good(t)
  <2> HIDE DEF Good
  <2> QED  BY <1>4, <1>5, <1>6, <1>9, <1>11, LocalGood
<1>13. CASE body[b].acc = None
  <2> QED  BY <1>2, <1>3, <1>12, <1>13, Arrives
<1>14. CASE body[b].acc # None
  <2>1. t.body[b].acc # None  BY <1>4, <1>8, <1>14
  <2>2. BodyTyped(f) /\ f.body = t.body /\ f.spool = spool /\ f.hist = hist
    BY <1>6, <1>7, <2>1, FinalizeTyped
  <2>3. Equipped(f.body) /\ SpoolOK(f.spool)  BY <1>2, <1>12, <2>2 DEF Good
  <2>4. ~hist.broken => BodyOK(f, ByteLimit, opts.spooling)
    <3> SUFFICES ASSUME ~hist.broken  PROVE BodyOK(f, ByteLimit, opts.spooling)  OBVIOUS
    <3>1. slot[b].state = body[b].acc  BY <1>3, <1>14, HeldOwn
    <3>2. t.slot[b].state = t.body[b].acc /\ t.body[b].stage # "open"  BY <1>4, <1>5, <1>8, <3>1
    <3>3. BodyOK(t, ByteLimit, opts.spooling)  BY <1>7, <1>12 DEF Good
    <3>4. Unshared(t) /\ ~t.hist.threw /\ Others_OK(t, b, ByteLimit, opts.spooling)  BY <3>3, OKParts
    <3>5. Handled(t, b) /\ Collects(t, b, ByteLimit)  BY <1>11
    <3> HIDE DEF Handled, Collects
    <3> QED  BY <1>6, <1>7, <2>1, <3>2, <3>4, <3>5, FinalizeOK
  <2>5. Good(f)  BY <2>2, <2>3, <2>4 DEF Good
  <2>6. CASE body[b].kind # "fetch"  BY <1>2, <1>3, <1>14, <2>5, <2>6, Arrives
  <2>7. CASE body[b].kind = "fetch"
    <3>1. u = f \/ Materializes(f, b, u)
      <4>1. f.spool.next \in Nat /\ opts.spooling \in BOOLEAN  BY <1>2, <2>3, Limits DEF SpoolOK
      <4> QED  BY <1>6, <2>2, <4>1, MaterializeParts
    <3>2. BodyTyped(u) /\ u.body = f.body /\ Keeps(f, b, u.spool) /\ u.hist = f.hist
      BY <2>2, <3>1, MaterializeTyped
    <3>3. SpoolOK(u.spool)  BY <2>3, <3>2, KeepsOK
    <3>4. ~f.body[b].held  BY <1>4, <1>8, <2>2, <2>7
    <3>5. ~hist.broken => BodyOK(u, ByteLimit, opts.spooling)  BY <2>2, <2>4, <3>1, <3>4, MaterializeOK
    <3>6. Good(u)  BY <2>2, <2>3, <3>2, <3>3, <3>5 DEF Good
    <3> QED  BY <1>2, <1>3, <1>14, <2>7, <3>6, Arrives
  <2> QED  BY <2>6, <2>7
<1> QED  BY <1>13, <1>14

Grows(t, b, u) ==
  LET a == t.body[b].acc  q == t.acc[a].chunks  over == Len(q) >= ByteLimit IN
    /\ u.pool = t.pool /\ u.hist = t.hist
    /\ \A i \in 1 .. Len(t.acc) : i # a => u.acc[i] = t.acc[i]
    /\ u.acc[a].chunks = IF over THEN q ELSE Append(q, b)
    /\ u.acc[a].truncated = over /\ u.acc[a].hashed = t.acc[a].hashed
    /\ u.slot = [t.slot EXCEPT ![b] = [t.slot[b] EXCEPT !.truncated = @ \/ over]]

LEMMA ChunkGrows ==
  ASSUME NEW t, BodyTyped(t), NEW b \in Bodies, t.body[b].acc # None, ~t.acc[t.body[b].acc].hashed,
         NEW u, u = CaptureChunk(t, b)
  PROVE  Grows(t, b, u)
<1> DEFINE a == t.body[b].acc
           q == t.acc[a].chunks
           over == Len(q) >= ByteLimit
           x == [t.acc[a] EXCEPT !.total = @ + 1, !.truncated = over,
                                 !.chunks = IF over THEN @ ELSE Append(@, b)]
           d == [t.slot[b] EXCEPT !.truncated = @ \/ over]
<1>1. /\ t = [body |-> t.body, slot |-> t.slot, acc |-> t.acc, pool |-> t.pool,
              spool |-> t.spool, hist |-> t.hist]
      /\ t.acc \in Seq(Accumulators) /\ a <= Len(t.acc)
      /\ t.body \in [Bodies -> Streams]
  BY DEF BodyTyped
<1>2. a \in 1 .. Len(t.acc) /\ t.acc[a] \in Accumulators  BY <1>1 DEF Streams, None
<1>3. u = [t EXCEPT !.acc[a] = x, !.slot[b].truncated = @ \/ over]  BY DEF CaptureChunk
<1>4. x.chunks = (IF over THEN q ELSE Append(q, b)) /\ x.truncated = over /\ x.hashed = t.acc[a].hashed
  BY <1>2 DEF Accumulators
<1> HIDE DEF x
<1>5. u.acc = [t.acc EXCEPT ![a] = x] /\ u.pool = t.pool /\ u.hist = t.hist
  BY <1>1, <1>3
<1>6. u.slot = [t.slot EXCEPT ![b] = d]
  <2>1. u = [t EXCEPT !.acc[a] = x, !.slot[b] = d]  BY <1>3
  <2> HIDE DEF d
  <2> QED  BY <1>1, <2>1
<1>7. u.acc[a] = x /\ \A i \in 1 .. Len(t.acc) : i # a => u.acc[i] = t.acc[i]
  BY <1>1, <1>2, <1>5
<1> HIDE DEF a, q, over, d
<1> QED  BY <1>4, <1>5, <1>6, <1>7 DEF Grows, a, q, over, d

LEMMA ChunkOK ==
  ASSUME NEW t, BodyTyped(t), NEW b \in Bodies, NEW u, BodyTyped(u), u.body = t.body, Grows(t, b, u),
         NEW spooling, Unshared(t), ~t.hist.threw, Others_OK(t, b, ByteLimit, spooling),
         opts \in Options, NEW n \in Nat, t.body[b].sent = n + 1, Handled(t, b),
         t.body[b].acc # None, t.slot[b].state = t.body[b].acc, t.slot[b].record = << >>,
         LET q == t.acc[t.slot[b].state].chunks  d == t.slot[b] IN
           /\ \A i \in DOMAIN q : q[i] = b
           /\ Len(q) <= ByteLimit
           /\ d.truncated => Len(q) >= ByteLimit /\ n > Len(q)
           /\ ~d.truncated => n = Len(q)
  PROVE  BodyOK(u, ByteLimit, spooling)
<1> DEFINE a == t.body[b].acc
           q == t.acc[a].chunks
           over == Len(q) >= ByteLimit
           r == u.acc[a].chunks
<1>1. /\ u.pool = t.pool /\ u.hist = t.hist
      /\ \A i \in 1 .. Len(t.acc) : i # a => u.acc[i] = t.acc[i]
      /\ r = IF over THEN q ELSE Append(q, b)
      /\ u.acc[a].hashed = t.acc[a].hashed
      /\ u.slot = [t.slot EXCEPT ![b] = [t.slot[b] EXCEPT !.truncated = @ \/ over]]
  BY DEF Grows
<1>2. /\ t.slot \in [Bodies -> BodySlots] /\ t.slot[b] \in BodySlots /\ ByteLimit \in Nat
      /\ a \in 1 .. Len(t.acc)
  <2>1. t.slot \in [Bodies -> BodySlots]  BY DEF BodyTyped
  <2> QED  BY <2>1, OwnIsAlone, Limits
<1>3. q \in Seq(Bodies) /\ Len(q) \in Nat
  <2>1. t.acc[a] \in Accumulators  BY <1>2 DEF BodyTyped
  <2>2. q \in Seq(Bodies)  BY <2>1 DEF Accumulators
  <2> QED  BY <2>2, LenNat
<1>4. /\ \A c \in Bodies \ {b} : u.slot[c] = t.slot[c] /\ u.body[c] = t.body[c]
      /\ u.slot[b].state = a /\ u.slot[b].record = << >>
      /\ u.slot[b].truncated = (t.slot[b].truncated \/ over)
      /\ \A c \in Bodies : u.slot[c].state = t.slot[c].state
  <2> HIDE DEF over
  <2>1. /\ u.slot = [t.slot EXCEPT ![b] = [t.slot[b] EXCEPT !.truncated = @ \/ over]]  BY <1>1
  <2>2. \A c \in Bodies \ {b} : u.slot[c] = t.slot[c]  BY <1>2, <2>1
  <2>3. u.slot[b] = [t.slot[b] EXCEPT !.truncated = @ \/ over]  BY <1>2, <2>1
  <2>4. /\ u.slot[b].state = t.slot[b].state /\ u.slot[b].record = t.slot[b].record
        /\ u.slot[b].truncated = (t.slot[b].truncated \/ over)
    BY <1>2, <2>3 DEF BodySlots
  <2> QED  BY <2>2, <2>4
<1>5. Unshared(u)
  <2>1. u.pool = t.pool /\ \A c \in Bodies : u.slot[c].state = t.slot[c].state  BY <1>1, <1>4
  <2> QED  BY <2>1 DEF Unshared
<1>6. Others_OK(u, b, ByteLimit, spooling)
  <2>1. Alone(t, b, a)  BY OwnIsAlone
  <2>2. Aside(t, u, b, a)  BY <1>1, <1>4, <2>1 DEF Aside, Alone
  <2> QED  BY <2>2, OthersStay
<1>7. Handled(u, b)
  <2>1. u.body[b] = t.body[b] /\ u.slot[b].record = << >> /\ u.acc[u.body[b].acc].hashed = t.acc[a].hashed
    BY <1>1, <1>4
  <2> QED  BY <1>4, <2>1 DEF Handled
<1>8. Shows(u, b, ByteLimit, spooling)  BY <1>4 DEF Shows
<1>9. /\ (\A i \in DOMAIN q : q[i] = b) /\ Len(q) <= ByteLimit
      /\ (t.slot[b].truncated => Len(q) >= ByteLimit /\ n > Len(q))
      /\ (~t.slot[b].truncated => n = Len(q))
  OBVIOUS
<1> HIDE DEF q, r
<1>10. (\A i \in DOMAIN r : r[i] = b) /\ Len(r) = IF over THEN Len(q) ELSE Len(q) + 1
  <2>1. CASE over  BY <1>1, <1>9, <2>1
  <2>2. CASE ~over
    <3>1. r = Append(q, b)  BY <1>1, <2>2
    <3>2. /\ Len(Append(q, b)) = Len(q) + 1
          /\ \A i \in DOMAIN Append(q, b) : Append(q, b)[i] = b \/ (i \in DOMAIN q /\ Append(q, b)[i] = q[i])
      BY <1>3, AppendOne
    <3> QED  BY <1>9, <2>2, <3>1, <3>2
  <2> QED  BY <2>1, <2>2
<1>11. Collects(u, b, ByteLimit)
  <2>1. u.acc[u.slot[b].state].chunks = r /\ u.body[b].sent = n + 1 /\ u.body[b].acc = a  BY <1>4 DEF r
  <2>2. Len(r) <= ByteLimit  BY <1>2, <1>3, <1>9, <1>10
  <2>3. u.slot[b].truncated => Len(r) >= ByteLimit /\ n + 1 > Len(r)
    <3>1. u.slot[b].truncated = (t.slot[b].truncated \/ over)  BY <1>4
    <3>2. CASE over
      <4>1. n >= Len(q)  BY <1>2, <1>3, <1>9
      <4> QED  BY <1>2, <1>3, <1>10, <3>2, <4>1
    <3>3. CASE ~over
      <4>1. ~t.slot[b].truncated  BY <1>9, <3>3
      <4> QED  BY <3>1, <3>3, <4>1
    <3> QED  BY <3>2, <3>3
  <2>4. ~u.slot[b].truncated => n + 1 = Len(r)
    <3> SUFFICES ASSUME ~u.slot[b].truncated  PROVE n + 1 = Len(r)  OBVIOUS
    <3>1. ~t.slot[b].truncated /\ ~over  BY <1>4
    <3> QED  BY <1>9, <1>10, <3>1
  <2> HIDE DEF a
  <2> QED  BY <1>4, <1>10, <2>1, <2>2, <2>3, <2>4 DEF Collects
<1> QED  BY <1>1, <1>5, <1>6, <1>7, <1>8, <1>11 DEF BodyOK, Others_OK

(* Nobody counts any more what passes beyond the limit.                          *)
LEMMA StopGood ==
  ASSUME NEW u, Good(u), NEW b \in Bodies, opts \in Options, u.body[b].acc # None,
         ~u.hist.broken => u.slot[b].truncated /\ u.slot[b].state # None
  PROVE  Good([u EXCEPT !.body[b].sent = MaxChunks])
<1> DEFINE x == [u.body[b] EXCEPT !.sent = MaxChunks]
           v == With(u, b, x, u.slot[b], u.spool, u.hist)
           w == [u EXCEPT !.body[b].sent = MaxChunks]
<1>1. /\ u = [body |-> u.body, slot |-> u.slot, acc |-> u.acc, pool |-> u.pool,
              spool |-> u.spool, hist |-> u.hist]
      /\ u.body \in [Bodies -> Streams] /\ u.slot \in [Bodies -> BodySlots] /\ u.hist \in Histories
      /\ u.body[b].acc <= Len(u.acc) /\ u.slot[b].state <= Len(u.acc) /\ BodyTyped(u)
      /\ SpoolOK(u.spool) /\ Equipped(u.body)
      /\ (~u.hist.broken => BodyOK(u, ByteLimit, opts.spooling))
  BY DEF Good, BodyTyped, Histories
<1>2. /\ x \in Streams /\ x.acc = u.body[b].acc /\ x.stage = u.body[b].stage /\ x.kind = u.body[b].kind
      /\ x.held = u.body[b].held /\ x.sent = MaxChunks
  <2>1. MaxChunks \in 0 .. MaxChunks  BY BodyAssumption
  <2> QED  BY <1>1, <2>1 DEF Streams
<1>3. w = v
  <2>1. [u.slot EXCEPT ![b] = u.slot[b]] = u.slot  BY <1>1
  <2>2. w = [u EXCEPT !.body[b] = x]  OBVIOUS
  <2> HIDE DEF x, w
  <2> QED  BY <1>1, <2>1, <2>2 DEF With
<1>4. v = With(u, b, x, u.slot[b], u.spool, u.hist) /\ u.slot[b] \in BodySlots  BY <1>1
<1> HIDE DEF x, v, w
<1>5. BodyTyped(v) /\ Apart(u, v, b, x, u.slot[b]) /\ v.spool = u.spool /\ v.hist = u.hist
  BY <1>1, <1>2, <1>4, WithTyped
<1>6. v.body[b] = x /\ v.slot[b] = u.slot[b] /\ v.acc = u.acc /\ \A c \in Bodies \ {b} : v.body[c] = u.body[c]
  BY <1>5 DEF Apart
<1>7. Equipped(v.body)  BY <1>1, <1>2, <1>6 DEF Equipped
<1>8. ~u.hist.broken => BodyOK(v, ByteLimit, opts.spooling)
  <2> SUFFICES ASSUME ~u.hist.broken  PROVE BodyOK(v, ByteLimit, opts.spooling)  OBVIOUS
  <2>1. /\ Unshared(u) /\ ~u.hist.threw /\ Others_OK(u, b, ByteLimit, opts.spooling)
        /\ Handled(u, b) /\ Collects(u, b, ByteLimit)
    BY <1>1, OKParts
  <2>2. Unshared(v) /\ Others_OK(v, b, ByteLimit, opts.spooling)  BY <1>1, <1>5, <2>1, WithOK
  <2>3. Handled(v, b)  BY <1>2, <1>6, <2>1 DEF Handled
  <2>4. u.slot[b].record = << >>  BY <2>1 DEF Collects
  <2>5. Shows(v, b, ByteLimit, opts.spooling)  BY <1>6, <2>4 DEF Shows
  <2>6. Collects(v, b, ByteLimit)
    <3> DEFINE q == u.acc[u.slot[b].state].chunks
    <3>1. /\ u.slot[b].truncated /\ u.body[b].acc = u.slot[b].state
          /\ (\A i \in DOMAIN q : q[i] = b) /\ Len(q) <= ByteLimit
          /\ Len(q) >= ByteLimit /\ u.body[b].sent > Len(q)
      BY <2>1 DEF Collects
    <3>2. u.body[b].sent \in Nat /\ u.body[b].sent <= MaxChunks
      BY <1>1, BodyAssumption DEF Streams
    <3>3. Len(q) \in Nat
      <4>1. u.acc[u.slot[b].state] \in Accumulators  BY <1>1, <2>1, OwnIsAlone DEF BodyTyped
      <4> QED  BY <4>1, LenNat DEF Accumulators
    <3>4. MaxChunks > Len(q)  BY <3>1, <3>2, <3>3, BodyAssumption
    <3> QED  BY <1>2, <1>6, <2>4, <3>1, <3>4 DEF Collects
  <2> QED  BY <1>5, <2>1, <2>2, <2>3, <2>5, <2>6 DEF BodyOK, Others_OK
<1>9. Good(v)  BY <1>1, <1>5, <1>7, <1>8 DEF Good
<1> QED  BY <1>3, <1>9 DEF w

LEMMA ChunkInv ==
  ASSUME BodyInv, NEW b \in Bodies, Chunk(b)
  PROVE  BodyInv'
<1> DEFINE x == [body[b] EXCEPT !.sent = @ + 1]
           t0 == With(Now, b, x, slot[b], spool, hist)
           t == CaptureChunk(t0, b)
           u == IF Open(b) THEN t ELSE Cut(t)
           stops == body[b].kind \in {"inbound", "response"} /\ ~Tracks(u, b)
<1>1. BodyKnown(b)  BY KnownNow
<1>2. /\ body[b] \in Streams /\ slot[b] \in BodySlots /\ hist \in Histories /\ Equipped(body)
      /\ opts \in Options /\ body \in [Bodies -> Streams] /\ slot \in [Bodies -> BodySlots]
      /\ BodyTyped(Now) /\ SpoolOK(spool) /\ body[b].acc <= Len(Now.acc) /\ slot[b].state <= Len(Now.acc)
  BY <1>1, NowIs DEF BodyKnown
<1>3. /\ body[b].held /\ body[b].acc # None /\ body[b].sent < MaxChunks
      /\ Becomes(IF stops THEN [u EXCEPT !.body[b].sent = MaxChunks] ELSE u)
  <2> DEFINE z == [Now EXCEPT !.body[b].sent = @ + 1]
  <2>1. z = t0
    <3>1. z = [Now EXCEPT !.body[b] = x]  BY NowIs
    <3> HIDE DEF x, z
    <3> QED  BY <1>1, <3>1, PutBack DEF With, Now
  <2> HIDE DEF t0
  <2> QED  BY <2>1 DEF Chunk
<1>4. /\ x \in Streams /\ x.acc = body[b].acc /\ x.stage = body[b].stage /\ x.kind = body[b].kind
      /\ x.sent = body[b].sent + 1 /\ x.held = body[b].held /\ body[b].sent \in Nat
  <2>1. body[b].sent \in 0 .. MaxChunks  BY <1>2 DEF Streams
  <2>2. body[b].sent + 1 \in 0 .. MaxChunks /\ body[b].sent \in Nat  BY <1>3, <2>1, BodyAssumption
  <2> DEFINE n == body[b].sent + 1
  <2>3. n \in 0 .. MaxChunks /\ x = [body[b] EXCEPT !.sent = n]  BY <2>2
  <2> HIDE DEF n, x
  <2>4. /\ x \in Streams /\ x.acc = body[b].acc /\ x.stage = body[b].stage /\ x.kind = body[b].kind
        /\ x.sent = n /\ x.held = body[b].held
    BY <1>2, <2>3 DEF Streams
  <2> QED  BY <2>2, <2>4 DEF n
<1>5. t0 = With(Now, b, x, slot[b], spool, hist) /\ t = CaptureChunk(t0, b)
      /\ u = IF Open(b) THEN t ELSE Cut(t)
  OBVIOUS
<1> HIDE DEF x, t0, t, u
<1>6. BodyTyped(t0) /\ Apart(Now, t0, b, x, slot[b]) /\ t0.spool = spool /\ t0.hist = hist
  BY <1>2, <1>4, <1>5, WithTyped
<1>7. t0.body[b] = x /\ t0.slot[b] = slot[b] /\ t0.acc = acc /\ t0.pool = pool  BY <1>6, NowIs DEF Apart
<1>8. BodyTyped(t) /\ t.body = t0.body /\ t.spool = t0.spool /\ t.hist.broken = t0.hist.broken
  BY <1>3, <1>4, <1>5, <1>6, <1>7, ChunkTyped
<1>9. Equipped(t.body) /\ SpoolOK(t.spool)
  <2>1. x.stage # "none" /\ x.kind # "inbound" => x.acc # None  BY <1>3, <1>4
  <2>2. Equipped(t0.body)  BY <1>2, <1>6, <2>1, EquippedWith
  <2> QED  BY <1>2, <1>6, <1>8, <2>2
<1>10. ~hist.broken /\ Open(b) =>
         /\ BodyOK(t, ByteLimit, opts.spooling) /\ Grows(t0, b, t) /\ slot[b].state = body[b].acc
  <2> SUFFICES ASSUME ~hist.broken, Open(b)
               PROVE  /\ BodyOK(t, ByteLimit, opts.spooling) /\ Grows(t0, b, t)
                      /\ slot[b].state = body[b].acc
    OBVIOUS
  <2>1. slot[b].state = body[b].acc /\ ~acc[body[b].acc].hashed /\ slot[b].record = << >>
    BY <1>3, HeldOwn
  <2>2. Grows(t0, b, t)  BY <1>3, <1>4, <1>5, <1>6, <1>7, <2>1, ChunkGrows
  <2>3. /\ Unshared(Now) /\ ~hist.threw /\ Others_OK(Now, b, ByteLimit, opts.spooling)
        /\ Handled(Now, b) /\ Collects(Now, b, ByteLimit)
    BY SoundNow, NowIs
  <2>4. Unshared(t0) /\ Others_OK(t0, b, ByteLimit, opts.spooling)
    <3>1. slot[b].state = Now.slot[b].state  BY NowIs
    <3> QED  BY <1>2, <1>6, <2>3, <3>1, WithOK
  <2>5. Handled(t0, b)  BY <1>3, <1>4, <1>7, <2>1, <2>3, NowIs DEF Handled
  <2>6. /\ t0.body[b].sent = body[b].sent + 1 /\ t0.body[b].acc # None
        /\ t0.slot[b].state = t0.body[b].acc /\ t0.slot[b].record = << >> /\ ~t0.hist.threw
    BY <1>3, <1>4, <1>6, <1>7, <2>1, <2>3
  <2>7. LET q == t0.acc[t0.slot[b].state].chunks  d == t0.slot[b] IN
          /\ \A i \in DOMAIN q : q[i] = b
          /\ Len(q) <= ByteLimit
          /\ d.truncated => Len(q) >= ByteLimit /\ body[b].sent > Len(q)
          /\ ~d.truncated => body[b].sent = Len(q)
    BY <1>3, <1>7, <2>1, <2>3, NowIs DEF Collects
  <2>8. BodyOK(t, ByteLimit, opts.spooling)
    <3> HIDE DEF Handled, Unshared
    <3> QED  BY <1>2, <1>4, <1>6, <1>8, <2>2, <2>4, <2>5, <2>6, <2>7, ChunkOK
  <2> QED  BY <2>1, <2>2, <2>8
<1>11. Good(u) /\ u.body = t.body /\ (~u.hist.broken => Open(b) /\ ~hist.broken /\ u = t)
  <2>1. CASE Open(b)
    <3>1. u = t  BY <1>5, <2>1
    <3>2. Good(t)  BY <1>6, <1>8, <1>9, <1>10, <2>1 DEF Good
    <3> QED  BY <1>6, <1>8, <2>1, <3>1, <3>2
  <2>2. CASE ~Open(b)
    <3>1. u = Cut(t) /\ Good(u)  BY <1>5, <1>8, <1>9, <2>2, CutGood
    <3>2. /\ t = [body |-> t.body, slot |-> t.slot, acc |-> t.acc, pool |-> t.pool,
                  spool |-> t.spool, hist |-> t.hist]
          /\ t.hist \in [broken : BOOLEAN, threw : BOOLEAN]
      BY <1>8 DEF BodyTyped
    <3>3. u.body = t.body /\ u.hist.broken
      <4>1. u = [t EXCEPT !.hist.broken = TRUE]  BY <3>1 DEF Cut
      <4>2. u.body = t.body /\ u.hist = [t.hist EXCEPT !.broken = TRUE]  BY <3>2, <4>1
      <4> QED  BY <3>2, <4>2
    <3> QED  BY <3>1, <3>3
  <2> QED  BY <2>1, <2>2
<1>12. CASE ~stops  BY <1>2, <1>3, <1>11, <1>12, Arrives
<1>13. CASE stops
  <2>1. u.body[b].acc # None /\ u.body[b].acc = body[b].acc  BY <1>3, <1>4, <1>7, <1>8, <1>11
  <2>2. ~u.hist.broken => u.slot[b].truncated /\ u.slot[b].state # None
    <3> SUFFICES ASSUME ~u.hist.broken  PROVE u.slot[b].truncated /\ u.slot[b].state # None  OBVIOUS
    <3>1. Open(b) /\ ~hist.broken /\ u = t  BY <1>11
    <3>2. Grows(t0, b, t) /\ slot[b].state = body[b].acc  BY <1>10, <3>1
    <3> DEFINE over == Len(t0.acc[t0.body[b].acc].chunks) >= ByteLimit
    <3>3. /\ t.acc[t0.body[b].acc].truncated = over
          /\ t.slot = [t0.slot EXCEPT ![b] = [t0.slot[b] EXCEPT !.truncated = @ \/ over]]
      BY <3>2 DEF Grows
    <3>4. u.acc[u.body[b].acc].truncated  BY <1>13 DEF Tracks
    <3>5. over  BY <1>8, <3>1, <3>3, <3>4
    <3>6. t0.slot \in [Bodies -> BodySlots]  BY <1>6 DEF BodyTyped
    <3> HIDE DEF over
    <3>7. t.slot[b] = [t0.slot[b] EXCEPT !.truncated = @ \/ over] /\ t0.slot[b] \in BodySlots  BY <3>3, <3>6
    <3>8. t.slot[b].truncated /\ t.slot[b].state = t0.slot[b].state  BY <3>5, <3>7 DEF BodySlots
    <3> QED  BY <1>3, <1>7, <3>1, <3>2, <3>8
  <2>3. Good([u EXCEPT !.body[b].sent = MaxChunks])  BY <1>2, <1>11, <2>1, <2>2, StopGood
  <2>4. Becomes([u EXCEPT !.body[b].sent = MaxChunks])  BY <1>3, <1>13
  <2> QED  BY <1>2, <2>3, <2>4, Arrives
<1> QED  BY <1>12, <1>13

LEMMA BodyInit == BInit => BodyInv
<1> SUFFICES ASSUME BInit  PROVE BodyInv  OBVIOUS
<1>1. /\ body = [b \in Bodies |-> [kind |-> "none", stage |-> "none", acc |-> None, held |-> FALSE,
                                   sent |-> 0]]
      /\ slot = [b \in Bodies |-> [state |-> None, record |-> << >>, truncated |-> FALSE, ref |-> 0,
                                   done |-> FALSE]]
      /\ acc = << >> /\ pool = << >> /\ spool = EmptySpool /\ opts \in Options
      /\ hist = [broken |-> FALSE, threw |-> FALSE]
  BY DEF BInit, Options
<1>2. body \in [Bodies -> Streams]
  <2>1. [kind |-> "none", stage |-> "none", acc |-> None, held |-> FALSE, sent |-> 0] \in Streams
    BY BodyAssumption DEF Streams, None
  <2> QED  BY <1>1, <2>1
<1>3. slot \in [Bodies -> BodySlots]
  <2>1. << >> \in Seq(Bodies)  OBVIOUS
  <2>2. [state |-> None, record |-> << >>, truncated |-> FALSE, ref |-> 0, done |-> FALSE] \in BodySlots
    BY <2>1 DEF BodySlots, None
  <2> QED  BY <1>1, <2>2
<1>4. acc \in Seq(Accumulators) /\ pool \in Seq(1 .. Len(acc)) /\ Len(acc) = 0 /\ DOMAIN pool = {}
  BY <1>1
<1>5. \A b \in Bodies : /\ body[b].acc = 0 /\ slot[b].state = 0 /\ slot[b].record = << >>
                        /\ body[b].stage = "none" /\ ~body[b].held /\ body[b].sent = 0
                        /\ ~slot[b].truncated
  BY <1>1 DEF None
<1>6. BodyTyped(Now)
  <2>1. \A b \in Bodies : body[b].acc <= Len(acc) /\ slot[b].state <= Len(acc)  BY <1>4, <1>5
  <2>2. Now = [body |-> Now.body, slot |-> Now.slot, acc |-> Now.acc, pool |-> Now.pool,
               spool |-> Now.spool, hist |-> Now.hist]
    BY DEF Now
  <2>3. hist \in [broken : BOOLEAN, threw : BOOLEAN]  BY <1>1
  <2> QED  BY <1>2, <1>3, <1>4, <2>1, <2>2, <2>3, NowIs DEF BodyTyped
<1>7. SpoolOK(spool)
  <2>1. /\ spool = [entries |-> << >>, next |-> 1, done |-> {}] /\ DOMAIN spool.entries = {}
        /\ spool.next = 1
    BY <1>1 DEF EmptySpool
  <2>2. Used(spool) = 0
    <3>1. Used(spool) = SumOf([id \in {} |-> spool.entries[id].len], {})
      BY <2>1, UsedIsBytes DEF Bytes
    <3> QED  BY <3>1, SumEmpty
  <2>3. IsFiniteSet(DOMAIN spool.entries)  BY <2>1, FS_EmptySet
  <2>4. spool = [entries |-> spool.entries, next |-> spool.next, done |-> spool.done]  BY <2>1
  <2>5. 0 <= GlobalMax + 1  BY SpoolAssumption
  <2> HIDE DEF Used
  <2> QED  BY <2>1, <2>2, <2>3, <2>4, <2>5 DEF SpoolOK
<1>8. Equipped(body)  BY <1>5 DEF Equipped
<1>9. BodyOK(Now, ByteLimit, opts.spooling)
  <2>1. Unshared(Now)  BY <1>4, <1>5, NowIs DEF Unshared, None
  <2>2. ~hist.threw  BY <1>1
  <2>3. ASSUME NEW b \in Bodies
        PROVE  /\ Handled(Now, b) /\ Shows(Now, b, ByteLimit, opts.spooling)
               /\ Collects(Now, b, ByteLimit)
    <3>1. Handled(Now, b)  BY <1>5, NowIs DEF Handled, None
    <3>2. Shows(Now, b, ByteLimit, opts.spooling)  BY <1>5, NowIs DEF Shows
    <3>3. Collects(Now, b, ByteLimit)  BY <1>5, NowIs DEF Collects, None
    <3> QED  BY <3>1, <3>2, <3>3
  <2> QED  BY <2>1, <2>2, <2>3, NowIs DEF BodyOK
<1> QED  BY <1>1, <1>6, <1>7, <1>8, <1>9, NowIs DEF BodyInv, Good

LEMMA BodyStep == BodyInv /\ [BNext]_bvars => BodyInv'
<1> SUFFICES ASSUME BodyInv, [BNext]_bvars  PROVE BodyInv'  OBVIOUS
<1>1. CASE UNCHANGED bvars
  <2>1. Now' = Now /\ opts' = opts /\ ByteLimit' = ByteLimit  BY <1>1 DEF bvars, Now, ByteLimit
  <2> QED  BY <2>1 DEF BodyInv, Good
<1>2. CASE PassTtl  BY <1>2, PassTtlInv
<1>3. CASE \E b \in Bodies :
             \/ \E kind \in KindsOf[b] : Begin(b, kind)
             \/ Attach(b) \/ Chunk(b) \/ EndAgain(b) \/ SkipOutbound(b) \/ FailStream(b)
             \/ SlotDone(b) \/ ReleaseSlot(b) \/ CompleteRequest(b)
             \/ \E len \in 0 .. 1, pressure \in Pressures(Sweep(spool)) :
                  EndBody(b, len, pressure) \/ CaptureBody(b, len, pressure)
  <2>1. PICK b \in Bodies :
             \/ \E kind \in KindsOf[b] : Begin(b, kind)
             \/ Attach(b) \/ Chunk(b) \/ EndAgain(b) \/ SkipOutbound(b) \/ FailStream(b)
             \/ SlotDone(b) \/ ReleaseSlot(b) \/ CompleteRequest(b)
             \/ \E len \in 0 .. 1, pressure \in Pressures(Sweep(spool)) :
                  EndBody(b, len, pressure) \/ CaptureBody(b, len, pressure)
    BY <1>3, Zenon
  <2>2. CASE \E kind \in KindsOf[b] : Begin(b, kind)  BY <2>2, BeginInv
  <2>3. CASE Attach(b)  BY <2>3, AttachInv
  <2>4. CASE Chunk(b)  BY <2>4, ChunkInv
  <2>5. CASE EndAgain(b)  BY <2>5, EndAgainInv
  <2>6. CASE SkipOutbound(b)  BY <2>6, SkipOutboundInv
  <2>7. CASE FailStream(b)  BY <2>7, FailStreamInv
  <2>8. CASE SlotDone(b)  BY <2>8, SlotDoneInv
  <2>9. CASE ReleaseSlot(b)  BY <2>9, ReleaseSlotInv
  <2>10. CASE CompleteRequest(b)  BY <2>10, CompleteRequestInv
  <2>11. CASE \E len \in 0 .. 1, pressure \in Pressures(Sweep(spool)) :
                EndBody(b, len, pressure) \/ CaptureBody(b, len, pressure)
    <3>1. PICK len \in 0 .. 1, pressure \in Pressures(Sweep(spool)) :
                 EndBody(b, len, pressure) \/ CaptureBody(b, len, pressure)
      BY <2>11, Zenon
    <3>2. CASE EndBody(b, len, pressure)  BY <3>2, EndBodyInv
    <3>3. CASE CaptureBody(b, len, pressure)  BY <3>3, CaptureBodyInv
    <3> QED  BY <3>1, <3>2, <3>3
  <2> QED  BY <2>1, <2>2, <2>3, <2>4, <2>5, <2>6, <2>7, <2>8, <2>9, <2>10, <2>11
<1> QED  BY <1>1, <1>2, <1>3 DEF BNext

(* The invariant of body capture: who refers to which accumulator, and what has  *)
(* been collected and shown of each body.                                        *)
THEOREM BodyInvariant == BSpec => []BodyInv
<1>1. BInit => BodyInv  BY BodyInit
<1>2. BodyInv /\ [BNext]_bvars => BodyInv'  BY BodyStep
<1> QED  BY <1>1, <1>2, PTL DEF BSpec

(* For any limits and any bodies the spool holds no more than it may, but for    *)
(* the one byte that scrubbing adds, and a completed request leaves nothing      *)
(* behind that the next sweep would not take (PayloadSpool.store, sweep).        *)
THEOREM SpoolStaysBounded == BSpec => []SpoolBounded
<1>1. BodyInv => SpoolBounded
  <2> SUFFICES ASSUME SpoolOK(spool)  PROVE SpoolBounded  BY NowIs DEF BodyInv, Good
  <2>1. Used(spool) <= GlobalMax + 1  BY DEF SpoolOK
  <2>2. ASSUME NEW id \in DOMAIN spool.entries
        PROVE  /\ RequestBytes(spool, spool.entries[id].req) <= RequestMax + 1
               /\ spool.entries[id].req \in spool.done =>
                    spool.entries[id].late \/ spool.entries[id].state = "sweepable"
    BY DEF SpoolOK
  <2> QED  BY <2>1, <2>2 DEF SpoolBounded
<1> QED  BY <1>1, BodyInvariant, PTL

(* For any number of bodies, chunks and accumulators no slot ever shows what     *)
(* another body sent, and a body is shown whole or marked as truncated, until a  *)
(* body is cut into (captureChunk, materializeBody, releaseState).               *)
THEOREM BodiesAreSound == BSpec => []BodiesSound
<1>1. BodyInv => BodiesSound
  <2> SUFFICES ASSUME BodyInv  PROVE BodiesSound  OBVIOUS
  <2>1. CASE hist.broken  BY <2>1 DEF BodiesSound, Isolated, WholeOrTruncated
  <2>2. CASE ~hist.broken
    <3>1. BodyOK(Now, ByteLimit, opts.spooling)  BY <2>2, NowIs DEF BodyInv, Good
    <3>2. /\ Unshared(Now) /\ ~hist.threw
          /\ \A b \in Bodies : /\ Handled(Now, b) /\ Shows(Now, b, ByteLimit, opts.spooling)
                               /\ Collects(Now, b, ByteLimit)
      BY <3>1, NowIs DEF BodyOK
    <3>3. OwnChunks  BY <3>2, NowIs DEF OwnChunks, Shows
    <3>4. /\ \A b, c \in Bodies : slot[b].state = slot[c].state /\ slot[b].state # None => b = c
          /\ \A i \in DOMAIN pool : \A b \in Bodies : slot[b].state # pool[i]
      BY <3>2, NowIs DEF Unshared
    <3>5. \A i \in DOMAIN pool : \A b \in Bodies : UnderWay(b) => body[b].acc # pool[i]
      BY <3>2, <3>4, NowIs DEF Collects, UnderWay
    <3>6. Isolated  BY <3>2, <3>3, <3>4, <3>5 DEF Isolated
    <3>7. ~opts.spooling => ByteLimit = MaxPayload  BY DEF ByteLimit
    <3>8. WholeOrTruncated
      <4> SUFFICES ASSUME NEW b \in Bodies, slot[b].record # << >>, ~opts.spooling
                   PROVE  /\ Len(slot[b].record) <= MaxPayload
                          /\ slot[b].truncated <=> body[b].sent > Len(slot[b].record)
        BY DEF WholeOrTruncated
      <4>1. Shows(Now, b, ByteLimit, opts.spooling)  BY <3>2
      <4> QED  BY <3>7, <4>1, NowIs DEF Shows
    <3> QED  BY <3>6, <3>8 DEF BodiesSound
  <2> QED  BY <2>1, <2>2
<1> QED  BY <1>1, BodyInvariant, PTL
=================================================================================
