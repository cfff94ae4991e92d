-------------------------- MODULE InspectorManager --------------------------
(* The local-variable capture of capture/inspector-manager.ts: a debugger       *)
(* session that pauses the process at every throw while it is armed, a ring of  *)
(* what the pauses collected, the guard that switches the pauses off when they  *)
(* cost too much, and the lookup a capture makes for its error.                 *)
EXTENDS LocalsCorrelation

CONSTANTS
  Thrown,        \* error objects the application throws
  Frozen,        \* those that take no capture tag
  Seen, Asked,   \* per object: what V8 shows at the pause, what its stack says later
  Requests,      \* request ids; NoRequest stands for code outside any request
  Caps,          \* values of maxCachedLocals
  PerSecond,     \* maxLocalsCollectionsPerSecond
  MaxPauses,     \* localsGuard.maxPausesPerSecond
  MaxWall,       \* localsGuard.maxPauseMsPerMinute
  TripAfter,     \* seconds over the limit before the guard trips (10)
  RecoverAfter,  \* seconds until it recovers (LOCALS_GUARD_RECOVERY_MS)
  MaxThrows      \* bound of the model on allocateId

ASSUME InspectorAssumption ==
  /\ {PerSecond, MaxPauses, MaxWall, RecoverAfter, MaxThrows} \cup Caps \subseteq Nat
  /\ TripAfter \in Nat \ {0}

VARIABLES
  knobs,     \* on (captureLocalVariables), guarded (localsGuard.enabled), cap
  dbg,       \* available, initialized, session, armed, idle (its timer), rate (the interval)
  guard,     \* tripped, since, over, pauses, wall
  ring, nextId, collected, tags,
  answer,    \* what the lookup that has just returned said
  given,     \* ids of entries handed out
  down       \* shutdown() has been called

ivars == <<knobs, dbg, guard, ring, nextId, collected, tags, answer, given, down>>

Calm == [tripped |-> FALSE, since |-> 0, over |-> 0, pauses |-> 0, wall |-> 0]
NoAnswer == [how |-> "none", obj |-> NoRequest, of |-> NoRequest, id |-> 0, many |-> FALSE]
Quiet == answer' = NoAnswer

ITypeOK ==
  /\ knobs \in [on : BOOLEAN, guarded : BOOLEAN, cap : Caps]
  /\ dbg \in [available : BOOLEAN, initialized : BOOLEAN, session : BOOLEAN,
              armed : BOOLEAN, idle : BOOLEAN, rate : BOOLEAN]
  /\ guard \in [tripped : BOOLEAN, since : 0..RecoverAfter, over : 0..TripAfter,
                pauses : 0..MaxPauses + 1, wall : 0..MaxWall + 1]
  /\ Len(ring) <= knobs.cap
  /\ nextId \in 0..MaxThrows /\ collected \in 0..PerSecond
  /\ tags \in [Thrown -> 0..MaxThrows]
  /\ given \subseteq 1..MaxThrows /\ down \in BOOLEAN

IInit ==
  /\ knobs \in [on : BOOLEAN, guarded : BOOLEAN, cap : Caps]
  /\ dbg = [available |-> knobs.on, initialized |-> FALSE, session |-> FALSE,
            armed |-> FALSE, idle |-> FALSE, rate |-> FALSE]
  /\ guard = Calm /\ ring = << >> /\ nextId = 0 /\ collected = 0
  /\ tags = [o \in Thrown |-> 0] /\ answer = NoAnswer /\ given = {} /\ down = FALSE

(* The fields of own, and those of shown that own has not.                      *)
Joint(own, shown) ==
  [x \in DOMAIN own \cup DOMAIN shown |-> IF x \in DOMAIN own THEN own[x] ELSE shown[x]]

Least(a, b) == IF a <= b THEN a ELSE b

(* The session opens once; a debugger that is attached already, or an error,    *)
(* leaves the manager without one for good.                                     *)
InitSession(d, opens) ==
  IF d.initialized THEN d
  ELSE IF opens THEN [d EXCEPT !.initialized = TRUE, !.session = TRUE, !.rate = TRUE]
  ELSE [d EXCEPT !.initialized = TRUE, !.available = FALSE]

EnsureActive(d, tripped, opens) ==
  IF tripped \/ ~d.available THEN d
  ELSE LET i == InitSession(d, opens)
       IN  IF i.session THEN [i EXCEPT !.armed = TRUE, !.idle = TRUE] ELSE i

Disarm(d) == [d EXCEPT !.armed = FALSE]

(* The SDK arms the debugger at activation and at the start of every request.   *)
EnsureDebuggerActive ==
  /\ \E opens \in BOOLEAN : dbg' = EnsureActive(dbg, guard.tripped, opens)
  /\ Quiet /\ UNCHANGED <<knobs, guard, ring, nextId, collected, tags, given, down>>

(* rearmAfterAdaptiveGuard() and the recovery of the guard.                     *)
Rearm(d, on, opens) ==
  IF on THEN EnsureActive([d EXCEPT !.available = TRUE], FALSE, opens) ELSE d

(* A mode switch; the SDK waits for the last one before it shuts this down.      *)
(* Mutant: switching locals off leaves the debugger armed.                      *)
ApplyModeStateArmed(k) ==
  /\ ~down /\ knobs' = k /\ ring' = Fit(ring, k.cap)
  /\ dbg' = [dbg EXCEPT !.available = k.on]
  /\ Quiet /\ UNCHANGED <<guard, nextId, collected, tags, given, down>>

ApplyModeState(k) ==
  /\ ~down
  /\ knobs' = k /\ ring' = Fit(ring, k.cap)
  /\ \E opens \in BOOLEAN :
       IF ~k.on
       THEN dbg' = [Disarm(dbg) EXCEPT !.available = FALSE] /\ guard' = guard
       ELSE IF ~k.guarded /\ guard.tripped
       THEN dbg' = Rearm(dbg, TRUE, opens) /\ guard' = Calm
       ELSE dbg' = [dbg EXCEPT !.available = TRUE] /\ guard' = guard
  /\ Quiet /\ UNCHANGED <<nextId, collected, tags, given, down>>

(* installCaptureTag: the first capture of an object tags it for good.          *)
Tag(t, obj, id) == IF obj \in Frozen \/ t[obj] /= 0 THEN t ELSE [t EXCEPT ![obj] = id]

(* recordPauseWallTime: the cost of a pause counts towards the minute it falls  *)
(* in, and the guard trips on the pause that exceeds the budget.                *)
AfterPause(g, newMinute) ==
  IF ~knobs.guarded \/ g.tripped THEN g
  ELSE LET w == Least((IF newMinute THEN 0 ELSE g.wall) + 1, MaxWall + 1)
       IN  [g EXCEPT !.wall = w, !.tripped = w > MaxWall, !.since = 0]

(* _onPaused: every pause restarts the idle timer and is counted, whether or    *)
(* not anything is collected; it is skipped over the limit per second and when  *)
(* no frame of the application is on the stack.                                 *)
Paused(obj, req, newMinute, app) ==
  LET skip == collected >= PerSecond \/ ~app
      e    == Joint([id |-> nextId + 1, obj |-> obj, age |-> 0, req |-> req], Seen[obj])
      g    == AfterPause([guard EXCEPT !.pauses = Least(@ + 1, MaxPauses + 1)], newMinute)
  IN  /\ dbg.session /\ dbg.armed
      /\ guard' = g
      /\ dbg' = IF g.tripped THEN [Disarm(dbg) EXCEPT !.idle = TRUE] ELSE [dbg EXCEPT !.idle = TRUE]
      /\ IF skip
         THEN /\ IF collected >= PerSecond THEN UNCHANGED ring ELSE ring' \in Fresh(ring)
              /\ UNCHANGED <<nextId, collected, tags>>
         ELSE /\ nextId < MaxThrows /\ nextId' = nextId + 1
              /\ ring' \in Push(ring, e, knobs.cap)
              /\ collected' = collected + 1
              /\ tags' = Tag(tags, obj, nextId + 1)
      /\ Quiet /\ UNCHANGED <<knobs, given, down>>

(* Mutant: the entry stays in the ring after it was handed out.                 *)
HandOutKeeping(r, id) == {r}

HandOut(r, id) == Consume(r, id)

(* getLocalsWithDiagnostics: by the tag of the object, else by its identity.    *)
Found(r, obj, req) ==
  LET tagged == {i \in DOMAIN r : tags[obj] /= 0 /\ r[i].id = tags[obj]}
      q      == Joint([req |-> req], Asked[obj])
      l      == Layer2(r, q)
      at     == IF tagged /= {} THEN Newest(tagged) ELSE l.at
  IN  [how   |-> IF tagged /= {} THEN "tag"
                 ELSE IF l.how = "cache_miss" THEN DiagnoseMiss(r, q) ELSE l.how,
       obj   |-> obj, id |-> IF at = 0 THEN 0 ELSE r[at].id,
       of    |-> IF at = 0 THEN NoRequest ELSE r[at].obj,
       many  |-> tagged = {} /\ Cardinality(l.among) > 1]

GetLocals(obj, req) ==
  /\ knobs.on
  /\ \E r \in Fresh(ring) :
         IF guard.tripped \/ ~dbg.available
         THEN ring' = r /\ answer' = [NoAnswer EXCEPT !.how = "off"] /\ UNCHANGED <<dbg, given>>
         ELSE LET f == Found(r, obj, req)
              IN  /\ \E opens \in BOOLEAN : dbg' = EnsureActive(dbg, FALSE, opens)
                  /\ answer' = f
                  /\ ring' \in HandOut(r, f.id)
                  /\ given' = given \cup ({f.id} \ {0})
  /\ UNCHANGED <<knobs, guard, nextId, collected, tags, down>>

(* Mutant: the wall time spent before the trip is not forgotten, so recovery    *)
(* always finds it over the budget.                                             *)
RecoverySticky(g) ==
  IF g.pauses > MaxPauses \/ g.wall > MaxWall
  THEN [g EXCEPT !.since = 0, !.pauses = 0]
  ELSE IF g.since + 1 >= RecoverAfter THEN Calm
  ELSE [g EXCEPT !.since = @ + 1, !.pauses = 0]

(* evaluateGuardRecovery                                                        *)
Recovery(g) ==
  IF g.pauses > MaxPauses \/ g.wall > MaxWall
  THEN [g EXCEPT !.since = 0, !.pauses = 0, !.wall = 0]
  ELSE IF g.since + 1 >= RecoverAfter THEN Calm
  ELSE [g EXCEPT !.since = @ + 1, !.pauses = 0]

(* evaluatePauseRateGuard                                                       *)
RateGuard(g) ==
  IF ~knobs.guarded THEN [g EXCEPT !.pauses = 0]
  ELSE IF g.tripped THEN Recovery(g)
  ELSE LET o == IF g.pauses > MaxPauses THEN g.over + 1 ELSE 0
       IN  [g EXCEPT !.pauses = 0, !.over = o, !.tripped = o >= TripAfter, !.since = 0]

(* A second passes: the interval of the session ticks and entries age.          *)
Second ==
  /\ ring' = [i \in DOMAIN ring |-> [ring[i] EXCEPT !.age = Least(@ + 1, Ttl + 1)]]
  /\ IF dbg.rate
     THEN LET g == RateGuard(guard)
          IN  /\ collected' = 0 /\ guard' = g
              /\ \E opens \in BOOLEAN :
                   dbg' = IF g.tripped THEN Disarm(dbg)
                          ELSE IF guard.tripped THEN Rearm(dbg, knobs.on, opens) ELSE dbg
     ELSE UNCHANGED <<collected, guard, dbg>>
  /\ Quiet /\ UNCHANGED <<knobs, nextId, tags, given, down>>

(* deactivateAfterIdle                                                          *)
IdleTimeout ==
  /\ dbg.idle
  /\ dbg' = [Disarm(dbg) EXCEPT !.idle = FALSE]
  /\ Quiet /\ UNCHANGED <<knobs, guard, ring, nextId, collected, tags, given, down>>

ShutdownInspector ==
  /\ ~down /\ down' = TRUE
  /\ dbg' = [dbg EXCEPT !.rate = FALSE, !.idle = FALSE, !.session = FALSE,
                        !.armed = FALSE, !.available = FALSE]
  /\ Quiet /\ UNCHANGED <<knobs, guard, ring, nextId, collected, tags, given>>

Callers == Requests \cup {NoRequest}

INext ==
  \/ EnsureDebuggerActive
  \/ \E k \in [on : BOOLEAN, guarded : BOOLEAN, cap : Caps] : ApplyModeState(k)
  \/ \E obj \in Thrown, req \in Callers, newMinute, app \in BOOLEAN :
       Paused(obj, req, newMinute, app)
  \/ \E obj \in Thrown, req \in Callers : GetLocals(obj, req)
  \/ Second
  \/ IdleTimeout
  \/ ShutdownInspector

IFairness == WF_ivars(Second) /\ WF_ivars(IdleTimeout)
ISpec == IInit /\ [][INext]_ivars /\ IFairness
(* While the process can be paused at every throw, locals are wanted, the guard  *)
(* has not tripped, the session is open and a timer is running that ends it:     *)
(* no order of mode switches, trips, recoveries, lookups and shutdown leaves the *)
(* debugger armed by itself (ensureDebuggerActive, applyModeState, tripGuard).   *)
ArmedIsBounded ==
  dbg.armed => /\ dbg.session /\ dbg.available /\ dbg.idle
               /\ knobs.on /\ ~guard.tripped /\ ~down

(* Types, and: the ring never holds more than maxCachedLocals entries, whatever  *)
(* shrinks it; the guard counts its seconds over the limit below the number at   *)
(* which it trips.                                                               *)
InspectorSound == ITypeOK /\ ArmedIsBounded

(* An entry is handed to one error only, whatever the order of throws, captures  *)
(* and expiries; and an entry found by its tag was captured when that very       *)
(* object was thrown (getLocalsWithDiagnostics, consumeFrames, allocateId,       *)
(* installCaptureTag).                                                           *)
LocalsFindTheirError ==
  [][ answer'.id /= 0 /\ answer' /= answer =>
        answer'.id \notin given /\ (answer'.how = "tag" => answer'.of = answer'.obj)
    ]_ivars

(* A tripped guard lets go again, unless the manager is shut down or the guard   *)
(* is configured away meanwhile (evaluateGuardRecovery).                         *)
GuardRecovers == guard.tripped ~> (~guard.tripped \/ down \/ ~knobs.guarded)

(* The comment of _layer2Lookup: ambiguity at any step is refused.               *)
AmbiguityRefused ==
  answer.many /\ answer.how \notin {"exact", "tag"} => answer.id = 0
=============================================================================
