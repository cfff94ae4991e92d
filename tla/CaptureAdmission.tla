-------------------------- MODULE CaptureAdmission --------------------------
(* What ErrorCapturer.capture (capture/error-capturer.ts) asks before it builds   *)
(* anything: is the error a duplicate of one admitted within the window, and does *)
(* the limiter of security/rate-limiter.ts have room.  A key is the scope of the  *)
(* capture (its request, or the background) with the fingerprint of the error.    *)
(* The clock is the wall clock and runs forward.                                  *)
EXTENDS Orders, Integers

CONSTANTS Keys,
          DedupWindow,   \* DEDUP_WINDOW_NS
          MaxAnchors,    \* DEDUP_MAX_ENTRIES
          RateLimit,     \* captures the limiter admits in a window
          RateWindow,
          MaxTime,       \* bound on the clock
          MaxTries       \* bound on the captures

ASSUME AdmissionAssumption ==
  /\ {DedupWindow, MaxAnchors, RateLimit, RateWindow} \subseteq Nat \ {0}
  /\ {MaxTime, MaxTries} \subseteq Nat

VARIABLES time,
          recentCaptures,  \* a Map: [key, at] in the order the keys first came
          limiter,         \* timestamps, and the drops since the last admission
          seen             \* what was admitted, dropped, and what anchors were lost

avars == <<time, recentCaptures, limiter, seen>>

NoDrops == [count |-> 0, first |-> 0, last |-> 0]
AInit == /\ time = 0
         /\ recentCaptures = << >>
         /\ limiter = [timestamps |-> << >>, drops |-> NoDrops]
         /\ seen = [admitted |-> << >>, dropped |-> << >>, suppressed |-> << >>, lost |-> {}]

Anchors(key) == {i \in DOMAIN recentCaptures : recentCaptures[i].key = key}
Duplicate(key) == \E i \in Anchors(key) : time - recentCaptures[i].at < DedupWindow

\* A key that is in the map keeps its place in it; past the limit the first goes.
Anchored(key) ==
  IF Anchors(key) /= {} THEN [i \in DOMAIN recentCaptures |->
    IF i \in Anchors(key) THEN [key |-> key, at |-> time] ELSE recentCaptures[i]]
  ELSE Append(recentCaptures, [key |-> key, at |-> time])
Trimmed(anchors) == IF Len(anchors) > MaxAnchors THEN Tail(anchors) ELSE anchors

\* The one sequence of the timestamps that are not past the window.
WithinWindow ==
  Kept(limiter.timestamps, {i \in DOMAIN limiter.timestamps : limiter.timestamps[i] > time - RateWindow})
HasRoom(timestamps) == Len(timestamps) < RateLimit

Suppress(key) ==
  /\ Duplicate(key)
  /\ seen' = [seen EXCEPT !.suppressed = Append(@, [key |-> key, at |-> time])]
  /\ UNCHANGED <<time, recentCaptures, limiter>>

\* When it was dropped, and after how many admissions.
Drop(key) == [key |-> key, at |-> time, after |-> Len(seen.admitted)]

(* Mutant: the anchor is set before the limiter is asked.                        *)
RateLimitedAnchored(key) == \E within \in WithinWindow :
  /\ ~Duplicate(key) /\ ~HasRoom(within)
  /\ recentCaptures' = Trimmed(Anchored(key))
  /\ limiter' = [limiter EXCEPT !.timestamps = within]
  /\ seen' = [seen EXCEPT !.dropped = Append(@, Drop(key))]
  /\ UNCHANGED time
RateLimited(key) == \E within \in WithinWindow :
  /\ ~Duplicate(key) /\ ~HasRoom(within)
  /\ limiter' = [timestamps |-> within,
                 drops |-> [count |-> limiter.drops.count + 1, last |-> time,
                            first |-> IF limiter.drops.count = 0 THEN time ELSE limiter.drops.first]]
  /\ seen' = [seen EXCEPT !.dropped = Append(@, Drop(key))]
  /\ UNCHANGED <<time, recentCaptures>>

\* The package takes along what the limiter dropped since the last one.
Admit(key) == \E within \in WithinWindow :
  /\ ~Duplicate(key) /\ HasRoom(within)
  /\ recentCaptures' = Trimmed(Anchored(key))
  /\ limiter' = [timestamps |-> Append(within, time), drops |-> NoDrops]
  /\ seen' = [seen EXCEPT
       !.admitted = Append(@, [key |-> key, at |-> time, drops |-> limiter.drops]),
       !.lost = @ \cup (Range(Anchored(key)) \ Range(recentCaptures'))]
  /\ UNCHANGED time
ATick == /\ time < MaxTime
         /\ time' = time + 1
         /\ UNCHANGED <<recentCaptures, limiter, seen>>

ANext == \/ ATick
         \/ /\ Len(seen.admitted) + Len(seen.dropped) + Len(seen.suppressed) < MaxTries
            /\ \E key \in Keys : Suppress(key) \/ RateLimited(key) \/ Admit(key)
ASpec == AInit /\ [][ANext]_avars

-------------------------------------------------------------------------------
(* What the limiter dropped after so many admissions is what the summary says.   *)
Summarizes(drops, after) ==
  LET d == seen.dropped
      K == {k \in DOMAIN d : d[k].after = after}
  IN /\ drops.count = Cardinality(K)
     /\ K /= {} => {drops.first, drops.last} \subseteq {d[k].at : k \in K}
     /\ \A k \in K : drops.first <= d[k].at /\ d[k].at <= drops.last

(* No flood and no silence.  Two packages of one key within the window mean that *)
(* its anchor had made room for others; a duplicate is suppressed only when a    *)
(* package of its key was admitted within the window, never because of one the   *)
(* limiter dropped; no window of the limiter holds more packages than it admits; *)
(* and the captures it dropped since the last package are those in the summary   *)
(* of the next, each in one (capture(), tryAcquire, getAndResetDropSummary).     *)
AdmissionSound ==
  LET a == seen.admitted
  IN /\ \A i, j \in DOMAIN a : i < j /\ a[i].key = a[j].key =>
          \/ a[j].at - a[i].at >= DedupWindow
          \/ [key |-> a[i].key, at |-> a[i].at] \in seen.lost
     /\ \A x \in Range(seen.suppressed) :
          \E i \in DOMAIN a : a[i].key = x.key /\ a[i].at <= x.at /\ x.at - a[i].at < DedupWindow
     /\ \A t \in 0..time :
          Cardinality({i \in DOMAIN a : a[i].at \in (t - RateWindow + 1)..t}) <= RateLimit
     /\ \A i \in DOMAIN a : Summarizes(a[i].drops, i - 1)
     /\ Summarizes(limiter.drops, Len(a))
=============================================================================
