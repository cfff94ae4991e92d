--------------------------- MODULE RequestContexts ---------------------------
(* The life of inbound requests: lazily materialized contexts (als-manager.ts),  *)
(* the tracker of requests in flight, the recorder of inbound HTTP, the          *)
(* middlewares, and what all of them stamp with the event clock.  A stamp is an  *)
(* entry of log, named by its index; a context has the stamps of its events, and *)
(* compact those of which only a stub is left.  The buffer keeps no event of a   *)
(* context (storeContextEvents is off in sdk-factory.ts): it only gives stamps.  *)
EXTENDS Naturals, Sequences, FiniteSets

CONSTANTS Requests,
          Others,         \* requests of which only their place in the tracker counts
          Kinds,          \* [Requests -> SUBSET STRING]: how each may come in
          Inbound,        \* [Requests -> Nat]: the clock in their tracestate, or 0
          MaxConcurrent,  \* config.maxConcurrentRequests
          Ceiling,        \* Number.MAX_SAFE_INTEGER of EventClock
          BufferSize,     \* config.bufferSize, for the server recorder and the drivers
          ContextCap,     \* DEFAULT_MAX_IO_EVENTS_PER_CONTEXT, for the other recorders
          MaxStamps       \* bound of the model

(* The requests that only count for their place are others, and not many.       *)
ASSUME ContextAssumption ==
  /\ Inbound \in [Requests -> Nat] /\ Requests \cap Others = {} /\ IsFiniteSet(Others)
  /\ Kinds \in [Requests -> SUBSET {"recorder", "raw", "hapi", "express", "hono", "wrapped"}]
  /\ {MaxConcurrent, Ceiling, BufferSize, ContextCap, MaxStamps} \subseteq Nat

VARIABLES host,       \* [Requests -> [kind, stage, consumed, failed, aged]]
          s,          \* the SDK: ctx, tracked, timers, clock, log, compact
          pack,       \* [Requests -> the package of its error]
          recording,  \* whether the recorders are installed
          up          \* until SDKInstance.shutdown()
rvars == <<host, s, pack, recording, up>>

(* Response listeners, contexts that wait to be used, handlers awaited.          *)
Listening == {"recorder", "raw", "hapi"}         \* registered with the request
Lazy      == {"express", "hapi", "hono"}         \* fastify and koa do as express
Awaited   == {"hono", "wrapped"}                 \* withErrorcore, wrapLambda, ...
Finished(h) == h.stage \in {"ended", "finished"} \* response.finished

NoContext == [seen |-> FALSE, traced |-> FALSE, hook |-> "none", listening |-> FALSE,
              cleaned |-> FALSE, completed |-> FALSE, armed |-> FALSE, aborted |-> FALSE,
              events |-> {}]
NoPackage == [state |-> "none", timeline |-> {}, missed |-> {}, lost |-> {}, open |-> FALSE, late |-> FALSE]

(* EventClock.tick, EventClock.merge                                             *)
Tick(c) == IF c >= Ceiling THEN Ceiling ELSE c + 1
Merge(c, received) == Tick(IF received > c THEN received ELSE c)

(* RequestTracker.add, and remove with the timer that onRemove starts.           *)
Add(t, r) ==
  IF Cardinality(t.tracked) >= MaxConcurrent THEN t ELSE [t EXCEPT !.tracked = @ \cup {r}]
RemoveRequest(t, r) ==
  IF r \notin t.tracked THEN t
  ELSE [t EXCEPT !.tracked = @ \ {r}, !.timers = @ \cup {r}]

(* Mutant: the hook does not look whether the response is over.                  *)
MaterializeUnchecked(t, h, r) ==
  LET m == [t EXCEPT !.ctx[r].seen = TRUE]
  IN  IF t.ctx[r].hook /= "waiting" THEN m
      ELSE Add([m EXCEPT !.ctx[r].hook = "done", !.ctx[r].listening = @ \/ h.kind = "express"], r)

(* markMaterialized and the hook of attachLazyRequestLifecycle, which runs once: *)
(* after the response there is nothing to wait for and the capture cleans up.    *)
Materialize(t, h, r) ==
  LET m == [t EXCEPT !.ctx[r].seen = TRUE]
  IN  IF t.ctx[r].hook /= "waiting" THEN m
      ELSE IF Finished(h) /\ h.kind /= "hono" THEN [m EXCEPT !.ctx[r].hook = "late"]
      ELSE Add([m EXCEPT !.ctx[r].hook = "done", !.ctx[r].listening = @ \/ h.kind = "express"], r)

(* Mutant: the inbound clock is read only when a header is to be written.        *)
EnsureTraceUnmerged(t, h, r) == Materialize(t, h, r)

(* ensureTraceMaterialized                                                       *)
EnsureTrace(t, h, r) ==
  LET m == Materialize(t, h, r)
  IN  IF t.ctx[r].traced THEN m
      ELSE [m EXCEPT !.ctx[r].traced = TRUE,
                     !.clock = IF Inbound[r] > 0 THEN Merge(@, Inbound[r]) ELSE @]

Stamp(t, r, what) ==
  [t EXCEPT !.clock = Tick(@), !.log = Append(@, [req |-> r, seq |-> Tick(t.clock), what |-> what])]

(* IOEventBuffer.push stamps an event; pushIOEvent drops it where the context    *)
(* holds as many as it may.                                                      *)
Cap(what) == IF what = "request" THEN ContextCap ELSE BufferSize
Push(t, r, what) ==
  LET m == Stamp(t, r, what)
  IN  IF Cardinality(m.ctx[r].events) >= Cap(what) THEN m
      ELSE [m EXCEPT !.ctx[r].events = @ \cup {Len(m.log)}]

CallMarks == {"query", "request"}     \* of a driver; by fetch, undici, http or a socket
Of(t, r, marks) == {i \in DOMAIN t.log : t.log[i].req = r /\ t.log[i].what \in marks}
Successful(t, r) ==
  Of(t, r, CallMarks) \cup (IF t.ctx[r].armed \/ t.ctx[r].aborted THEN {} ELSE Of(t, r, {"server"}))

(* The calls of r that events lacks although there was room for them.            *)
Missed(t, events, r) ==
  {i \in Of(t, r, CallMarks) \ events : Cardinality({j \in events : j < i}) < Cap(t.log[i].what)}

(* releaseCompletedRequestContext, and the timer of onRemove, which does as much *)
(* in the other order: compactDetachedSlot of every slot, then none is left.     *)
ReleaseContext(t, r) ==
  [t EXCEPT !.compact = @ \cup (Successful(t, r) \cap t.ctx[r].events), !.ctx[r].events = {}]
IfSuccessful(t, h, r) == IF h.failed THEN t ELSE ReleaseContext(t, r)

(* registerRequestCleanup: cleanup and responseCleanup.  The recorder releases   *)
(* what the buffer has of the request, and that is nothing; hapi looks whether   *)
(* the context was used.                                                         *)
Cleanup(t, r) ==
  IF ~t.ctx[r].listening \/ t.ctx[r].cleaned THEN t
  ELSE RemoveRequest([t EXCEPT !.ctx[r].cleaned = TRUE], r)
OnResponseComplete(t, h, r) ==
  IF h.kind = "recorder" \/ (h.kind = "hapi" /\ ~t.ctx[r].seen) THEN t
  ELSE IfSuccessful(t, h, r)
ResponseCleanup(t, h, r) ==
  IF ~t.ctx[r].listening THEN t
  ELSE IF t.ctx[r].completed THEN Cleanup(t, r)
  ELSE Cleanup(OnResponseComplete([t EXCEPT !.ctx[r].completed = TRUE], h, r), r)

(* RequestFinalizer.finalize, which releases as much                             *)
Finalize(t, r, aborted) ==
  IF ~t.ctx[r].armed THEN t
  ELSE RemoveRequest([t EXCEPT !.ctx[r].armed = FALSE, !.ctx[r].aborted = aborted], r)

------------------------------------------------------------------------------
RInit ==
  /\ host = [r \in Requests |-> [kind |-> "none", stage |-> "none", consumed |-> FALSE,
                                 failed |-> FALSE, aged |-> FALSE]]
  /\ \E others \in SUBSET Others :
       /\ Cardinality(others) <= MaxConcurrent
       /\ s = [ctx |-> [r \in Requests |-> NoContext], tracked |-> others, timers |-> {}, clock |-> 0,
               log |-> << >>, compact |-> {}]
  /\ pack = [r \in Requests |-> NoPackage]
  /\ recording \in BOOLEAN
  /\ up = TRUE

Room == Len(s.log) < MaxStamps
Begun(r) == host[r].stage /= "none"
Step(h, r) == host' = [host EXCEPT ![r] = h]

(* handleRequestStart, or the middleware: with the recorders installed every     *)
(* request has a context already, and the middlewares let it pass.               *)
Start(r, kind) ==
  LET h == [host[r] EXCEPT !.kind = kind, !.stage = "open"]
      c == [s EXCEPT !.ctx[r] = [NoContext EXCEPT !.listening = kind \in Listening,
               !.hook = IF kind \in Lazy THEN "waiting" ELSE "none"]]
  IN  /\ host[r].stage = "none" /\ up /\ Room /\ (kind = "recorder" <=> recording)
      /\ Step(h, r)
      /\ s' = IF kind = "recorder"
              THEN Push([EnsureTrace(Add(c, r), h, r) EXCEPT !.ctx[r].armed = TRUE], r, "server")
              ELSE IF kind \in Lazy THEN c ELSE Add(c, r)
      /\ UNCHANGED <<pack, recording, up>>

(* The handler of the request, or work it left behind, calls a database or       *)
(* another service, reads tracked state, or sends the trace headers.             *)
Record(r, what) ==
  /\ Begun(r) /\ Room /\ recording
  /\ s' = Push(EnsureTrace(s, host[r], r), r, what)
  /\ UNCHANGED <<host, pack, recording, up>>

ReadState(r) ==
  /\ Begun(r) /\ Room
  /\ s' = Stamp(EnsureTrace(s, host[r], r), r, "state")
  /\ UNCHANGED <<host, pack, recording, up>>

Send(r) ==
  /\ Begun(r) /\ ~s.ctx[r].traced
  /\ s' = EnsureTrace(s, host[r], r)
  /\ UNCHANGED <<host, pack, recording, up>>

(* The inspector pauses on a throw of the request and stamps the locals, without *)
(* a look at the context: of interest as long as it has no trace.                *)
Pause(r) ==
  /\ Begun(r) /\ Room /\ ~s.ctx[r].traced
  /\ s' = Stamp(s, r, "locals")
  /\ UNCHANGED <<host, pack, recording, up>>

(* capture(): the timeline is that of the context, the buffer having none of it; *)
(* the cleanup of a late context comes before the assembly.                      *)
Capture(r, worker) ==
  LET t    == Stamp(EnsureTrace(s, host[r], r), r, "error")
      time == t.ctx[r].events
      late == t.ctx[r].hook = "late"
      u    == IF late THEN IfSuccessful([t EXCEPT !.ctx[r].hook = "done"], host[r], r) ELSE t
  IN  /\ Begun(r) /\ Room /\ pack[r].state = "none"
      /\ s' = u
      /\ pack' = [pack EXCEPT ![r] =
           [state |-> IF worker THEN "worker" ELSE "built", timeline |-> time,
            missed |-> Missed(t, time, r), lost |-> time \cap u.compact,
            open |-> host[r].stage = "open" /\ ~host[r].consumed /\ ~host[r].aged, late |-> late]]
      /\ UNCHANGED <<host, recording, up>>

(* The worker answers, or the package is assembled inline from the same slots.   *)
Answered(r, ok) ==
  /\ pack[r].state = "worker"
  /\ pack' = [pack EXCEPT ![r].state = IF ok THEN "built" ELSE "fallback",
                          ![r].lost = IF ok THEN @ ELSE pack[r].timeline \cap s.compact]
  /\ UNCHANGED <<host, s, recording, up>>

------------------------------------------------------------------------------
(* Node: response.end(), then "finish" and "close"; or the client goes away.     *)
(* A request object closes when its body has been read, or with the connection.  *)
End(r, failed) ==
  /\ host[r].stage = "open" /\ host[r].kind \notin Awaited
  /\ Step([host[r] EXCEPT !.stage = "ended", !.failed = failed], r)
  /\ UNCHANGED <<s, pack, recording, up>>

(* The channel comes before the listeners that were added later.                 *)
Finish(r) ==
  /\ host[r].stage = "ended"
  /\ Step([host[r] EXCEPT !.stage = "finished"], r)
  /\ s' = ResponseCleanup(Finalize(s, r, FALSE), host[r], r)
  /\ UNCHANGED <<pack, recording, up>>

(* "aborted" of the request, then "close" of the response: handleResponseClose   *)
(* is the last of its listeners.                                                 *)
Abort(r) ==
  /\ host[r].stage \in {"open", "ended"} /\ host[r].kind \notin Awaited
  /\ Step([host[r] EXCEPT !.stage = IF @ = "ended" THEN "finished" ELSE "aborted"], r)
  /\ s' = Finalize(ResponseCleanup(Cleanup(s, r), host[r], r), r, host[r].stage = "open")
  /\ UNCHANGED <<pack, recording, up>>

RequestCloses(r) ==
  /\ host[r].stage = "open" /\ ~host[r].consumed /\ host[r].kind \notin Awaited
  /\ Step([host[r] EXCEPT !.consumed = TRUE], r)
  /\ s' = Cleanup(s, r)
  /\ UNCHANGED <<pack, recording, up>>

(* completeLazyRequestContext, or the finally block of a wrapped handler: a      *)
(* handler that throws has no status, and counts as successful.                  *)
Settle(r, failed) ==
  LET h == [host[r] EXCEPT !.stage = "finished", !.failed = failed]
  IN  /\ host[r].stage = "open" /\ host[r].kind \in Awaited
      /\ Step(h, r)
      /\ s' = IF h.kind = "hono" /\ ~s.ctx[r].seen THEN s ELSE RemoveRequest(IfSuccessful(s, h, r), r)
      /\ UNCHANGED <<pack, recording, up>>

(* Five minutes pass.                                                            *)
Age(r) ==
  /\ Begun(r) /\ ~host[r].aged
  /\ Step([host[r] EXCEPT !.aged = TRUE], r)
  /\ UNCHANGED <<s, pack, recording, up>>

(* Mutant: the age is taken in the wrong unit, every context looks expired.      *)
SweepAll ==
  /\ up /\ s.tracked \cap Requests /= {}
  /\ LET old == s.tracked \cap Requests
     IN  s' = [s EXCEPT !.tracked = @ \ old, !.timers = @ \cup old]
  /\ UNCHANGED <<host, pack, recording, up>>

(* Mutant: only contexts whose response is still open are swept.                 *)
SweepOpen ==
  /\ up /\ \E r \in s.tracked \cap Requests : host[r].aged /\ host[r].stage = "open"
  /\ LET old == {r \in s.tracked \cap Requests : host[r].aged /\ host[r].stage = "open"}
     IN  s' = [s EXCEPT !.tracked = @ \ old, !.timers = @ \cup old]
  /\ UNCHANGED <<host, pack, recording, up>>

(* sweepExpired                                                                  *)
SweepExpired ==
  /\ up /\ \E r \in s.tracked \cap Requests : host[r].aged
  /\ LET old == {r \in s.tracked \cap Requests : host[r].aged}
     IN  s' = [s EXCEPT !.tracked = @ \ old, !.timers = @ \cup old]
  /\ UNCHANGED <<host, pack, recording, up>>

(* The timer of onRemove.                                                        *)
OnRemove(r) ==
  /\ r \in s.timers
  /\ s' = ReleaseContext([s EXCEPT !.timers = @ \ {r}], r)
  /\ UNCHANGED <<host, pack, recording, up>>

(* Recorders come and go with the mode.                                          *)
SwitchMode == recording' = ~recording /\ up /\ UNCHANGED <<host, s, pack, up>>

(* RequestTracker.shutdown                                                       *)
Shutdown ==
  /\ up /\ up' = FALSE /\ recording' = FALSE
  /\ s' = [s EXCEPT !.tracked = {}]
  /\ UNCHANGED <<host, pack>>

RNext ==
  \/ \E r \in Requests :
       \/ \E kind \in Kinds[r] : Start(r, kind)
       \/ \E what \in CallMarks : Record(r, what)
       \/ ReadState(r) \/ Send(r) \/ Pause(r)
       \/ \E b \in BOOLEAN : Capture(r, b) \/ Answered(r, b) \/ End(r, b) \/ Settle(r, b)
       \/ Finish(r) \/ Abort(r) \/ RequestCloses(r) \/ Age(r) \/ OnRemove(r)
  \/ SweepExpired \/ SwitchMode \/ Shutdown

(* The timers of the tracker run while the SDK does.                             *)
RFair == /\ WF_rvars(SweepExpired)
         /\ \A r \in Requests : WF_rvars(Age(r)) /\ WF_rvars(OnRemove(r))
RSpec == RInit /\ [][RNext]_rvars /\ RFair

------------------------------------------------------------------------------
(* Types, and what every context keeps to: events are stamps of the request, an  *)
(* armed finalizer belongs to a response that is under way, and the tracker      *)
(* never holds more than it may.                                                 *)
RTypeOK ==
  /\ Cardinality(s.tracked) <= MaxConcurrent /\ s.timers \subseteq Requests
  /\ s.clock \in 0..Ceiling
  /\ \A r \in Requests :
       /\ \A i \in s.ctx[r].events : s.log[i].req = r /\ i \notin s.compact
       /\ s.ctx[r].armed => host[r].kind = "recorder" /\ host[r].stage \in {"open", "ended"}
       /\ s.ctx[r].hook = "late" => s.ctx[r].seen

(* Lamport's condition across services: whatever is stamped for a request, apart *)
(* from locals, comes after everything that its caller had stamped, whether its  *)
(* context materialized early, late or with the capture; and stamps grow until   *)
(* the clock stands at its ceiling (ensureTraceMaterialized, event-clock.ts).    *)
CausalOrder ==
  \A i \in DOMAIN s.log :
    /\ s.log[i].what /= "locals" => s.log[i].seq > Inbound[s.log[i].req] \/ s.log[i].seq = Ceiling
    /\ \A j \in 1..i - 1 : s.log[j].seq < s.log[i].seq \/ s.log[i].seq = Ceiling

(* A request that is over is not tracked, however its end and its first use      *)
(* interleave, except where the client went away before the context was used:    *)
(* then only the sweep removes it (attachLazyRequestLifecycle).                  *)
EndedNotTracked ==
  \A r \in s.tracked \cap Requests :
    \/ host[r].stage \in {"open", "ended"}
    \/ host[r].stage = "aborted" /\ host[r].kind = "express"
    \/ host[r].kind \in {"hono", "hapi"}

(* An error captured while its request is open shows every call of the request   *)
(* that found fewer events before it than the cap of its recorder (pushIOEvent); *)
(* and what a package shows is whole whichever way it is assembled at once, also *)
(* where the request is over: only the fallback of the worker and a context that *)
(* was first used after the response may find slots released meanwhile           *)
(* (capture(), onRemove of sdk-factory.ts).                                      *)
TimelineKept ==
  \A r \in Requests :
    /\ pack[r].open => pack[r].missed = {}
    /\ pack[r].lost /= {} => pack[r].late \/ pack[r].state = "fallback"

(* The context of a request is tracked as long as it is needed and no longer, and *)
(* a capture made while it is open finds what the request did.                   *)
ContextsSound == RTypeOK /\ EndedNotTracked /\ TimelineKept

(* No request stays in the tracker for good while the SDK runs.                  *)
Untracked == \A r \in Requests : r \in s.tracked ~> r \notin s.tracked \/ ~up

(* spec/06: the tracker holds contexts for the duration of the request; they are *)
(* removed on response finish or TTL expiry.                                     *)
OpenIsTracked ==
  [][\A r \in s.tracked \cap Requests :
       up /\ up' /\ host'[r].stage = "open" /\ ~host[r].aged => r \in s'.tracked]_rvars
=============================================================================
