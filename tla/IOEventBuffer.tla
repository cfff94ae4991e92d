----------------------------- MODULE IOEventBuffer -----------------------------
(***************************************************************************)
(* The in-memory ring of I/O events, src/src/buffer/io-event-buffer.ts,    *)
(* together with the code that mutates a slot after it was pushed: body    *)
(* capture (backfill, materialize), the fetch wrapper (attachContextToSlot)*)
(* and the end of a request (release, compact).                            *)
(*                                                                         *)
(* A slot is a JavaScript object; it is identified by the seq the event    *)
(* clock gave it.  `heap` holds the objects, `ring` the fields of the      *)
(* buffer.  An object that has left the ring keeps existing: its recorder  *)
(* still holds a reference to it and goes on writing to it.                *)
(* `contextLost` is not modelled: every recorder sets it to                *)
(* (requestId = null).                                                     *)
(***************************************************************************)
EXTENDS Integers, FiniteSets, Sequences, Orders

CONSTANTS
  Capacity,            \* options.capacity
  MaxBytes,            \* options.maxBytes
  MetadataOverhead,    \* METADATA_OVERHEAD, in the unit of SlotBytes
  SlotBytes,           \* the values estimatedBytes can take
  Requests,            \* request ids
  NoRequest,           \* requestId === null
  EvictionLogCapacity, \* EVICTION_LOG_CAPACITY
  StoreContextEvents,  \* options.storeContextEvents
  Empty,               \* a null element of slots / a seq not yet handed out
  MaxClock             \* bound on the event clock (on the events of a run)

ASSUME CapacityAssumption == Capacity \in Nat \ {0}
ASSUME BytesAssumption ==
  /\ MetadataOverhead \in SlotBytes
  /\ SlotBytes \subseteq Nat
  /\ \A b \in SlotBytes : b >= MetadataOverhead
  /\ MaxBytes \in Nat
ASSUME BoundAssumption ==
  /\ MaxClock \in Nat
  /\ EvictionLogCapacity \in Nat \ {0}
  /\ StoreContextEvents \in BOOLEAN

VARIABLES
  clock,          \* EventClock.value
  heap,           \* the slot objects, by seq
  ring,           \* slots, readHead, writeHead, slotCount, payloadBytes
  storedSlots,    \* the WeakSet of the same name, as seqs
  requestIdIndex, \* Empty (null) or a map from request to a set of seqs
  evictionLog,    \* getEvictionLog(): the last EvictionLogCapacity seqs
  overflowCount,
  released,       \* history: seqs taken out by releaseCompletedRequest
  happened        \* history: which of clear and materialize happened

vars == <<clock, heap, ring, storedSlots, requestIdIndex, evictionLog,
          overflowCount, released, happened>>

Indexes == 0 .. Capacity - 1
Seqs == 1 .. MaxClock
Slot == [req : Requests \union {NoRequest},
         phase : {"active", "done", "failed"}, \* failed: error or aborted
         body : {"none", "captured", "fixed"},
         bytes : SlotBytes]

ASSUME NullAssumption == Empty \notin Nat \union Slot /\ NoRequest \notin Requests

(* Every variable stays within its type; slots, heads and counts included.  *)
(* payloadBytes is pinned down by BytesAccurate, the log by LossIsRecorded. *)
TypeOK ==
  /\ clock \in 0 .. MaxClock
  /\ heap \in [Seqs -> Slot \union {Empty}]
  /\ ring.slots \in [Indexes -> Seqs \union {Empty}]
  /\ ring.readHead \in Nat /\ ring.writeHead \in Nat
  /\ ring.slotCount \in 0 .. Capacity
  /\ storedSlots \subseteq Seqs
  /\ requestIdIndex \in [Requests -> SUBSET Seqs] \union {Empty}
  /\ overflowCount \in Nat
  /\ released \subseteq Seqs
  /\ happened \subseteq {"clear", "materialize"}

--------------------------------------------------------------------------------
(* The ring.  SeenBefore(r, k) are the live slots that a loop starting at   *)
(* readHead has met when its cursor reaches k.  A cursor window longer than *)
(* the ring meets an index twice.                                          *)

LiveIn(r) == {r.slots[i] : i \in Indexes} \ {Empty}
Live == LiveIn(ring)
Pushed == {s \in Seqs : heap[s] # Empty}

SeenBefore(r, k) == {r.slots[c % Capacity] : c \in r.readHead .. k - 1} \ {Empty}

BytesOf(h, S) == FoldFunctionOnSet(+, 0, [s \in S |-> h[s].bytes], S)

(* evictIndex on every slot of gone: the heads meet when nothing is left,   *)
(* otherwise readHead becomes head.                                         *)
Without(h, r, gone, head) ==
  [slots |-> [i \in Indexes |-> IF r.slots[i] \in gone THEN Empty ELSE r.slots[i]],
   readHead |-> IF gone # {} /\ Cardinality(gone) = r.slotCount
                THEN r.writeHead ELSE head,
   writeHead |-> r.writeHead,
   slotCount |-> r.slotCount - Cardinality(gone),
   payloadBytes |-> r.payloadBytes - BytesOf(h, gone)]

(* Mutants of evictIndex: the overwritten slot is not evicted; readHead     *)
(* does not move.                                                           *)
EvictIndexSkipped(h, r, i) == r
EvictIndexStuck(h, r, i) == Without(h, r, {r.slots[i]} \ {Empty}, r.readHead)

(* evictIndex moves readHead only when it empties the slot readHead is at.  *)
EvictIndex(h, r, i) ==
  Without(h, r, {r.slots[i]} \ {Empty},
          IF r.slots[i] # Empty /\ i = r.readHead % Capacity
          THEN r.readHead + 1 ELSE r.readHead)

(* The loop condition of enforceByteBudget(incoming), false at cursor k.    *)
WithinBudget(h, r, k, incoming) ==
  \/ r.payloadBytes - BytesOf(h, SeenBefore(r, k)) + incoming <= MaxBytes
  \/ Cardinality(SeenBefore(r, k)) = r.slotCount

BudgetCursor(h, r, incoming) ==
  CHOOSE k \in r.readHead .. r.writeHead :
    /\ WithinBudget(h, r, k, incoming)
    /\ \A j \in r.readHead .. k - 1 : ~WithinBudget(h, r, j, incoming)

EnforceByteBudget(h, r, incoming) ==
  LET k == BudgetCursor(h, r, incoming) IN Without(h, r, SeenBefore(r, k), k)

(* The slots a loop over the cursor window visits, in order.                *)
Cursors(r) == [n \in 1 .. r.writeHead - r.readHead |-> r.slots[(r.readHead + n - 1) % Capacity]]
Visited(r) ==
  CHOOSE seen \in Kept(Cursors(r), {n \in DOMAIN Cursors(r) : Cursors(r)[n] # Empty}) : TRUE

(* The order in which evictOldest takes the slots of gone out of r.         *)
FirstVisit(r, s) ==
  CHOOSE c \in r.readHead .. r.writeHead - 1 :
    r.slots[c % Capacity] = s /\ \A d \in r.readHead .. c - 1 : r.slots[d % Capacity] # s
EvictionOrders(r, gone) ==
  {order \in [1 .. Cardinality(gone) -> gone] :
     ToSet(order) = gone
     /\ \A m, n \in DOMAIN order : m < n => FirstVisit(r, order[m]) < FirstVisit(r, order[n])}

(* Mutants: evictions are not recorded; the index is kept.                  *)
RecordNothing(gone, order) == UNCHANGED <<evictionLog, overflowCount>>
KeepIndex == UNCHANGED requestIdIndex

InvalidateIndex == requestIdIndex' = Empty

(* evictIndex counts and logs what it evicts, in the order it evicts.       *)
RecordEvictions(gone, order) ==
  LET all == evictionLog \o order
      skip == IF Len(all) > EvictionLogCapacity
              THEN Len(all) - EvictionLogCapacity ELSE 0
  IN  /\ evictionLog' = SubSeq(all, skip + 1, Len(all))
      /\ overflowCount' = overflowCount + Cardinality(gone)

--------------------------------------------------------------------------------
Init ==
  /\ clock = 0
  /\ heap = [s \in Seqs |-> Empty]
  /\ ring = [slots |-> [i \in Indexes |-> Empty], readHead |-> 0, writeHead |-> 0,
             slotCount |-> 0, payloadBytes |-> 0]
  /\ storedSlots = {}
  /\ requestIdIndex = Empty
  /\ evictionLog = <<>>
  /\ overflowCount = 0
  /\ released = {} /\ happened = {}

NewSlot(req) == [req |-> req, phase |-> "active", body |-> "none",
                 bytes |-> MetadataOverhead]

IsContextEvent(req) == ~StoreContextEvents /\ req # NoRequest

(* push() of an event that belongs to a request, with storeContextEvents    *)
(* off: the slot is handed out and never enters the ring.                   *)
PushDetached(req) ==
  /\ clock < MaxClock /\ IsContextEvent(req)
  /\ clock' = clock + 1
  /\ heap' = [heap EXCEPT ![clock + 1] = NewSlot(req)]
  /\ InvalidateIndex
  /\ UNCHANGED <<ring, storedSlots, evictionLog, overflowCount, released, happened>>

(* push() into the ring: recordings are pushed with null bodies.            *)
PushStored(req) ==
  LET i     == ring.writeHead % Capacity
      over  == {ring.slots[i]} \ {Empty}
      freed == EvictIndex(heap, ring, i)
      room  == EnforceByteBudget(heap, freed, MetadataOverhead)
      gone  == LiveIn(freed) \ LiveIn(room)
  IN  /\ clock < MaxClock /\ ~IsContextEvent(req)
      /\ clock' = clock + 1
      /\ heap' = [heap EXCEPT ![clock + 1] = NewSlot(req)]
      /\ InvalidateIndex
      /\ ring' = [room EXCEPT !.slots[i] = clock + 1,
                              !.payloadBytes = @ + MetadataOverhead,
                              !.slotCount = @ + 1,
                              !.writeHead = @ + 1]
      /\ storedSlots' = (storedSlots \ (over \union gone)) \union {clock + 1}
      /\ \E order \in EvictionOrders(freed, gone) :
           RecordEvictions(over \union gone, [n \in 1 .. Cardinality(over) |-> ring.slots[i]] \o order)
      /\ UNCHANGED <<released, happened>>

(* Body capture ends once per slot (the request and the response body count *)
(* as one): it sets slot.estimatedBytes, then calls updatePayloadBytes.  The*)
(* slot may have left the ring since it was pushed.                         *)
WithBody(s, newBytes) ==
  [heap EXCEPT ![s] = [@ EXCEPT !.body = "captured", !.bytes = newBytes]]

CanBackfill(s, newBytes) ==
  s \in Pushed /\ heap[s].body = "none" /\ newBytes > heap[s].bytes

BackfillStored(s, newBytes) ==
  LET h     == WithBody(s, newBytes)
      grown == [ring EXCEPT !.payloadBytes = @ + newBytes - heap[s].bytes]
      room  == EnforceByteBudget(h, grown, 0)
      gone  == Live \ LiveIn(room)
  IN  /\ CanBackfill(s, newBytes) /\ s \in storedSlots
      /\ heap' = h
      /\ ring' = room
      /\ storedSlots' = storedSlots \ gone
      /\ InvalidateIndex
      /\ \E order \in EvictionOrders(grown, gone) : RecordEvictions(gone, order)
      /\ UNCHANGED <<clock, released, happened>>

(* Mutant: updatePayloadBytes without the storedSlots check.                *)
BackfillGoneCounted(s, newBytes) ==
  /\ CanBackfill(s, newBytes) /\ s \notin storedSlots
  /\ heap' = WithBody(s, newBytes)
  /\ ring' = [ring EXCEPT !.payloadBytes = @ + newBytes - heap[s].bytes]
  /\ UNCHANGED <<clock, storedSlots, requestIdIndex, evictionLog, overflowCount, released, happened>>

BackfillGone(s, newBytes) ==
  /\ CanBackfill(s, newBytes) /\ s \notin storedSlots
  /\ heap' = WithBody(s, newBytes)
  /\ UNCHANGED <<clock, ring, storedSlots, requestIdIndex, evictionLog,
                 overflowCount, released, happened>>

(* materializeBody, at error capture: the estimate shrinks to what the      *)
(* scrubbed or spooled body takes, and the buffer is not told; the captured *)
(* chunks are dropped, so this happens once.                                *)
Materialize(s, newBytes) ==
  /\ happened' = happened \union {"materialize"}
  /\ s \in Pushed /\ heap[s].body = "captured" /\ newBytes <= heap[s].bytes
  /\ heap' = [heap EXCEPT ![s] = [@ EXCEPT !.body = "fixed", !.bytes = newBytes]]
  /\ UNCHANGED <<clock, ring, storedSlots, requestIdIndex, evictionLog,
                 overflowCount, released>>

(* A recorder finishes its slot: phase done, possibly with error or aborted.*)
Finish(s, phase) ==
  /\ s \in Pushed /\ heap[s].phase = "active"
  /\ heap' = [heap EXCEPT ![s].phase = phase]
  /\ UNCHANGED <<clock, ring, storedSlots, requestIdIndex, evictionLog,
                 overflowCount, released, happened>>

(* attachContextToSlot: a slot undici pushed without a context is given the *)
(* context of the fetch call; the index is not invalidated.                 *)
AttachContext(s, req) ==
  /\ s \in Pushed /\ heap[s].req = NoRequest
  /\ heap' = [heap EXCEPT ![s].req = req]
  /\ UNCHANGED <<clock, ring, storedSlots, requestIdIndex, evictionLog,
                 overflowCount, released, happened>>

(* filterByRequestId builds the index when there is none.                   *)
FilterByRequestId ==
  /\ requestIdIndex = Empty
  /\ requestIdIndex' =
       [r \in Requests |-> {s \in SeenBefore(ring, ring.writeHead) : heap[s].req = r}]
  /\ UNCHANGED <<clock, heap, ring, storedSlots, evictionLog, overflowCount, released, happened>>

Successful(S, req) == {s \in S : heap[s].req = req /\ heap[s].phase = "done"}
Compacted(S) ==
  [s \in Seqs |-> IF s \notin S THEN heap[s]
                  ELSE [heap[s] EXCEPT !.bytes = MetadataOverhead,
                          !.body = IF @ = "none" THEN "none" ELSE "fixed"]]

(* Mutant: every released slot advances readHead.                           *)
ReleaseHeadCounting(r, out) == r.readHead + Cardinality(out)

(* readHead passes the released slots it meets and stops at a hole.         *)
ReleaseHead(r, out) ==
  CHOOSE k \in r.readHead .. r.writeHead :
    /\ k = r.writeHead \/ r.slots[k % Capacity] \notin out
    /\ \A j \in r.readHead .. k - 1 : r.slots[j % Capacity] \in out

(* releaseCompletedRequest: compacts and evicts, uncounted and unlogged,    *)
(* then the owner of the request compacts the slots that never were stored. *)
ReleaseCompletedRequest(req) ==
  LET out == Successful(Live, req)
  IN  /\ heap' = Compacted(out)
      /\ ring' = Without(heap, ring, out, ReleaseHead(ring, out))
      /\ storedSlots' = storedSlots \ out
      /\ InvalidateIndex
      /\ released' = released \union out
      /\ UNCHANGED <<clock, evictionLog, overflowCount, happened>>

(* compactCompletedRequest keeps the slots; the index stays.                *)
CompactCompletedRequest(req) ==
  LET out == Successful(Live, req)
  IN  /\ heap' = Compacted(out)
      /\ ring' = [ring EXCEPT !.payloadBytes =
                    @ - BytesOf(heap, out) + MetadataOverhead * Cardinality(out)]
      /\ UNCHANGED <<clock, storedSlots, requestIdIndex, evictionLog,
                     overflowCount, released, happened>>

(* compactDetachedSlot on a slot of a finished request that is not (or no   *)
(* longer) in the ring.                                                     *)
CompactDetachedSlot(s) ==
  /\ s \in Pushed \ Live /\ heap[s].req # NoRequest /\ heap[s].phase = "done"
  /\ heap' = Compacted({s})
  /\ UNCHANGED <<clock, ring, storedSlots, requestIdIndex, evictionLog,
                 overflowCount, released, happened>>

(* clear(), once, at shutdown: it forgets storedSlots, and overflowCount and*)
(* the log stay.                                                            *)
Clear ==
  LET met == SeenBefore(ring, ring.writeHead)
  IN  /\ "clear" \notin happened /\ happened' = happened \union {"clear"}
      /\ ring' = [slots |-> [i \in Indexes |->
                               IF ring.slots[i] \in met THEN Empty ELSE ring.slots[i]],
                  readHead |-> ring.writeHead, writeHead |-> ring.writeHead,
                  slotCount |-> 0, payloadBytes |-> 0]
      /\ InvalidateIndex
      /\ UNCHANGED <<clock, heap, storedSlots, evictionLog, overflowCount, released>>

Next ==
  \/ \E req \in Requests \union {NoRequest} : PushDetached(req) \/ PushStored(req)
  \/ \E s \in Seqs, b \in SlotBytes :
       BackfillStored(s, b) \/ BackfillGone(s, b) \/ Materialize(s, b)
  \/ \E s \in Seqs, phase \in {"done", "failed"} : Finish(s, phase)
  \/ \E s \in Seqs, req \in Requests : AttachContext(s, req)
  \/ FilterByRequestId
  \/ \E req \in Requests : ReleaseCompletedRequest(req) \/ CompactCompletedRequest(req)
  \/ \E s \in Seqs : CompactDetachedSlot(s)
  \/ Clear

Spec == Init /\ [][Next]_vars

--------------------------------------------------------------------------------
(* Properties.                                                              *)

(* slotCount, the condition on which enforceByteBudget loops, counts the    *)
(* slots that are really there.                                             *)
CountIsLive == ring.slotCount = Cardinality(Live)

(* Every slot in the ring is met by a cursor that runs from readHead to     *)
(* writeHead: no event is invisible to drain() and evictOldest(), so the    *)
(* loop of enforceByteBudget always finds a victim and ends.                *)
WindowCoversLive == Live \subseteq SeenBefore(ring, ring.writeHead)

(* The ring is sound: whenever slotCount says that there is a slot to evict,   *)
(* evictOldest() finds one.                                                 *)
RingSound == CountIsLive /\ WindowCoversLive

(* payloadBytes is the sum of the estimates of the slots in the ring, after *)
(* any sequence of push, backfill, eviction and release, as long as nothing *)
(* was cleared or materialized.                                             *)
BytesAccurate ==
  happened = {} => ring.payloadBytes = BytesOf(heap, Live)

(* drain() and getRecent() return every slot of the ring exactly once, in   *)
(* the order of the events ...                                              *)
ReadsInOrder ==
  LET seen == Visited(ring)
  IN  ToSet(seen) = Live /\ \A m, n \in 1 .. Len(seen) : m < n => seen[m] < seen[n]

(* ... as long as no release has left a hole in the ring.                   *)
DrainIsChronological == released = {} => ReadsInOrder

(* What filterByRequestId returns from its cached index is in the ring and  *)
(* belongs to the request.                                                  *)
IndexSound ==
  requestIdIndex # Empty =>
    \A r \in Requests : \A s \in requestIdIndex[r] : s \in Live /\ heap[s].req = r

(* What is read from the buffer: by request it is what is there, and the whole *)
(* is in the order of the events until a release has left a hole.           *)
ReadsSound == IndexSound /\ DrainIsChronological

(* An event leaves the ring through a release, through clear(), or with an  *)
(* entry in the eviction log and a count in overflowCount.                  *)
LossIsRecorded ==
  [][\A s \in Live \ Live' :
        \/ s \in released'
        \/ "clear" \in happened' \ happened
        \/ /\ overflowCount' - overflowCount >= Cardinality(Live \ Live')
           /\ EvictionLogCapacity >= overflowCount' - overflowCount
                => s \in ToSet(evictionLog')]_vars
================================================================================
