------------------------------ MODULE BodyCapture ------------------------------
(* src/recording/body-capture.ts: bodies are recorded chunk by chunk, as they    *)
(* pass, into accumulators that come from a pool, and are copied into the slot   *)
(* of their call when an error is captured.  A chunk is the name of its body.    *)
EXTENDS PayloadSpool, Sequences

CONSTANTS Bodies,       \* the bodies that are sent or received, each with a slot
          KindsOf,      \* [Bodies -> SUBSET kinds]
          RequestOf,    \* [Bodies -> the request that the call was made for]
          MaxPayload,   \* maxPayloadSize, in chunks
          PoolMax,      \* MAX_STATE_POOL_SIZE
          MaxChunks     \* bound of the model

BodyKinds == {"inbound", "outbound", "request", "response", "fetch"}
ASSUME BodyAssumption ==
  /\ KindsOf \in [Bodies -> SUBSET BodyKinds]
  /\ MaxPayload \in Nat /\ PoolMax \in Nat /\ MaxChunks \in Nat

VARIABLES body,    \* [Bodies -> [kind, stage, acc, held, sent]]: the stream and its handler
          slot,    \* [Bodies -> [state, record, truncated, ref, done]]
          acc,     \* the accumulators that were ever made
          pool,    \* statePool
          spool,   \* the spool, or what it would be
          opts,    \* [spooling, hashing]: what is configured
          hist     \* [broken, threw]: a body was cut into, the application was interrupted
bvars == <<body, slot, acc, pool, spool, opts, hist>>

None    == 0
NoAcc   == [chunks |-> << >>, total |-> 0, truncated |-> FALSE, finalized |-> FALSE, hashed |-> FALSE]
Now     == [body |-> body, slot |-> slot, acc |-> acc, pool |-> pool, spool |-> spool, hist |-> hist]
Becomes(t) ==
  /\ body' = t.body /\ slot' = t.slot /\ acc' = t.acc /\ pool' = t.pool
  /\ spool' = t.spool /\ hist' = t.hist /\ UNCHANGED opts

ByteLimit == IF opts.spooling THEN BlobMax ELSE MaxPayload   \* getCaptureByteLimit
Hashing   == opts.hashing \/ opts.spooling                   \* shouldHashBodies

(* createState and setState.                                                     *)
CreateState(t, b) ==
  LET fresh == t.pool = << >>
      a     == IF fresh THEN Len(t.acc) + 1 ELSE t.pool[Len(t.pool)]
  IN  [t EXCEPT !.pool = IF fresh THEN @ ELSE SubSeq(@, 1, Len(@) - 1),
                !.acc = IF fresh THEN Append(@, NoAcc) ELSE [@ EXCEPT ![a] = NoAcc],
                !.body[b].acc = a, !.slot[b].state = a]

ReleaseState(t, a) ==
  [t EXCEPT !.acc[a] = NoAcc, !.pool = IF Len(@) < PoolMax THEN Append(@, a) ELSE @]

(* Mutant: the slot keeps its reference.                                         *)
DropKeeping(t, b, a) == ReleaseState(t, a)

(* What everybody does who is done with an accumulator.                          *)
Drop(t, b, a) == ReleaseState([t EXCEPT !.slot[b].state = None], a)

(* captureChunk: a digest that was closed refuses more.                          *)
CaptureChunk(t, b) ==
  LET a == t.body[b].acc  over == Len(t.acc[a].chunks) >= ByteLimit
  IN  IF t.acc[a].hashed THEN [t EXCEPT !.hist.threw = TRUE]
      ELSE [t EXCEPT !.acc[a] = [t.acc[a] EXCEPT !.total = @ + 1, !.truncated = over,
                                                 !.chunks = IF over THEN @ ELSE Append(@, b)],
                     !.slot[b].truncated = @ \/ over]

(* finalizeCapture; slots are never reused, their seq stays.                     *)
FinalizeCapture(t, b) ==
  LET a == t.body[b].acc  empty == t.acc[a].chunks = << >>
      f == [t EXCEPT !.acc[a] = [t.acc[a] EXCEPT !.finalized = TRUE, !.hashed = @ \/ (Hashing /\ ~empty)],
                     !.slot[b].record = << >>]
  IN  IF empty /\ ~t.acc[a].truncated THEN Drop(f, b, a) ELSE f

Shorter(m, n) == IF m < n THEN m ELSE n

(* materializeBody; a text of the type to be recorded.                           *)
MaterializeBody(t, b, len, pressure) ==
  LET a      == t.slot[b].state
      x      == t.acc[a]
      size   == Len(x.chunks)
      stored == Stored(t.spool, RequestOf[b], x.total, size + len, size >= x.total, pressure)
      done   == [t EXCEPT !.slot[b].record = x.chunks]
  IN  IF a = None \/ t.slot[b].record /= << >> THEN t
      ELSE IF opts.spooling /\ x.total > MaxPayload
      THEN Drop([t EXCEPT !.spool = stored.spool,
                          !.slot[b] = [@ EXCEPT !.ref = stored.ref, !.truncated = Preview < x.total,
                                                !.record = SubSeq(x.chunks, 1, Shorter(Preview, size))]],
                b, a)
      ELSE Drop(done, b, a)

------------------------------------------------------------------------------
BInit ==
  /\ body = [b \in Bodies |-> [kind |-> "none", stage |-> "none", acc |-> None, held |-> FALSE,
                               sent |-> 0]]
  /\ slot = [b \in Bodies |-> [state |-> None, record |-> << >>, truncated |-> FALSE, ref |-> 0,
                               done |-> FALSE]]
  /\ acc = << >> /\ pool = << >> /\ spool = EmptySpool
  /\ opts \in [spooling : BOOLEAN, hashing : BOOLEAN]
  /\ hist = [broken |-> FALSE, threw |-> FALSE]

Open(b) == body[b].stage = "open"
Cut(t)  == [t EXCEPT !.hist.broken = TRUE]
Tracks(t, b) == ~t.acc[t.body[b].acc].truncated \/ Hashing    \* shouldTrackAfterTruncation

(* capture...Request, capture...Response: the call is recorded, and its body is  *)
(* to be; for an inbound request when the application listens.                   *)
Begin(b, kind) ==
  LET t == [Now EXCEPT !.body[b] = [@ EXCEPT !.kind = kind, !.stage = "open", !.held = TRUE],
                       !.slot[b].done = kind = "fetch"]
  IN  /\ body[b].stage = "none"
      /\ Becomes(IF kind = "inbound" THEN t ELSE CreateState(t, b))

Attach(b) ==
  /\ Open(b) /\ body[b].kind = "inbound" /\ body[b].held /\ body[b].acc = None
  /\ Becomes(CreateState(Now, b))

(* A data event, a write, a read of the clone; what nobody listens to any more   *)
(* passes by, and writes after end() reach the handler until "finish".           *)
Chunk(b) ==
  LET t == CaptureChunk([Now EXCEPT !.body[b].sent = @ + 1], b)
  IN  /\ body[b].held /\ body[b].acc /= None /\ body[b].sent < MaxChunks
      /\ Open(b) \/ body[b].kind = "outbound"
      /\ Becomes(LET u == IF Open(b) THEN t ELSE Cut(t) IN
                 IF body[b].kind \in {"inbound", "response"} /\ ~Tracks(u, b)
                 THEN [u EXCEPT !.body[b].sent = MaxChunks] ELSE u)

(* The end of the body.  captureUndiciResponseStream has nobody else to wait for *)
(* and materializes at once.                                                     *)
EndBody(b, len, pressure) ==
  LET t == [Now EXCEPT !.body[b] = [@ EXCEPT !.stage = "ended", !.held = body[b].held /\ body[b].kind = "outbound"],
                       !.slot[b].done = @ \/ body[b].kind = "response"]
      f == FinalizeCapture(t, b)
  IN  /\ Open(b) /\ body[b].held
      /\ Becomes(IF body[b].acc = None THEN t
                 ELSE IF body[b].kind = "fetch" THEN MaterializeBody(f, b, len, pressure) ELSE f)

(* end() is called once more before "finish".                                    *)
EndAgain(b) ==
  /\ body[b].stage = "ended" /\ body[b].kind = "outbound" /\ body[b].held
  /\ Becomes(Cut(FinalizeCapture(Now, b)))

(* skipOutboundResponseCapture                                                   *)
SkipOutbound(b) ==
  /\ Open(b) /\ body[b].kind = "outbound" /\ body[b].held
  /\ Becomes(Drop([Now EXCEPT !.body[b].held = FALSE, !.slot[b].state = None], b, body[b].acc))

(* The reader of the clone fails.                                                *)
FailStream(b) ==
  /\ Open(b) /\ body[b].kind = "fetch"
  /\ Becomes(Drop([Now EXCEPT !.body[b].stage = "ended", !.body[b].held = FALSE,
                              !.slot[b].truncated = TRUE], b, body[b].acc))

(* handleOutboundResponseFinish, releaseInboundRequest by the finalizer of the   *)
(* request, and an outbound call answered before its body was sent: the slot is  *)
(* done.                                                                         *)
SlotDone(b) ==
  LET t == [Now EXCEPT !.slot[b].done = TRUE]
      u == [t EXCEPT !.body[b].held = FALSE]
  IN  /\ ~slot[b].done
      /\ \/ body[b].kind = "outbound" /\ body[b].stage = "ended" /\ Becomes(u)
         \/ /\ body[b].kind = "inbound"
            /\ Becomes(IF body[b].held /\ body[b].acc /= None THEN Drop(u, b, body[b].acc) ELSE u)
         \/ body[b].kind = "request" /\ Becomes(t)

UnderWay(b) == body[b].held /\ slot[b].state /= None

(* capture() of an error whose timeline has the slot.                            *)
CaptureBody(b, len, pressure) ==
  LET t == MaterializeBody(Now, b, len, pressure)
  IN  /\ slot[b].state /= None /\ slot[b].record = << >>
      /\ Becomes(IF UnderWay(b) THEN Cut(t) ELSE t)

(* releaseSlotBodies, and the compaction of the slot.                            *)
ReleaseSlot(b) ==
  LET t == [Now EXCEPT !.slot[b] = [@ EXCEPT !.record = << >>, !.truncated = FALSE, !.ref = 0]]
      u == IF slot[b].state = None THEN t ELSE Drop(t, b, slot[b].state)
  IN  /\ slot[b].done
      /\ Becomes(IF UnderWay(b) THEN Cut(u) ELSE u)

(* The finalizer of a request: markRequestComplete, then sweep; and time.        *)
CompleteRequest(b) ==
  /\ opts.spooling /\ RequestOf[b] \notin spool.done
  /\ Becomes([Now EXCEPT !.spool = Sweep(MarkRequestComplete(@, RequestOf[b]))])
PassTtl ==
  /\ \E id \in DOMAIN spool.entries : spool.entries[id].state = "sweepable" /\ ~spool.entries[id].old
  /\ Becomes([Now EXCEPT !.spool = Expire(@)])

BNext ==
  \/ \E b \in Bodies :
       \/ \E kind \in KindsOf[b] : Begin(b, kind)
       \/ Attach(b) \/ Chunk(b) \/ EndAgain(b) \/ SkipOutbound(b) \/ FailStream(b)
       \/ SlotDone(b) \/ ReleaseSlot(b) \/ CompleteRequest(b)
       \/ \E len \in 0..1, pressure \in Pressures(Sweep(spool)) : EndBody(b, len, pressure) \/ CaptureBody(b, len, pressure)
  \/ PassTtl
BSpec == BInit /\ [][BNext]_bvars

------------------------------------------------------------------------------
(* spec/07-body-capture.md: body capture creates its own chunks.                 *)
OwnChunks == \A b \in Bodies : \A i \in DOMAIN slot[b].record : slot[b].record[i] = b

(* No two bodies are recorded into one accumulator, no slot ever shows bytes of  *)
(* another call and no closed digest throws into the application, as long as no  *)
(* body was captured, released or ended again while its handler still held the   *)
(* accumulator (materializeBody, releaseSlotBodies, handleOutboundResponseEnd).  *)
Isolated ==
  hist.broken \/
    /\ OwnChunks /\ ~hist.threw
    /\ \A b, c \in Bodies : slot[b].state = slot[c].state /\ slot[b].state /= None => b = c
    /\ \A i \in DOMAIN pool : \A b \in Bodies : UnderWay(b) => body[b].acc /= pool[i]

(* A body that has passed undisturbed is recorded from its first chunk up to the *)
(* limit and is marked as truncated exactly when there was more.                 *)
WholeOrTruncated ==
  hist.broken \/ \A b \in Bodies :
    slot[b].record /= << >> /\ ~opts.spooling =>
      /\ Len(slot[b].record) <= MaxPayload
      /\ slot[b].truncated <=> body[b].sent > Len(slot[b].record)

(* What is shown of a body is its own, and whole unless it says otherwise.       *)
BodiesSound == Isolated /\ WholeOrTruncated

(* The spool stays within its limits, but for what scrubbing added to one blob,  *)
(* and a blob that was stored before its request completed can be swept          *)
(* (PayloadSpool.store, markRequestComplete).                                    *)
SpoolBounded ==
  /\ Used(spool) <= GlobalMax + 1
  /\ \A id \in DOMAIN spool.entries :
       LET e == spool.entries[id] IN
         /\ RequestBytes(spool, e.req) <= RequestMax + 1
         /\ e.req \in spool.done => e.late \/ e.state = "sweepable"
================================================================================
