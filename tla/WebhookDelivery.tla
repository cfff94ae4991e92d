---------------------------- MODULE WebhookDelivery ----------------------------
(***************************************************************************)
(* WebhookTransport (src/src/transport/webhook-transport.ts) over          *)
(* LocalEventStore (src/src/transport/local-event-store.ts): a payload is  *)
(* appended to a durable file, queued in memory and posted in batches, with*)
(* retries, a timer and flushes; the process may end at any moment and come*)
(* back with what the file holds.                                          *)
(*                                                                         *)
(* One process uses the store.  An operation of the store is synchronous   *)
(* and under the lock of FileLock: one step, which may fail.  The endpoint *)
(* is external: it answers a batch or it does not.                         *)
(***************************************************************************)
EXTENDS Integers, Orders

CONSTANTS
  Events,     \* payloads; a payload is sent once and has one record
  Flushers,   \* calls of flush() under way at the same time
  BatchSize,  \* batchSize
  MaxBuffer,  \* maxBufferEvents
  Retries,    \* retries
  MaxBackups, \* maxBackups of the store
  MaxStops    \* bound on the ends of the process

ASSUME SizeAssumption ==
  {BatchSize, MaxBuffer, Retries} \subseteq Nat \ {0} /\ {MaxBackups, MaxStops} \subseteq Nat

VARIABLES
  records,     \* the records of the store, in order
  backups,     \* the backups that are there, oldest first, each with its records;
               \* nothing reads them
  outnumbered, \* history: the records of backups that MaxBackups newer ones followed
  retainOnAck,
  running,     \* the process runs
  closed,      \* shutdown() was called
  queue,
  batch,       \* what drainQueueInner is posting; <<>>: drainPromise is null
  posts,
  drainTimer,  \* drainTimer is armed
  flush,       \* the calls of flush(): where each is, what it covers, and whether a
               \* batch begun after the call has failed
  since,       \* the calls of flush() made before the batch was begun
  called,      \* history: the payloads send() was called for ...
  mine,        \* ... those this process has accepted or loaded
  accepted,    \* ... those some process has accepted
  acknowledged, \* ... those of an acknowledged batch
  deferred,    \* ... those that overflowed the queue of this process
  torn,        \* ... those lost in a rewrite the process did not survive
  touched,     \* history: this process has accepted a payload or begun a flush
  stops

aside == <<backups, outnumbered>>
store == <<records, aside>>
drain == <<queue, batch, posts, drainTimer, since>>
ghosts == <<called, mine, accepted, acknowledged, deferred, torn, touched, stops>>
wvars == <<store, retainOnAck, running, closed, drain, flush, ghosts>>

InFile == ToSet(records)
InBackups == UNION ToSet(backups)
InMemory == ToSet(queue) \cup ToSet(batch)

--------------------------------------------------------------------------------
(* The store *)

(* rotateIfNeededSync: a file that has reached maxSizeBytes (records differ in size:  *)
(* any file that holds one may have) becomes the newest backup.  cleanupOldBackupsSync*)
(* unlinks the others but for the newest, whatever is in them; it or an unlink may    *)
(* fail, and the next rotation tries again.                                           *)
Rotate ==
  LET all == Append(backups, InFile)
      old == 1 .. Len(all) - MaxBackups
  IN  /\ records # <<>>
      /\ \E kept \in SUBSET old : backups' \in Kept(all, kept \cup (DOMAIN all \ old))
      /\ outnumbered' = outnumbered \cup UNION {all[n] : n \in old}

\* append(), after the rotation or without one, for its rename may fail.
AppendRecord(x) ==
  \/ Rotate /\ records' = <<x>>
  \/ records' = Append(records, x) /\ UNCHANGED aside

\* It fails before or after the rotation, or in fsync with the record in the file.
AppendFails(x) ==
  \/ Rotate /\ records' = <<>>
  \/ UNCHANGED store
  \/ AppendRecord(x)

(* Mutant: the file is emptied instead of rewritten. *)
WithoutAll(acks) == {<<>>}

Without(acks) == Kept(records, {n \in DOMAIN records : records[n] \notin acks})

\* remove(), which swallows its errors.
RemoveAcked(acks) ==
  \/ retainOnAck /\ UNCHANGED store
  \/ ~retainOnAck /\ UNCHANGED aside /\ (records' \in Without(acks) \/ UNCHANGED records)

--------------------------------------------------------------------------------
(* The queue and its drain *)

Callers == {f \in Flushers : flush[f].at \in {"waiting", "resumed", "draining"}}

(* Mutant: the batch stays in the queue, as slice() would leave it. *)
NextBatchSliced(q, callers) ==
  /\ batch' = SubSeq(q, 1, IF Len(q) < BatchSize THEN Len(q) ELSE BatchSize)
  /\ queue' = q
  /\ posts' = 0 /\ since' = callers

NextBatch(q, callers) ==
  /\ batch' = SubSeq(q, 1, IF Len(q) < BatchSize THEN Len(q) ELSE BatchSize)
  /\ queue' = SubSeq(q, BatchSize + 1, Len(q))
  /\ posts' = 0 /\ since' = callers

\* drainQueue while no drain is under way ...
BeginDrain(q, callers) == NextBatch(q, callers) /\ drainTimer' = FALSE

\* ... and beside one, whose promise is awaited.
Idle == batch = <<>>
JoinDrain(q) == queue' = q /\ UNCHANGED <<batch, posts, since, drainTimer>>

\* enqueue: the oldest leaves a full queue.
Enqueued(x) == Append(IF Len(queue) >= MaxBuffer THEN Tail(queue) ELSE queue, x)

Enqueue(x) ==
  /\ deferred' = deferred \cup (ToSet(queue) \ ToSet(Enqueued(x)))
  /\ \/ /\ Len(Enqueued(x)) >= BatchSize
        /\ IF Idle THEN BeginDrain(Enqueued(x), Callers) ELSE JoinDrain(Enqueued(x))
     \/ /\ Len(Enqueued(x)) < BatchSize
        /\ queue' = Enqueued(x) /\ drainTimer' = TRUE
        /\ UNCHANGED <<batch, posts, since>>

\* The drain ends: the flushes that await it resolve, or go on.
AfterDrain(f, failed) ==
  [flush[f] EXCEPT !.at = CASE flush[f].at = "waiting" -> "resumed"
                            [] flush[f].at = "draining" -> "done"
                            [] OTHER -> flush[f].at,
                   !.tried = @ \/ (failed /\ f \in since)]
DrainEnds(failed) ==
  /\ batch' = <<>> /\ posts' = 0 /\ since' = {}
  /\ flush' = [f \in Flushers |-> AfterDrain(f, failed)]

--------------------------------------------------------------------------------
(* send, flush, shutdown, the timer *)

Send(x) ==
  /\ running /\ x \notin called
  /\ called' = called \cup {x}
  /\ \/ /\ AppendRecord(x) /\ Enqueue(x)
        /\ accepted' = accepted \cup {x} /\ mine' = mine \cup {x} /\ touched' = TRUE
     \/ /\ AppendFails(x)
        /\ UNCHANGED <<drain, accepted, mine, deferred, touched>>
  /\ UNCHANGED <<retainOnAck, running, closed, flush, acknowledged, torn, stops>>

(* Mutant: flush() does not drain again after the drain that was under way. *)
FlushResumesDone(f) ==
  /\ running /\ flush[f].at = "resumed"
  /\ flush' = [flush EXCEPT ![f].at = "done"] /\ UNCHANGED drain
  /\ UNCHANGED <<store, retainOnAck, running, closed, ghosts>>

\* flush() goes on after the drain it found under way.
FlushResumes(f) ==
  /\ running /\ flush[f].at = "resumed"
  /\ flush' = [flush EXCEPT ![f].at = IF Idle /\ queue = <<>> THEN "done" ELSE "draining"]
  /\ IF Idle THEN BeginDrain(queue, Callers) ELSE UNCHANGED drain
  /\ UNCHANGED <<store, retainOnAck, running, closed, ghosts>>

CallFlush(f) ==
  /\ running /\ flush[f].at \in {"idle", "done"}
  /\ touched' = TRUE /\ drainTimer' = FALSE
  /\ flush' = [flush EXCEPT ![f] =
       [at |-> IF ~Idle THEN "waiting" ELSE IF queue = <<>> THEN "done" ELSE "draining",
        covers |-> InMemory, tried |-> FALSE]]
  /\ IF Idle THEN NextBatch(queue, Callers \cup {f})
             ELSE UNCHANGED <<queue, batch, posts, since>>
  /\ UNCHANGED <<store, retainOnAck, running, closed, called, mine, accepted, acknowledged, deferred,
                 torn, stops>>

TimerFires ==
  /\ running /\ drainTimer
  /\ IF Idle THEN BeginDrain(queue, Callers)
             ELSE drainTimer' = FALSE /\ UNCHANGED <<queue, batch, posts, since>>
  /\ UNCHANGED <<store, retainOnAck, running, closed, flush, ghosts>>

Shutdown ==
  /\ running /\ ~closed
  /\ closed' = TRUE /\ drainTimer' = FALSE
  /\ UNCHANGED <<store, retainOnAck, running, queue, batch, posts, since, flush, ghosts>>

--------------------------------------------------------------------------------
(* sendBatchWithRetries ends *)

BatchAcked ==
  /\ ~Idle
  /\ acknowledged' = acknowledged \cup ToSet(batch)
  /\ RemoveAcked(ToSet(batch))
  /\ \/ /\ queue # <<>>
        /\ NextBatch(queue, Callers) /\ UNCHANGED <<drainTimer, flush>>
     \/ /\ queue = <<>>
        /\ DrainEnds(FALSE) /\ UNCHANGED <<queue, drainTimer>>
  /\ UNCHANGED <<retainOnAck, running, closed, called, mine, accepted, deferred, torn, touched,
                 stops>>

\* An attempt fails in a way that is worth another one.
BatchRetried ==
  /\ ~Idle /\ posts + 1 < Retries
  /\ posts' = posts + 1
  /\ UNCHANGED <<store, retainOnAck, running, closed, queue, batch, drainTimer, since, flush,
                 ghosts>>

(* Mutants: what failed is not put back; nobody schedules the next drain. *)
PutBackNothing == queue
RescheduleNot == UNCHANGED drainTimer

PutBack == batch \o queue
Reschedule == drainTimer' = TRUE

BatchFailed ==
  /\ ~Idle
  /\ queue' = PutBack /\ Reschedule
  /\ DrainEnds(TRUE)
  /\ UNCHANGED <<store, retainOnAck, running, closed, ghosts>>

--------------------------------------------------------------------------------
(* The end of the process, and its next start *)

ProcessEnds ==
  /\ running /\ stops < MaxStops
  /\ running' = FALSE /\ stops' = stops + 1
  /\ queue' = <<>> /\ batch' = <<>> /\ posts' = 0 /\ drainTimer' = FALSE /\ since' = {}
  /\ flush' = [f \in Flushers |-> [at |-> "idle", covers |-> {}, tried |-> FALSE]]
  /\ mine' = {} /\ deferred' = {} /\ touched' = FALSE
  /\ UNCHANGED <<aside, retainOnAck, closed, called, accepted>>

Stop == ProcessEnds /\ UNCHANGED <<records, acknowledged, torn>>

\* The process dies in remove(), between the truncation and the end of the write.
StopInRemove ==
  /\ ~Idle /\ ~retainOnAck
  /\ ProcessEnds
  /\ acknowledged' = acknowledged \cup ToSet(batch)
  /\ \E left \in Without(ToSet(batch)) : \E n \in 0 .. Len(left) : records' = SubSeq(left, 1, n)
  /\ torn' = torn \cup (InFile \ (ToSet(records') \cup acknowledged'))

\* The constructor: what the file holds is queued, and waits for a send or a flush.
Restart ==
  /\ ~running /\ running' = TRUE /\ closed' = FALSE
  /\ queue' = SubSeq(records, IF Len(records) > MaxBuffer THEN Len(records) - MaxBuffer + 1 ELSE 1,
                     Len(records))
  /\ mine' = InFile /\ deferred' = InFile \ ToSet(queue')
  /\ UNCHANGED <<store, retainOnAck, batch, posts, drainTimer, since, flush, called,
                 accepted, acknowledged, torn, touched, stops>>

--------------------------------------------------------------------------------
WInit ==
  /\ records = <<>> /\ backups = <<>> /\ outnumbered = {} /\ retainOnAck \in BOOLEAN
  /\ running = TRUE /\ closed = FALSE
  /\ queue = <<>> /\ batch = <<>> /\ posts = 0 /\ drainTimer = FALSE /\ since = {}
  /\ flush = [f \in Flushers |-> [at |-> "idle", covers |-> {}, tried |-> FALSE]]
  /\ called = {} /\ mine = {} /\ accepted = {} /\ acknowledged = {} /\ deferred = {} /\ torn = {}
  /\ touched = FALSE /\ stops = 0

WNext ==
  \/ \E x \in Events : Send(x)
  \/ \E f \in Flushers : CallFlush(f) \/ FlushResumes(f)
  \/ TimerFires \/ Shutdown
  \/ BatchAcked \/ BatchRetried \/ BatchFailed
  \/ Stop \/ StopInRemove \/ Restart

WSpec == WInit /\ [][WNext]_wvars

--------------------------------------------------------------------------------
(* Properties *)

\* Types.  A failed batch is put back whatever maxBufferEvents says, yet the memory
\* never holds more than that and one batch.
WTypeOK ==
  /\ records \in Seq(Events) /\ backups \in Seq(SUBSET Events) /\ outnumbered \subseteq Events
  /\ {retainOnAck, running, closed, drainTimer, touched} \subseteq BOOLEAN
  /\ queue \in Seq(Events) /\ batch \in Seq(Events) /\ Len(batch) <= BatchSize
  /\ Len(queue) + Len(batch) <= MaxBuffer + BatchSize
  /\ posts \in 0 .. Retries - 1 /\ since \subseteq Flushers
  /\ flush \in [Flushers -> [at : {"idle", "waiting", "resumed", "draining", "done"},
                             covers : SUBSET Events, tried : BOOLEAN]]
  /\ UNION {called, mine, accepted, acknowledged, deferred, torn} \subseteq Events
  /\ stops \in 0 .. MaxStops

\* DB.md: "failed webhook delivery never loses the local copy".  What send() accepted
\* is in the store or its backups until it is acknowledged, across failed batches and
\* cleanups and any number of restarts.  Two cases are apart: the process died while it
\* rewrote the file (torn), and MaxBackups rotations have followed the one that set the
\* record aside, for the cleanup deletes backups with unacknowledged records in them.
StoredUntilAcked == accepted \subseteq InFile \cup InBackups \cup outnumbered \cup acknowledged \cup torn

\* What this process accepted, or found in the file, is queued or being posted until
\* it is acknowledged or has overflowed the queue: batches that fail while others are
\* enqueued and the queue overflows forget nothing.
NothingForgotten == running => mine \subseteq InMemory \cup acknowledged \cup deferred

\* A queue that is not empty has a drain or a timer, or a flush about to go on; only
\* what was loaded at the start waits for the first call, and shutdown() gives up.
NoStall ==
  running /\ queue # <<>> /\ Idle /\ ~drainTimer =>
    ~touched \/ closed \/ \E f \in Flushers : flush[f].at = "resumed"

\* When flush() has resolved, what was in memory at its call is acknowledged, or
\* delivery was tried anew after the call and failed; a drain that was under way, or
\* one that another flush began, is no excuse.
FlushTries ==
  \A f \in Flushers : flush[f].at = "done" =>
    flush[f].tried \/ flush[f].covers \subseteq acknowledged \cup deferred

\* The queue holds what it may, goes on by itself, and a flush makes it try.
QueueSound == WTypeOK /\ NoStall /\ FlushTries
================================================================================
