-------------------------- MODULE TransportDispatcher --------------------------
(***************************************************************************)
(* TransportDispatcher (src/src/transport/transport.ts): the main thread   *)
(* that posts send, flush and shutdown to a worker thread, the worker that *)
(* runs them as concurrent asynchronous handlers over a file transport,    *)
(* and the main-thread queue that takes over when the worker dies or when  *)
(* there was none to begin with.                                           *)
(***************************************************************************)
EXTENDS TransportContract, FiniteSets, SequencesExt

CONSTANTS
  MaxThreadedOps,     \* bound on the calls of a run that began with a worker
  MaxFallbackQueue,   \* MAX_FALLBACK_QUEUE_SIZE
  MaxFlushResolvers   \* MAX_FALLBACK_FLUSH_RESOLVERS

ASSUME CallsAssumption == MaxThreadedOps \in 0 .. MaxOps
ASSUME QueueAssumption ==
  MaxFallbackQueue \in Nat \ {0} /\ MaxFlushResolvers \in Nat \ {0}

VARIABLES
  threaded,     \* a worker is created (not serverless, http, bundled)
  worker,       \* this.worker is set
  thread,       \* the worker thread: running, closed (port), dead
  pending,      \* keys of the map of the same name
  inbox,        \* messages the worker has not taken
  running,      \* handlers in the worker whose file operation is not done
  finished,     \* handlers in the worker that have not posted their answer
  outbox,       \* answers the main thread has not taken: [id, ok]
  errorDue,     \* the 'error' event of the worker has not been handled
  shuttingDown,
  creatable,    \* createTransport does not throw on the main thread
  queue,        \* fallbackQueue
  scheduled,    \* fallbackScheduled
  active,       \* the send fallbackActive stands for, or 0
  waiters,      \* fallbackFlushResolvers: [id, direct]
  syncing,      \* calls that wait for fallbackTransport.flush()
  shutdownOps   \* calls that share fallbackShutdownPromise

wvars == <<worker, thread, pending, inbox, running, finished, outbox, errorDue>>
fvars == <<queue, scheduled, active, waiters, syncing, shutdownOps>>
given == <<threaded, creatable>> \* decided when the dispatcher is made
tvars == <<cvars, wvars, fvars, shuttingDown, given>>

(* Every variable has its type; an id in any queue or set is a call made.*)
Answers == [id : Ids, ok : BOOLEAN]
TTypeOK ==
  /\ ops \in Seq([type : Types, state : States, before : SUBSET Nat])
  /\ \A i \in Ids : ops[i].before \subseteq Ids
  /\ file \in Seq(Ids) /\ durable \in 0 .. Len(file)
  /\ {threaded, worker, errorDue, shuttingDown, scheduled, creatable} \subseteq BOOLEAN
  /\ thread \in {"running", "closed", "dead"}
  /\ pending \subseteq Ids /\ running \subseteq Ids /\ finished \subseteq Answers
  /\ inbox \in Seq(Ids) /\ outbox \in Seq(Answers)
  /\ queue \in Seq(Ids) /\ active \in Ids \union {0}
  /\ waiters \in Seq([id : Ids, direct : BOOLEAN])
  /\ syncing \subseteq Ids /\ shutdownOps \subseteq Ids

(* Only the constructors of the HTTP and the webhook transport throw, and   *)
(* these never have a worker.                                               *)
TInit ==
  /\ CInit
  /\ threaded \in BOOLEAN
  /\ creatable \in (IF threaded THEN {TRUE} ELSE BOOLEAN)
  /\ worker = threaded
  /\ thread = IF threaded THEN "running" ELSE "dead"
  /\ pending = {} /\ inbox = <<>> /\ running = {} /\ finished = {} /\ outbox = <<>>
  /\ errorDue = FALSE /\ shuttingDown = FALSE
  /\ queue = <<>> /\ scheduled = FALSE /\ active = 0 /\ waiters = <<>>
  /\ syncing = {} /\ shutdownOps = {}

(* Mutant: the id is read before it is incremented.                         *)
NewIdBefore == Len(ops)

MayCall == Len(ops) < IF threaded THEN MaxThreadedOps ELSE MaxOps \* bound

NewId == Len(ops) + 1
NewOp(type, state) == [type |-> type, state |-> state, before |-> Accepted]

(* Mutant: flush looks at the queue only.                                   *)
IdleQueueOnly == queue = <<>>

Idle == ~scheduled /\ active = 0 /\ queue = <<>>

--------------------------------------------------------------------------------
(* Calls while a worker is set: dispatchToWorker.  A message to a thread    *)
(* whose port is closed or that is dead goes nowhere, without an error.     *)

DispatchToWorker(type) ==
  /\ MayCall /\ worker
  /\ ops' = Append(ops, NewOp(type, "pending"))
  /\ pending' = pending \union {NewId}
  /\ inbox' = IF thread = "running" THEN Append(inbox, NewId) ELSE inbox
  /\ UNCHANGED <<file, durable, worker, thread, running, finished, outbox, errorDue, fvars>>

SendToWorker == DispatchToWorker("send") /\ UNCHANGED shuttingDown
FlushToWorker == DispatchToWorker("flush") /\ UNCHANGED shuttingDown
ShutdownToWorker ==
  DispatchToWorker("shutdown") /\ shuttingDown' = TRUE

(* Mutant: shutdown() without its timer.                                    *)
ShutdownTimeoutNever(i) == FALSE

(* The timer of shutdown() wins the race: the worker is terminated.  When   *)
(* the worker is already gone the timer does nothing (optional chaining).   *)
ShutdownTimeout(i) ==
  /\ worker /\ i \in pending /\ ops[i].type = "shutdown" /\ ops[i].state = "pending"
  /\ Settle(i, "resolved")
  /\ thread' = "dead"
  /\ inbox' = <<>> /\ running' = {} /\ finished' = {}
  /\ UNCHANGED <<file, durable, worker, pending, outbox, errorDue, fvars, shuttingDown>>

--------------------------------------------------------------------------------
(* The worker thread.  A message starts an asynchronous handler; handlers   *)
(* overlap, so a flush may sync before an earlier send has appended.        *)

WorkerStart ==
  /\ thread = "running" /\ inbox # <<>> /\ ops[Head(inbox)].type # "shutdown"
  /\ inbox' = Tail(inbox)
  /\ running' = running \union {Head(inbox)}
  /\ UNCHANGED <<cvars, worker, thread, pending, finished, outbox, errorDue, fvars, shuttingDown>>

(* shutdown answers and closes the port: nothing is taken or answered after.*)
WorkerShutdown ==
  /\ thread = "running" /\ inbox # <<>> /\ ops[Head(inbox)].type = "shutdown"
  /\ inbox' = <<>>
  /\ outbox' = Append(outbox, [id |-> Head(inbox), ok |-> TRUE])
  /\ thread' = "closed"
  /\ UNCHANGED <<cvars, worker, pending, running, finished, errorDue, fvars, shuttingDown>>

WorkerDone(i, ok) ==
  /\ i \in running
  /\ running' = running \ {i}
  /\ finished' = finished \union {[id |-> i, ok |-> ok]}
  /\ UNCHANGED <<ops, worker, thread, pending, inbox, outbox, errorDue, fvars, shuttingDown>>

(* Mutants: the flush of the worker does not sync; a failed write is        *)
(* answered as a success.                                                   *)
WorkerSyncNothing(i) ==
  WorkerDone(i, TRUE) /\ ops[i].type = "flush" /\ UNCHANGED <<file, durable>>
WorkerFailAnswersOk(i) == WorkerDone(i, TRUE) /\ UNCHANGED <<file, durable>>

WorkerWrite(i) ==
  /\ WorkerDone(i, TRUE) /\ IsSend(i)
  /\ file' = Append(file, i) /\ UNCHANGED durable
WorkerSync(i) ==
  /\ WorkerDone(i, TRUE) /\ ops[i].type = "flush"
  /\ durable' = Len(file) /\ UNCHANGED file
WorkerFail(i) == WorkerDone(i, FALSE) /\ UNCHANGED <<file, durable>>

WorkerAnswer(a) ==
  /\ a \in finished
  /\ finished' = finished \ {a}
  /\ outbox' = IF thread = "running" THEN Append(outbox, a) ELSE outbox
  /\ UNCHANGED <<cvars, worker, thread, pending, inbox, running, errorDue, fvars, shuttingDown>>

(* The worker dies of an error.  What it had not answered is forgotten,     *)
(* although it may already be in the file.                                  *)
WorkerCrash ==
  /\ thread = "running"
  /\ thread' = "dead" /\ errorDue' = TRUE
  /\ inbox' = <<>> /\ running' = {} /\ finished' = {}
  /\ UNCHANGED <<cvars, worker, pending, outbox, fvars, shuttingDown>>

(* The 'message' listener: an answer whose id is not pending is ignored.    *)
ReceiveAnswer ==
  LET a == Head(outbox)
  IN  /\ outbox # <<>>
      /\ outbox' = Tail(outbox)
      /\ pending' = pending \ {a.id}
      /\ IF a.id \in pending /\ ops[a.id].state = "pending"
         THEN Settle(a.id, IF a.ok THEN "resolved" ELSE "rejected")
         ELSE UNCHANGED ops
      /\ UNCHANGED <<file, durable, worker, thread, inbox, running, finished, errorDue,
                     fvars, shuttingDown>>

--------------------------------------------------------------------------------
(* The 'error' listener: fallbackToMainThread.  Pending sends are queued    *)
(* again in their order, pending flushes wait for the queue to drain, and   *)
(* pending shutdowns become the shutdown of the fallback transport.         *)

PendingOf(type) == {i \in pending : ops[i].type = type}
InOrder(S) ==
  CHOOSE q \in [1 .. Cardinality(S) -> S] :
    ToSet(q) = S /\ \A m, n \in DOMAIN q : m < n => q[m] < q[n]

WaitFor(S, direct) == [n \in 1 .. Cardinality(S) |-> [id |-> InOrder(S)[n], direct |-> direct]]

SetState(S, state) ==
  ops' = [i \in Ids |-> IF i \in S /\ ops[i].state = "pending"
                        THEN [ops[i] EXCEPT !.state = state] ELSE ops[i]]

(* Mutant: the pending sends are dropped.                                   *)
RequeuedNone == <<>>

Requeued == InOrder(PendingOf("send"))

FallbackToMainThread ==
  LET flushes == PendingOf("flush")
      downs == PendingOf("shutdown")
      first == {i \in downs : \A j \in downs : i <= j}
      refused == downs # {} /\ Cardinality(flushes) >= MaxFlushResolvers
  IN  /\ errorDue /\ errorDue' = FALSE
      /\ worker' = FALSE /\ pending' = {}
      /\ UNCHANGED <<file, durable, thread, inbox, running, finished, outbox, active,
                     shuttingDown>>
      /\ queue' = Requeued
      /\ shutdownOps' = downs
      /\ IF Requeued = <<>>
         THEN /\ SetState(flushes, "resolved")
              /\ syncing' = first
              /\ UNCHANGED <<scheduled, waiters>>
         ELSE /\ scheduled' = TRUE
              /\ waiters' = WaitFor(flushes, TRUE)
                              \o (IF refused THEN <<>> ELSE WaitFor(first, FALSE))
              /\ SetState(IF refused THEN downs ELSE {}, "rejected")
              /\ UNCHANGED syncing

--------------------------------------------------------------------------------
(* Calls while there is no worker.                                          *)

(* ensureFallbackTransport throws: send() and shutdown() are refused.       *)
Uncreatable(type) ==
  /\ MayCall /\ ~worker /\ ~creatable
  /\ type \in {"send", "shutdown"}
  /\ ops' = Append(ops, NewOp(type, "rejected"))
  /\ shuttingDown' = (shuttingDown \/ type = "shutdown")
  /\ UNCHANGED <<file, durable, wvars, fvars>>

Enqueue(q, id) == Append(q, id)

(* enqueueFallback: a full queue evicts, and rejects, its oldest send.      *)
SendFallback ==
  /\ MayCall /\ ~worker /\ creatable
  /\ LET all == Append(ops, NewOp("send", "pending"))
     IN  IF Len(queue) >= MaxFallbackQueue
         THEN /\ ops' = [all EXCEPT ![Head(queue)].state = "rejected"]
              /\ queue' = Enqueue(Tail(queue), NewId)
         ELSE /\ ops' = all
              /\ queue' = Enqueue(queue, NewId)
  /\ scheduled' = (scheduled \/ active = 0)
  /\ UNCHANGED <<file, durable, wvars, active, waiters, syncing, shutdownOps, shuttingDown>>

(* flushFallback on behalf of call NewId: at once when idle, otherwise      *)
(* after the queue has drained, unless too many wait already.               *)
FlushFallback(type) ==
  IF Idle
  THEN /\ ops' = Append(ops, NewOp(type, "pending"))
       /\ syncing' = syncing \union {NewId}
       /\ UNCHANGED waiters
  ELSE IF Len(waiters) >= MaxFlushResolvers
  THEN /\ ops' = Append(ops, NewOp(type, "rejected"))
       /\ UNCHANGED <<syncing, waiters>>
  ELSE /\ ops' = Append(ops, NewOp(type, "pending"))
       /\ waiters' = Append(waiters, [id |-> NewId, direct |-> FALSE])
       /\ UNCHANGED syncing

FlushCall ==
  /\ MayCall /\ ~worker
  /\ FlushFallback("flush")
  /\ UNCHANGED <<file, durable, wvars, queue, scheduled, active, shutdownOps, shuttingDown>>

(* performFallbackShutdown: the first call flushes and closes, later ones   *)
(* get the same promise, settled or not.                                    *)
ShutdownCall ==
  /\ MayCall /\ ~worker /\ creatable
  /\ shuttingDown' = TRUE
  /\ shutdownOps' = shutdownOps \union {NewId}
  /\ IF shutdownOps = {}
     THEN FlushFallback("shutdown")
     ELSE LET first == CHOOSE i \in shutdownOps : \A j \in shutdownOps : i <= j
          IN  /\ ops' = Append(ops, NewOp("shutdown", ops[first].state))
              /\ UNCHANGED <<syncing, waiters>>
  /\ UNCHANGED <<file, durable, wvars, queue, scheduled, active>>

--------------------------------------------------------------------------------
(* processFallbackQueue: one send at a time, in order; the waiters are      *)
(* released when the queue is empty.  A direct waiter is the flush the      *)
(* worker left behind: it resolves without a call of flush().               *)

(* Mutant: an item is not taken off the queue.                              *)
RestKept == queue

Rest == Tail(queue)
DirectWaiters == {waiters[n].id : n \in {m \in 1 .. Len(waiters) : waiters[m].direct}}
OtherWaiters == {waiters[n].id : n \in {m \in 1 .. Len(waiters) : ~waiters[m].direct}}

NextItem(settled, state) ==
  IF queue # <<>>
  THEN /\ active' = Head(queue) /\ queue' = Rest
       /\ SetState(settled, state)
       /\ UNCHANGED <<waiters, syncing>>
  ELSE /\ active' = 0 /\ waiters' = <<>>
       /\ syncing' = syncing \union OtherWaiters
       /\ ops' = [i \in Ids |->
                    IF i \in settled THEN [ops[i] EXCEPT !.state = state]
                    ELSE IF i \in DirectWaiters THEN [ops[i] EXCEPT !.state = "resolved"]
                    ELSE ops[i]]
       /\ UNCHANGED queue

ProcessStart ==
  /\ scheduled /\ scheduled' = FALSE
  /\ NextItem({}, "resolved")
  /\ UNCHANGED <<file, durable, wvars, shutdownOps, shuttingDown>>

FallbackSent ==
  /\ active # 0
  /\ file' = Append(file, active)
  /\ NextItem({active}, "resolved")
  /\ UNCHANGED <<durable, wvars, scheduled, shutdownOps, shuttingDown>>

FallbackFailed ==
  /\ active # 0
  /\ NextItem({active}, "rejected")
  /\ UNCHANGED <<file, durable, wvars, scheduled, shutdownOps, shuttingDown>>

(* fallbackTransport.flush() ends: fsync of the file, or its error.         *)
Sharers(i) == IF ops[i].type = "shutdown" THEN shutdownOps ELSE {i}

SyncDone(i) ==
  /\ i \in syncing /\ syncing' = syncing \ {i}
  /\ durable' = Len(file)
  /\ SetState(Sharers(i), "resolved")
  /\ UNCHANGED <<file, wvars, queue, scheduled, active, waiters, shutdownOps, shuttingDown>>

SyncFailed(i) ==
  /\ i \in syncing /\ syncing' = syncing \ {i}
  /\ SetState(Sharers(i), "rejected")
  /\ UNCHANGED <<file, durable, wvars, queue, scheduled, active, waiters, shutdownOps,
                 shuttingDown>>

Calls ==
  \/ SendToWorker \/ FlushToWorker \/ ShutdownToWorker
  \/ SendFallback \/ FlushCall \/ ShutdownCall
  \/ \E type \in Types : Uncreatable(type)
Worker ==
  /\ \/ WorkerStart \/ WorkerShutdown
     \/ \E i \in running : WorkerWrite(i) \/ WorkerSync(i) \/ WorkerFail(i)
     \/ \E a \in finished : WorkerAnswer(a)
  /\ UNCHANGED given
Main ==
  /\ \/ ReceiveAnswer \/ FallbackToMainThread \/ ProcessStart
     \/ FallbackSent \/ FallbackFailed
     \/ \E i \in syncing : SyncDone(i) \/ SyncFailed(i)
  /\ UNCHANGED given
Timer == (\E i \in pending : ShutdownTimeout(i)) /\ UNCHANGED given

TNext == Worker \/ Main \/ Timer \/ ((Calls \/ WorkerCrash) /\ UNCHANGED given)

TSpec == TInit /\ [][TNext]_tvars

(* Both event loops keep running what is due: file operations end, messages *)
(* and setImmediate callbacks are handled.  Calls, crashes and the shutdown *)
(* timer need not happen.                                                   *)
TFairSpec == TSpec /\ WF_tvars(Worker) /\ WF_tvars(Main)

(* ... and the timer of shutdown() fires.                                   *)
TimedSpec == TFairSpec /\ WF_tvars(Timer)

--------------------------------------------------------------------------------
(* Properties, besides those of the contract.                               *)

(* A send that has not settled is somewhere it can still settle from: on    *)
(* its way through a worker that answers, waiting for the error event, or   *)
(* in the queue of the main thread.  A worker that was told to shut down    *)
(* closes its port, and what is posted after that is lost.                  *)
NoOrphan ==
  \A i \in Ids : IsSend(i) /\ ops[i].state = "pending" =>
    \/ i = active \/ i \in ToSet(queue)
    \/ i \in pending /\ errorDue
    \/ i \in pending /\ thread = "running"
         /\ i \in ToSet(inbox) \union running \union {a.id : a \in finished}
    \/ i \in pending /\ i \in {a.id : a \in ToSet(outbox)}
    \/ worker /\ shuttingDown

(* A payload is written twice only when the worker died between writing it  *)
(* and answering.                                                           *)
DuplicateNeedsCrash ==
  \A i \in Ids : Cardinality({n \in 1 .. Len(file) : file[n] = i})
                   <= IF threaded /\ ~worker THEN 2 ELSE 1

(* Every call of send(): accepted means written, pending means that it can  *)
(* still settle, and none is written twice without a crash.                 *)
DispatcherSound == TTypeOK /\ AcceptedIsWritten /\ NoOrphan /\ DuplicateNeedsCrash

(* As long as the worker lives, a flush covers every send that had been     *)
(* accepted when it was called.                                             *)
FlushCoversWhileAlive == threaded /\ thread # "dead" => FlushCoversAccepted

(* Every call settles, also when the worker dies under it; a shutdown       *)
(* settles thanks to its timer even when the port is closed already, but a  *)
(* send or a flush after a shutdown of the worker may be left hanging.      *)
Settled(i) == i \in Ids /\ ops[i].state # "pending"
EveryCallSettles ==
  \A i \in 1 .. MaxOps :
    (i \in Ids /\ ops[i].state = "pending")
      ~> (Settled(i) \/ (worker /\ shuttingDown /\ i \in Ids /\ ops[i].type # "shutdown"))

(* Without a worker the dispatcher implements the contract of Transport.    *)
(* One that began with a worker is seen as a transport that nobody calls.   *)
Contract == INSTANCE TransportContract
              WITH ops <- IF threaded THEN <<>> ELSE ops,
                   file <- IF threaded THEN <<>> ELSE file,
                   durable <- IF threaded THEN 0 ELSE durable
ImplementsContract == Contract!CSpec
================================================================================
