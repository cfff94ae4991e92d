# A verification project for the errorcore SDK

errorcore is a Node.js SDK. It records what a process does (inbound and outbound
I/O, state reads and writes, the context of each request) in a bounded memory and,
when an error is captured, assembles a package out of it and delivers the package
through a transport, with a dead-letter store for what could not be delivered. It
runs inside somebody else's process: it may neither lose a captured error without
saying so, nor hang the process at its end, nor grow without bound.

This directory holds TLA+ modules translated from the TypeScript sources
(`src/src`) and the command line (`src/bin/errorcore.js`), TLC configurations that
check them on small instances, and TLAPS proofs that hold for every instance.
Paths below are relative to `src/`.

    tlc -config MCCapturing.cfg MCCapturing                 # one run
    tlapm CaptureDeliveryProofs.tla                         # one proof module
    tlc -config CaptureModeControllerWindow.cfg CaptureModeController   # a disagreement

1. [Inventory](#1-inventory): the parts of the system
2. [Modules and runs](#2-modules-and-runs): an overview
3. [The modules](#3-the-modules), one by one: state, actions, properties, bounds
4. [Fairness](#4-fairness)
5. [Proofs](#5-proofs)
6. [Where code and words disagree](#6-where-code-and-words-disagree)
7. [What is not modelled](#7-what-is-not-modelled)
8. [Plan](#8-plan)

## 1. Inventory

A capture travels through these parts, left to right:

    recorders, state tracker ──> I/O event buffer ─┐
    request context (ALS), tracker ────────────────┤
    inspector (locals) ────────────────────────────┼─> ErrorCapturer ─> package
    payload spool (large bodies) ──────────────────┘        │           builder, inline
                                                            │           or in a worker
                              capture-mode controller ──────┤
                                                            v
                     dead-letter store <── TransportDispatcher / HTTP / webhook
                     (lock, drains, CLI)        (worker thread, main-thread queue)

Everything on the main thread runs to completion between two awaits; what
interleaves is the order of promise continuations, timers, messages of the two
worker threads (package assembly, transport), file operations, calls of the
application, and other processes that use the same dead-letter file or lock.

### Core

| Component | State | Operations | Talks to | Hard because | Correct when |
|---|---|---|---|---|---|
| I/O event buffer (`buffer/io-event-buffer.ts`) | ring of slots, readHead, writeHead, slotCount, payloadBytes, storedSlots, cached request index, eviction log | push, updatePayloadBytes, release, compact, clear, filterByRequestId, drain, getRecent | recorders push and keep writing to the slot objects; body capture backfills; end of request releases | slots leave out of order and live on as objects; two budgets; counters kept beside the data | count, cursor window, bytes and index agree with the slots; losses are counted; reads are in order |
| ErrorCapturer (`capture/error-capturer.ts`) | in-flight promises, packages held back, in-flight assemblies, recovery drain, acked ids | capture, flush, shutdown, dispatch, recovery drain | package assembly, transport, dead-letter store, inspector, buffer, spool, rate limiter | captures, flushes, answers and time-outs fall into each other | a package is sent at most once; a flush covers what came before it; nothing admitted is left behind |
| Package assembly (`capture/package-assembly-*.ts`) | worker, pending map, idle timer, mode state | assemble, updateConfig, applyModeState, shutdown | a worker thread by messages | late answers, time-outs, an exit of the worker, replacement on a switch | each request is answered once, inline if need be; no teardown hangs |
| SDK instance (`sdk.ts`) | lifecycle, captureAdmissionOpen, fatalExitInProgress, timers, handlers | activate, captureError, flush, setCaptureMode, shutdown, process handlers, startup drain | everything | shutdown is a sequence of awaits into which captures fall | shutdown ends, releases everything, loses nothing |
| Capture-mode controller (`capture-mode-controller.ts`, `capture-mode.ts`) | mode state, adaptive phase, intent generation, tail of transitions, hourly switches | setCaptureMode, handleAdmittedCapture, evaluate, shutdown | recorders, inspector, assembly controller, flush | transitions await in the middle; decisions are made before their turn comes | phase, mode and installed resources agree; the newest choice stands; an escalation ends |
| TransportDispatcher (`transport/transport.ts`) | pending map, worker, fallback queue, flags, flush resolvers, shutdown promise | send, flush, shutdown, sendSync | a worker thread that runs the transport; then the transport on the main thread | handlers of the worker overlap; the worker dies; a shutdown timer; overflow | nothing accepted is lost, nothing reported written that is not, calls settle, flush means durable |
| Dead-letter store and drains (`transport/dead-letter-store.ts`, `capture/error-capturer.ts`, `sdk.ts`, `bin/errorcore.js`) | the file, its backups, pendingPayloadCount, drains under way | append, marker, drain, clearSent, clear, rotate, re-sign, markAcked | startup drain, recovery drain, live dispatch, `errorcore drain`, all over one file | drains cut the file by line numbers taken before their sends; rewrites may fail half way | what was stored is delivered or still there; nothing is delivered twice; the gauge is right |
| File lock (`transport/file-lock.ts`) | a directory with an owner file | acquire, release, removal of a stale lock | dead-letter store, local event store, of several processes | each system call is a step; processes die | exclusion; a lock is freed; acquire ends |
| Webhook transport (`transport/webhook-transport.ts`, `transport/local-event-store.ts`) | durable file, queue, batch being posted, timer | send, flush, shutdown, drain with retries, restart | an endpoint | failures while others enqueue; overflow; a process that ends and comes back | what was accepted is in the store until acknowledged; the queue never stalls |

### The rest

| Component | State | Hard part | Properties worth stating |
|---|---|---|---|
| HTTP transport (`transport/http-transport.ts`) | agent, HTTP/2 session, negotiated protocol | three attempts within a budget, Retry-After, fallback to HTTP/1.1 | a send ends within its budget; only retryable errors are retried; a session that died is not used again |
| File transport (`transport/file-transport.ts`) | rotatePromise, backups | rotation under concurrent appends and an fsync by path | no line is lost by a rotation; flush covers what was appended |
| Stdout transport, payload (`transport/stdout-transport.ts`, `payload.ts`) | none | | |
| Inspector manager (`capture/inspector-manager.ts`, `supplemental-locals.ts`, `stack-ownership.ts`) | session, armed or not, cache of locals, collections and pauses of this second, guard, two timers | pauses arrive by callback, the guard trips and recovers, lookups by ever looser keys, consumption | armed exactly when it should be; locals are attached to the error they belong to; the guard recovers |
| Package builder (`capture/package-builder.ts`, `process-metadata.ts`, `fingerprint.ts`, `normalize-thrown.ts`) | none | shedding of a package that is too large | the result fits, and says what was shed |
| Source-map resolver (`capture/source-map-resolver.ts`) | caches, files being warmed | background warming against use | a cache entry is never of another file |
| Request context (`context/als-manager.ts`, `request-context-carrier.ts`, `request-tracker.ts`, `middleware/common.ts`) | AsyncLocalStorage, lazily materialized context, tracker with capacity and sweep | cleanup by finish, close, sweep and after a capture, in any order | one cleanup per request; a removed context never comes back |
| Trace context and event clock (`context/tracestate.ts`, `event-clock.ts`) | a counter | merging a received clock | strictly increasing, past everything merged |
| State tracker (`state/state-tracker.ts`) | reads and writes per context | caps, values captured before and after | caps hold and losses are counted |
| Body capture (`recording/body-capture.ts`) | accumulators, pooled buffers, spool blobs | a stream that ends, fails or is consumed twice | bytes and truncation are reported right |
| HTTP recorders (`recording/http-server.ts`, `http-client.ts`, `undici.ts`, `fetch-wrapper.ts`, `channel-subscriber.ts`, `internal.ts`, `utils.ts`) | per-request state, subscriptions | fetch and undici both see one request | one slot per request, finished once |
| Database and network recorders (`recording/net-dns.ts`, `recording/patches/*`) | owned wrappers | wrappers of others above and below | unwrapping restores what was there and nothing else |
| Payload spool (`spool/payload-spool.ts`) | entries, bytes per request and in total | accounts kept beside the data, expiry | accounts are exact; budgets hold |
| Rate limiter, health metrics (`security/rate-limiter.ts`, `health/*`) | timestamps, counters | windows, summaries taken and reset | at most n per window; every drop is in one summary |
| Serverless, watchdog (`middleware/lambda.ts`, `watchdog.ts`) | a worker, an invocation | flush against a frozen process | an invocation ends with its errors flushed |
| Framework middleware (`middleware/*`, `integrations/*`) | none | adapters over `middleware/common.ts` | |
| Scrubbing, serialization (`pii/*`, `scrubber/*`, `serialization/clone-and-limit.ts`) | none | limits on depth, breadth and bytes | limits hold, cycles end |
| Encryption, compression (`security/encryption*.ts`, `compression.ts`) | keys | key chain | |
| Ingest helpers, configuration, diagnostics (`ingest/index.ts`, `config.ts`, `sdk-diagnostics.ts`, ...) | none | | |
| Dashboard (`ui/*`) | index of an NDJSON file | a file that grows or is replaced | the index is of the file |
| Command line (`bin/errorcore.js`) | none | `drain` beside a running SDK | see dead letters |

## 2. Modules and runs

What keeps state has a module with Init, one action per operation, and Next; what only
computes has a module of operators, whose properties speak of all inputs from a bounded set.

| Module | Models | Builds on | Proofs |
|---|---|---|---|
| `IOEventBuffer` | the ring, and what recorders, body capture and the end of a request do to its slots | | `IOEventBufferProofs` |
| `TransportContract` | the comment "Transport behavioral contract" of `transport/transport.ts`: the abstract specification | | |
| `TransportDispatcher` | the dispatcher, its worker thread, the main-thread queue, the file | extends `TransportContract` and implements it | `TransportDispatcherProofs` |
| `FileLock` | the lock directory, one system call per step | | `DestinationsProofs` |
| `FileRotation` | the file transport: concurrent sends, rotation, backups | | `DestinationsProofs` |
| `HttpDelivery` | the HTTP transport: attempts, budget, HTTP/2 session, fallback | one payload at a time, as `TransportDispatcher` sends them | `DestinationsProofs` |
| `DeadLetterDelivery` | the dead-letter file, the live dispatch, three kinds of drains, restarts | takes an operation under the lock as a step, on the strength of `FileLock` | `StorageProofs` |
| `WebhookDelivery` | the webhook transport over its durable store, restarts | the same | `StorageProofs` |
| `CaptureDelivery` | capture, assembly (worker or inline), flush, shutdown | takes the transport as something whose sends end, on the strength of `TransportDispatcher` and `HttpDelivery`, and whose flush covers, with a worker, only what was accepted before it | `CaptureDeliveryProofs` |
| `CaptureAdmission` | deduplication, rate limit and the drop summary | | `CapturingProofs` |
| `CaptureModeController` | the queue of mode switches and the adaptive policy | | `CapturingProofs` |
| `RequestContexts` | lazy contexts, tracker, recorder of inbound HTTP, middlewares, event clock, capture from a request | the buffer as what stamps events: with storeContextEvents off (`sdk-factory.ts`) it keeps none of a context | `RecordingProofs` |
| `BodyCapture` | bodies chunk by chunk, pooled accumulators, materialization | extends `PayloadSpool` | `RecordingProofs` |
| `PayloadSpool` | the spool as a value and its operations | | `RecordingProofs` |
| `OutboundRecorders` | the hand-over between fetch and undici | | `RecordingProofs` |
| `DriverPatches` | wrapped methods, pools, pipelines | | `RecordingProofs` |
| `InspectorManager` | the debugger session, pauses, guard, lookup | extends `LocalsCorrelation` | `CapturingProofs` |
| `LocalsCorrelation` | the ring of captured locals and the cascade of keys | | `CapturingProofs` |
| `Orders` | some elements of a sequence in their order, for files and rings out of which lines or entries go | used by `DeadLetterDelivery`, `WebhookDelivery`, `LocalsCorrelation`, `SourceMapCache` | `DataLemmas` |
| `SourceMapCache` | the cache of source maps against deployments | | `CapturingProofs` |
| `FrameSelection`, `LocalNames`, `Sanitizing`, `CapturedFields`, `PackageBuilding` | what a package shows: frames, names, values, bodies and fields, the package itself | | |
| `ModeResolution`, `KeyChain`, `Ingest` | configuration; envelopes under a chain of keys; the receiver | `Ingest` extends `KeyChain` | |

An `MC` module gives the constants values. Four of them check several modules that share
no variable in one run: a variable `part` says which of them moves, and the others keep
their initial values (most of them one initial value while they rest). Nothing is
composed by that; it is one TLC start instead of several, and each part's states are added
and not multiplied.

| Run | Configuration | Parts | Distinct states | Properties |
|---|---|---|---|---|
| `buffer` | `MCIOEventBuffer` | | 459 993 | BytesAccurate, RingSound, ReadsSound, LossIsRecorded |
| `storage` | `MCStorage` | `DeadLetterDelivery`, `WebhookDelivery` | 1 764 456 | DepthSound, NoLoss, NoRedelivery, StoredUntilAcked, NothingForgotten, QueueSound |
| `transport` | `MCTransport` | `TransportDispatcher`, `FileLock`, `FileRotation`, `HttpDelivery` | 252 642 | DestinationsSound, DispatcherSound, FlushCoversWhileAlive, Exclusion, QuietMeansFree, CallsSettle, ImplementsContract, AcquireEnds |
| `delivery` | `MCCaptureDelivery` | | 926 676 | SentAtMostOnce, FlushCovers, AdmittedSettles, ShutdownEnds |
| `recording` | `MCRecording` | `RequestContexts`, `BodyCapture`, `OutboundRecorders`, `DriverPatches` (wrappers, queries) | 1 144 870 | CausalOrder, ContextsSound, BodiesSound, SpoolBounded, OwnSlot, WrapsSound, QueriesRecorded, Untracked |
| `capturing` | `MCCapturing` | `CaptureModeController`, `InspectorManager`, `CaptureAdmission`, `SourceMapCache`, and the modules that compute | 451 881 | ModeFits, ManualChoiceStands, InspectorSound, AdmissionSound, MapsSound, Shown, Wired, SwitchesEnd, LocalsFindTheirError, GuardRecovers |
| `buffer_release_order` | `MCIOEventBufferOrder` | | violation | ReadsInOrder |
| `transport_flush_crash` | `TransportDispatcherFlushCrash` | | violation | FlushCoversAccepted |
| `dead_letters_two_drainers` | `MCDeadLetterDeliveryTwo` | | violation | OwnDrainsLoseNothing |
| `mode_window` | `CaptureModeControllerWindow` | | violation | ManualEscalationHasItsWindow |
| `delivery_behind` | `MCCaptureDeliveryBehind` | | violation | NothingLandsBehind |
| `bodies_own` | `MCRecordingOwnChunks` | `BodyCapture` alone | violation | OwnChunks |

Several of these names stand for a conjunction of properties that are stated, each with
its own comment, in the modules:

| Name | Is |
|---|---|
| RingSound, ReadsSound (`IOEventBuffer`) | TypeOK, CountIsLive and WindowCoversLive; IndexSound and DrainIsChronological |
| DepthSound (`DeadLetterDelivery`), QueueSound (`WebhookDelivery`) | DTypeOK and CountBounded; WTypeOK, NoStall and FlushTries |
| DispatcherSound (`TransportDispatcher`) | TTypeOK, AcceptedIsWritten, NoOrphan and DuplicateNeedsCrash |
| DestinationsSound (`MCTransport`) | of the lock TypeOK and NoFalseHolder, of the file FileBounded and LineKept, over HTTP EndsInTime and PostedOnce |
| ModeFits (`CaptureModeController`), InspectorSound (`InspectorManager`) | TypeOK, PhaseMatchesMode and ResourcesFollowMode; ITypeOK and ArmedIsBounded |
| CallsSettle (`MCTransport`) | EveryCallSettles, SendsEnd and PostsEnd |
| ContextsSound (`RequestContexts`) | RTypeOK, EndedNotTracked and TimelineKept |
| BodiesSound (`BodyCapture`) | Isolated and WholeOrTruncated |
| MapsSound (`SourceMapCache`), SwitchesEnd (`MCCapturing`) | MapIsCurrent and CacheSound; EscalationEnds and ShutdownCompletes |
| Shown, Wired (`MCCapturing`) | the properties of the modules that compute, for the task at hand |

Deadlock is not checked: in every one of these systems nothing need be called, and
the counters that bound a run (events, calls, captures, exits) make it stop.
That things which were begun do end is stated by liveness properties instead.

Three more configurations show disagreements of section 6 that have no run of their own
in `PROJECT.json`: `MCCapturingDocumented`, `MCTransportDocumented` and
`MCRecordingDocumented`, each with the module of its name; the first two hold several
invariants and are to be run with `-continue`.

A definition that the comment above it calls a *mutant* is the one below it with a
plausible bug in it. Nothing uses it: it records that the property named beside it in
`PROJECT.json` notices the bug.

## 3. The modules

### IOEventBuffer

`heap` maps the sequence number of an event to its slot object (owner, phase, whether
it has a body, estimatedBytes); `ring` is the record of the class's private fields;
`storedSlots`, `requestIdIndex`, `evictionLog` and `overflowCount` are the fields of
the same names. An object that has left the ring stays in `heap`, since its recorder
still holds it: that is what makes a late `updatePayloadBytes` interesting.

| Action | Code |
|---|---|
| PushStored, PushDetached | `push()`, with the eviction of the slot under writeHead and `enforceByteBudget()`; the event of a request when storeContextEvents is off |
| BackfillStored, BackfillGone | the end of a body (`body-capture.ts`, finalizeBody) and `updatePayloadBytes()` |
| Materialize | `materializeBody()` at error capture |
| Finish, AttachContext | `http-client.ts`, finalize; `fetch-wrapper.ts`, attachContextToSlot |
| FilterByRequestId | the building of the cached index |
| ReleaseCompletedRequest, CompactCompletedRequest, CompactDetachedSlot | the end of a successful request |
| Clear | `clear()` |

The loop of `enforceByteBudget()` is closed: `BudgetCursor` is the least position of
the cursor at which the budget holds. `CountIsLive` and `WindowCoversLive` are why
the loop in the code ends, for it runs on slotCount and walks from readHead.
`drain()`, `getRecent()` and `getRecentWithContext()` all read `Visited`.

Bounds: capacity 2, so that the ring wraps twice with 4 events and a release can leave
a hole under readHead with a live slot behind it; 3 bytes, so that one grown body
exhausts the budget; one request besides "no request". One slot of a run is special
(grows a body, or fails) and a run is cleared or has bodies materialized, not both:
the defects a slot can have are independent of those of another. StoreContextEvents is
FALSE, which keeps both kinds of push. `MCIOEventBufferOrder` takes capacity 3 and 5
events of one size: a hole needs three slots to reorder a read.

### TransportContract and TransportDispatcher

`TransportContract` is the machine a caller of a transport sees: calls that are pending
and then settle, a file that is appended to, the durable part of the file. `CNext` lets
a dispatcher refuse calls (overflow, a full list of waiters) but lets flush and
shutdown resolve only when every earlier send that was not refused is durable.

`TransportDispatcher` is the code. `threaded` says whether a worker is made (not for
http, serverless or bundled programs). With one, a call becomes an entry of `pending`
and a message in `inbox`; the worker starts handlers in order, but they are
asynchronous and overlap (`running`, `finished`), and their answers travel through
`outbox`. `WorkerCrash` may come at any time; the messages already posted still
arrive, then the error event (`FallbackToMainThread`) moves pending sends to `queue`,
flushes to `waiters`, and settles a shutdown. The actions from `ProcessStart` on are
`processFallbackQueue`, `resolveFallbackWaitersIfIdle`, `flushFallback` and
`performFallbackShutdown`. `Timer` is the timer of `shutdown()`.

`AcceptedIsWritten`, `NoOrphan` and `DuplicateNeedsCrash` are about sends,
`FlushCoversWhileAlive` about flushes through a live worker, `EveryCallSettles` about
promises. `ImplementsContract` is the refinement, for the dispatcher without a worker:
with one the contract does not hold, see section 6, and the mapping shows a transport
nobody calls.

Bounds: 5 calls without a worker, 3 with one (send, flush and shutdown in any order and
mixture, around one crash); a queue of 2 and 1 flush resolver, so that both limits are
met.

### FileLock

Each action is one call of the file system in `acquireLock()`, its `release` or
`removeExistingLock()`: mkdir, the exclusive write of owner.json, stat, read, probe
(`kill(pid, 0)`), unlink, rmdir. `pc` is where a process is; unlink and rmdir are
labelled by what they are for. `Crash` may take a process between any two calls.
The pause between attempts is not modelled: an attempt that fails may be followed by
the next at once or much later. Lock files of an older format (a file instead of a
directory) and the repetitions of a recursive removal that met a transient error are
left out.

`Exclusion` holds until a process sets out to remove a lock as stale (`staleSeen`);
after that it does not, see section 6. `NoFalseHolder`, `AcquireEnds` hold without that
restriction, and `QuietMeansFree` whenever nobody died.

Bounds: three processes (two that contend and one that died), one use each, three
attempts: the first meets the stale lock, the second a lock made meanwhile, the third
the give-up.

### DeadLetterDelivery

`file` is the sequence of lines: payloads, failure markers, lines whose signature does
not verify; `count` is pendingPayloadCount, null until somebody asks, and begun at 0 when the
file cannot be read then (a mishap, "unread"). `startup`, `draining` and `cli` are the drains under way, each with the
entries and line numbers of its own snapshot, which is all they know of the file when
they cut it (`clearSent(n)`). `happened` records mishaps after which some promise
cannot be kept, and the properties say which.

| Action | Code |
|---|---|
| LiveSent, LiveFailed | `ErrorCapturer.dispatchPayload`: sent, or stored, and what it schedules |
| AppendMarker, ReadPendingCount, ReSignAll | the store's own operations |
| Activate, StartupSent, StartupFailed | `SDKInstance.drainDeadLetters`: in order, at most maxDrainOnStartup, stops at a failure, clears what it sent |
| RecoveryWakes, RecoverySent, RecoveryFailed | `drainDeadLettersForRecovery`: up to three rounds of `drainDeadLettersOnce`, each in order up to a failure; acked ids are remembered |
| CliStart, CliSent, CliFailed, CliDies | `errorcore drain`: sends everything, then rewrites the file |
| Exit | the process of the SDK ends, at any point; Activate restarts it |

Bounds: one payload captured now, two payloads with an unverifiable line between them
left by an earlier run; a file of 4 lines, so that it rotates; one exit. A state after
a mishap that voids NoLoss is not explored further.

### CaptureModeController

`tail` is modeSwitchTail, `running` the transition that runs and the point it waits at
(a flush of the old mode, the assembly worker, a flush of the new mode). `adaptive`
holds the phase, the switches of the last hour and whether the quiet window and the
dwell time have passed. `wishes` are the microtasks of `handleAdmittedCapture`, `intent` and
`scheduled` the two generations by which a newer choice makes an older one void.

`StartManual` and `StartAdaptive` are `applyCaptureMode` and
`applyAdaptiveCaptureMode` up to their first wait, `Drained`, `Acknowledged`, `Flushed`
what follows each wait, `Reconciled` is `reconcileManualAdaptiveState`. `Evaluate` is
the timer of one second; `QuietPasses` and `DwellPasses` let the clock pass
deescalateAfterMs and minEscalatedMs. `Activate`, `Shutdown`, `Teardown` are
the lifecycle of the SDK as the controller sees it.

Bounds: all four modes; safe as base and forensic as escalated; one switch an hour, so
that the limit (phase "pinned") is met; two choices of the application, three captures,
and two waiting transitions before a tick of the timer queues another.
`CaptureModeControllerWindow` takes fast as base, whose switch waits for a flush.

### CaptureDelivery

`status` says where a package is: assembling, buffered (the mode defers delivery),
sending, settled or dropped. `request` names the dispatcher whose pending map holds its
assembly; `worker`, `inbox`, `attached`, `stopping` are the assembly workers, the one
in use and those being torn down. `flush` holds each call of flush(): the promises it
waits for, a snapshot, and as history the packages captured before it (`covers`) and those
it saw being sent at its call or dispatched itself (`seen`). `threaded` says whether the
transport runs in a worker, whose handlers overlap: then `transport.flush()` is answered
without regard to the sends that came just before it.

| Action | Code |
|---|---|
| CaptureError, UnhandledRejection, UncaughtException | `SDKInstance.captureError` and the process handlers, with `ErrorCapturer.capture` to its first await |
| Answer, AssemblyTimesOut, WorkerExits | the worker's message, the timer of a request, the exit event: packages are assembled inline instead |
| StopTimesOut, IdleTimer, SwitchMode, ApplyMode, ConfigTimesOut | `PackageAssemblyController`: teardown, idle shutdown, a switch of the mode |
| StartFlush, Settled, Dispatched, EndFlush | `ErrorCapturer.flush` and `SDKInstance.flush`, await by await; the last is `transport.flush()`, which on the main thread waits for the sends under way |
| Shutdown, DetachWorker, FinalFlush | `performShutdown`, await by await |
| EndSend | a send and its dead-lettering have ended |

Bounds: two packages, one flush of the application or of the interval beside the one of
the shutdown, one switch of the mode: a flush that takes the package another flush waits
for, and a worker replaced while the first still owes an answer. The five initial states are
the three kinds of mode, and two of them with a transport worker, where the assembly worker comes
with the switch.

### WebhookDelivery

`records` is the file of the local event store and `backups` what rotations set aside, oldest
first, of which each rotation unlinks all but the newest `MaxBackups`, or tries to;
`outnumbered` is history: the records of backups with that many newer ones. `queue`, `batch`, `posts` and
`drainTimer` the transport's memory. `Send` appends and enqueues; `BatchAcked`,
`BatchRetried` and `BatchFailed` are the three ways an attempt of
`sendBatchWithRetries` ends; `CallFlush` and `FlushResumes` the two passes of
`flush()`. `Stop` ends the process anywhere, `StopInRemove` inside the rewrite of the
file by `remove()`; `Restart` loads what the file holds.

Bounds: three payloads in batches of two over a queue of two, so that a queue overflows
behind a batch; two attempts; records differ in size, so that any file that holds one may
rotate; one backup is kept, so that the second rotation prunes; two flushes; one end and
restart. Payloads and flushes are interchangeable and taken up to
permutation; no liveness is checked in this run, so that is sound.

### FileRotation

`call` holds the sends with the stage each has reached and the file it has open,
`rotation` is rotatePromise (the send whose `rotateOnce` it is), `path` the file at the
path. A file keeps its number when it is renamed, as an open descriptor does: an append
that opened it writes to it wherever it is by then. `backups` maps names to files.

| Action | Code |
|---|---|
| Arrive | `rotateIfNeeded`: wait for a rotation under way, or start one |
| StatPath, Rename, RenameFails, CleanupOldBackups | `rotateOnce`, one call of the file system after the other; `Ends` is the order in which its continuations run |
| OpenAppend, WriteLine, AppendFails | `fs.appendFile`, which opens and then writes |

`LineKept` has two exceptions, both of them the code's: an append that opened its file
before the rename and wrote after it is kept with that file, and once two rotations went
for one file (`raced`) a fresh file may be the one that is renamed and pruned.

Bounds: four sends, three at a time (one rotates, two wait: the case in which both start a
rotation), a file too large from its first line, two backups.

### HttpDelivery

One payload at a time, as the dispatcher sends them. `post` is the payload under way with
its attempt, the time its attempts have taken, and, as history, the copies that went out;
`session` is http2Session, which may be `dead`: its peer is gone and nothing has said so.

| Action | Code |
|---|---|
| Send, Attempt | `send`, `sendOnce`: HTTP/1.1, the session there is, or a new connection |
| Connect, ConnectFails | `getHttp2Session`; "auto" goes on over HTTP/1.1 |
| Accepted2xx, Refused, Postponed | the status of the answer, with a Retry-After |
| TimesOut, ConnectionFails | the deadline, and errors, transient or permanent |
| Retried, TryAgain | `getRetryDelay` and the next attempt |
| SessionEnds, PeerFallsSilent | what happens to a session meanwhile |
| CloseTransport | `shutdown()` |

Bounds: three attempts as in the code, within a budget of four time-outs, so that both
limits end a send; a Retry-After that is longer than the budget; two payloads, so that the
second finds the session of the first.

### RequestContexts

`host` is what Node and the framework see of a request: how it came in, whether its
response is open, ended, finished or aborted, whether the request object has closed,
whether five minutes have passed. `s` is the SDK: a context per request, the tracker with
its removal timers, the event clock, the log of all stamps, and which of them were
compacted to stubs. A context holds no more events than the recorder that pushes one allows
(`Cap`: bufferSize for drivers and the server's own event, 500 for the others; `pushIOEvent`).
`pack` is the package of the request's error.

| Action | Code |
|---|---|
| Start | `handleRequestStart` of the recorder, or the middleware: `recorder`, `raw`, `hapi`, `express` (fastify and koa do the same), `hono`, `wrapped` (`withErrorcore`, `wrapLambda`) |
| Record, ReadState, Send, Pause | a recorded call, a tracked read, outbound headers, a pause of the debugger |
| Capture, Answered | `capture()` from a request, with assembly inline or in the worker |
| End, Finish, Abort, RequestCloses | the events of Node, in the orders it emits them |
| Settle | the end of a handler that is awaited |
| Age, SweepExpired, OnRemove | the tracker's sweep and the timer of `onRemove` |
| SwitchMode, Shutdown | recorders come and go; the end of the SDK |

`Materialize` and `EnsureTrace` are the lazy part: the first use of a context hooks it to
the response, adds it to the tracker and merges the clock of the caller.

Bounds: one request in each of the six ways, and another that may fill the tracker, whose
limit is one; caps of one and two, so that a driver's event is dropped where a fetch still
finds room; three stamps, an inbound clock of 3 and a ceiling of 6, so that the clock
gets there. A second request of the same kind would share only clock and capacity
with the first.

### BodyCapture and PayloadSpool

A chunk is the name of the body it belongs to, so that bytes in the wrong place can be
seen. `acc` is every accumulator ever made, `pool` the released ones, `body[b].acc` what
the handler of a stream holds and `slot[b].state` what the slot holds: the two references
the code must keep together. `spool` is a value with the operations of `PayloadSpool`.

| Action | Code |
|---|---|
| Begin, Attach, Chunk | `capture...Request`, `capture...Response` and the listeners of a stream |
| EndBody, EndAgain, FailStream, SkipOutbound | the ways a body ends |
| SlotDone, ReleaseSlot | the call is done; its slot is released or compacted |
| CaptureBody | `materializeBody()` at error capture, with a spool under any pressure |
| CompleteRequest, PassTtl | `markRequestComplete`, `sweep` |

A handler that still holds an accumulator which somebody else released (a capture, a
release of the slot, or a second `end()` while a body is under way) is a defect of the code,
shown by `bodies_own`; `hist.broken` marks these states, `Isolated` and `WholeOrTruncated`
exclude them, and `recording` does not go on from them.

Bounds: a body of each of five kinds beside the body of a request of http.request, three chunks over a limit
of one (two when spooled), a pool of two, and a spool of three bytes, which two blobs fill.

### OutboundRecorders

`queue` is pendingFetchResolvers, `slots` what undici's recorder made. `Enter` is
`patchedFetch`; a fetch dispatches as it is called, later, or never (a url that does not
parse, a request answered from elsewhere). `Redirect` and `DirectCall` make slots that
no fetch waits for. `BindTimeout` and `SettleFetch` are the two ways out of the queue.

The queue is shifted by whatever is dispatched next, so a fetch that does not dispatch at
once leaves every later one a slot off: `amid` marks these, `OwnSlot` speaks of the others.

Bounds: three fetches, two of one url, and three slots.

### DriverPatches

Two parts that share the module. Wrappers: `fns` are the functions a method was ever set
to, each with its predecessor; two instances of the SDK and other tools wrap and unwrap in
turn (`Install`, `UnwrapAll`, `OthersWrap`, `OthersUnwrap`). Queries: `Ask`, `SendPooled`,
`FinishQuery` for clients, pools and pipelines of six drivers in the shapes in which each may
be called; `active` is activePoolQueries, by which a query through a pool is not
recorded twice.

Bounds: two instances and five functions; two queries of the same text in two contexts.

### InspectorManager and LocalsCorrelation

`dbg` is the session: armed or not, the idle timer, the interval of one second. `guard` is
the localsGuard. `ring`, `tags`, `nextId` are the captured locals; `answer` and `given` are
the last lookup and, as history, what was handed out.

| Action | Code |
|---|---|
| EnsureDebuggerActive, Rearm | arming, also after a recovery |
| ApplyModeState | a mode switch |
| Paused | `_onPaused`, with `recordPauseWallTime` |
| GetLocals | `getLocalsWithDiagnostics` and the consumption of the entry |
| Second | the interval: `evaluatePauseRateGuard`, `evaluateGuardRecovery`, the age of entries |
| IdleTimeout, ShutdownInspector | `deactivateAfterIdle`, `shutdown()` |

`LocalsCorrelation` holds the ring and the cascade: by tag, then by ever looser keys. Bounds:
two objects of one class, one of them frozen (it takes no tag), a ring of one or two entries,
two collections a second, and a guard that trips and recovers after two seconds.

### CaptureAdmission

`recentCaptures` is the Map of anchors, with the order of its keys; `limiter` the
timestamps and the drops that the next package will report. `Suppress`, `RateLimited` and
`Admit` are the three outcomes of `capture()` before it builds anything. `seen` is history.
Bounds: two keys, one anchor (so that an anchor is lost), two captures per window of two,
five captures within five ticks.

### SourceMapCache

`disk` is what deployments write, `cache` and `keyOf` the two Maps of the resolver, `warms`
the files that wait to be loaded in the background. `Resolve`, `ResolveCacheOnly` and `Warm`
are the three users; `Deploy` is another process and may even fall between the read of a
map and the question for its identity (`Meanwhile`), where it replaces the map or removes it;
a map that is gone then has no identity (`NoIdentity`, null in the code), which
`isCacheIdentityCurrent` takes for current ever after. A read may fail as well, of the map or
of the file that names it (`Reads`), and is cached as corrupt or missing. A stamp stands for
size and mtime: a write that keeps both is not seen by the code, and not modelled. Bounds: two
files of one map in three arrangements, two deployments or one and an hour, two entries of which
one may be a consumer.

### What computes

These modules have no state. Each defines what the code computes and a property that quantifies
over its result; `MCCapturing` makes every input of a bounded set a state whose one step
computes the result.

| Module | Code | Property, inputs |
|---|---|---|
| `FrameSelection` | `selectInspectorFrames`, `analyzeStackOwnership`, `mergeSupplementalLocals` | SelectionSound, stacks of up to three frames |
| `LocalNames` | `resolveLocalNames` | NamesSound, up to three locals and two mappings |
| `Sanitizing` | `cloneAndLimit`, `cloneAndScrub` | CloneSound, ScrubSound, graphs of three nodes, shared and cyclic |
| `CapturedFields` | `scrubBodyBuffer`, `HeaderFilter`, `Scrubber.process` | BodySound, FieldFailsClosed; bodies value by value, each under a key, as a field or as an assignment |
| `PackageBuilding` | `PackageBuilder.build`, stage by stage (`BuildStages`), and what of it is sent | PackageSound, timelines of up to three events |
| `ModeResolution` | `resolveModeState`, `resolveConfig`, `applyModeStateToConfig` | ModeSound, every pair of options, paths of two switches |
| `KeyChain` | envelopes, signed lines and fields under a chain of keys, symbolically | RotationSound, two versions of the envelope, the SDK and the derivation |
| `Ingest` | `receiveIngestEnvelope`, `receiveWebhookBatch` | IngestSound, honest and dishonest envelopes |

## 4. Fairness

Safety is checked under `Spec`, liveness under specifications that say what is sure to
go on, and no more:

| Specification | Fair | Because | Not fair |
|---|---|---|---|
| `TransportDispatcher!TimedSpec` | `Worker`, `Main`, `Timer` | an event loop handles messages and setImmediate callbacks that are due, a file operation ends, an armed timer fires | calls, the crash of the worker |
| `FileLock!FairSpec` | `Step(p)` for each process | a process that is scheduled goes on with its next system call; acquireLock() blocks its thread meanwhile | new uses of the lock, deaths |
| `FileRotation!RotFair` | `RotStep` | a file operation ends, well or not | new sends |
| `HttpDelivery!HFair` | `Progress` | each leg of an attempt has a deadline, the delay between attempts is a timer | that it goes well, new sends, the session's end |
| `CaptureModeController!FairSpec` | transitions, microtasks, the timer of the evaluation, the two clocks, the teardown | continuations run; a flush and the worker's acknowledgement end (both have a time-out); time passes | captures, choices, activation, shutdown |
| `CaptureDelivery!Fairness` | the end of a send (not in a transport worker that the shutdown has closed), the time-out of an assembly, the awaits of a flush and of the shutdown, the time-out of a teardown, the steps of a mode switch | every transport bounds a send; the dispatcher arms a timer for whatever it asks of a worker | the worker's answers, its exit, captures, flushes of the application, the shutdown |
| `RequestContexts!RFair` | `SweepExpired`, `Age`, `OnRemove` | time passes, and the timers of the tracker run while the SDK does | everything the client and the application do: a request may stay open for good |
| `InspectorManager!IFairness` | `Second`, `IdleTimeout` | an interval ticks, an armed timer fires | throws, lookups, mode switches |

All of it is weak fairness. In `CaptureDelivery` the worker is never fair: a shutdown
that ended only because a worker answered would be an error of the code, and the
mutant of `ShutdownEnds` is one. Weak fairness is enough: what the code has begun stays
enabled until it is taken, and a tick of the evaluation that finds transitions waiting
comes again. `FileRotation` and `HttpDelivery` take one fairness condition for all
progress: which of several sends goes first does not matter, for a run has a bounded number
of them and each has a bounded number of steps.

A run that checks several modules carries the fairness of each of them; where a part
rests its actions are never enabled, so their fairness says nothing there. `MCStorage`
is taken up to symmetry and therefore checks no liveness.

## 5. Proofs

The theorems hold for all values of the constants that satisfy the assumptions named beside
their declarations. Most say no more than that numbers are natural, that a capacity is not
zero and that the values which stand for null are not values. Three say more:
`ModeAssumption` and `BoundAssumption` of the mode controller, that base and escalated mode
differ and that at least one switch an hour is allowed (`resolveAdaptiveCaptureConfig` refuses
anything else where the policy is enabled); `LineAssumption`, that an initial dead-letter file
holds no payload twice (each is stored under an id of its own);
`SizeAssumption`, that batch, queue and attempts of the webhook are at least one
(`src/config.ts:695` demands it).

Three devices recur. What takes some elements out of a sequence and keeps their order (a file
rewritten, a ring or a cache pruned) is a set with one member, `Kept` of `Orders`: that what is
left is a sequence again is part of what it says and needs no induction. Where a proof needs a
smallest element or an order of a finite set, it comes from the library's theorem that strict
inclusion of finite sets is well-founded (`MinimalSet`, `LeastElement`, `AscendingExists`): the
set of counterexamples would have a smallest member. And so do sums: `DataLemmas` proves of the
fold that the accounts are written with (bytes of a ring, of a spool) that it is a number
(`SumNat`), what it becomes when a term comes, goes or changes (`SumWith`, `SumWithout`,
`SumChanged`), and that it grows with the set (`SumMonotone`), each by a smallest set of
which it fails.

**IOEventBufferProofs.** `RingCorrect`, of which `TypeCorrect`, `CountCorrect` and
`WindowCorrect` are the parts: slotCount is
always the number of slots in the ring, and each lies in readHead .. writeHead - 1.
The two are not inductive apart: an eviction decrements the count by one for the slot
at the cursor, so the count is right only if no object sits in two slots; the search
for a victim succeeds only if the window covers what is there. `RingOK(r)` says all of
this of a ring; the inductive invariant `IInv` adds the types and that no slot of the
ring is younger than the clock, so that a push never meets its own slot. `WithoutOK`
is the lemma everything rests on: taking slots out and moving readHead no further than
the first slot that stays keeps RingOK. `EvictIndexOK`, `EnforceOK` (an eviction of the
budget, with the existence of the cursor from `BudgetCursorExists`) and `ReleaseHeadOK`
are its uses and `InsertOK` is the push; then one lemma per action.
`BytesAreCounted` adds `BytesInv`: until something is cleared or materialized the WeakSet of
stored slots is the ring, which is what tells a late backfill whether it counts, and then
payloadBytes is the sum. `ReadsAreSound` needs `OrderInv`: as long as no release has left a hole
the window is no longer than the ring, there is a slot at every cursor, and they ascend; a
cursor is taken modulo the capacity, so the two facts of division it rests on (`ModOf` and
its neighbours) are proved by a least counterexample. `NoLossIsSilent` is an action property: what an
eviction takes is counted and, unless more goes at once than the log holds, logged
(`EvictionsAreLogged`, `OrdersOf`).

**DestinationsProofs**, the lock. `TypeCorrect` for any number of processes needs `LoopBound`: a process
still in its loop has attempts left. `LockExcludes` and `LockIsFreed` come from `LInv`:
a lock is found stale only after a death (`StaleMeansDeath`), and until then `Facts`:
nobody is in a removal it should not be in, at most one process claims the directory
(it is between its mkdir and its rmdir), claiming means that the directory exists, an
existing directory is claimed by a process or by one that died, and the pid inside is
of the one that claims. `OwnerHolds` says the same of the owner file, deaths or not: who lives
and stands in it is between writing and removing it. Facts cannot be kept past a stale removal, which is where the
code's lock stops being one (section 6).

**CaptureDeliveryProofs.** `TypeCorrect` carries what ties three objects together: a package
is assembled exactly while some dispatcher has a request for it, and captures are
never given to a dispatcher under teardown. `SentOnce` follows from `SentInv`: a
package not yet given to the transport has no send and any other at most one,
since packages only move forward (`Advance`, proved once for all actions in `Step`).
`FlushCoversCaptured` uses `CoverInv`: while a flush settles, what it covers and is still
assembled is in its snapshot; after that nothing it covers is assembled or held back,
whichever flush took it; and what it covers and is still being sent it waits for in
`transport.flush()`, on the main thread, or has not seen being sent, beside a transport worker.
`AdmittedSettled` uses `ShutInv`: once admission is closed the last flush covers everything
`captureError()` let in. What may then still be on its way beside a transport worker needs two
more facts: `Attended`, that whoever owes an answer to a request is attached or being torn
down, so that nothing is assembled any more when the last flush begins; and `LastInv`, that what
the last flush covers and is being sent it has seen, or a flush() of the host has dispatched it
and waits for it.

**TransportDispatcherProofs.** `Inductive` proves `TIInv`, six groups of facts of the
dispatcher with any number of calls. The worker and the queue of the main thread are never
in use at once, and a thread that has ended holds nothing (`Phases`); what waits in each
place is of one kind (`Kinds`); who has not settled is awaited there (`Awaited`, `NoOrphan`);
what the worker has not run it has not written (`Writes`); what it answered with success it
has written or synced (`Answered`); without a worker, a call that waits for a sync has no
unsettled send before it, and the calls of shutdown share one promise (`Shared`).
`DispatcherIsSound` and `FlushIsCovered` are parts of it. The step that moves everything
from the worker to the queue (`fallbackToMainThread`) is the hard one: it orders the pending
calls (`InOrderSound`), refuses what does not fit and must leave each in one place.
`RefinesContract` takes each action of a dispatcher without a worker to a step of
`TransportContract`: an enqueued send to a call; an overflow to a call that refuses others
(`CallRefusing`); the end of the queue with its waiters to one `SyncAndResolve` of them all.
With a worker the mapping shows an idle transport, as in section 3.

**CapturingProofs**, the modes. `ModesFit` and `ChoiceStands`, for any modes and any number
of choices and captures, from `CIInv`. That the mode fits its phase when all is done is true
only if each waiting point of a transition is described: what it has already switched, and
what it installs when it goes on (`PhaseFits`, `Installed`). That the newest choice stands
needs the order of the queue (`Ordered`: a choice is newer than all before it), that the
newest is there as long as any choice is (`NewestWaits`), and that no wish of before it has
its generation (`OlderWishes`). `Limited` is the surprise: the limit of switches an hour
leaves a phase "pinned", which only a choice of the application ends, so the switches are
bounded by the limit and the choices together. Of that the bound in TypeOK follows.

**StorageProofs**, dead letters. `NothingLost`, `NothingTwice`, `DepthIsSound`, from `DIInv`.
`Bookkeeping` holds whatever happens; `Undisturbed` until something moves lines under a
drain: then at most one drain is under way, and it `Knows` the file: its lines are where
its snapshot saw them, and any other payload among them was delivered, failed, or lies past
its batch. That is what makes it right to remove the first n lines. `DeliveredOnce` holds as
long as whoever delivered a payload that is still in the file remembers it (`Remembered`:
acked, or processed by the drain under way). `CountBounded` is inductive by itself, given
these; its lower bound only while no count began in a file that could not be read. `LineAppended`, `ClearedShrinks` and `StepFits` say once what an append, a clear and a step
of a drain do to all of that; then one lemma per action.

**StorageProofs**, the webhook. `StoredIsSafe`, `NothingIsForgotten` and `QueueIsSound`, from
`WIInv`: the limits of queue and batch, nothing under way in a process that has ended
(`Stopped`), and that a flush under way has what it covers in sight, or tried, and that every
batch posted while it goes on was begun after its call (`Covered`). Queues are cut and joined
(`Halves`, `Joined`, `Queued`), records removed (`AckedRemoved`); a rotation takes records to a
backup, and a backup goes only when `MaxBackups` newer ones are there.

**CapturingProofs**, the inspector. `InspectorIsSound`: whatever the order of throws, lookups, mode
switches, trips and recoveries of the guard and the shutdown, the debugger is armed only
while it is configured and not tripped, with an idle timer that will disarm it, and ring and
guard keep their bounds. `ArmedIsBounded` alone is not inductive; `Sound` adds what it
silently rests on. Who arms looks at `available` only, so that it has to follow the
configuration; a recovery makes the manager available again, so the interval that recovers
guards has to end with the manager; and a session that fails to open makes the manager
unavailable, so that none may have been open before.
`LocalsAreTheirs` is an action property: locals found by the tag of an object are its own, and
no entry is handed out twice. It needs `RingInv`: every entry has an id that was allocated
and not handed out, which no other object has as its tag. All that pushing, pruning, resizing
and consuming do to the ring is to keep some of its entries (`Orders`), and the cascade of
looser keys finds an entry of the ring or none.

**DestinationsProofs**, HTTP. `EndsInBudget`: a payload is settled no later than two time-outs
after its budget, for any budget, time-out and delays. The invariant `PostInv` says when a
leg may begin: an attempt begins within the budget and has two legs (HTTP/2, then
HTTP/1.1), of one time-out each. `PostedOnceEach`: no more copies of a payload than
attempts, each over one protocol, none after a final answer, and no success without a
post; copies are counted with the attempt under way, none of it before a protocol is
chosen, so that a fallback does not post a second time.

**DestinationsProofs**, the file. `FileStaysBounded` and `LinesAreKept` from `RotInv`. Each file
is at the path or was renamed, once (`FilesOnce`). The size is bounded by an account of who
will still append: the lines at the path and the sends that are past their look at its size
(`Coming`) are together no more than the limit and the sends in flight (`Roomy`); a send may join
`Coming` only while the file is small enough, or as one of those that a rotation let go on to a
fresh one. What is kept needs the names: until two rotations went for one file, one
send rotates at a time with a name later than those of all backups, names are in the order of
the renames, and a file without a backup is behind maxBackups others (`Ordered`); an append and
the cleanup of old backups move neither. `DestinationsAreSound` puts the three destinations
together, under the specification of the run.

**RecordingProofs**, contexts. `StampsAreCausal` and `ContextsAreSound` from `RInv`: the clock is
past every stamp and past what came in with every trace that was read, stamps grow, what was
compacted is in no context any more (`Sound`), and what each kind of host
has hung on a context fits how far its request is (`Own`): which listener is armed, which
hook waits, when the tracker may still hold it, and that nothing an open request called has
left its context, or was kept out of it while there was room. A step concerns one request (`Concerns`), so that `Own` of the others stands.

**RecordingProofs**, bodies and the spool. `BodiesAreSound` and `SpoolStaysBounded` from
`BodyInv`. Types and the account of the spool (`SpoolOK`, whose sum rests on `DataLemmas`) hold
always; the rest until a body is cut into (`hist.broken`): a slot or the pool refers to
an accumulator alone (`Unshared`), a handler that holds one shares it with its own slot
(`Handled`), what is collected and shown of a body are its own chunks, and what is missing is
marked (`Collects`, `Shows`). The byte that a spooled body may exceed the limits by is that of
scrubbing, which runs after the check; that an accumulator never holds more chunks than bytes
is what bounds it.

**RecordingProofs**, fetch and drivers. `FetchesHaveTheirOwnSlot`: a fetch that waits in the queue
waits amid others or is at its end, and one that did not is bound to the slot it dispatched
(`Bound`). `WrappersAreSound`: a wrapper that is on is the one the store knows, and what a
function wraps is older than it, so that a call ends at the driver (`WInv`). The chain itself is
written without recursion, as the functions reached by a path that descends.
`QueriesAreRecorded`: the count of pooled queries under way is, per context and statement, the
number of queries that wait in it (`Counted`), which is what decides whether the client
below the pool records (`QInv`).

**CapturingProofs**, admission. `AdmissionIsSound` from `AIInv`: what a package leaves behind, an
anchor, is there, or was pushed out, or its window is past (`Left`); the limiter has a
timestamp for every package in any window that still matters (`Covered`, a comparison of two
cardinalities for each start of a window, from which `NoFlood` follows for the windows that have
passed); and the drops after each package are those its successor sums up (`Summed`).

**CapturingProofs**, source maps. `MapsAreSound` from `MapsInv`: entries are named after what was
read of their map, each name once (`NamedAfter`, `OneEach`); a path leads to a name of its own
map or to none, and back (`Owned`, `Led`, `Sought`); and the identity an entry has is that of
its content or was given to it while the map was replaced (`Dated`), so that an entry whose
identity is still current holds what is on disk. `DeleteSound` and `AppendSound` say what
goes from and comes to both Maps at once; that there is room after an eviction needs the
entry that is oldest, and that there is one (`OldestExists`).

**Only model-checked.** All liveness (`AcquireEnds`, `CallsSettle`, `SwitchesEnd`,
`ShutdownEnds`, `Untracked`, `GuardRecovers`): it needs fairness and ENABLED,
which the prover does not have. And `Shown` and `Wired`, which speak of what is computed:
`Sanitizing` is recursive over data, and the other modules that compute are folds whose
value is the question, not a sum that can be bounded, so that each would be an
induction over its input. Every other property that a passing run checks is proved as well.

## 6. Where code and words disagree

Six disagreements have a run whose counterexample is the disagreement; `PROJECT.json`
quotes the line and tells the story.

- `buffer_release_order`: a release leaves a hole under readHead, and `drain()` then
  returns the newest event first and again last. Without a release the order holds
  (`DrainIsChronological`).
- `transport_flush_crash`: a flush that is pending when the worker dies resolves with
  no fsync. While the worker lives a flush covers what was accepted before it.
- `dead_letters_two_drainers`: the startup drain and a recovery drain cut one file by
  the line numbers of two snapshots; a package is removed that nobody sent.
- `mode_window`: an evaluation queued behind a manual escalation undoes it at once.
- `delivery_behind`: the process handlers do not ask whether admission is closed; their
  package stays in the buffer of a deferred mode when the SDK is shut down.
- `bodies_own`: an error captured while a body is under way releases its accumulator to
  the pool, the handler goes on with it, and the next body gets the same one.

Six more have a configuration, with which TLC shows them:

| Property | Configuration | Said | Done |
|---|---|---|---|
| ShedHoldsLimit | `MCCapturingDocumented` | `spec/13-error-capture-pipeline.md:221`, `:282`: progressive shedding keeps a package under its size limit, state writes among what goes | `shedIfNeeded` gives up after bodies, an ambient timeline and state reads; locals and state writes stay (`src/capture/package-builder.ts:1002`). The default of maxTotalPackageSize, 5 MB, is above the hard cap of 1 MB, which does hold |
| FieldsSurvive | `MCCapturingDocumented` | `src/security/encryption.ts:46`: fields that an earlier SDK encrypted still decrypt | the additional data of a field binds the version of the SDK that reads it (`:176`, `:353`) |
| OpenIsTracked | `MCRecordingDocumented` | `spec/06-request-context.md:212`: a context is removed when the response finishes or its TTL expires | the `close` of a request whose body has been read removes it while the response is open |
| AmbiguityRefused | `MCCapturingDocumented` | `src/capture/inspector-manager.ts:698`, a comment: ambiguity at any step is refused | of several recent matches of the own request the newest is taken |
| RotationsSerialized | `MCTransportDocumented` | the comment on rotatePromise, `src/transport/file-transport.ts:23` | all that waited for a rotation start one of their own when it ends |
| IdleLetsExit | `MCTransportDocumented` | `spec/16-sdk-composition.md:204`: the SDK does not keep a process from `beforeExit` | an open HTTP/2 session is not unreferenced |

Others were met while modelling:

- `clear()` does not empty storedSlots (`src/buffer/io-event-buffer.ts:253`), so the late
  backfill of a cleared slot changes payloadBytes; `materializeBody`
  (`src/recording/body-capture.ts:1385`) changes estimatedBytes of a slot in the ring and
  does not tell the buffer. `spec/03-io-event-buffer.md:175` and `:161` promise otherwise.
  `BytesAccurate` therefore claims nothing after either.
- Handlers of the transport worker overlap (`src/transport/transport.ts:247`): a flush
  overtakes the appends of sends called before it, against `:327`. `FlushCoversWhileAlive`
  is about sends that were accepted before. `SDKInstance.flush` does not accept all of them first:
  it waits for dispatchPackageAssembly (`src/capture/error-capturer.ts:949`), which does not
  await its send (`:1088`), and not for the packages that another flush took. Beside a transport
  worker it may therefore end before such a package is delivered, and a shutdown may leave one
  with a flush() of the host; `FlushCovers` and `AdmittedSettles` say exactly that.
- A send after the shutdown of a worker is posted to a closed port
  (`src/transport/transport.ts:608`) and never settles, against `:322`.
- A stale lock is recognized in one step and removed in another
  (`src/transport/file-lock.ts:168`): of two processes that find the same dead owner the
  slower removes the lock the faster has just made, and both hold it, against
  `src/transport/dead-letter-store.ts:220`.
- `errorcore drain --dry-run` calls `store.drain()`, which takes the lock
  (`bin/errorcore.js:696`), against `OPERATIONS.md:301`.
- `deliveryDiagnostics.deadLettered` is read and reset, never incremented
  (`src/capture/error-capturer.ts:451`): EC_PAYLOADS_DEAD_LETTERED
  (`src/sdk.ts:846`) is never given.
- `OPERATIONS.md:38` names a time-out of 5 seconds for in-flight captures at shutdown;
  `ErrorCapturer.flush` has none of its own.
- `spec/16-sdk-composition.md:164` lists a handler of `exit` with a synchronous flush;
  there is none, and nothing calls `sendSync`.
- `LocalEventStore.remove` rewrites the file in place
  (`src/transport/local-event-store.ts:160`): a process that ends in between loses records
  nobody acknowledged, against `DB.md:271` ("never loses the local copy").
  `StoredUntilAcked` sets these apart, and the records of pruned backups: every rotation unlinks
  the backups beyond five (`:183`), with whatever nobody has acknowledged in them. Records in
  rotated backups are never read again, and what is loaded at the start waits for the first send
  or flush.
- The count of dead letters begins at 0 when the file cannot be read
  (`src/transport/dead-letter-store.ts:498`) and stays too low until the process ends;
  `CountBounded` then claims its upper bound only.
- A context takes no more than 500 events, or bufferSize of a driver
  (`src/recording/utils.ts:57`): the calls after that are missing from its timeline, and
  nothing counts them. `TimelineKept` speaks of the calls that found room.
- The file transport's flush opens the path anew (`src/transport/file-transport.ts:64`):
  after a rotation it syncs the new file and not the one a line was written to.
- HTTP: a stream that times out leaves its session, so that behind a peer that fell silent
  every later attempt times out as well; "auto" falls back to HTTP/1.1 on any failure to
  connect, not only where HTTP/2 is not spoken (`OPERATIONS.md:183`, `SETUP.md:105`); a payload
  may be posted twice when a session is told to go away after the request was taken.
- Bodies, beyond `bodies_own`: a second `end()` finalizes an accumulator that was released; a
  chunk after the digest was closed throws into the write of the application; the spool
  checks its limits against the size before scrubbing and accounts for the size after; a blob
  stored after its request was marked complete is never swept. `Isolated` and `SpoolBounded`
  name what they set apart.
- A context first used after its client went away is tracked until the sweep
  (`attachLazyRequestLifecycle`); `EndedNotTracked` sets it apart.
- The inspector stamps locals without merging the caller's clock
  (`src/capture/inspector-manager.ts:1554`), so that they may lie before what caused them;
  `CausalOrder` sets them apart.
- The queue between fetch and undici is shifted by redirects and by direct calls of undici,
  and not by a fetch that never dispatches: the fetches behind get each other's slots.
- Drivers: when one instance of the SDK uninstalls, the wrapper of another goes with it; the
  commands of a pipeline are recorded twice, as is a pooled query that is sent from another
  context; the slot of a pg stream is never finished.
- Packages: state reads that are shed are not named in `droppedFields`; the manifest
  of payloads is built before the last sheds; the hard cap looks at an estimate of the
  plain text. `PackageSound` says what does hold.
- Source maps: a map that is replaced between the read and the question for its identity
  is served under the new identity until the next deployment; one that is removed in between
  has a null identity (`src/capture/source-map-resolver.ts:1063`) and is served until it is
  evicted, whatever is deployed later (`MapIsCurrent` sets both apart). A file known to have no
  map, or one that could not be read, is not looked at again until the TTL or, if there is a map,
  until it changes; `sourceLinesCache` is never invalidated.
- Bodies are scrubbed by their keys only where they are walked. A JSON body that does not parse
  (cut at the size limit, say) goes to the text scrubber, whose assignments
  (`src/pii/scrubber.ts:348`) never match a quoted key: `{"password":"x` keeps its value unless
  that matches a pattern. An operational key (`idempotency-key`, `etag`, ...) passes everything
  nested under it in JSON, other keys included, and its own value in a form even where it matches
  a pattern (`:617`, `:714`). `BodySound` says what holds beside these.
- Deduplication: an anchor that is renewed keeps its old place in the Map
  (`src/capture/error-capturer.ts:597`), so the most recent may be the one that goes.

## 7. What is not modelled

Left out of the modules there are:

- in `IOEventBuffer`, contextLost (every recorder sets it to "no request") and the
  content of events;
- in `DeadLetterDelivery`, the choice of a signing key, the pruning of backups, short writes, a count begun while
  `errorcore drain` rewrites the file; a send
  that failed is one that was not delivered, so the usual at-least-once of an answer
  that got lost is not counted as a duplicate;
- in `FileLock`, the reuse of a pid;
- in `FileRotation`, flush and its fsync;
- in `HttpDelivery`, more than one payload at a time, headers, certificates;
- in `CaptureModeController`, what a mode captures (that is `ModeResolution`), and callbacks
  that throw;
- in `CaptureDelivery`, deduplication and rate limit (`CaptureAdmission`; a member of Packages
  has passed them), payload blobs, the recovery drain as a promise a flush waits for, a flush
  that the dispatcher refuses because too many wait, and the forced exit after an uncaught
  exception;
- in `WebhookDelivery`, a second process on the same store, the jitter and the time-out of a
  request, and a clock that is set back (backups are sorted by the time in their names);
- in `RequestContexts`, AsyncLocalStorage (a call knows its request), proxies around tracked
  containers and their caps, the inbound event that a package shows when the timeline is empty;
- in `DriverPatches`, the text and the parameters of queries;
- in `InspectorManager`, the walk over the scopes of a frame and the rendering of values;
- in `TransportDispatcher`, `sendSync`, which nothing calls.

Not modelled: the watchdog worker and the flush of a serverless invocation against a frozen
process; the index the dashboard keeps of a growing file; sockets and DNS (one slot each,
pushed complete); stdout. Not worth modelling here: text whose correctness is a matter of
examples (scrubbing patterns, header names, descriptions of frames), cryptography and
compression of the platform, the decoding of source maps, presentation of the dashboard,
and the tools beside the SDK (`bench`, `harness`, `perf`, `scripts`).

## 8. Plan

Done, in this order: the ring (where every recording goes), the transport with its
contract, the lock and the dead letters (where captures survive), the mode controller,
capture and delivery (where all of them meet), the webhook store; then request contexts,
bodies and the spool, fetch and undici, drivers; the inspector, admission, source maps and
what computes a package; the file and HTTP transports. Of all of them, the safety properties
the runs check are proved (section 5).

Next:

1. An abstract specification of the locals (armed or not, and why) and of admission (at most
   one package per key and window), implemented by the modules there are.
2. The watchdog and the flush of a serverless invocation.
3. The caps of the state tracker; the incremental index of the dashboard.
4. `FileRotation` and `HttpDelivery` composed with `TransportDispatcher`, instead of beside it.
