--------------------------- MODULE DeadLetterDelivery ---------------------------
(***************************************************************************)
(* The dead-letter file and everything that reads and rewrites it:         *)
(* DeadLetterStore (src/src/transport/dead-letter-store.ts), the live      *)
(* dispatch and the recovery drain of ErrorCapturer, the startup drain of  *)
(* SDKInstance and `errorcore drain`, another process.  An operation of    *)
(* the store holds the lock of FileLock, so it is one step here, and it may*)
(* fail to get the lock.  Sends are asynchronous: whatever happens between *)
(* two sends of a drain may change the file under its line numbers.        *)
(***************************************************************************)
EXTENDS Integers, Orders

CONSTANTS
  Payloads,       \* the packages of the run, by id
  Marker,         \* a failure marker line
  Bad,            \* a line whose signature does not verify
  InitialFiles,   \* what earlier runs may have left in the file
  MaxLines,       \* maxSizeBytes, in lines
  MaxDrain,       \* maxDrainOnStartup
  MaxDeliveries,  \* bound on the deliveries of one payload
  MaxExits        \* bound on the exits and deaths of the SDK's process

Attempts == 3 \* the length of DLQ_RECOVERY_DRAIN_DELAYS_MS
Null == -1    \* pendingPayloadCount === null

Lines == Payloads \union {Marker, Bad}

ASSUME LineAssumption ==
  /\ Marker \notin Payloads /\ Bad \notin Payloads /\ Marker # Bad
  /\ InitialFiles \subseteq Seq(Lines)
  /\ \A q \in InitialFiles : \A j, k \in DOMAIN q : q[j] = q[k] /\ q[j] \in Payloads => j = k
ASSUME DrainAssumption ==
  /\ MaxLines \in Nat \ {0} /\ MaxDrain \in Nat
  /\ MaxDeliveries \in Nat \ {0} /\ MaxExits \in Nat

VARIABLES
  file,         \* the lines of the dead-letter file; no file is no lines
  rotated,      \* payloads in the backups, kept or pruned; nothing reads them
  stored,       \* payloads the store has accepted
  dispatched,   \* payloads that were sent or stored or dropped
  deliveries,   \* how often the transport accepted each payload
  up,           \* the SDK is active
  acked,        \* ackedPayloadIds
  count,        \* pendingPayloadCount
  failedSince,  \* transportFailedSinceLastSuccess
  recovery,     \* the attempt of deadLetterRecoveryDrain, 0 when it is null
  startup,      \* the drain of drainDeadLetters that is under way
  draining,     \* the drain of drainDeadLettersOnce that is under way
  cli,          \* the drain of the CLI that is under way
  exits,
  happened      \* history, see Mishaps

disk == <<file, rotated>>
sdk == <<up, acked, count, failedSince, recovery, startup, draining>>
drainvars == <<disk, stored, dispatched, deliveries, sdk, cli, exits, happened>>

(* overlap: the startup drain and a recovery drain were under way at once;  *)
(* cli: the drain of the CLI and one of the SDK were; cut: a rotation, a    *)
(* re-sign or a clear moved lines under a drain; torn: a clearSent lost     *)
(* lines to .clearing; kept: what was delivered stayed in the file for      *)
(* someone who cannot know; foreign: the CLI removed lines while the SDK    *)
(* counted them; unread: the count began at 0 over payloads because the file*)
(* could not be read.                                                       *)
Mishaps == {"overlap", "cli", "cut", "torn", "kept", "foreign", "unread"}

(* A drain: the entries it has not sent yet, the lines of its snapshot,     *)
(* whether it has all of them, the last line that was sent, and (of the CLI)*)
(* the lines that failed.                                                   *)
NoDrain == [left |-> {}, lineCount |-> 0, whole |-> TRUE, processed |-> 0, failed |-> {}]
On(d) == d.left # {}
AnyDrain == On(startup) \/ On(draining) \/ On(cli)
PayloadLines(skip) == {n \in 1 .. Len(file) : file[n] \in Payloads \ skip}

(* Types; pendingPayloadCount is never negative.                            *)
DTypeOK ==
  /\ file \in Seq(Lines)
  /\ rotated \subseteq Payloads /\ stored \subseteq Payloads /\ dispatched \subseteq Payloads
  /\ deliveries \in [Payloads -> 0 .. MaxDeliveries]
  /\ up \in BOOLEAN /\ failedSince \in BOOLEAN
  /\ acked \subseteq Payloads /\ count \in Nat \union {Null} /\ recovery \in 0 .. Attempts
  /\ \A d \in {startup, draining, cli} :
       /\ d.left \subseteq [line : 1 .. d.lineCount, id : Payloads]
       /\ d.processed \in 0 .. d.lineCount /\ d.failed \subseteq 1 .. d.lineCount
  /\ exits \in 0 .. MaxExits /\ happened \subseteq Mishaps

DInit ==
  /\ file \in InitialFiles /\ rotated = {}
  /\ stored = ToSet(file) \intersect Payloads /\ dispatched = stored
  /\ deliveries = [x \in Payloads |-> 0]
  /\ up = FALSE /\ acked = {} /\ count = Null /\ failedSince = FALSE /\ recovery = 0
  /\ startup = NoDrain /\ draining = NoDrain /\ cli = NoDrain
  /\ exits = 0 /\ happened = {}

When(condition, mishap) == IF condition THEN {mishap} ELSE {}
Note(mishap, condition) == happened' = happened \union When(condition, mishap)

--------------------------------------------------------------------------------
(* DeadLetterStore                                                          *)

(* drain(): the payloads that verify and are not acknowledged, with their   *)
(* line numbers, and the number of lines.                                   *)
Drained(skip) ==
  [NoDrain EXCEPT !.lineCount = Len(file),
                  !.left = {[line |-> n, id |-> file[n]] : n \in PayloadLines(skip)}]

(* ... and nothing at all when the lock is taken or, for the SDK, the file  *)
(* is larger than 10 MB.                                                    *)
Snapshots(skip) == {Drained(skip), NoDrain}

(* clearSent(n): the first n lines of the file go, whichever they are now.  *)
Cleared(n) ==
  /\ file' = SubSeq(file, n + 1, Len(file))
  /\ count' = IF file = <<>> THEN 0 ELSE Null
  /\ UNCHANGED rotated

(* An error inside: the file is restored, or, when the file has been made   *)
(* anew, the lines that were not written back stay in .clearing, which      *)
(* nothing reads and the next clearSent replaces.                           *)
Restored(before) == count' = before /\ UNCHANGED disk
Torn(n, before) ==
  /\ Len(file) > n
  /\ \E k \in n .. Len(file) - 1 : file' = SubSeq(file, n + 1, k)
  /\ Note("torn", TRUE) /\ count' = before /\ UNCHANGED rotated

(* It returns; only the exception of the lock leaves clearSent.             *)
ClearSent(n, before) ==
  \/ (Cleared(n) \/ Restored(before)) /\ UNCHANGED happened
  \/ Torn(n, before)

(* clearSent of a file in which there was nothing to send.                  *)
ClearUseless(n) ==
  \/ Cleared(n) /\ Note("cut", AnyDrain)
  \/ Restored(count) /\ UNCHANGED happened

(* Mutant: every line is counted, markers and what does not verify included.*)
InitialCountsOfLines == IF count = Null THEN {Len(file), 0} ELSE {count}

(* ensurePendingCountInitialized: the payloads that verify are counted, or, *)
(* when the file cannot be read, 0 is taken.                                *)
InitialCounts == IF count = Null THEN {Cardinality(PayloadLines({})), 0} ELSE {count}
Unread(n) == count = Null /\ n = 0 /\ PayloadLines({}) # {}

(* appendEnvelopeSync: a full file becomes a backup first (or, with no      *)
(* backups allowed, stays); a lock, disk or size problem stores nothing,    *)
(* perhaps after the rotation.                                              *)
Full == Len(file) >= MaxLines

AppendRotating(line, ok, added) ==
  /\ Full
  /\ rotated' = rotated \union (ToSet(file) \intersect Payloads)
  /\ file' = IF ok THEN <<line>> ELSE <<>>
  /\ count' = IF ok THEN added ELSE 0
  /\ Note("cut", AnyDrain)

AppendPlain(line, ok, before, added) ==
  /\ ok => ~Full
  /\ file' = IF ok THEN Append(file, line) ELSE file
  /\ count' = IF ok /\ before # Null THEN before + added ELSE before
  /\ Note("unread", Unread(before)) /\ UNCHANGED rotated

AppendLine(line, ok, before, added) ==
  AppendRotating(line, ok, added) \/ AppendPlain(line, ok, before, added)

(* appendFailureMarkerSync, when a capture fails.  Bound: one marker.       *)
AppendMarker ==
  /\ up /\ Marker \notin ToSet(file)
  /\ \E ok \in BOOLEAN : AppendLine(Marker, ok, count, 0)
  /\ UNCHANGED <<stored, dispatched, deliveries, up, acked, failedSince, recovery, startup,
                 draining, cli, exits>>

(* getPendingCount(), from the health metrics.                              *)
ReadPendingCount ==
  /\ up
  /\ \E n \in InitialCounts : count' = n /\ Note("unread", Unread(n))
  /\ UNCHANGED <<disk, stored, dispatched, deliveries, up, acked, failedSince, recovery,
                 startup, draining, cli, exits>>

(* reSignAll() of `errorcore drain --rotate`: lines that do not verify go.  *)
ReSignAll ==
  /\ Bad \in ToSet(file)
  /\ file' \in Kept(file, {n \in DOMAIN file : file[n] # Bad})
  /\ Note("cut", AnyDrain)
  /\ UNCHANGED <<rotated, stored, dispatched, deliveries, sdk, cli, exits>>

--------------------------------------------------------------------------------
(* ErrorCapturer.dispatchTransport: a package is sent, or stored.           *)

(* scheduleDeadLetterRecoveryDrain: one at a time, and only for a file.     *)
Schedule == recovery' = IF recovery = 0 /\ file' # <<>> THEN 1 ELSE recovery

LiveSent(x) ==
  /\ up /\ x \notin dispatched
  /\ dispatched' = dispatched \union {x}
  /\ deliveries' = [deliveries EXCEPT ![x] = @ + 1]
  /\ failedSince' = FALSE
  /\ UNCHANGED <<disk, stored, up, acked, count, startup, draining, cli, exits, happened>>
  /\ IF failedSince THEN Schedule ELSE UNCHANGED recovery

LiveFailed(x) ==
  /\ up /\ x \notin dispatched
  /\ dispatched' = dispatched \union {x}
  /\ failedSince' = TRUE
  /\ UNCHANGED <<deliveries, up, acked, startup, draining, cli, exits>>
  /\ \/ /\ stored' = stored \union {x} /\ \E n \in InitialCounts : AppendLine(x, TRUE, n, 1)
        /\ Schedule
     \/ /\ \E n \in InitialCounts : AppendLine(x, FALSE, n, 1)
        /\ UNCHANGED <<stored, recovery>>
     \/ UNCHANGED <<disk, stored, count, recovery, happened>> \* larger than maxPayloadBytes

--------------------------------------------------------------------------------
(* Drains.  The code after an awaited send runs in one step up to the next  *)
(* send; the answer to the last one includes the clearSent.                 *)

Current(d) == CHOOSE e \in d.left : \A other \in d.left : e.line <= other.line
IsLast(d) == d.left = {Current(d)}
Advanced(d) == [d EXCEPT !.left = @ \ {Current(d)}, !.processed = Current(d).line]

Deliver(x) ==
  /\ deliveries[x] < MaxDeliveries
  /\ deliveries' = [deliveries EXCEPT ![x] = @ + 1]

(* A drain of the SDK begins beside others.                                 *)
Began ==
  happened' = happened \union When(On(startup) \/ On(draining), "overlap")
                       \union When(On(cli), "cli")

(* Mutant: the whole file is cleared although the batch was cut.            *)
StartupClearsAll(d) == d.lineCount

(* How many lines a startup drain that sent its whole batch clears.         *)
StartupClears(d) == IF d.whole THEN d.lineCount ELSE Current(d).line

Upto(d, e) == {other \in d.left : other.line <= e.line}
Batch(d) ==
  LET first == {e \in d.left : Cardinality(Upto(d, e)) <= MaxDrain}
  IN  [d EXCEPT !.left = first, !.whole = (first = d.left)]

(* SDKInstance.activate(): drainDeadLetters.  Without a payload to send the *)
(* file is cleared at once; a lock that cannot be had then fails init().    *)
Activate ==
  /\ ~up
  /\ UNCHANGED <<stored, dispatched, deliveries, acked, failedSince, recovery, draining,
                 cli, exits>>
  /\ \E d \in Snapshots({}) :
       /\ startup' = Batch(d)
       /\ IF ~On(d) /\ d.lineCount > 0
          THEN \/ ClearUseless(d.lineCount) /\ up' = TRUE
               \/ UNCHANGED <<disk, count, up, happened>>
          ELSE /\ up' = TRUE /\ UNCHANGED <<disk, count>>
               /\ IF On(startup') THEN Began ELSE UNCHANGED happened

(* A startup drain that cannot have the lock ends; what it sent stays.      *)
StartupEnds(n) ==
  /\ startup' = NoDrain
  /\ \/ Cleared(n) /\ UNCHANGED happened
     \/ Torn(n, count)
     \/ UNCHANGED <<disk, count>> /\ Note("kept", TRUE)

StartupSent ==
  /\ On(startup) /\ Deliver(Current(startup).id)
  /\ UNCHANGED <<stored, dispatched, up, acked, failedSince, recovery, draining, cli, exits>>
  /\ IF IsLast(startup)
     THEN StartupEnds(StartupClears(startup))
     ELSE startup' = Advanced(startup) /\ UNCHANGED <<disk, count, happened>>

StartupFailed ==
  /\ On(startup)
  /\ UNCHANGED <<stored, dispatched, deliveries, up, acked, failedSince, recovery, draining,
                 cli, exits>>
  /\ IF startup.processed > 0
     THEN StartupEnds(startup.processed)
     ELSE startup' = NoDrain /\ UNCHANGED <<disk, count, happened>>

(* drainDeadLettersForRecovery: after each delay, drainDeadLettersOnce; an  *)
(* exception (the lock, in clearSent) ends it.                              *)
RecoveryDone == recovery' = 0 /\ failedSince' = FALSE
RecoveryThrows == recovery' = 0 /\ UNCHANGED <<failedSince, disk, happened>>
NextTry == recovery' = (IF recovery < Attempts THEN recovery + 1 ELSE 0) /\ UNCHANGED failedSince

RecoveryWakes ==
  /\ up /\ recovery > 0 /\ ~On(draining)
  /\ UNCHANGED <<stored, dispatched, deliveries, up, acked, startup, cli, exits>>
  /\ \E d \in Snapshots(acked) :
       /\ draining' = d
       /\ IF On(d)
          THEN UNCHANGED <<disk, count, recovery, failedSince>> /\ Began
          ELSE IF d.lineCount = 0
          THEN RecoveryDone /\ UNCHANGED <<disk, count, happened>>
          ELSE \/ RecoveryDone /\ ClearUseless(d.lineCount)
               \/ RecoveryThrows /\ UNCHANGED count

(* Mutant: what was sent is not remembered.                                 *)
AckedNone(x) == acked

Acked(x) == acked \union {x}

(* Mutant: the count is decremented whatever it is.                         *)
UncountedAlways(x) == IF x \notin acked THEN count - 1 ELSE count

(* The count after markAcked.                                               *)
Uncounted(x) == IF count > 0 /\ x \notin acked THEN count - 1 ELSE count

RecoverySent ==
  LET x == Current(draining).id
  IN  /\ On(draining) /\ Deliver(x)
      /\ acked' = Acked(x)
      /\ UNCHANGED <<stored, dispatched, up, startup, cli, exits>>
      /\ IF ~IsLast(draining)
         THEN /\ draining' = Advanced(draining) /\ count' = Uncounted(x)
              /\ UNCHANGED <<disk, recovery, failedSince, happened>>
         ELSE /\ draining' = NoDrain
              /\ \/ RecoveryDone /\ ClearSent(draining.lineCount, Uncounted(x))
                 \/ RecoveryThrows /\ count' = Uncounted(x)

RecoveryFailed ==
  /\ On(draining) /\ draining' = NoDrain
  /\ UNCHANGED <<stored, dispatched, deliveries, up, acked, startup, cli, exits>>
  /\ IF draining.processed = 0
     THEN NextTry /\ UNCHANGED <<disk, count, happened>>
     ELSE \/ NextTry /\ ClearSent(draining.processed, count)
          \/ RecoveryThrows /\ UNCHANGED count

--------------------------------------------------------------------------------
(* `errorcore drain`: it sends every payload and goes on after a failure.   *)

CliStart ==
  /\ ~On(cli) /\ On(Drained({}))
  /\ cli' = Drained({})
  /\ happened' = happened \union When(AnyDrain, "cli")
                          \union When(acked \intersect ToSet(file) # {}, "kept")
  /\ UNCHANGED <<disk, stored, dispatched, deliveries, sdk, exits>>

(* The lines that stay: those that failed and those that are new.           *)
CliKept(failed) == {n \in 1 .. Len(file) : n \in failed \/ n > cli.lineCount}

(* After the last send the file is rewritten in place under the lock, unless*)
(* that fails or the file is gone.  When nothing was sent it is, too.       *)
CliRewrite(failed) ==
  \/ /\ file # <<>>
     /\ \E lines \in Kept(file, CliKept(failed)) :
          \/ file' = lines /\ Note("foreign", up)
          \/ /\ \E k \in 0 .. Len(lines) - 1 : file' = SubSeq(lines, 1, k)
             /\ Note("torn", TRUE)
  \/ UNCHANGED file /\ Note("kept", TRUE)

CliNext(failed) ==
  /\ IF IsLast(cli)
     THEN cli' = NoDrain /\ CliRewrite(failed)
     ELSE cli' = [Advanced(cli) EXCEPT !.failed = failed] /\ UNCHANGED <<file, happened>>
  /\ UNCHANGED <<rotated, stored, dispatched, sdk, exits>>

CliSent == On(cli) /\ Deliver(Current(cli).id) /\ CliNext(cli.failed)
CliFailed ==
  On(cli) /\ UNCHANGED deliveries /\ CliNext(cli.failed \union {Current(cli).line})

(* It is interrupted.                                                       *)
CliDies ==
  /\ On(cli) /\ cli' = NoDrain /\ Note("kept", TRUE)
  /\ UNCHANGED <<disk, stored, dispatched, deliveries, sdk, exits>>

--------------------------------------------------------------------------------
(* The process of the SDK ends, at any point: what it held in memory is     *)
(* gone.  (Death in the middle of a clearSent is Torn, then Exit.)          *)
Exit ==
  /\ up /\ exits < MaxExits /\ exits' = exits + 1
  /\ up' = FALSE /\ acked' = {} /\ count' = Null /\ failedSince' = FALSE /\ recovery' = 0
  /\ startup' = NoDrain /\ draining' = NoDrain
  /\ Note("kept", On(startup) \/ On(draining) \/ acked \intersect ToSet(file) # {})
  /\ UNCHANGED <<disk, stored, dispatched, deliveries, cli>>

Store == AppendMarker \/ ReadPendingCount \/ \E x \in Payloads : LiveSent(x) \/ LiveFailed(x)
Startup == Activate \/ StartupSent \/ StartupFailed
Recovery == RecoveryWakes \/ RecoverySent \/ RecoveryFailed
Cli == ReSignAll \/ CliStart \/ CliSent \/ CliFailed \/ CliDies

DNext == Store \/ Startup \/ Recovery \/ Cli \/ Exit

DSpec == DInit /\ [][DNext]_drainvars

--------------------------------------------------------------------------------
(* Properties.                                                              *)

Safe(x) ==
  deliveries[x] > 0 \/ x \in ToSet(file) \union rotated

(* "Dead-lettered payloads are recoverable": what the store has accepted    *)
(* was delivered, or is in the file, or left it by a rotation.              *)
NothingIsLost == \A x \in stored : Safe(x)

(* It holds as long as no two drains overlap, nothing moves lines under a   *)
(* drain, and no clearSent is torn: the line numbers with which the three   *)
(* drains, each by its own rule, cut the file are right across failed sends,*)
(* failed clears, lines appended meanwhile, exits and restarts.             *)
Disturbances == {"overlap", "cli", "cut", "torn"}
NoLoss == happened \intersect Disturbances = {} => NothingIsLost

(* The two drains of one SDK, with no CLI, rotation or disk error beside    *)
(* them, lose nothing.                                                      *)
OwnDrainsLoseNothing == happened \subseteq {"overlap", "kept"} => NothingIsLost

(* No payload is delivered twice, even when clearSent fails after a recovery*)
(* drain, as long as everybody who delivers can know.                       *)
NoRedelivery ==
  happened \intersect (Disturbances \union {"kept"}) = {} =>
    \A x \in Payloads : deliveries[x] <= 1

(* deadLetterDepth, the gauge in the health metrics: never more than the    *)
(* payloads in the file, whether or not the file could be read when the     *)
(* count began; and, as long as it could, at least those that still have to *)
(* be sent.                                                                 *)
Uncountable == IF "unread" \in happened THEN Payloads ELSE acked
CountBounded ==
  count # Null /\ happened \subseteq {"kept", "unread"} =>
    count \in Cardinality(PayloadLines(Uncountable)) .. Cardinality(PayloadLines({}))

DepthSound == DTypeOK /\ CountBounded
================================================================================
