-------------------------------- MODULE FileLock --------------------------------
(***************************************************************************)
(* The sidecar lock of the dead-letter store and of the local event store  *)
(* (src/src/transport/file-lock.ts): a directory made with mkdir, with the *)
(* pid of its owner in a file inside.  Each action is one call of the file *)
(* system; the processes interleave between any two.                       *)
(***************************************************************************)
EXTENDS Naturals, FiniteSets

CONSTANTS
  Procs,       \* the processes that use the lock; a process is its pid
  Nobody,      \* no owner file
  MaxRetries,  \* MAX_RETRIES
  MaxCrashes,  \* bound on the processes that die
  MaxUses      \* bound on the calls of acquireLock by one process

ASSUME NobodyAssumption == Nobody \notin Procs
ASSUME BoundAssumption ==
  MaxRetries \in Nat \ {0} /\ MaxCrashes \in Nat /\ MaxUses \in Nat

VARIABLES
  dir,      \* the directory at lockPath exists
  owner,    \* the pid in its owner.json, or Nobody
  pc,       \* where each process is
  attempt,  \* iterations of the loop of acquireLock so far
  removed,  \* removedStalePid
  seen,     \* the pid read from owner.json
  uses,     \* calls of acquireLock so far
  staleSeen \* history: a process has set out to remove a lock as stale

vars == <<dir, owner, pc, attempt, removed, seen, uses, staleSeen>>
locals == <<attempt, removed, seen, uses, staleSeen>>

(* Why a process removes the directory: its owner file could not be written *)
(* because there was one (retry) or for another reason (abort), the owner   *)
(* is dead (stale), or it is the holder (release).                          *)
Purposes == {"retry", "abort", "stale", "release"}
Unlinking == [retry |-> "retryUnlink", abort |-> "abortUnlink",
              stale |-> "staleUnlink", release |-> "releaseUnlink"]
Rmdiring == [retry |-> "retryRmdir", abort |-> "abortRmdir",
             stale |-> "staleRmdir", release |-> "releaseRmdir"]

PCs == {"idle", "mkdir", "write", "stat", "read", "probe", "critical", "failed", "dead",
        "retryUnlink", "abortUnlink", "staleUnlink", "releaseUnlink",
        "retryRmdir", "abortRmdir", "staleRmdir", "releaseRmdir"}

(* Types; `attempt` never passes MAX_RETRIES, so acquireLock cannot loop on.*)
TypeOK ==
  /\ dir \in BOOLEAN /\ owner \in Procs \union {Nobody}
  /\ owner # Nobody => dir
  /\ pc \in [Procs -> PCs]
  /\ attempt \in [Procs -> 0 .. MaxRetries]
  /\ removed \in [Procs -> Procs \union {Nobody}]
  /\ seen \in [Procs -> Procs \union {Nobody}]
  /\ uses \in [Procs -> 0 .. MaxUses] /\ staleSeen \in BOOLEAN

Init ==
  /\ dir = FALSE /\ owner = Nobody
  /\ pc = [p \in Procs |-> "idle"]
  /\ attempt = [p \in Procs |-> 0]
  /\ removed = [p \in Procs |-> Nobody] /\ seen = [p \in Procs |-> Nobody]
  /\ uses = [p \in Procs |-> 0] /\ staleSeen = FALSE

Goto(p, label) == pc' = [pc EXCEPT ![p] = label]

Alive(p) == pc[p] # "dead"

--------------------------------------------------------------------------------
(* acquireLock                                                              *)

Acquire(p) ==
  /\ pc[p] \in {"idle", "failed"} /\ uses[p] < MaxUses
  /\ Goto(p, "mkdir")
  /\ uses' = [uses EXCEPT ![p] = @ + 1]
  /\ attempt' = [attempt EXCEPT ![p] = 0]
  /\ removed' = [removed EXCEPT ![p] = Nobody]
  /\ UNCHANGED <<dir, owner, seen, staleSeen>>

(* Mutants: the loop has no end; it gives up one attempt late.              *)
NextAttemptForever(p) == Goto(p, "mkdir") /\ UNCHANGED attempt
NextAttemptCounted(p) ==
  /\ attempt' = [attempt EXCEPT ![p] = @ + 1]
  /\ Goto(p, IF attempt[p] < MaxRetries THEN "mkdir" ELSE "failed")

(* The loop goes on, or gives up after MAX_RETRIES.                         *)
NextAttempt(p) ==
  /\ attempt' = [attempt EXCEPT ![p] = @ + 1]
  /\ Goto(p, IF attempt[p] + 1 < MaxRetries THEN "mkdir" ELSE "failed")

(* Mutant: an existing directory is taken for granted, as mkdir -p would.   *)
MkdirRecursive(p) ==
  /\ pc[p] = "mkdir"
  /\ dir' = TRUE /\ owner' = Nobody /\ Goto(p, "write")
  /\ UNCHANGED locals

Mkdir(p) ==
  /\ pc[p] = "mkdir"
  /\ IF dir
     THEN Goto(p, "stat") /\ UNCHANGED dir
     ELSE Goto(p, "write") /\ dir' = TRUE
  /\ UNCHANGED <<owner, locals>>

(* writeOwnerMetadata, with the flag wx: it fails when the directory is gone*)
(* or holds an owner file already, or for lack of space.                    *)
WriteOwner(p) ==
  /\ pc[p] = "write" /\ dir /\ owner = Nobody
  /\ owner' = p /\ Goto(p, "critical")
  /\ UNCHANGED <<dir, locals>>

WriteOwnerFails(p) ==
  /\ pc[p] = "write"
  /\ Goto(p, IF owner # Nobody THEN Unlinking["retry"] ELSE Unlinking["abort"])
  /\ UNCHANGED <<dir, owner, locals>>

(* readExistingLock: lstat, then the owner file, then kill(pid, 0).  What   *)
(* cannot be read counts as active.                                         *)
Stat(p) ==
  /\ pc[p] = "stat"
  /\ IF dir
     THEN Goto(p, "read") /\ UNCHANGED attempt
     ELSE NextAttempt(p)
  /\ UNCHANGED <<dir, owner, removed, seen, uses, staleSeen>>

ReadOwner(p) ==
  /\ pc[p] = "read"
  /\ seen' = [seen EXCEPT ![p] = owner] /\ Goto(p, "probe")
  /\ UNCHANGED <<dir, owner, attempt, removed, uses, staleSeen>>

Stale(p) == seen[p] # Nobody /\ ~Alive(seen[p])

Probe(p) ==
  /\ pc[p] = "probe"
  /\ IF ~Stale(p)
     THEN NextAttempt(p) /\ UNCHANGED <<removed, staleSeen>>
     ELSE IF removed[p] = seen[p]
     THEN Goto(p, "failed") /\ UNCHANGED <<attempt, removed, staleSeen>>
     ELSE /\ removed' = [removed EXCEPT ![p] = seen[p]]
          /\ staleSeen' = TRUE
          /\ Goto(p, Unlinking["stale"]) /\ UNCHANGED attempt
  /\ UNCHANGED <<dir, owner, seen, uses>>

--------------------------------------------------------------------------------
(* removeExistingLock: rm -r of whatever is at the path, file then          *)
(* directory, once more when the directory has been filled meanwhile.       *)

Removed(p, purpose) ==
  CASE purpose = "retry" -> Goto(p, "stat") /\ UNCHANGED attempt
    [] purpose = "abort" -> Goto(p, "failed") /\ UNCHANGED attempt
    [] purpose = "stale" -> NextAttempt(p)
    [] purpose = "release" -> Goto(p, "idle") /\ UNCHANGED attempt

Unlink(p, purpose) ==
  /\ pc[p] = Unlinking[purpose]
  /\ owner' = Nobody
  /\ IF dir
     THEN Goto(p, Rmdiring[purpose]) /\ UNCHANGED attempt
     ELSE Removed(p, purpose)
  /\ UNCHANGED <<dir, removed, seen, uses, staleSeen>>

(* Mutant: only the owner file is removed.                                  *)
RmdirSkipped(p, purpose) ==
  /\ pc[p] = Rmdiring[purpose]
  /\ Removed(p, purpose)
  /\ UNCHANGED <<dir, owner, removed, seen, uses, staleSeen>>

Rmdir(p, purpose) ==
  /\ pc[p] = Rmdiring[purpose]
  /\ IF owner # Nobody
     THEN Goto(p, Unlinking[purpose]) /\ UNCHANGED <<attempt, dir>>
     ELSE dir' = FALSE /\ Removed(p, purpose)
  /\ UNCHANGED <<owner, removed, seen, uses, staleSeen>>

(* Mutant: the work ends and the lock stays.                                *)
LeaveHolding(p) ==
  /\ pc[p] = "critical" /\ Goto(p, "idle")
  /\ UNCHANGED <<dir, owner, locals>>

(* fn() of withLockSync returns or throws.                                  *)
Leave(p) ==
  /\ pc[p] = "critical" /\ Goto(p, Unlinking["release"])
  /\ UNCHANGED <<dir, owner, locals>>

(* A process dies anywhere and leaves the directory as it is.               *)
Crash(p) ==
  /\ Alive(p) /\ Cardinality({q \in Procs : ~Alive(q)}) < MaxCrashes
  /\ Goto(p, "dead")
  /\ UNCHANGED <<dir, owner, locals>>

Step(p) ==
  \/ Mkdir(p) \/ WriteOwner(p) \/ WriteOwnerFails(p)
  \/ Stat(p) \/ ReadOwner(p) \/ Probe(p)
  \/ \E purpose \in Purposes : Unlink(p, purpose) \/ Rmdir(p, purpose)
  \/ Leave(p)

Next == \E p \in Procs : Acquire(p) \/ Step(p) \/ Crash(p)

Spec == Init /\ [][Next]_vars

(* A process that is scheduled goes on with its system calls.               *)
FairSpec == Spec /\ \A p \in Procs : WF_vars(Step(p))

--------------------------------------------------------------------------------
(* What dead-letter-store.ts relies on when it says that cross-process      *)
(* serialization is handled by the lock: fn() of two live processes never   *)
(* overlaps.  It holds, deaths included, until a process sets out to remove *)
(* a lock as stale: what removeExistingLock then removes need not be the    *)
(* lock that was found stale.                                               *)
Holders == {p \in Procs : pc[p] = "critical"}
MutualExclusion == \A p, q \in Holders : p = q
Exclusion == ~staleSeen => MutualExclusion

(* Nobody waits for a live process that does not hold the lock: the pid of  *)
(* a live process stands in owner.json only while it is between writing it  *)
(* and removing it.                                                         *)
NoFalseHolder ==
  \A p \in Procs : owner = p /\ Alive(p) => pc[p] \in {"critical", Unlinking["release"]}

(* When every process has finished, whether it got the lock or not, and     *)
(* nobody died, no lock is left behind to block the next one.               *)
QuietMeansFree ==
  (\A p \in Procs : pc[p] \in {"idle", "failed"}) => ~dir

(* acquireLock always ends, with the lock or with an error, also under a    *)
(* lock that nobody will ever remove.                                       *)
AcquireEnds ==
  \A p \in Procs : pc[p] = "mkdir" ~> pc[p] \in {"critical", "failed", "dead"}
================================================================================
