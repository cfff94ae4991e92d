----------------------------- MODULE DestinationsProofs -----------------------------
(* The destinations.  FileLock, for any number of processes, uses and retries:   *)
(* mutual exclusion until a process sets out to remove a lock as stale, deaths   *)
(* included, and no lock left behind.  HttpDelivery, for any budget, time-outs,  *)
(* number of attempts and delays: what a payload may take of time, and how often *)
(* it may be posted.  FileRotation, for any sizes, sends and backups: how large   *)
(* the file gets, and what of it is kept.  Together, what a run checks of them.   *)
EXTENDS MCTransport, DataLemmas, FiniteSetTheorems, TLAPS

(* Who is still in its loop has attempts left.                              *)
LoopBound == \A p \in Procs : pc[p] \notin {"failed", "dead"} => attempt[p] < MaxRetries

TInv == TypeOK /\ LoopBound

(* A removal is at one of its labels and leads to the labels listed.        *)
LEMMA Labels ==
  ASSUME NEW purpose \in Purposes
  PROVE  /\ purpose \in {"retry", "abort", "stale", "release"}
         /\ Unlinking[purpose] = CASE purpose = "retry" -> "retryUnlink"
                                   [] purpose = "abort" -> "abortUnlink"
                                   [] purpose = "stale" -> "staleUnlink"
                                   [] purpose = "release" -> "releaseUnlink"
         /\ Rmdiring[purpose] = CASE purpose = "retry" -> "retryRmdir"
                                  [] purpose = "abort" -> "abortRmdir"
                                  [] purpose = "stale" -> "staleRmdir"
                                  [] purpose = "release" -> "releaseRmdir"
         /\ Unlinking[purpose] \in PCs /\ Unlinking[purpose] \notin {"failed", "dead"}
         /\ Rmdiring[purpose] \in PCs /\ Rmdiring[purpose] \notin {"failed", "dead"}
  BY SMT DEF Purposes, Unlinking, Rmdiring, PCs

(* Going round the loop keeps the attempts within their bound.              *)
LEMMA NextAttemptBounded ==
  ASSUME TInv, NEW p \in Procs, pc[p] \notin {"failed", "dead"}, NextAttempt(p)
  PROVE  /\ pc' \in [Procs -> PCs] /\ attempt' \in [Procs -> 0 .. MaxRetries]
         /\ LoopBound'
  BY BoundAssumption, SMT DEF TInv, TypeOK, LoopBound, NextAttempt, Goto, PCs

(* Moving one process to a label that is not an end keeps them too.         *)
LEMMA GotoBounded ==
  ASSUME TInv, NEW p \in Procs, NEW label \in PCs, Goto(p, label), UNCHANGED attempt,
         label \notin {"failed", "dead"} => pc[p] \notin {"failed", "dead"}
  PROVE  pc' \in [Procs -> PCs] /\ LoopBound'
  BY SMT DEF TInv, TypeOK, LoopBound, Goto

(* The end of a removal, whatever it was for.                               *)
LEMMA RemovedBounded ==
  ASSUME TInv, NEW p \in Procs, NEW purpose \in Purposes,
         pc[p] \notin {"failed", "dead"}, Removed(p, purpose)
  PROVE  /\ pc' \in [Procs -> PCs] /\ attempt' \in [Procs -> 0 .. MaxRetries]
         /\ LoopBound'
<1>1. CASE purpose = "stale"
  <2>1. NextAttempt(p)  BY <1>1 DEF Removed
  <2> QED  BY <2>1, NextAttemptBounded
<1>2. CASE purpose # "stale"
  <2>1. UNCHANGED attempt  BY <1>2 DEF Removed, Purposes
  <2>2. \E label \in {"stat", "failed", "idle"} : Goto(p, label)
    BY <1>2 DEF Removed, Purposes
  <2>3. PICK label \in {"stat", "failed", "idle"} : Goto(p, label)  BY <2>2
  <2>4. label \in PCs  BY DEF PCs
  <2>5. attempt' \in [Procs -> 0 .. MaxRetries]  BY <2>1 DEF TInv, TypeOK
  <2> QED  BY <2>1, <2>3, <2>4, <2>5, GotoBounded
<1> QED  BY <1>1, <1>2

(* The variables the steps of the loop leave alone.                         *)
LeftAlone == UNCHANGED <<removed, seen, uses, staleSeen>>

(* Every system call of acquireLock and release keeps the types and the bound    *)
(* of the loop.                                                                  *)
THEOREM TypeStep ==
  ASSUME TInv, [Next]_vars
  PROVE  TInv'
<1> USE BoundAssumption
<1>1. CASE UNCHANGED vars
  BY <1>1 DEF vars, TInv, TypeOK, LoopBound
<1>2. ASSUME NEW p \in Procs, Acquire(p) PROVE TInv'
  BY <1>2, SMT DEF Acquire, Goto, TInv, TypeOK, LoopBound, PCs
<1>3. ASSUME NEW p \in Procs, Mkdir(p) PROVE TInv'
  <2>1. \E label \in {"stat", "write"} : Goto(p, label)  BY <1>3 DEF Mkdir
  <2>2. PICK label \in {"stat", "write"} : Goto(p, label)  BY <2>1
  <2>3. UNCHANGED attempt /\ LeftAlone /\ dir' \in BOOLEAN /\ (dir => dir') /\ UNCHANGED owner
    BY <1>3 DEF Mkdir, locals, LeftAlone, TInv, TypeOK
  <2>4. label \in PCs /\ pc[p] \notin {"failed", "dead"}  BY <1>3 DEF Mkdir, PCs
  <2>5. pc' \in [Procs -> PCs] /\ LoopBound'  BY <2>2, <2>3, <2>4, GotoBounded
  <2> QED  BY <2>3, <2>5 DEF LeftAlone, TInv, TypeOK
<1>4. ASSUME NEW p \in Procs, WriteOwner(p) PROVE TInv'
  <2>1. "critical" \in PCs /\ pc[p] \notin {"failed", "dead"}  BY <1>4 DEF WriteOwner, PCs
  <2>2. UNCHANGED attempt /\ LeftAlone /\ UNCHANGED dir /\ dir /\ owner' = p
    BY <1>4 DEF WriteOwner, locals, LeftAlone
  <2>3. Goto(p, "critical")  BY <1>4 DEF WriteOwner
  <2>4. pc' \in [Procs -> PCs] /\ LoopBound'  BY <2>1, <2>2, <2>3, GotoBounded
  <2> QED  BY <2>2, <2>4 DEF LeftAlone, TInv, TypeOK
<1>5. ASSUME NEW p \in Procs, WriteOwnerFails(p) PROVE TInv'
  <2>1. \E label \in {"retryUnlink", "abortUnlink"} : Goto(p, label)
    BY <1>5 DEF WriteOwnerFails, Unlinking
  <2>2. PICK label \in {"retryUnlink", "abortUnlink"} : Goto(p, label)  BY <2>1
  <2>3. UNCHANGED attempt /\ LeftAlone /\ UNCHANGED <<dir, owner>>
    BY <1>5 DEF WriteOwnerFails, locals, LeftAlone
  <2>4. label \in PCs /\ pc[p] \notin {"failed", "dead"}  BY <1>5 DEF WriteOwnerFails, PCs
  <2>5. pc' \in [Procs -> PCs] /\ LoopBound'  BY <2>2, <2>3, <2>4, GotoBounded
  <2> QED  BY <2>3, <2>5 DEF LeftAlone, TInv, TypeOK
<1>6. ASSUME NEW p \in Procs, Stat(p) PROVE TInv'
  <2>1. pc[p] \notin {"failed", "dead"} /\ LeftAlone /\ UNCHANGED <<dir, owner>>
    BY <1>6 DEF Stat, LeftAlone
  <2>2. CASE dir
    <3>1. Goto(p, "read") /\ UNCHANGED attempt  BY <1>6, <2>2 DEF Stat
    <3>2. "read" \in PCs  BY DEF PCs
    <3>3. pc' \in [Procs -> PCs] /\ LoopBound'  BY <2>1, <3>1, <3>2, GotoBounded
    <3> QED  BY <2>1, <3>1, <3>3 DEF LeftAlone, TInv, TypeOK
  <2>3. CASE ~dir
    <3>1. NextAttempt(p)  BY <1>6, <2>3 DEF Stat
    <3> QED  BY <2>1, <3>1, NextAttemptBounded DEF LeftAlone, TInv, TypeOK
  <2> QED  BY <2>2, <2>3
<1>7. ASSUME NEW p \in Procs, ReadOwner(p) PROVE TInv'
  <2>1. pc[p] \notin {"failed", "dead"} /\ Goto(p, "probe") /\ UNCHANGED attempt
    BY <1>7 DEF ReadOwner
  <2>2. "probe" \in PCs  BY DEF PCs
  <2>3. pc' \in [Procs -> PCs] /\ LoopBound'  BY <2>1, <2>2, GotoBounded
  <2>4. seen' \in [Procs -> Procs \union {Nobody}]  BY <1>7 DEF ReadOwner, TInv, TypeOK
  <2> QED  BY <1>7, <2>1, <2>3, <2>4 DEF ReadOwner, TInv, TypeOK
<1>8. ASSUME NEW p \in Procs, Probe(p) PROVE TInv'
  <2>1. pc[p] \notin {"failed", "dead"} /\ UNCHANGED <<dir, owner, seen, uses>>
    BY <1>8 DEF Probe
  <2>2. removed' \in [Procs -> Procs \union {Nobody}] /\ staleSeen' \in BOOLEAN
    BY <1>8 DEF Probe, TInv, TypeOK
  <2>3. CASE NextAttempt(p)
    BY <2>1, <2>2, <2>3, NextAttemptBounded DEF TInv, TypeOK
  <2>4. CASE UNCHANGED attempt /\ \E label \in {"failed", "staleUnlink"} : Goto(p, label)
    <3>1. PICK label \in {"failed", "staleUnlink"} : Goto(p, label)  BY <2>4
    <3>2. label \in PCs  BY DEF PCs
    <3>3. pc' \in [Procs -> PCs] /\ LoopBound'  BY <2>1, <2>4, <3>1, <3>2, GotoBounded
    <3> QED  BY <2>1, <2>2, <2>4, <3>3 DEF TInv, TypeOK
  <2>5. NextAttempt(p) \/ (UNCHANGED attempt
                             /\ \E label \in {"failed", "staleUnlink"} : Goto(p, label))
    BY <1>8 DEF Probe, Unlinking
  <2> QED  BY <2>3, <2>4, <2>5
<1>9. ASSUME NEW p \in Procs, NEW purpose \in Purposes, Unlink(p, purpose) PROVE TInv'
  <2>1. pc[p] \notin {"failed", "dead"} /\ UNCHANGED dir /\ owner' = Nobody /\ LeftAlone
    BY <1>9, Labels DEF Unlink, LeftAlone
  <2>2. CASE Removed(p, purpose)
    BY <2>1, <2>2, RemovedBounded DEF LeftAlone, TInv, TypeOK
  <2>3. CASE Goto(p, Rmdiring[purpose]) /\ UNCHANGED attempt
    <3>1. pc' \in [Procs -> PCs] /\ LoopBound'  BY <2>1, <2>3, Labels, GotoBounded
    <3> QED  BY <2>1, <2>3, <3>1 DEF LeftAlone, TInv, TypeOK
  <2> QED  BY <1>9, <2>2, <2>3 DEF Unlink
<1>10. ASSUME NEW p \in Procs, NEW purpose \in Purposes, Rmdir(p, purpose) PROVE TInv'
  <2>1. pc[p] \notin {"failed", "dead"} /\ UNCHANGED owner /\ LeftAlone
    BY <1>10, Labels DEF Rmdir, LeftAlone
  <2>2. CASE owner = Nobody
    <3>1. Removed(p, purpose) /\ dir' = FALSE  BY <1>10, <2>2 DEF Rmdir
    <3> QED  BY <2>1, <2>2, <3>1, RemovedBounded DEF LeftAlone, TInv, TypeOK
  <2>3. CASE owner # Nobody
    <3>1. Goto(p, Unlinking[purpose]) /\ UNCHANGED <<attempt, dir>>  BY <1>10, <2>3 DEF Rmdir
    <3>2. pc' \in [Procs -> PCs] /\ LoopBound'  BY <2>1, <3>1, Labels, GotoBounded
    <3> QED  BY <2>1, <3>1, <3>2 DEF LeftAlone, TInv, TypeOK
  <2> QED  BY <2>2, <2>3
<1>11. ASSUME NEW p \in Procs, Leave(p) PROVE TInv'
  <2>1. pc[p] \notin {"failed", "dead"} /\ Goto(p, "releaseUnlink") /\ UNCHANGED attempt
    BY <1>11 DEF Leave, locals, Unlinking
  <2>2. "releaseUnlink" \in PCs  BY DEF PCs
  <2>3. pc' \in [Procs -> PCs] /\ LoopBound'  BY <2>1, <2>2, GotoBounded
  <2> QED  BY <1>11, <2>1, <2>3 DEF Leave, locals, TInv, TypeOK
<1>12. ASSUME NEW p \in Procs, Crash(p) PROVE TInv'
  <2>1. Goto(p, "dead") /\ UNCHANGED attempt  BY <1>12 DEF Crash, locals
  <2>2. "dead" \in PCs  BY DEF PCs
  <2>3. pc' \in [Procs -> PCs] /\ LoopBound'  BY <2>1, <2>2, GotoBounded
  <2> QED  BY <1>12, <2>1, <2>3 DEF Crash, locals, TInv, TypeOK
<1> QED
  BY <1>1, <1>2, <1>3, <1>4, <1>5, <1>6, <1>7, <1>8, <1>9, <1>10, <1>11, <1>12
  DEF Next, Step

(* Types hold in every reachable state and the attempts of acquireLock stay *)
(* within MAX_RETRIES, whatever dies.                                       *)
THEOREM TypeCorrect == Spec => []TypeOK
<1>1. Init => TInv
  <2>1. "idle" \in PCs  BY DEF PCs
  <2>2. 0 \in 0 .. MaxRetries /\ 0 < MaxRetries /\ 0 \in 0 .. MaxUses  BY BoundAssumption
  <2>3. Init => TypeOK  BY <2>1, <2>2 DEF Init, TypeOK
  <2>4. Init => LoopBound  BY <2>2 DEF Init, LoopBound
  <2> QED  BY <2>3, <2>4 DEF TInv
<1>2. TInv /\ [Next]_vars => TInv'  BY TypeStep
<1>3. TInv => TypeOK  BY DEF TInv
<1> QED  BY <1>1, <1>2, <1>3, PTL DEF Spec

--------------------------------------------------------------------------------
(* Until a process sets out to remove a lock as stale, the directory stands *)
(* for the one process that made it, alive or dead.                         *)

Claiming == {"write", "critical", "releaseUnlink", "releaseRmdir", "abortUnlink", "abortRmdir"}
Never == {"staleUnlink", "staleRmdir", "retryUnlink", "retryRmdir"}

NoneSteals == \A p \in Procs : pc[p] \notin Never
OneClaims == \A p, q \in Procs : pc[p] \in Claiming /\ pc[q] \in Claiming => p = q
ClaimIsDir == \A p \in Procs : pc[p] \in Claiming => dir
DirIsClaimed == dir => \E p \in Procs : pc[p] \in Claiming \union {"dead"}
OwnerIsIn == \A p \in Procs : owner = p => pc[p] \in {"critical", "releaseUnlink", "dead"}
OwnerClaims == \A p \in Procs : pc[p] \in Claiming => owner \in {Nobody, p}

Facts == NoneSteals /\ OneClaims /\ ClaimIsDir /\ DirIsClaimed /\ OwnerIsIn /\ OwnerClaims

(* Only the death of an owner makes a lock stale, and death is for good.    *)
StaleMeansDeath == staleSeen => \E p \in Procs : pc[p] = "dead"

(* A process that is outside of the lock moves to another place outside.    *)
LEMMA MoveOutside ==
  ASSUME TypeOK, Facts, NEW p \in Procs, NEW label, Goto(p, label), UNCHANGED <<dir, owner>>,
         pc[p] \notin Claiming, pc[p] # "dead", label \notin Claiming, label \notin Never
  PROVE  Facts'
<1>1. \A q \in Procs : pc'[q] = IF q = p THEN label ELSE pc[q]
  BY DEF Goto, TypeOK
<1>2. NoneSteals' /\ OneClaims' /\ ClaimIsDir' /\ OwnerClaims'
  BY <1>1 DEF Facts, NoneSteals, OneClaims, ClaimIsDir, OwnerClaims
<1>3. DirIsClaimed'
  BY <1>1 DEF Facts, DirIsClaimed
<1>4. OwnerIsIn'
  BY <1>1 DEF Facts, OwnerIsIn, Claiming
<1> QED  BY <1>2, <1>3, <1>4 DEF Facts

(* The holder moves on inside.                                              *)
LEMMA MoveInside ==
  ASSUME TypeOK, Facts, NEW p \in Procs, NEW label, Goto(p, label), UNCHANGED dir,
         pc[p] \in Claiming, label \in Claiming,
         owner' = Nobody \/ (owner' = owner /\ owner # p)
           \/ (owner' \in {owner, p} /\ label \in {"critical", "releaseUnlink"})
  PROVE  Facts'
<1>1. \A q \in Procs : pc'[q] = IF q = p THEN label ELSE pc[q]
  BY DEF Goto, TypeOK
<1>2. NoneSteals' /\ OneClaims' /\ ClaimIsDir'
  BY <1>1 DEF Facts, NoneSteals, OneClaims, ClaimIsDir, Claiming, Never
<1>3. DirIsClaimed'
  BY <1>1 DEF DirIsClaimed
<1>4. owner \in {Nobody, p}  BY DEF Facts, OwnerClaims
<1>5. \A q \in Procs : pc'[q] \in Claiming => q = p
  BY <1>1 DEF Facts, OneClaims
<1>6. OwnerIsIn'
  BY <1>1, <1>4, NobodyAssumption DEF Facts, OwnerIsIn, Claiming
<1>7. OwnerClaims'
  BY <1>4, <1>5 DEF OwnerClaims
<1> QED  BY <1>2, <1>3, <1>6, <1>7 DEF Facts

(* The holder removes the directory and leaves.                             *)
LEMMA MoveOut ==
  ASSUME TypeOK, Facts, NEW p \in Procs, NEW label, Goto(p, label), dir' = FALSE,
         owner' = Nobody, pc[p] \in Claiming, label \notin Claiming, label \notin Never
  PROVE  Facts'
<1>1. \A q \in Procs : pc'[q] = IF q = p THEN label ELSE pc[q]
  BY DEF Goto, TypeOK
<1>2. NoneSteals' /\ OneClaims' /\ ClaimIsDir'
  BY <1>1 DEF Facts, NoneSteals, OneClaims, ClaimIsDir
<1>3. OwnerIsIn' /\ OwnerClaims' /\ DirIsClaimed'
  BY NobodyAssumption DEF OwnerIsIn, OwnerClaims, DirIsClaimed
<1> QED  BY <1>2, <1>3 DEF Facts

(* The places NextAttempt leads to.                                         *)
LEMMA NextAttemptOutside ==
  ASSUME NEW p \in Procs, NextAttempt(p)
  PROVE  \E label \in {"mkdir", "failed"} : Goto(p, label)
  BY DEF NextAttempt

(* A holder at work on the owner file finds its own file or none.           *)
LEMMA NoForeignOwner ==
  ASSUME TypeOK, Facts, NEW p \in Procs, pc[p] \in Claiming \ {"critical", "releaseUnlink"}
  PROVE  owner = Nobody
  BY DEF Facts, OwnerIsIn, OwnerClaims, Claiming

LEMMA LockStep ==
  ASSUME TypeOK, Facts, ~staleSeen', [Next]_vars
  PROVE  Facts'
<1>1. CASE UNCHANGED vars
  BY <1>1 DEF vars, Facts, NoneSteals, OneClaims, ClaimIsDir, DirIsClaimed, OwnerIsIn, OwnerClaims
<1>2. ASSUME NEW p \in Procs, Acquire(p) PROVE Facts'
  <2>1. "mkdir" \notin Claiming /\ "mkdir" \notin Never /\ pc[p] \notin Claiming
        /\ pc[p] # "dead"
    BY <1>2 DEF Acquire, Claiming, Never
  <2> QED  BY <1>2, <2>1, MoveOutside DEF Acquire
<1>3. ASSUME NEW p \in Procs, Mkdir(p) PROVE Facts'
  <2>1. CASE dir
    <3>1. Goto(p, "stat") /\ UNCHANGED <<dir, owner>>  BY <1>3, <2>1 DEF Mkdir
    <3>2. "stat" \notin Claiming /\ "stat" \notin Never /\ pc[p] \notin Claiming
          /\ pc[p] # "dead"
      BY <1>3 DEF Mkdir, Claiming, Never
    <3> QED  BY <3>1, <3>2, MoveOutside
  <2>2. CASE ~dir
    <3>1. Goto(p, "write") /\ dir' /\ UNCHANGED owner  BY <1>3, <2>2 DEF Mkdir
    <3>2. \A q \in Procs : pc[q] \notin Claiming  BY <2>2 DEF Facts, ClaimIsDir
    <3>3. \A q \in Procs : pc'[q] = IF q = p THEN "write" ELSE pc[q]
      BY <3>1 DEF Goto, TypeOK
    <3>4. NoneSteals' /\ OneClaims' /\ ClaimIsDir' /\ DirIsClaimed'
      BY <3>1, <3>2, <3>3
      DEF Facts, NoneSteals, OneClaims, ClaimIsDir, DirIsClaimed, Claiming, Never
    <3>5. owner' = Nobody  BY <2>2, <3>1 DEF TypeOK
    <3>6. OwnerIsIn' /\ OwnerClaims'
      BY <3>5, NobodyAssumption DEF OwnerIsIn, OwnerClaims
    <3> QED  BY <3>4, <3>6 DEF Facts
  <2> QED  BY <2>1, <2>2
<1>4. ASSUME NEW p \in Procs, WriteOwner(p) PROVE Facts'
  <2>1. pc[p] \in Claiming /\ "critical" \in Claiming  BY <1>4 DEF WriteOwner, Claiming
  <2>2. Goto(p, "critical") /\ UNCHANGED dir /\ owner' = p  BY <1>4 DEF WriteOwner
  <2> QED  BY <2>1, <2>2, MoveInside
<1>5. ASSUME NEW p \in Procs, WriteOwnerFails(p) PROVE Facts'
  <2>1. pc[p] = "write" /\ UNCHANGED <<dir, owner>>  BY <1>5 DEF WriteOwnerFails
  <2>2. owner = Nobody  BY <2>1, NoForeignOwner DEF Claiming
  <2>3. Goto(p, "abortUnlink")  BY <1>5, <2>2 DEF WriteOwnerFails, Unlinking
  <2>4. pc[p] \in Claiming /\ "abortUnlink" \in Claiming  BY <2>1 DEF Claiming
  <2> QED  BY <2>1, <2>2, <2>3, <2>4, MoveInside
<1>6. ASSUME NEW p \in Procs, Stat(p) PROVE Facts'
  <2>1. \E label \in {"read", "mkdir", "failed"} : Goto(p, label)
    BY <1>6, NextAttemptOutside DEF Stat
  <2>2. PICK label \in {"read", "mkdir", "failed"} : Goto(p, label)  BY <2>1
  <2>3. label \notin Claiming /\ label \notin Never /\ pc[p] \notin Claiming /\ pc[p] # "dead"
    BY <1>6 DEF Stat, Claiming, Never
  <2> QED  BY <1>6, <2>2, <2>3, MoveOutside DEF Stat
<1>7. ASSUME NEW p \in Procs, ReadOwner(p) PROVE Facts'
  <2>1. "probe" \notin Claiming /\ "probe" \notin Never /\ pc[p] \notin Claiming
        /\ pc[p] # "dead"
    BY <1>7 DEF ReadOwner, Claiming, Never
  <2> QED  BY <1>7, <2>1, MoveOutside DEF ReadOwner
<1>8. ASSUME NEW p \in Procs, Probe(p) PROVE Facts'
  <2>1. NextAttempt(p) \/ Goto(p, "failed")  BY <1>8 DEF Probe
  <2>2. PICK label \in {"mkdir", "failed"} : Goto(p, label)
    BY <2>1, NextAttemptOutside
  <2>3. label \notin Claiming /\ label \notin Never /\ pc[p] \notin Claiming /\ pc[p] # "dead"
    BY <1>8 DEF Probe, Claiming, Never
  <2> QED  BY <1>8, <2>2, <2>3, MoveOutside DEF Probe
<1>9. ASSUME NEW p \in Procs, NEW purpose \in Purposes, Unlink(p, purpose) PROVE Facts'
  <2>1. purpose \in {"abort", "release"}
    BY <1>9, Labels DEF Unlink, Facts, NoneSteals, Never
  <2>2. pc[p] \in {"abortUnlink", "releaseUnlink"}
    BY <1>9, <2>1, Labels DEF Unlink
  <2>3. pc[p] \in Claiming  BY <2>2 DEF Claiming
  <2>4. dir  BY <2>3 DEF Facts, ClaimIsDir
  <2>5. Goto(p, Rmdiring[purpose]) /\ UNCHANGED dir /\ owner' = Nobody
    BY <1>9, <2>4 DEF Unlink
  <2>6. Rmdiring[purpose] \in Claiming  BY <2>1 DEF Rmdiring, Claiming
  <2> QED  BY <2>3, <2>5, <2>6, MoveInside
<1>10. ASSUME NEW p \in Procs, NEW purpose \in Purposes, Rmdir(p, purpose) PROVE Facts'
  <2>1. purpose \in {"abort", "release"}
    BY <1>10, Labels DEF Rmdir, Facts, NoneSteals, Never
  <2>2. pc[p] \in {"abortRmdir", "releaseRmdir"}
    BY <1>10, <2>1, Labels DEF Rmdir
  <2>3. pc[p] \in Claiming  BY <2>2 DEF Claiming
  <2>4. owner = Nobody  BY <2>2, NoForeignOwner DEF Claiming
  <2>5. dir' = FALSE /\ owner' = Nobody /\ Removed(p, purpose)  BY <1>10, <2>4 DEF Rmdir
  <2>6. \E label \in {"failed", "idle"} : Goto(p, label)  BY <2>1, <2>5 DEF Removed
  <2>7. PICK label \in {"failed", "idle"} : Goto(p, label)  BY <2>6
  <2>8. label \notin Claiming /\ label \notin Never  BY DEF Claiming, Never
  <2> QED  BY <2>3, <2>5, <2>7, <2>8, MoveOut
<1>11. ASSUME NEW p \in Procs, Leave(p) PROVE Facts'
  <2>1. Goto(p, "releaseUnlink") /\ UNCHANGED <<dir, owner>>
    BY <1>11 DEF Leave, Unlinking
  <2>2. pc[p] \in Claiming /\ "releaseUnlink" \in Claiming  BY <1>11 DEF Leave, Claiming
  <2> QED  BY <2>1, <2>2, MoveInside
<1>12. ASSUME NEW p \in Procs, Crash(p) PROVE Facts'
  <2>1. \A q \in Procs : pc'[q] = IF q = p THEN "dead" ELSE pc[q]
    BY <1>12 DEF Crash, Goto, TypeOK
  <2>2. UNCHANGED <<dir, owner>>  BY <1>12 DEF Crash
  <2>3. NoneSteals' /\ OneClaims' /\ ClaimIsDir' /\ OwnerClaims'
    BY <2>1, <2>2 DEF Facts, NoneSteals, OneClaims, ClaimIsDir, OwnerClaims, Claiming, Never
  <2>4. DirIsClaimed' /\ OwnerIsIn'
    BY <2>1, <2>2 DEF Facts, DirIsClaimed, OwnerIsIn
  <2> QED  BY <2>3, <2>4 DEF Facts
<1> QED
  BY <1>1, <1>2, <1>3, <1>4, <1>5, <1>6, <1>7, <1>8, <1>9, <1>10, <1>11, <1>12
  DEF Next, Step

--------------------------------------------------------------------------------
(* A step moves one process, which is alive, and finds a lock stale only    *)
(* when another one is dead.                                                *)
MovesAlone(p) ==
  /\ pc[p] # "dead"
  /\ \A q \in Procs : q # p => pc'[q] = pc[q]

LEMMA RemovedMovesAlone ==
  ASSUME TypeOK, NEW p \in Procs, NEW purpose \in Purposes, pc[p] # "dead", Removed(p, purpose)
  PROVE  MovesAlone(p)
  BY DEF Removed, Purposes, NextAttempt, Goto, MovesAlone, TypeOK

LEMMA OneMoves ==
  ASSUME TypeOK, NEW p \in Procs, Acquire(p) \/ Step(p) \/ Crash(p)
  PROVE  /\ MovesAlone(p)
         /\ staleSeen' # staleSeen => \E q \in Procs : q # p /\ pc[q] = "dead"
<1>1. CASE Acquire(p)
  BY <1>1 DEF Acquire, Goto, MovesAlone, TypeOK
<1>2. CASE Mkdir(p) \/ WriteOwner(p) \/ WriteOwnerFails(p) \/ ReadOwner(p) \/ Leave(p)
  BY <1>2 DEF Mkdir, WriteOwner, WriteOwnerFails, ReadOwner, Leave, Goto, MovesAlone, TypeOK, locals
<1>3. CASE Stat(p)
  BY <1>3 DEF Stat, NextAttempt, Goto, MovesAlone, TypeOK
<1>4. CASE Probe(p)
  <2>1. MovesAlone(p)
    BY <1>4 DEF Probe, NextAttempt, Goto, MovesAlone, TypeOK
  <2>2. ASSUME staleSeen' # staleSeen PROVE \E q \in Procs : q # p /\ pc[q] = "dead"
    <3>1. Stale(p) /\ pc[p] = "probe"  BY <1>4, <2>2 DEF Probe
    <3>2. seen[p] \in Procs /\ pc[seen[p]] = "dead"  BY <3>1 DEF Stale, Alive, TypeOK
    <3> QED  BY <3>1, <3>2
  <2> QED  BY <2>1, <2>2
<1>5. ASSUME NEW purpose \in Purposes, Unlink(p, purpose) \/ Rmdir(p, purpose)
      PROVE  MovesAlone(p) /\ staleSeen' = staleSeen
  <2>1. pc[p] # "dead" /\ staleSeen' = staleSeen  BY <1>5, Labels DEF Unlink, Rmdir
  <2>2. \/ Removed(p, purpose)
        \/ \E label \in PCs : Goto(p, label)
    BY <1>5, Labels DEF Unlink, Rmdir
  <2>3. CASE Removed(p, purpose)  BY <2>1, <2>3, RemovedMovesAlone
  <2>4. CASE \E label \in PCs : Goto(p, label)
    BY <2>1, <2>4 DEF Goto, MovesAlone, TypeOK
  <2> QED  BY <2>1, <2>2, <2>3, <2>4
<1>6. CASE Crash(p)
  BY <1>6 DEF Crash, Alive, Goto, MovesAlone, TypeOK, locals
<1> QED  BY <1>1, <1>2, <1>3, <1>4, <1>5, <1>6 DEF Step

LEMMA DeathStep ==
  ASSUME TypeOK, StaleMeansDeath, [Next]_vars
  PROVE  StaleMeansDeath'
<1>1. CASE UNCHANGED vars
  BY <1>1 DEF vars, StaleMeansDeath
<1>2. ASSUME NEW p \in Procs, Acquire(p) \/ Step(p) \/ Crash(p) PROVE StaleMeansDeath'
  BY <1>2, OneMoves DEF StaleMeansDeath, MovesAlone
<1> QED  BY <1>1, <1>2 DEF Next

(* staleSeen is never taken back.                                           *)
LEMMA StaleStays ==
  ASSUME TypeOK, [Next]_vars, staleSeen
  PROVE  staleSeen'
  BY DEF vars, Next, Step, Acquire, Mkdir, WriteOwner, WriteOwnerFails, Stat, ReadOwner,
         Probe, Unlink, Rmdir, Leave, Crash, locals

--------------------------------------------------------------------------------
LInv == StaleMeansDeath /\ (~staleSeen => Facts)

LEMMA LockInitially ==
  ASSUME Init
  PROVE  LInv
<1>1. \A p \in Procs : pc[p] = "idle"  BY DEF Init
<1>2. dir = FALSE /\ owner = Nobody /\ ~staleSeen  BY DEF Init
<1> QED
  BY <1>1, <1>2, NobodyAssumption
  DEF LInv, StaleMeansDeath, Facts, NoneSteals, OneClaims, ClaimIsDir, DirIsClaimed,
      OwnerIsIn, OwnerClaims, Claiming, Never

(* The two facts the users of the lock rely on follow from the invariant.   *)
LEMMA LockFacts ==
  ASSUME TypeOK, LInv
  PROVE  Exclusion /\ QuietMeansFree
<1>1. Exclusion
  BY DEF LInv, Facts, OneClaims, Exclusion, MutualExclusion, Holders, Claiming
<1>2. QuietMeansFree
  BY DEF LInv, StaleMeansDeath, Facts, DirIsClaimed, QuietMeansFree, Claiming
<1> QED  BY <1>1, <1>2

(* What the lock's exclusion rests on: who made the directory and wrote its      *)
(* owner, and where each process is between mkdir and rmdir.                     *)
THEOREM LockInvariant == Spec => []LInv
<1>1. Init => LInv  BY LockInitially
<1>2. TypeOK /\ LInv /\ [Next]_vars => LInv'
  BY LockStep, DeathStep, StaleStays DEF LInv
<1> QED  BY <1>1, <1>2, TypeCorrect, PTL DEF Spec

(* For any number of processes, and whoever dies: until a process sets out  *)
(* to remove a lock as stale, the work done under the lock by two processes *)
(* never overlaps (withLockSync of file-lock.ts).                           *)
THEOREM LockExcludes == Spec => []Exclusion
<1>1. TypeOK /\ LInv => Exclusion  BY LockFacts
<1> QED  BY <1>1, LockInvariant, TypeCorrect, PTL

(* No lock is left behind once everybody has finished and nobody has died.  *)
THEOREM LockIsFreed == Spec => []QuietMeansFree
<1>1. TypeOK /\ LInv => QuietMeansFree  BY LockFacts
<1> QED  BY <1>1, LockInvariant, TypeCorrect, PTL

(* Whoever is alive and named as the owner is at work, or about to remove   *)
(* its name: also after a lock was taken for stale.                         *)
LEMMA OwnerWorks ==
  ASSUME TypeOK, NoFalseHolder, [Next]_vars
  PROVE  NoFalseHolder'
<1> DEFINE Works(p) == owner = p /\ pc[p] # "dead" => pc[p] \in {"critical", "releaseUnlink"}
<1>1. \A p \in Procs : Works(p)  BY DEF NoFalseHolder, Alive, Unlinking
<1>2. ASSUME NEW q \in Procs, MovesAlone(q), owner' \in {owner, Nobody},
             owner' = q => pc'[q] \in {"critical", "releaseUnlink", "dead"}
      PROVE  \A p \in Procs : Works(p)'
  <2> SUFFICES ASSUME NEW p \in Procs  PROVE Works(p)'  OBVIOUS
  <2>1. CASE p = q  BY <1>2, <2>1
  <2>2. CASE p # q
    <3>1. pc'[p] = pc[p]  BY <1>2, <2>2 DEF MovesAlone
    <3> QED  BY <1>1, <1>2, <3>1, NobodyAssumption
  <2> QED  BY <2>1, <2>2
<1>3. ASSUME NEW q \in Procs, Acquire(q) \/ Step(q) \/ Crash(q)
      PROVE  \A p \in Procs : Works(p)'
  <2>0. MovesAlone(q) /\ Works(q) /\ q # Nobody  BY <1>1, <1>3, OneMoves, NobodyAssumption
  <2>1. CASE WriteOwner(q)
    <3>1. owner' = q /\ pc'[q] = "critical"  BY <2>1 DEF WriteOwner, Goto, TypeOK
    <3> QED  BY <2>0, <3>1
  <2>2. CASE Leave(q)
    <3>1. owner' = owner /\ pc'[q] = "releaseUnlink"  BY <2>2 DEF Leave, Goto, TypeOK, Unlinking
    <3> QED  BY <1>2, <2>0, <3>1
  <2>3. CASE Crash(q)
    <3>1. owner' = owner /\ pc'[q] = "dead"  BY <2>3 DEF Crash, Goto, TypeOK
    <3> QED  BY <1>2, <2>0, <3>1
  <2>4. CASE \/ Acquire(q) \/ Mkdir(q) \/ WriteOwnerFails(q) \/ Stat(q) \/ ReadOwner(q) \/ Probe(q)
    <3>1. owner' = owner /\ pc[q] \in {"idle", "failed", "mkdir", "write", "stat", "read", "probe"}
      BY <2>4 DEF Acquire, Mkdir, WriteOwnerFails, Stat, ReadOwner, Probe, locals
    <3> QED  BY <1>2, <2>0, <3>1
  <2>5. ASSUME NEW purpose \in Purposes, Unlink(q, purpose)  PROVE \A p \in Procs : Works(p)'
    <3>1. owner' = Nobody  BY <2>5 DEF Unlink
    <3> QED  BY <1>2, <2>0, <3>1
  <2>6. ASSUME NEW purpose \in Purposes, Rmdir(q, purpose)  PROVE \A p \in Procs : Works(p)'
    <3>1. owner' = owner /\ pc[q] \notin {"critical", "releaseUnlink", "dead"}
      BY <2>6, Labels DEF Rmdir
    <3> QED  BY <1>2, <2>0, <3>1
  <2> QED  BY <1>3, <2>1, <2>2, <2>3, <2>4, <2>5, <2>6 DEF Step
<1>4. CASE UNCHANGED vars  BY <1>1, <1>4 DEF vars, NoFalseHolder, Alive, Unlinking
<1>5. CASE Next
  <2>1. \A p \in Procs : Works(p)'  BY <1>3, <1>5 DEF Next
  <2> QED  BY <2>1 DEF NoFalseHolder, Alive, Unlinking
<1> QED  BY <1>4, <1>5

(* Nobody waits for a live process that does not hold the lock.             *)
THEOREM OwnerHolds == Spec => []NoFalseHolder
<1>1. Init => NoFalseHolder  BY NobodyAssumption DEF Init, NoFalseHolder
<1>2. TypeOK /\ NoFalseHolder /\ [Next]_vars => NoFalseHolder'  BY OwnerWorks
<1> QED  BY <1>1, <1>2, TypeCorrect, PTL DEF Spec

------------------------------------------------------------------------------
OnTheWay == {"http1", "http2"}
Stages == {"idle", "sent", "failed", "connecting", "waiting"} \cup OnTheWay
PostTyped(p) ==
  p \in [stage : Stages, attempt : Nat, elapsed : Nat, copies : Nat, over : SUBSET OnTheWay,
         answer : {"none", "doubt", "accepted", "refused"}]

(* The time at which a leg may begin: an attempt begins within the budget, and   *)
(* has two legs at most, so that a post begins at most one leg later.            *)
InTime(p) ==
  /\ p.stage \in {"connecting", "waiting"} => p.elapsed <= Budget
  /\ p.stage \in OnTheWay => p.elapsed <= Budget + Timeout
  /\ p.elapsed <= Budget + 2 * Timeout

(* Copies are counted with the attempt that is under way: none of it is out      *)
(* before a protocol is chosen, and one after.                                   *)
Counted(p) ==
  /\ p.attempt < MaxAttempts
  /\ p.copies <= p.attempt + 1
  /\ p.stage \in {"connecting", "waiting"} => p.copies <= p.attempt /\ p.over = {}
  /\ p.stage \in OnTheWay => p.copies > 0
  /\ p.over = {} \/ \E x \in OnTheWay : p.over = {x}
  /\ p.stage \in {"connecting", "waiting"} \cup OnTheWay => p.answer \in {"none", "doubt"}
  /\ p.stage = "sent" => p.copies > 0

PostInv(p) == PostTyped(p) /\ InTime(p) /\ Counted(p)

-------------------------------------------------------------------------------
(* sendOnce: a protocol is chosen for an attempt that has none yet.              *)
LEMMA PutSound ==
  ASSUME NEW p, PostTyped(p), NEW over \in OnTheWay, Counted(p),
         p.over = {}, p.copies <= p.attempt, p.elapsed <= Budget + Timeout,
         p.answer \in {"none", "doubt"}
  PROVE  PostInv(Put(p, over))
<1> DEFINE q == Put(p, over)
<1>1. \A n \in Nat :
        LET r == [p EXCEPT !.stage = over, !.copies = n, !.over = {over}]
        IN  PostTyped(r) /\ r.stage = over /\ r.copies = n /\ r.over = {over}
            /\ r.attempt = p.attempt /\ r.elapsed = p.elapsed /\ r.answer = p.answer
  BY DEF PostTyped, Stages
<1>2. PostTyped(q) /\ q.stage = over /\ q.copies = p.copies + 1 /\ q.over = {over}
      /\ q.attempt = p.attempt /\ q.elapsed = p.elapsed /\ q.answer = p.answer
  <2>1. p.copies + 1 \in Nat  BY DEF PostTyped
  <2>2. q = [p EXCEPT !.stage = over, !.copies = p.copies + 1, !.over = {over}]  BY DEF Put
  <2> QED  BY <1>1, <2>1, <2>2
<1> HIDE DEF q
<1>3. InTime(q)  BY <1>2, HttpAssumption DEF InTime, PostTyped, OnTheWay
<1>4. Counted(q)  BY <1>2, HttpAssumption DEF Counted, PostTyped, OnTheWay
<1> QED  BY <1>2, <1>3, <1>4 DEF PostInv, q

LEMMA AttemptSound ==
  ASSUME NEW p, PostTyped(p), Counted(p), p.over = {}, p.copies <= p.attempt,
         p.elapsed <= Budget, p.answer \in {"none", "doubt"}
  PROVE  PostInv(Attempt(p))
<1>1. p.elapsed <= Budget + Timeout  BY HttpAssumption DEF PostTyped
<1>2. PostInv(Put(p, "http1")) /\ PostInv(Put(p, "http2"))
  BY <1>1, PutSound DEF OnTheWay
<1>3. PostInv([p EXCEPT !.stage = "connecting"])
  <2> DEFINE q == [p EXCEPT !.stage = "connecting"]
  <2>1. PostTyped(q) /\ q.stage = "connecting" /\ q.copies = p.copies /\ q.over = p.over
        /\ q.attempt = p.attempt /\ q.elapsed = p.elapsed /\ q.answer = p.answer
    BY DEF PostTyped, Stages
  <2> HIDE DEF q
  <2>2. InTime(q)  BY <2>1, HttpAssumption DEF InTime, PostTyped, OnTheWay
  <2>3. Counted(q)  BY <2>1, HttpAssumption DEF Counted, PostTyped, OnTheWay
  <2> QED  BY <2>1, <2>2, <2>3 DEF PostInv, q
<1> QED  BY <1>2, <1>3 DEF Attempt

(* An end, which needs a copy when it is a success.                              *)
LEMMA FinalSound ==
  ASSUME NEW p, PostTyped(p), Counted(p), p.elapsed <= Budget + 2 * Timeout,
         NEW stage \in {"sent", "failed"}, NEW answer \in {"doubt", "accepted", "refused"},
         stage = "sent" => p.copies > 0
  PROVE  PostInv(Final(p, stage, answer))
<1> DEFINE q == Final(p, stage, answer)
<1>1. PostTyped(q) /\ q.stage = stage /\ q.copies = p.copies /\ q.over = p.over
      /\ q.attempt = p.attempt /\ q.elapsed = p.elapsed
  BY DEF Final, PostTyped, Stages
<1> HIDE DEF q
<1>2. InTime(q)  BY <1>1 DEF InTime, OnTheWay
<1>3. Counted(q)  BY <1>1 DEF Counted, OnTheWay
<1> QED  BY <1>1, <1>2, <1>3 DEF PostInv, q

(* getRetryDelay: another attempt begins within the budget, or there is none.    *)
LEMMA RetriedSound ==
  ASSUME NEW p, PostTyped(p), Counted(p), p.elapsed <= Budget + 2 * Timeout, NEW delay \in Nat
  PROVE  PostInv(Retried(p, delay))
<1> DEFINE left == Budget - p.elapsed
           q == [p EXCEPT !.stage = "waiting", !.attempt = p.attempt + 1,
                          !.elapsed = p.elapsed + Delay(delay, left), !.over = {}, !.answer = "doubt"]
<1>1. CASE p.attempt >= MaxAttempts - 1 \/ left <= 0
  BY <1>1, FinalSound DEF Retried
<1>2. CASE ~(p.attempt >= MaxAttempts - 1 \/ left <= 0)
  <2>1. p.attempt \in Nat /\ p.elapsed \in Nat /\ p.copies \in Nat  BY DEF PostTyped
  <2>2. /\ p.attempt + 1 \in Nat /\ p.attempt + 1 < MaxAttempts
        /\ p.elapsed + Delay(delay, left) \in Nat /\ p.elapsed + Delay(delay, left) <= Budget
    BY <1>2, <2>1, HttpAssumption DEF Delay, Least
  <2>3. PostTyped(q) /\ q.stage = "waiting" /\ q.attempt = p.attempt + 1 /\ q.copies = p.copies
        /\ q.elapsed = p.elapsed + Delay(delay, left) /\ q.over = {} /\ q.answer = "doubt"
    BY <2>2 DEF PostTyped, Stages
  <2>4. Retried(p, delay) = q  BY <1>2 DEF Retried
  <2> HIDE DEF q, left
  <2>5. InTime(q)  BY <2>2, <2>3, HttpAssumption DEF InTime, OnTheWay
  <2>6. Counted(q)  BY <2>1, <2>2, <2>3 DEF Counted, OnTheWay
  <2> QED  BY <2>3, <2>4, <2>5, <2>6 DEF PostInv
<1> QED  BY <1>1, <1>2

(* A leg takes some time and leaves the rest alone.                              *)
LEMMA LaterTyped ==
  ASSUME PostInv(post), NEW d \in 0 .. Timeout
  PROVE  /\ PostTyped(Later(d)) /\ Counted(Later(d))
         /\ Later(d).elapsed = post.elapsed + d /\ Later(d).stage = post.stage
         /\ Later(d).copies = post.copies /\ Later(d).over = post.over
         /\ Later(d).attempt = post.attempt /\ Later(d).answer = post.answer
<1> DEFINE q == Later(d)
<1>1. q = [post EXCEPT !.elapsed = post.elapsed + d]  BY DEF Later
<1>2. post.elapsed + d \in Nat  BY HttpAssumption DEF PostInv, PostTyped
<1>3. PostTyped(q) /\ q.elapsed = post.elapsed + d /\ q.stage = post.stage
      /\ q.copies = post.copies /\ q.over = post.over
      /\ q.attempt = post.attempt /\ q.answer = post.answer
  BY <1>1, <1>2 DEF PostInv, PostTyped
<1> HIDE DEF q
<1>4. Counted(q)  BY <1>3 DEF PostInv, Counted
<1> QED  BY <1>3, <1>4 DEF q

-------------------------------------------------------------------------------
LEMMA PostInitially ==
  ASSUME HInit
  PROVE  PostInv(post)
<1>1. post = NoPost  BY DEF HInit
<1>2. PostTyped(NoPost) /\ NoPost.stage = "idle" /\ NoPost.attempt = 0 /\ NoPost.elapsed = 0
      /\ NoPost.copies = 0 /\ NoPost.over = {}
  BY DEF NoPost, PostTyped, Stages
<1>3. InTime(NoPost) /\ Counted(NoPost)
  BY <1>2, HttpAssumption DEF InTime, Counted, OnTheWay
<1> QED  BY <1>1, <1>2, <1>3 DEF PostInv

LEMMA NoPostAttempted == PostInv(Attempt(NoPost))
<1>1. PostTyped(NoPost) /\ NoPost.stage = "idle" /\ NoPost.attempt = 0 /\ NoPost.elapsed = 0
      /\ NoPost.copies = 0 /\ NoPost.over = {} /\ NoPost.answer = "none"
  BY DEF NoPost, PostTyped, Stages
<1>2. Counted(NoPost)  BY <1>1, HttpAssumption DEF Counted, OnTheWay
<1> QED  BY <1>1, <1>2, AttemptSound, HttpAssumption

(* Whatever the network does, and however long it takes.                         *)
LEMMA ProgressKeeps ==
  ASSUME PostInv(post), Progress
  PROVE  PostInv(post')
<1>1. ASSUME NEW d \in Durations, NEW delay \in Nat
      PROVE  /\ Posted \/ post.stage = "connecting"
               => PostInv(Retried(Later(d), delay)) /\ PostInv(Final(Later(d), "failed", "refused"))
             /\ Posted => PostInv(Final(Later(d), "sent", "accepted"))
             /\ post.stage = "connecting"
               => PostInv(Put(Later(d), "http1")) /\ PostInv(Put(Later(d), "http2"))
  <2>1. d \in 0 .. Timeout  BY DEF Durations
  <2>2. /\ PostTyped(Later(d)) /\ Counted(Later(d))
        /\ Later(d).elapsed = post.elapsed + d /\ Later(d).stage = post.stage
        /\ Later(d).copies = post.copies /\ Later(d).over = post.over
        /\ Later(d).attempt = post.attempt /\ Later(d).answer = post.answer
    BY <2>1, LaterTyped
  <2>3. Posted \/ post.stage = "connecting" => Later(d).elapsed <= Budget + 2 * Timeout
    BY <2>1, <2>2, HttpAssumption DEF Posted, PostInv, PostTyped, InTime, OnTheWay
  <2>4. Posted => Later(d).copies > 0
    BY <2>2 DEF Posted, PostInv, Counted, OnTheWay
  <2>5. post.stage = "connecting" => /\ Later(d).elapsed <= Budget + Timeout /\ Later(d).over = {}
                                     /\ Later(d).copies <= Later(d).attempt
                                     /\ Later(d).answer \in {"none", "doubt"}
    BY <2>1, <2>2, HttpAssumption DEF PostInv, PostTyped, InTime, Counted
  <2>6. Posted \/ post.stage = "connecting"
          => PostInv(Retried(Later(d), delay)) /\ PostInv(Final(Later(d), "failed", "refused"))
    BY <2>2, <2>3, RetriedSound, FinalSound
  <2>7. Posted => PostInv(Final(Later(d), "sent", "accepted"))
    BY <2>2, <2>3, <2>4, FinalSound
  <2>8. post.stage = "connecting" => PostInv(Put(Later(d), "http1")) /\ PostInv(Put(Later(d), "http2"))
    BY <2>2, <2>5, PutSound DEF OnTheWay
  <2> QED  BY <2>6, <2>7, <2>8
<1>2. Backoff \cup RetryAfter \subseteq Nat /\ Timeout \in Durations  BY HttpAssumption DEF Durations
<1>3. CASE \E d \in Durations, delay \in Backoff, why \in Whys :
             Connect(d) \/ ConnectFails(d, why, delay) \/ ConnectionFails(d, why, delay) \/ TimesOut(delay)
  <2>1. PICK d \in Durations, delay \in Backoff, why \in Whys :
          Connect(d) \/ ConnectFails(d, why, delay) \/ ConnectionFails(d, why, delay) \/ TimesOut(delay)
    BY <1>3
  <2>2. delay \in Nat  BY <1>2
  <2>3. CASE Connect(d)  BY <1>1, <2>2, <2>3 DEF Connect
  <2>4. CASE ConnectFails(d, why, delay)  BY <1>1, <2>2, <2>4 DEF ConnectFails
  <2>5. CASE ConnectionFails(d, why, delay)  BY <1>1, <2>2, <2>5 DEF ConnectionFails
  <2>6. CASE TimesOut(delay)  BY <1>1, <1>2, <2>2, <2>6 DEF TimesOut
  <2> QED  BY <2>1, <2>3, <2>4, <2>5, <2>6
<1>4. CASE \E d \in Durations : Accepted2xx(d) \/ Refused(d)
  <2>1. 0 \in Nat  OBVIOUS
  <2> QED  BY <1>1, <1>4, <2>1 DEF Accepted2xx, Refused
<1>5. CASE \E d \in Durations, delay \in Backoff \cup RetryAfter : Postponed(d, delay)
  BY <1>1, <1>2, <1>5 DEF Postponed
<1>6. CASE TryAgain
  BY <1>6, AttemptSound DEF TryAgain, PostInv, InTime, Counted
<1> QED  BY <1>3, <1>4, <1>5, <1>6 DEF Progress

LEMMA PostStep ==
  ASSUME PostInv(post), [HNext]_httpvars
  PROVE  PostInv(post')
<1>1. CASE Send  BY <1>1, NoPostAttempted DEF Send
<1>2. CASE Progress  BY <1>2, ProgressKeeps
<1>3. CASE SessionEnds \/ PeerFallsSilent \/ CloseTransport \/ UNCHANGED httpvars
  BY <1>3 DEF SessionEnds, PeerFallsSilent, CloseTransport, httpvars
<1> QED  BY <1>1, <1>2, <1>3 DEF HNext

(* Where a payload is in its attempts (send, getRetryDelay, sendOnce), and how   *)
(* much of its time is gone by then.                                             *)
THEOREM PostInvariant == HSpec => []PostInv(post)
<1>1. HInit => PostInv(post)  BY PostInitially
<1>2. PostInv(post) /\ [HNext]_httpvars => PostInv(post)'  BY PostStep
<1> QED  BY <1>1, <1>2, PTL DEF HSpec

(* No payload takes longer than its budget and the two legs of a last attempt     *)
(* that began at its end, whatever the collector asks for with a Retry-After      *)
(* (send, getRetryDelay, getHttp2Session, sendOnce).                             *)
THEOREM EndsInBudget == HSpec => []EndsInTime
<1>1. PostInv(post) => EndsInTime  BY DEF PostInv, InTime, EndsInTime
<1> QED  BY <1>1, PostInvariant, PTL

(* A payload is posted at most once in an attempt and over one protocol, and      *)
(* again only while no answer to it was final (sendOnce, send).                  *)
THEOREM PostedOnceEach == HSpec => []PostedOnce
<1>1. ASSUME PostInv(post)  PROVE  PostedOnce
  <2>1. Cardinality(post.over) <= 1
    <3>1. ASSUME NEW x  PROVE  Cardinality({x}) <= 1
      <4>1. Cardinality({x}) = 1  BY FS_Singleton, Zenon
      <4> QED  BY <4>1
    <3>2. Cardinality({}) <= 1
      <4>1. Cardinality({}) = 0  BY FS_EmptySet, Zenon
      <4> QED  BY <4>1
    <3>3. post.over = {} \/ \E x \in OnTheWay : post.over = {x}
      BY <1>1 DEF PostInv, Counted
    <3> QED  BY <3>1, <3>2, <3>3, Zenon
  <2>2. ~AtRest => post.stage \in {"connecting", "waiting"} \cup OnTheWay
    BY <1>1 DEF PostInv, PostTyped, Stages, AtRest
  <2> QED  BY <1>1, <2>1, <2>2 DEF PostInv, Counted, PostedOnce
<1> QED  BY <1>1, PostInvariant, PTL
-------------------------------------------------------------------------------
(* FileRotation.                                                                 *)
CallStages == {"stat", "waiting", "rename", "cleanup", "open", "write", "accepted", "rejected"}
SendStates == [stage : CallStages, on : Nat, name : Nat, file : Nat]

RotTyped ==
  /\ call \in Seq(SendStates) /\ rotation \in Nat /\ named \in Nat /\ raced \in BOOLEAN
  /\ lines \in Seq(Seq(Nat)) /\ path \in 0 .. Len(lines) /\ moved \in Seq(Nat)
  /\ DOMAIN backups \subseteq 1 .. named
  /\ \A i \in Sends : call[i].stage \in {"write", "accepted"} => call[i].file \in DOMAIN lines
  /\ \A i \in Sends : call[i].stage = "rename" => call[i].name \in 1 .. named

(* A file is at the path, or it was renamed, once.                              *)
FilesOnce ==
  /\ \A f \in DOMAIN lines : f = path \/ \E k \in DOMAIN moved : moved[k] = f
  /\ \A k \in DOMAIN moved : moved[k] \in DOMAIN lines /\ moved[k] # path
  /\ \A k, l \in DOMAIN moved : moved[k] = moved[l] => k = l

(* While no two rotations went for one file, one send rotates at a time, the     *)
(* name it has is later than those of all backups, the names are in the order in *)
(* which the files were renamed, and a file that has no backup is behind enough  *)
(* others.                                                                       *)
NamedLater ==
  /\ \A i, j \in Rotating : i = j
  /\ \A i \in At("rename"), n \in DOMAIN backups : n < call[i].name
NamesFollow(bs, ms) ==
  /\ \A n \in DOMAIN bs : \E k \in DOMAIN ms : ms[k] = bs[n]
  /\ \A m, n \in DOMAIN bs : \A k, l \in DOMAIN ms : ms[k] = bs[m] /\ ms[l] = bs[n] /\ m < n => k < l
BackedUp(bs, ms) ==
  \A k \in DOMAIN ms : Len(ms) - k >= MaxBackups \/ \E n \in DOMAIN bs : bs[n] = ms[k]
Ordered == NamedLater /\ NamesFollow(backups, moved) /\ BackedUp(backups, moved)

(* The sends that will append to the file at the path without a look at its size. *)
Coming == {i \in Sends : \/ call[i].stage \in {"open", "cleanup"}
                         \/ (call[i].stage = "write" /\ call[i].file = path)}
Crowded == Cardinality(InFlight) <= MaxInFlight
Roomy == path # 0 => Len(lines[path]) + Cardinality(Coming) <= MaxSize + MaxInFlight

RotInv == RotTyped /\ FilesOnce /\ (raced \/ Ordered) /\ Crowded /\ Roomy

-------------------------------------------------------------------------------
LEMMA SendsFinite ==
  ASSUME NEW c, NEW S, c \in Seq(S)
  PROVE  /\ DOMAIN c = 1 .. Len(c) /\ Len(c) \in Nat
         /\ \A T \in SUBSET DOMAIN c : IsFiniteSet(T) /\ Cardinality(T) \in Nat
<1>1. DOMAIN c = 1 .. Len(c) /\ Len(c) \in Nat  OBVIOUS
<1>2. IsFiniteSet(DOMAIN c)
  <2> DEFINE n == Len(c)
  <2>1. n \in Nat /\ DOMAIN c = 1 .. n  BY <1>1
  <2> HIDE DEF n
  <2> QED  BY <2>1, FS_Interval
<1>3. ASSUME NEW T \in SUBSET DOMAIN c  PROVE IsFiniteSet(T) /\ Cardinality(T) \in Nat
  BY <1>2, FS_Subset, FS_CardinalityType
<1> QED  BY <1>1, <1>3

(* Fewer sends count for less.                                                   *)
LEMMA Fewer ==
  ASSUME NEW c, NEW S, c \in Seq(S), NEW T \in SUBSET DOMAIN c, NEW U \in SUBSET T
  PROVE  /\ IsFiniteSet(T) /\ Cardinality(T) \in Nat
         /\ IsFiniteSet(U) /\ Cardinality(U) \in Nat /\ Cardinality(U) <= Cardinality(T)
<1>1. IsFiniteSet(T) /\ Cardinality(T) \in Nat  BY SendsFinite
<1> QED  BY <1>1, FS_Subset, FS_CardinalityType

LEMMA StageTyped ==
  ASSUME NEW c \in SendStates
  PROVE  \A s \in CallStages :
              LET u == [c EXCEPT !.stage = s]
              IN  u \in SendStates /\ u.stage = s /\ u.name = c.name /\ u.file = c.file
  BY DEF SendStates

(* One send goes on.                                                             *)
LEMMA OneGoesOn ==
  ASSUME NEW c \in Seq(SendStates), NEW i \in DOMAIN c, NEW w \in SendStates
  PROVE  LET u == [c EXCEPT ![i] = w]
         IN  /\ u \in Seq(SendStates) /\ DOMAIN u = DOMAIN c /\ Len(u) = Len(c)
             /\ u[i] = w /\ \A j \in DOMAIN c \ {i} : u[j] = c[j]
  OBVIOUS

LEMMA MaxIn ==
  ASSUME NEW c \in Seq(SendStates), NEW S \in SUBSET DOMAIN c, S # {}
  PROVE  Max(S) \in S
<1>1. IsFiniteSet(S) /\ S \subseteq Nat  BY SendsFinite
<1>2. PICK m \in S : \A n \in S : n <= m  BY <1>1, LargestNatural
<1>3. \E x \in S : \A y \in S : x >= y  BY <1>1, <1>2
<1> QED  BY <1>3 DEF Max

(* A rotation ends: of its send, and of those that waited, the stage changes.    *)
LEMMA EndsMoves ==
  ASSUME call \in Seq(SendStates), NEW i \in Sends, NEW ok \in BOOLEAN, Ends(i, ok)
  PROVE  /\ call' \in Seq(SendStates) /\ DOMAIN call' = Sends /\ rotation' \in Nat
         /\ call'[i].stage = (IF ok THEN "open" ELSE "rejected")
         /\ \A j \in Sends : call'[j].name = call[j].name /\ call'[j].file = call[j].file
         /\ \A j \in Sends \ {i} :
              \/ call'[j].stage = call[j].stage
              \/ call[j].stage = "waiting" /\ call'[j].stage \in {"stat", "rejected"}
<1> DEFINE to(j) == IF j = i THEN (IF ok THEN "open" ELSE "rejected")
                    ELSE IF j \in Waiting(i) THEN (IF ok THEN "stat" ELSE "rejected")
                    ELSE call[j].stage
<1>1. \A j \in Sends : call[j] \in SendStates  BY DEF Sends
<1>2. \A j \in Sends : to(j) \in CallStages  BY <1>1 DEF SendStates, CallStages
<1>3. \A j \in Sends : call'[j] = [call[j] EXCEPT !.stage = to(j)]
  <2> SUFFICES ASSUME NEW j \in Sends  PROVE call'[j] = [call[j] EXCEPT !.stage = to(j)]
    OBVIOUS
  <2>1. call[j] \in SendStates  BY <1>1
  <2>2. CASE j = i  BY <2>2 DEF Ends
  <2>3. CASE j # i /\ j \in Waiting(i)  BY <2>3 DEF Ends
  <2>4. CASE j # i /\ j \notin Waiting(i)
    <3>1. call'[j] = call[j]  BY <2>4 DEF Ends
    <3>2. [call[j] EXCEPT !.stage = call[j].stage] = call[j]  BY <2>1 DEF SendStates
    <3> QED  BY <2>4, <3>1, <3>2
  <2> QED  BY <2>2, <2>3, <2>4
<1>4. \A j \in Sends : call'[j] \in SendStates /\ call'[j].stage = to(j)
                       /\ call'[j].name = call[j].name /\ call'[j].file = call[j].file
  <2> SUFFICES ASSUME NEW j \in Sends
               PROVE  call'[j] \in SendStates /\ call'[j].stage = to(j)
                      /\ call'[j].name = call[j].name /\ call'[j].file = call[j].file
    OBVIOUS
  <2>1. call[j] \in SendStates /\ to(j) \in CallStages  BY <1>1, <1>2
  <2>2. call'[j] = [call[j] EXCEPT !.stage = to(j)]  BY <1>3
  <2> HIDE DEF to
  <2> QED  BY <2>1, <2>2, StageTyped DEF SendStates
<1>5. DOMAIN call' = Sends /\ \E n \in Nat : Sends = 1 .. n  BY SendsFinite DEF Ends, Sends
<1>6. call' \in Seq(SendStates)
  <2>1. call' = [j \in Sends |-> call'[j]]  BY <1>5 DEF Ends
  <2>2. call' \in [Sends -> SendStates]  BY <1>4, <2>1
  <2>3. PICK n \in Nat : Sends = 1 .. n  BY <1>5
  <2> QED  BY <2>2, <2>3
<1>7. rotation' \in Nat
  <2>1. Waiting(i) \in SUBSET Sends /\ Sends \subseteq Nat  BY SendsFinite DEF Waiting, At, Sends
  <2>2. Waiting(i) # {} => Max(Waiting(i)) \in Sends  BY <2>1, MaxIn DEF Sends
  <2> QED  BY <2>1, <2>2 DEF Ends
<1>8. \A j \in Waiting(i) : call[j].stage = "waiting"  BY DEF Waiting, At
<1> QED  BY <1>4, <1>5, <1>6, <1>7, <1>8

-------------------------------------------------------------------------------
(* What a step leaves alone.                                                     *)
LEMMA FilesStay ==
  ASSUME FilesOnce, UNCHANGED <<path, moved>>, DOMAIN lines' = DOMAIN lines
  PROVE  FilesOnce'
  BY DEF FilesOnce

LEMMA OrderStays ==
  ASSUME raced \/ Ordered, raced' = raced, UNCHANGED <<backups, moved>>, named \in Nat,
         named' = named, Rotating' \subseteq Rotating,
         \A i \in At("rename")' : i \in At("rename") /\ call'[i].name = call[i].name
  PROVE  raced' \/ Ordered'
<1> SUFFICES ASSUME Ordered  PROVE Ordered'  OBVIOUS
<1>1. NamedLater'  BY DEF Ordered, NamedLater
<1> QED  BY <1>1 DEF Ordered, NamesFollow, BackedUp

LEMMA CrowdLess ==
  ASSUME RotTyped, Crowded, InFlight' \subseteq InFlight
  PROVE  Crowded'
<1>1. InFlight \in SUBSET DOMAIN call  BY DEF InFlight, Sends
<1>2. Cardinality(InFlight') <= Cardinality(InFlight) /\ Cardinality(InFlight) \in Nat
      /\ Cardinality(InFlight') \in Nat
  BY <1>1, Fewer DEF RotTyped
<1> QED  BY <1>2, RotationAssumption DEF Crowded

LEMMA RoomStays ==
  ASSUME RotTyped, Roomy, path' = path, path # 0 => lines'[path] = lines[path],
         Coming' \subseteq Coming
  PROVE  Roomy'
<1> SUFFICES ASSUME path # 0
             PROVE  Len(lines[path]) + Cardinality(Coming') <= MaxSize + MaxInFlight
  BY DEF Roomy
<1>1. Coming \in SUBSET DOMAIN call  BY DEF Coming, Sends
<1>2. Cardinality(Coming') <= Cardinality(Coming) /\ Cardinality(Coming) \in Nat
      /\ Cardinality(Coming') \in Nat
  BY <1>1, Fewer DEF RotTyped
<1>3. Len(lines[path]) \in Nat
  <2>1. path \in DOMAIN lines  BY DEF RotTyped
  <2>2. lines[path] \in Seq(Nat)  BY <2>1 DEF RotTyped
  <2> QED  BY <2>2
<1>4. Len(lines[path]) + Cardinality(Coming) <= MaxSize + MaxInFlight  BY DEF Roomy
<1> QED  BY <1>2, <1>3, <1>4, RotationAssumption

(* A file that is small enough, or new, has room for whoever is in flight.       *)
LEMMA RoomForAll ==
  ASSUME RotTyped', Crowded',
         path' # 0 => Len(lines'[path']) \in Nat /\ Len(lines'[path']) <= MaxSize
  PROVE  Roomy'
<1> SUFFICES ASSUME path' # 0
             PROVE  Len(lines'[path']) + Cardinality(Coming') <= MaxSize + MaxInFlight
  BY DEF Roomy
<1>1. InFlight' \in SUBSET DOMAIN call'  BY DEF InFlight, Sends
<1>2. Coming' \subseteq InFlight'  BY DEF Coming, InFlight, At
<1>3. Cardinality(Coming') <= Cardinality(InFlight') /\ Cardinality(Coming') \in Nat
      /\ Cardinality(InFlight') \in Nat
  BY <1>1, <1>2, Fewer DEF RotTyped
<1>4. Cardinality(InFlight') <= MaxInFlight  BY DEF Crowded
<1> QED  BY <1>3, <1>4, RotationAssumption

-------------------------------------------------------------------------------
LEMMA ArriveSound ==
  ASSUME RotInv, Arrive
  PROVE  RotInv'
<1> USE DEF RotInv
<1> DEFINE i == Len(call) + 1
<1>1. PICK w \in [stage : {"stat", "waiting"}, on : Nat, name : {0}, file : {0}] :
        call' = Append(call, w)
  <2> DEFINE s == IF rotation = 0 THEN "stat" ELSE "waiting"
             w == [stage |-> s, on |-> rotation, name |-> 0, file |-> 0]
  <2>1. s \in {"stat", "waiting"} /\ rotation \in Nat  BY DEF RotTyped
  <2>2. call' = Append(call, w)  BY DEF Arrive
  <2> HIDE DEF s
  <2>3. w \in [stage : {"stat", "waiting"}, on : Nat, name : {0}, file : {0}]  BY <2>1
  <2> QED  BY <2>2, <2>3
<1>2. w \in SendStates /\ w.stage \in {"stat", "waiting"}  BY DEF SendStates, CallStages
<1>3. /\ UNCHANGED <<named, path, lines, backups, moved, raced>>
      /\ Cardinality(InFlight) < MaxInFlight /\ rotation' \in Nat
  BY DEF Arrive, RotTyped
<1>4. /\ call' \in Seq(SendStates) /\ Len(call) \in Nat /\ DOMAIN call = 1 .. Len(call)
      /\ DOMAIN call' = 1 .. i /\ call'[i] = w /\ \A j \in Sends : call'[j] = call[j]
  BY <1>1, <1>2 DEF RotTyped, Sends
<1>5. \A j \in DOMAIN call' : j \in Sends \/ j = i  BY <1>4 DEF Sends
<1>6. i \notin Sends /\ i \in DOMAIN call'  BY <1>4 DEF Sends
<1> HIDE DEF i
<1>7. RotTyped'
  <2>1. \A j \in DOMAIN call' :
          /\ call'[j].stage \in {"write", "accepted"} => call'[j].file \in DOMAIN lines
          /\ call'[j].stage = "rename" => call'[j].name \in 1 .. named'
    BY <1>2, <1>3, <1>4, <1>5 DEF RotTyped, Sends
  <2> QED  BY <1>3, <1>4, <2>1 DEF RotTyped, Sends
<1>8. FilesOnce'  BY <1>3, FilesStay
<1>9. raced' \/ Ordered'
  <2>1. Rotating' \subseteq Rotating  BY <1>2, <1>4, <1>5 DEF Rotating, At, Sends
  <2>2. \A j \in At("rename")' : j \in At("rename") /\ call'[j].name = call[j].name
    BY <1>2, <1>4, <1>5 DEF At, Sends
  <2> QED  BY <1>3, <2>1, <2>2, OrderStays DEF RotTyped
<1>10. Crowded'
  <2>1. InFlight' = InFlight \cup {i} /\ i \notin InFlight
    BY <1>2, <1>4, <1>5, <1>6 DEF InFlight, At, Sends
  <2>2. IsFiniteSet(InFlight) /\ Cardinality(InFlight) \in Nat
    <3>1. InFlight \in SUBSET DOMAIN call  BY DEF InFlight, Sends
    <3> QED  BY <3>1, SendsFinite DEF RotTyped
  <2>3. Cardinality(InFlight') = Cardinality(InFlight) + 1  BY <2>1, <2>2, FS_AddElement
  <2> QED  BY <1>3, <2>2, <2>3, RotationAssumption DEF Crowded
<1>11. Roomy'
  <2>1. Coming' \subseteq Coming  BY <1>2, <1>3, <1>4, <1>5 DEF Coming, Sends
  <2> QED  BY <1>3, <2>1, RoomStays
<1> QED  BY <1>7, <1>8, <1>9, <1>10, <1>11

(* The file was small enough for i, or there was none: its rotation ends.        *)
LEMMA SmallSound ==
  ASSUME RotInv, NEW i \in Sends, call[i].stage = "stat", ~TooLarge, Ends(i, TRUE),
         UNCHANGED <<named, path, lines, backups, moved, raced>>
  PROVE  RotInv'
<1> USE DEF RotInv
<1>1. /\ call' \in Seq(SendStates) /\ DOMAIN call' = Sends /\ rotation' \in Nat
      /\ call'[i].stage = "open"
      /\ \A j \in Sends : call'[j].name = call[j].name /\ call'[j].file = call[j].file
      /\ \A j \in Sends \ {i} :
           \/ call'[j].stage = call[j].stage
           \/ call[j].stage = "waiting" /\ call'[j].stage \in {"stat", "rejected"}
  <2> DEFINE ok == TRUE
  <2>1. ok \in BOOLEAN /\ Ends(i, ok) /\ (IF ok THEN "open" ELSE "rejected") = "open"  OBVIOUS
  <2> HIDE DEF ok
  <2> QED  BY <2>1, EndsMoves DEF RotTyped
<1>2. RotTyped'
  <2>1. \A j \in DOMAIN call' :
          /\ call'[j].stage \in {"write", "accepted"} => call'[j].file \in DOMAIN lines
          /\ call'[j].stage = "rename" => call'[j].name \in 1 .. named'
    BY <1>1 DEF RotTyped
  <2> QED  BY <1>1, <2>1 DEF RotTyped, Sends
<1>3. FilesOnce'  BY FilesStay
<1>4. raced' \/ Ordered'
  <2>1. Rotating' \subseteq Rotating  BY <1>1 DEF Rotating, At, Sends
  <2>2. \A j \in At("rename")' : j \in At("rename") /\ call'[j].name = call[j].name
    BY <1>1 DEF At, Sends
  <2> QED  BY <2>1, <2>2, OrderStays DEF RotTyped
<1>5. Crowded'
  <2>1. InFlight' \subseteq InFlight  BY <1>1 DEF InFlight, At, Sends
  <2> QED  BY <2>1, CrowdLess
<1>6. Roomy'
  <2>1. path # 0 => Len(lines[path]) \in Nat /\ Len(lines[path]) <= MaxSize
    <3> SUFFICES ASSUME path # 0
                 PROVE  Len(lines[path]) \in Nat /\ Len(lines[path]) <= MaxSize
      OBVIOUS
    <3>1. path \in DOMAIN lines  BY DEF RotTyped
    <3>2. lines[path] \in Seq(Nat)  BY <3>1 DEF RotTyped
    <3>3. Len(lines[path]) \in Nat  BY <3>2
    <3> QED  BY <3>3, RotationAssumption DEF TooLarge
  <2> QED  BY <1>2, <1>5, <2>1, RoomForAll
<1> QED  BY <1>2, <1>3, <1>4, <1>5, <1>6

LEMMA LargeSound ==
  ASSUME RotInv, NEW i \in Sends, StatPath(i), TooLarge
  PROVE  RotInv'
<1> USE DEF RotInv
<1> DEFINE w == [call[i] EXCEPT !.stage = "rename", !.name = Name]
<1>1. /\ call[i].stage = "stat" /\ call' = [call EXCEPT ![i] = w]
      /\ named' = named + 1 /\ raced' = (raced \/ Rotating # {})
      /\ UNCHANGED <<rotation, path, lines, backups, moved>>
  BY DEF StatPath
<1>2. w \in SendStates /\ w.stage = "rename" /\ w.name = named + 1 /\ named + 1 \in Nat
  <2> DEFINE c == call[i]
             s == "rename"
             n == Name
  <2>1. c \in SendStates /\ n \in Nat /\ n = named + 1 /\ s \in CallStages /\ s = "rename"
    BY DEF RotTyped, Name, Sends, CallStages
  <2>2. w = [c EXCEPT !.stage = s, !.name = n]  OBVIOUS
  <2> HIDE DEF w, c, s, n
  <2>3. w \in SendStates /\ w.stage = s /\ w.name = n
    <3> DEFINE u == [c EXCEPT !.stage = s, !.name = n]
    <3>1. u \in SendStates /\ u.stage = s /\ u.name = n  BY <2>1 DEF SendStates
    <3> QED  BY <2>2, <3>1
  <2> QED  BY <2>1, <2>3
<1> HIDE DEF w
<1>3. /\ call' \in Seq(SendStates) /\ DOMAIN call' = Sends /\ call'[i] = w
      /\ \A j \in Sends \ {i} : call'[j] = call[j]
  BY <1>1, <1>2, OneGoesOn DEF RotTyped, Sends
<1>4. RotTyped'
  <2>1. \A j \in DOMAIN call' :
          /\ call'[j].stage \in {"write", "accepted"} => call'[j].file \in DOMAIN lines
          /\ call'[j].stage = "rename" => call'[j].name \in 1 .. named'
    <3>1. named' = named + 1 /\ named \in Nat  BY <1>1 DEF RotTyped
    <3>2. \A j \in Sends \ {i} : call[j].stage = "rename" => call[j].name \in 1 .. named'
      BY <3>1 DEF RotTyped
    <3>3. named + 1 \in 1 .. named'  BY <3>1
    <3>4. \A j \in Sends \ {i} :
            /\ call[j].stage \in {"write", "accepted"} => call[j].file \in DOMAIN lines
            /\ call[j].stage = "rename" => call[j].name \in 1 .. named'
      BY <3>2 DEF RotTyped
    <3>5. /\ w.stage \notin {"write", "accepted"}
          /\ w.name \in 1 .. named'
      BY <1>2, <3>3
    <3>6. DOMAIN call' = Sends /\ call'[i] = w /\ \A j \in Sends \ {i} : call'[j] = call[j]  BY <1>3
    <3> HIDE DEF RotInv
    <3> QED  BY <1>1, <3>4, <3>5, <3>6
  <2>2. DOMAIN backups \subseteq 1 .. named + 1 /\ raced' \in BOOLEAN  BY <1>1 DEF RotTyped
  <2> QED  BY <1>1, <1>2, <1>3, <2>1, <2>2 DEF RotTyped, Sends
<1>5. FilesOnce'  BY <1>1, FilesStay
<1>6. raced' \/ Ordered'
  <2> SUFFICES ASSUME ~raced'  PROVE Ordered'  OBVIOUS
  <2>1. Ordered /\ Rotating = {} /\ At("rename") = {}  BY <1>1 DEF Rotating
  <2>2. \A j \in Rotating' : j = i  BY <1>3, <2>1 DEF Rotating, At, Sends
  <2>3. \A j \in At("rename")' : j = i /\ call'[j].name = named + 1
    BY <1>2, <1>3, <2>1 DEF At, Sends
  <2>4. \A n \in DOMAIN backups : n < named + 1
    BY DEF RotTyped
  <2>5. NamedLater'  BY <1>1, <2>2, <2>3, <2>4 DEF NamedLater
  <2> QED  BY <1>1, <2>1, <2>5 DEF Ordered
<1>7. Crowded'
  <2>1. InFlight' \subseteq InFlight  BY <1>1, <1>2, <1>3 DEF InFlight, At, Sends
  <2> QED  BY <2>1, CrowdLess
<1>8. Roomy'
  <2>1. Coming' \subseteq Coming  BY <1>1, <1>2, <1>3 DEF Coming, Sends
  <2> QED  BY <1>1, <2>1, RoomStays
<1> QED  BY <1>4, <1>5, <1>6, <1>7, <1>8

-------------------------------------------------------------------------------
LEMMA RenameSound ==
  ASSUME RotInv, NEW i \in Sends, Rename(i)
  PROVE  RotInv'
<1> USE DEF RotInv
<1> DEFINE w == [call[i] EXCEPT !.stage = "cleanup"]
           n == call[i].name
           z == Len(moved) + 1
<1>1. /\ call[i].stage = "rename" /\ path # 0 /\ path' = 0 /\ moved' = Append(moved, path)
      /\ backups' = [m \in DOMAIN backups \cup {n} |-> IF m = n THEN path ELSE backups[m]]
      /\ call' = [call EXCEPT ![i] = w]
      /\ UNCHANGED <<rotation, named, lines, raced>>
  BY DEF Rename
<1>2. w \in SendStates /\ w.stage = "cleanup"
  <2> DEFINE s == "cleanup"
  <2>1. call[i] \in SendStates /\ s \in CallStages /\ s = "cleanup"  BY DEF RotTyped, Sends, CallStages
  <2> HIDE DEF s
  <2>2. [call[i] EXCEPT !.stage = s] \in SendStates /\ [call[i] EXCEPT !.stage = s].stage = s
    BY <2>1, StageTyped
  <2> QED  BY <2>1, <2>2
<1>3. n \in 1 .. named /\ path \in DOMAIN lines /\ path \in Nat  BY <1>1 DEF RotTyped
<1> HIDE DEF w, n
<1>4. /\ call' \in Seq(SendStates) /\ DOMAIN call' = Sends /\ call'[i] = w
      /\ \A j \in Sends \ {i} : call'[j] = call[j]
  BY <1>1, <1>2, OneGoesOn DEF RotTyped, Sends
<1>5. /\ moved' \in Seq(Nat) /\ Len(moved') = z /\ moved'[z] = path /\ z \in Nat \ {0}
      /\ DOMAIN moved = 1 .. Len(moved) /\ DOMAIN moved' = 1 .. z
      /\ \A k \in DOMAIN moved : moved'[k] = moved[k]
  BY <1>1, <1>3 DEF RotTyped
<1>6. (\A k \in DOMAIN moved' : k \in DOMAIN moved \/ k = z) /\ z \notin DOMAIN moved
      /\ \A k \in DOMAIN moved : k \in DOMAIN moved' /\ k < z
  BY <1>5 DEF RotTyped
<1> HIDE DEF z
<1>7. DOMAIN backups' = DOMAIN backups \cup {n} /\ backups'[n] = path
      /\ \A m \in DOMAIN backups : m # n => backups'[m] = backups[m]
  BY <1>1
<1>8. RotTyped'
  <2>1. \A j \in DOMAIN call' :
          /\ call'[j].stage \in {"write", "accepted"} => call'[j].file \in DOMAIN lines
          /\ call'[j].stage = "rename" => call'[j].name \in 1 .. named
    BY <1>2, <1>4 DEF RotTyped
  <2>2. DOMAIN backups' \subseteq 1 .. named  BY <1>3, <1>7 DEF RotTyped
  <2>3. path' \in 0 .. Len(lines)  BY <1>1 DEF RotTyped
  <2> QED  BY <1>1, <1>4, <1>5, <2>1, <2>2, <2>3 DEF RotTyped, Sends
<1>9. FilesOnce'
  <2>1. \A f \in DOMAIN lines : f = path' \/ \E k \in DOMAIN moved' : moved'[k] = f
    <3> SUFFICES ASSUME NEW f \in DOMAIN lines  PROVE \E k \in DOMAIN moved' : moved'[k] = f
      OBVIOUS
    <3>1. CASE f = path
      <4>1. z \in DOMAIN moved' /\ moved'[z] = f  BY <1>5, <3>1
      <4> QED  BY <4>1
    <3>2. CASE f # path
      <4>1. PICK k \in DOMAIN moved : moved[k] = f  BY <3>2 DEF FilesOnce
      <4>2. k \in DOMAIN moved' /\ moved'[k] = f  BY <1>5, <1>6, <4>1
      <4> QED  BY <4>2
    <3> QED  BY <3>1, <3>2
  <2>2. \A k \in DOMAIN moved' : moved'[k] \in DOMAIN lines /\ moved'[k] # path'
    <3>1. \A k \in DOMAIN moved' : moved'[k] \in DOMAIN lines  BY <1>3, <1>5, <1>6 DEF FilesOnce
    <3>2. 0 \notin DOMAIN lines  BY DEF RotTyped
    <3> QED  BY <1>1, <3>1, <3>2
  <2>3. \A k, l \in DOMAIN moved' : moved'[k] = moved'[l] => k = l
    BY <1>5, <1>6 DEF FilesOnce
  <2> QED  BY <1>1, <2>1, <2>2, <2>3 DEF FilesOnce
<1>10. raced' \/ Ordered'
  <2> SUFFICES ASSUME ~raced  PROVE Ordered'  BY <1>1
  <2>1. Ordered  OBVIOUS
  <2>2. \A j \in Rotating : j = i  BY <1>1, <2>1 DEF Ordered, NamedLater, Rotating, At
  <2>3. \A j \in Rotating' : j = i  BY <1>4, <2>2 DEF Rotating, At, Sends
  <2>4. At("rename")' = {}
    <3> SUFFICES ASSUME NEW j \in At("rename")'  PROVE FALSE  OBVIOUS
    <3>1. j \in Sends /\ call'[j].stage = "rename" /\ j = i  BY <1>4, <2>3 DEF Rotating, At, Sends
    <3> QED  BY <1>2, <1>4, <3>1
  <2>5. NamedLater'  BY <2>3, <2>4 DEF NamedLater
  <2>6. \A m \in DOMAIN backups : m < n  BY <1>1, <2>1 DEF Ordered, NamedLater, At, n
  <2>7. \A m \in DOMAIN backups : m # n /\ backups'[m] = backups[m] /\ m \in Nat
    <3>1. \A m \in DOMAIN backups : m \in Nat  BY DEF RotTyped
    <3> QED  BY <1>3, <1>7, <2>6, <3>1
  <2>8. \A m \in DOMAIN backups : backups[m] # path /\ \E k \in DOMAIN moved : moved[k] = backups[m]
    BY <2>1 DEF Ordered, NamesFollow, FilesOnce
  <2>9. NamesFollow(backups', moved')
    <3>1. \A m \in DOMAIN backups' : \E k \in DOMAIN moved' : moved'[k] = backups'[m]
      <4> SUFFICES ASSUME NEW m \in DOMAIN backups'
                   PROVE  \E k \in DOMAIN moved' : moved'[k] = backups'[m]
        OBVIOUS
      <4>1. CASE m = n
        <5>1. z \in DOMAIN moved' /\ moved'[z] = backups'[m]  BY <1>5, <1>7, <4>1
        <5> QED  BY <5>1
      <4>2. CASE m \in DOMAIN backups
        <5>1. PICK k \in DOMAIN moved : moved[k] = backups[m]  BY <2>8, <4>2
        <5>2. k \in DOMAIN moved' /\ moved'[k] = backups'[m]  BY <1>5, <1>6, <2>7, <4>2, <5>1
        <5> QED  BY <5>2
      <4> QED  BY <1>7, <4>1, <4>2
    <3>2. ASSUME NEW m \in DOMAIN backups', NEW p \in DOMAIN backups', m < p,
                 NEW k \in DOMAIN moved', NEW l \in DOMAIN moved',
                 moved'[k] = backups'[m], moved'[l] = backups'[p]
          PROVE  k < l
      <4>1. m \in DOMAIN backups
        <5> SUFFICES ASSUME m = n  PROVE FALSE  BY <1>7
        <5>1. p = n \/ p \in DOMAIN backups  BY <1>7
        <5>2. n \in Nat  BY <1>3
        <5> QED  BY <2>6, <2>7, <3>2, <5>1, <5>2
      <4>2. k \in DOMAIN moved /\ moved[k] = backups[m]
        BY <1>5, <1>6, <2>7, <2>8, <3>2, <4>1
      <4>3. CASE p \in DOMAIN backups
        <5>1. l \in DOMAIN moved /\ moved[l] = backups[p]  BY <1>5, <1>6, <2>7, <2>8, <3>2, <4>3
        <5> QED  BY <2>1, <3>2, <4>1, <4>2, <4>3, <5>1 DEF Ordered, NamesFollow
      <4>4. CASE p = n
        <5>1. l \notin DOMAIN moved  BY <1>5, <1>7, <3>2, <4>4 DEF FilesOnce
        <5> QED  BY <1>6, <4>2, <5>1
      <4> QED  BY <1>7, <4>3, <4>4
    <3> QED  BY <3>1, <3>2 DEF NamesFollow
  <2>10. BackedUp(backups', moved')
    <3> SUFFICES ASSUME NEW k \in DOMAIN moved'
                 PROVE  Len(moved') - k >= MaxBackups \/ \E m \in DOMAIN backups' : backups'[m] = moved'[k]
      BY DEF BackedUp
    <3>1. CASE k = z  BY <1>5, <1>7, <3>1
    <3>2. CASE k \in DOMAIN moved
      <4>1. Len(moved) - k >= MaxBackups \/ \E m \in DOMAIN backups : backups[m] = moved[k]
        BY <2>1, <3>2 DEF Ordered, BackedUp
      <4>2. CASE Len(moved) - k >= MaxBackups
        <5>1. Len(moved') = Len(moved) + 1 /\ Len(moved) \in Nat /\ k \in Nat
          BY <1>5, <3>2 DEF z, RotTyped
        <5> QED  BY <4>2, <5>1, RotationAssumption
      <4>3. CASE \E m \in DOMAIN backups : backups[m] = moved[k]
        BY <1>5, <1>7, <2>7, <3>2, <4>3
      <4> QED  BY <4>1, <4>2, <4>3
    <3> QED  BY <1>6, <3>1, <3>2
  <2> QED  BY <2>5, <2>9, <2>10 DEF Ordered
<1>11. Crowded'
  <2>1. InFlight' \subseteq InFlight  BY <1>1, <1>2, <1>4 DEF InFlight, At, Sends
  <2> QED  BY <2>1, CrowdLess
<1>12. Roomy'  BY <1>1 DEF Roomy
<1> QED  BY <1>8, <1>9, <1>10, <1>11, <1>12

(* Another send has renamed the file, or the disk refused: so for those that waited. *)
LEMMA RenameFailsSound ==
  ASSUME RotInv, NEW i \in Sends, RenameFails(i)
  PROVE  RotInv'
<1> USE DEF RotInv
<1>1. /\ call[i].stage = "rename" /\ Ends(i, FALSE)
      /\ UNCHANGED <<named, path, lines, backups, moved, raced>>
  BY DEF RenameFails
<1>2. /\ call' \in Seq(SendStates) /\ DOMAIN call' = Sends /\ rotation' \in Nat
      /\ call'[i].stage = "rejected"
      /\ \A j \in Sends : call'[j].name = call[j].name /\ call'[j].file = call[j].file
      /\ \A j \in Sends \ {i} :
           \/ call'[j].stage = call[j].stage
           \/ call[j].stage = "waiting" /\ call'[j].stage \in {"stat", "rejected"}
  <2> DEFINE ok == FALSE
  <2>1. ok \in BOOLEAN /\ Ends(i, ok) /\ (IF ok THEN "open" ELSE "rejected") = "rejected"  BY <1>1
  <2> HIDE DEF ok
  <2> QED  BY <2>1, EndsMoves DEF RotTyped
<1>3. RotTyped'
  <2>1. \A j \in DOMAIN call' :
          /\ call'[j].stage \in {"write", "accepted"} => call'[j].file \in DOMAIN lines
          /\ call'[j].stage = "rename" => call'[j].name \in 1 .. named
    BY <1>2 DEF RotTyped
  <2> QED  BY <1>1, <1>2, <2>1 DEF RotTyped, Sends
<1>4. FilesOnce'  BY <1>1, FilesStay
<1>5. raced' \/ Ordered'
  <2>1. Rotating' \subseteq Rotating  BY <1>1, <1>2 DEF Rotating, At, Sends
  <2>2. \A j \in At("rename")' : j \in At("rename") /\ call'[j].name = call[j].name
    BY <1>2 DEF At, Sends
  <2> QED  BY <1>1, <2>1, <2>2, OrderStays DEF RotTyped
<1>6. Crowded'
  <2>1. InFlight' \subseteq InFlight  BY <1>1, <1>2 DEF InFlight, At, Sends
  <2> QED  BY <2>1, CrowdLess
<1>7. Roomy'
  <2>1. Coming' \subseteq Coming  BY <1>1, <1>2 DEF Coming, Sends
  <2> QED  BY <1>1, <2>1, RoomStays
<1> QED  BY <1>3, <1>4, <1>5, <1>6, <1>7

(* A file whose backup has enough later ones was renamed before as many others.  *)
LEMMA BehindOthers ==
  ASSUME RotTyped, FilesOnce, NamesFollow(backups, moved), NEW n \in DOMAIN backups,
         NEW k \in DOMAIN moved, moved[k] = backups[n],
         ~(Cardinality({m \in DOMAIN backups : m > n}) < MaxBackups)
  PROVE  Len(moved) - k >= MaxBackups
<1> DEFINE C == {m \in DOMAIN backups : m > n}
           at == [m \in C |-> CHOOSE l \in DOMAIN moved : moved[l] = backups[m]]
           len == Len(moved)
<1>1. DOMAIN moved = 1 .. len /\ len \in Nat /\ k \in Nat /\ k <= len  BY DEF RotTyped
<1>2. \A m \in C : at[m] \in DOMAIN moved /\ moved[at[m]] = backups[m]  BY DEF NamesFollow
<1>3. C \subseteq DOMAIN backups /\ \A m \in C : n < m /\ m \in Nat  BY DEF RotTyped
<1>4. DOMAIN at = C  OBVIOUS
<1>5. C \in SUBSET Nat /\ \A m \in C : m <= named  BY DEF RotTyped
<1>6. Cardinality(C) \in Nat  BY <1>5, FS_BoundedSetOfNaturals, FS_CardinalityType DEF RotTyped
<1>7. Cardinality(C) >= MaxBackups  BY <1>6, RotationAssumption
<1>8. at = [m \in C |-> at[m]]  OBVIOUS
<1> HIDE DEF C, at, len
<1>9. \A m \in C : at[m] \in (k + 1) .. len
  <2> SUFFICES ASSUME NEW m \in C  PROVE at[m] \in (k + 1) .. len  OBVIOUS
  <2>1. k < at[m]  BY <1>2, <1>3 DEF NamesFollow
  <2> QED  BY <1>1, <1>2, <2>1
<1>10. \A l, m \in C : at[l] = at[m] => l = m
  <2> SUFFICES ASSUME NEW l \in C, NEW m \in C, at[l] = at[m], l # m  PROVE FALSE  OBVIOUS
  <2>1. l < m \/ m < l  BY <1>3
  <2>2. at[l] \in Nat  BY <1>1, <1>2
  <2>3. l < m => at[l] < at[m]  BY <1>2, <1>3 DEF NamesFollow
  <2>4. m < l => at[m] < at[l]  BY <1>2, <1>3 DEF NamesFollow
  <2> QED  BY <2>1, <2>2, <2>3, <2>4
<1>11. at \in Injection(C, (k + 1) .. len)
  <2>1. at \in [C -> (k + 1) .. len]  BY <1>8, <1>9
  <2> QED  BY <1>4, <1>10, <2>1 DEF Injection, IsInjective
<1>12. IsFiniteSet((k + 1) .. len) /\ Cardinality((k + 1) .. len) = len - k
  <2> DEFINE a == k + 1
  <2>1. a \in Int /\ len \in Int /\ len - a + 1 = len - k /\ (a > len => len - k = 0)  BY <1>1
  <2> HIDE DEF a
  <2>2. IsFiniteSet(a .. len) /\ Cardinality(a .. len) = IF a > len THEN 0 ELSE len - a + 1
    BY <2>1, FS_Interval
  <2> QED  BY <2>1, <2>2 DEF a
<1>13. Cardinality(C) <= len - k  BY <1>11, <1>12, FS_Injection
<1> QED  BY <1>1, <1>6, <1>7, <1>13, RotationAssumption DEF len

LEMMA CleanupSound ==
  ASSUME RotInv, NEW i \in Sends, CleanupOldBackups(i)
  PROVE  RotInv'
<1> USE DEF RotInv
<1> DEFINE kept == {n \in DOMAIN backups : Cardinality({m \in DOMAIN backups : m > n}) < MaxBackups}
<1>1. /\ call[i].stage = "cleanup" /\ Ends(i, TRUE) /\ backups' = Restrict(backups, kept)
      /\ UNCHANGED <<named, path, lines, moved, raced>>
  BY DEF CleanupOldBackups
<1>2. /\ call' \in Seq(SendStates) /\ DOMAIN call' = Sends /\ rotation' \in Nat
      /\ call'[i].stage = "open"
      /\ \A j \in Sends : call'[j].name = call[j].name /\ call'[j].file = call[j].file
      /\ \A j \in Sends \ {i} :
           \/ call'[j].stage = call[j].stage
           \/ call[j].stage = "waiting" /\ call'[j].stage \in {"stat", "rejected"}
  <2> DEFINE ok == TRUE
  <2>1. ok \in BOOLEAN /\ Ends(i, ok) /\ (IF ok THEN "open" ELSE "rejected") = "open"  BY <1>1
  <2> HIDE DEF ok
  <2> QED  BY <2>1, EndsMoves DEF RotTyped
<1>3. DOMAIN backups' = kept /\ kept \subseteq DOMAIN backups
      /\ \A n \in kept : backups'[n] = backups[n]
  BY <1>1 DEF Restrict
<1>4. \A n \in DOMAIN backups :
        n \notin kept => ~(Cardinality({m \in DOMAIN backups : m > n}) < MaxBackups)
  OBVIOUS
<1> HIDE DEF kept
<1>5. RotTyped'
  <2>1. \A j \in DOMAIN call' :
          /\ call'[j].stage \in {"write", "accepted"} => call'[j].file \in DOMAIN lines
          /\ call'[j].stage = "rename" => call'[j].name \in 1 .. named
    BY <1>2 DEF RotTyped
  <2>2. DOMAIN backups' \subseteq 1 .. named  BY <1>3 DEF RotTyped
  <2> QED  BY <1>1, <1>2, <2>1, <2>2 DEF RotTyped, Sends
<1>6. FilesOnce'  BY <1>1, FilesStay
<1>7. raced' \/ Ordered'
  <2> SUFFICES ASSUME Ordered  PROVE Ordered'  BY <1>1
  <2>1. Rotating' \subseteq Rotating  BY <1>1, <1>2 DEF Rotating, At, Sends
  <2>2. \A j \in At("rename")' : j \in At("rename") /\ call'[j].name = call[j].name
    BY <1>2 DEF At, Sends
  <2>3. NamedLater'  BY <1>3, <2>1, <2>2 DEF Ordered, NamedLater
  <2>4. NamesFollow(backups', moved')  BY <1>1, <1>3 DEF Ordered, NamesFollow
  <2>5. ASSUME NEW k \in DOMAIN moved
        PROVE  Len(moved) - k >= MaxBackups \/ \E n \in DOMAIN backups' : backups'[n] = moved[k]
    <3> SUFFICES ASSUME ~(Len(moved) - k >= MaxBackups)
                 PROVE  \E n \in DOMAIN backups' : backups'[n] = moved[k]
      OBVIOUS
    <3>1. PICK n \in DOMAIN backups : backups[n] = moved[k]  BY DEF Ordered, BackedUp
    <3>2. n \in kept  BY <1>4, <3>1, BehindOthers DEF Ordered
    <3> QED  BY <1>3, <3>1, <3>2
  <2> QED  BY <1>1, <2>3, <2>4, <2>5 DEF Ordered, BackedUp
<1>8. Crowded'
  <2>1. InFlight' \subseteq InFlight  BY <1>1, <1>2 DEF InFlight, At, Sends
  <2> QED  BY <2>1, CrowdLess
<1>9. Roomy'
  <2>1. Coming' \subseteq Coming  BY <1>1, <1>2 DEF Coming, Sends
  <2> QED  BY <1>1, <2>1, RoomStays
<1> QED  BY <1>5, <1>6, <1>7, <1>8, <1>9

LEMMA OpenSound ==
  ASSUME RotInv, NEW i \in Sends, OpenAppend(i)
  PROVE  RotInv'
<1> USE DEF RotInv
<1> DEFINE w == [call[i] EXCEPT !.stage = "write", !.file = path']
<1>1. /\ call[i].stage = "open" /\ call' = [call EXCEPT ![i] = w]
      /\ IF path = 0
         THEN path' = Len(lines) + 1 /\ lines' = Append(lines, << >>)
         ELSE UNCHANGED <<path, lines>>
      /\ UNCHANGED <<rotation, named, backups, moved, raced>>
  BY DEF OpenAppend
<1>2. Len(lines) \in Nat /\ DOMAIN lines = 1 .. Len(lines) /\ path \in Nat
  BY DEF RotTyped
<1>3. /\ lines' \in Seq(Seq(Nat)) /\ path' \in Nat /\ path' \in DOMAIN lines' /\ path' \in 0 .. Len(lines')
      /\ \A f \in DOMAIN lines : f \in DOMAIN lines' /\ lines'[f] = lines[f]
      /\ \A f \in DOMAIN lines' : f \in DOMAIN lines \/ f = path'
      /\ path = 0 => lines'[path'] = << >> /\ path' \notin DOMAIN lines
  <2>1. CASE path = 0
    <3>1. path' = Len(lines) + 1 /\ lines' = Append(lines, << >>) /\ << >> \in Seq(Nat)  BY <1>1, <2>1
    <3>2. lines \in Seq(Seq(Nat))  BY DEF RotTyped
    <3>3. /\ lines' \in Seq(Seq(Nat)) /\ Len(lines') = Len(lines) + 1 /\ lines'[Len(lines) + 1] = << >>
          /\ DOMAIN lines' = 1 .. Len(lines) + 1 /\ \A f \in DOMAIN lines : lines'[f] = lines[f]
      BY <3>1, <3>2
    <3> QED  BY <1>2, <3>1, <3>3
  <2>2. CASE path # 0
    <3>1. path \in DOMAIN lines  BY <2>2 DEF RotTyped
    <3> QED  BY <1>1, <1>2, <2>2, <3>1 DEF RotTyped
  <2> QED  BY <2>1, <2>2
<1>4. w \in SendStates /\ w.stage = "write" /\ w.file = path'
  <2> DEFINE c == call[i]
             s == "write"
             p == path'
  <2>1. c \in SendStates /\ p \in Nat /\ s \in CallStages /\ s = "write"  BY <1>3 DEF RotTyped, Sends, CallStages
  <2>2. w = [c EXCEPT !.stage = s, !.file = p]  OBVIOUS
  <2> HIDE DEF w, c, s, p
  <2>3. w \in SendStates /\ w.stage = s /\ w.file = p
    <3> DEFINE u == [c EXCEPT !.stage = s, !.file = p]
    <3>1. u \in SendStates /\ u.stage = s /\ u.file = p  BY <2>1 DEF SendStates
    <3> QED  BY <2>2, <3>1
  <2> QED  BY <2>1, <2>3 DEF p
<1> HIDE DEF w
<1>5. /\ call' \in Seq(SendStates) /\ DOMAIN call' = Sends /\ call'[i] = w
      /\ \A j \in Sends \ {i} : call'[j] = call[j]
  BY <1>1, <1>4, OneGoesOn DEF RotTyped, Sends
<1>6. RotTyped'
  <2>1. \A j \in DOMAIN call' :
          /\ call'[j].stage \in {"write", "accepted"} => call'[j].file \in DOMAIN lines'
          /\ call'[j].stage = "rename" => call'[j].name \in 1 .. named
    BY <1>3, <1>4, <1>5 DEF RotTyped
  <2> QED  BY <1>1, <1>3, <1>5, <2>1 DEF RotTyped, Sends
<1>7. FilesOnce'
  <2>1. \A f \in DOMAIN lines' : f = path' \/ \E k \in DOMAIN moved : moved[k] = f
    <3>1. path = 0 \/ path' = path  BY <1>1
    <3>2. 0 \notin DOMAIN lines  BY <1>2
    <3> QED  BY <1>3, <3>1, <3>2 DEF FilesOnce
  <2>2. \A k \in DOMAIN moved : moved[k] \in DOMAIN lines' /\ moved[k] # path'
    <3>1. path' = path \/ path' \notin DOMAIN lines  BY <1>1, <1>3
    <3> QED  BY <1>3, <3>1 DEF FilesOnce
  <2> QED  BY <1>1, <2>1, <2>2 DEF FilesOnce
<1>8. raced' \/ Ordered'
  <2>1. Rotating' \subseteq Rotating  BY <1>4, <1>5 DEF Rotating, At, Sends
  <2>2. \A j \in At("rename")' : j \in At("rename") /\ call'[j].name = call[j].name
    BY <1>4, <1>5 DEF At, Sends
  <2> QED  BY <1>1, <2>1, <2>2, OrderStays DEF RotTyped
<1>9. Crowded'
  <2>1. InFlight' \subseteq InFlight  BY <1>1, <1>4, <1>5 DEF InFlight, At, Sends
  <2> QED  BY <2>1, CrowdLess
<1>10. CASE path = 0
  <2>1. Len(lines'[path']) = 0  BY <1>3, <1>10
  <2>2. Roomy'  BY <1>6, <1>9, <2>1, RoomForAll, RotationAssumption
  <2> QED  BY <1>6, <1>7, <1>8, <1>9, <2>2
<1>11. CASE path # 0
  <2>1. path' = path /\ lines' = lines  BY <1>1, <1>11
  <2>2. Coming' \subseteq Coming  BY <1>1, <1>4, <1>5, <2>1 DEF Coming, Sends
  <2>3. Roomy'  BY <2>1, <2>2, RoomStays
  <2> QED  BY <1>6, <1>7, <1>8, <1>9, <2>3
<1> QED  BY <1>10, <1>11

LEMMA WriteSound ==
  ASSUME RotInv, NEW i \in Sends, WriteLine(i)
  PROVE  RotInv'
<1> USE DEF RotInv
<1> DEFINE w == [call[i] EXCEPT !.stage = "accepted"]
           f == call[i].file
<1>1. /\ call[i].stage = "write" /\ call' = [call EXCEPT ![i] = w]
      /\ lines' = [lines EXCEPT ![f] = Append(lines[f], i)]
      /\ UNCHANGED <<rotation, named, path, backups, moved, raced>>
  BY DEF WriteLine
<1>2. w \in SendStates /\ w.stage = "accepted" /\ w.file = f
  <2> DEFINE s == "accepted"
  <2>1. call[i] \in SendStates /\ s \in CallStages /\ s = "accepted"  BY DEF RotTyped, Sends, CallStages
  <2> HIDE DEF s
  <2>2. /\ [call[i] EXCEPT !.stage = s] \in SendStates /\ [call[i] EXCEPT !.stage = s].stage = s
        /\ [call[i] EXCEPT !.stage = s].file = f
    BY <2>1, StageTyped
  <2> QED  BY <2>1, <2>2
<1>3. f \in DOMAIN lines /\ i \in Nat  BY <1>1, SendsFinite DEF RotTyped, Sends
<1> HIDE DEF w, f
<1>4. lines[f] \in Seq(Nat) /\ Append(lines[f], i) \in Seq(Nat) /\ Len(lines[f]) \in Nat
      /\ Len(Append(lines[f], i)) = Len(lines[f]) + 1
  <2> DEFINE q == lines[f]
  <2>1. q \in Seq(Nat)  BY <1>3 DEF RotTyped
  <2> HIDE DEF q
  <2>2. Append(q, i) \in Seq(Nat) /\ Len(q) \in Nat /\ Len(Append(q, i)) = Len(q) + 1  BY <1>3, <2>1
  <2> QED  BY <2>1, <2>2 DEF q
<1>5. /\ lines' \in Seq(Seq(Nat)) /\ DOMAIN lines' = DOMAIN lines /\ Len(lines') = Len(lines)
      /\ lines'[f] = Append(lines[f], i) /\ \A g \in DOMAIN lines \ {f} : lines'[g] = lines[g]
  <2> DEFINE q == Append(lines[f], i)
  <2>1. q \in Seq(Nat) /\ lines' = [lines EXCEPT ![f] = q] /\ lines \in Seq(Seq(Nat))
    BY <1>1, <1>4 DEF RotTyped
  <2> HIDE DEF q
  <2>2. /\ lines' \in Seq(Seq(Nat)) /\ DOMAIN lines' = DOMAIN lines /\ Len(lines') = Len(lines)
        /\ lines'[f] = q /\ \A g \in DOMAIN lines \ {f} : lines'[g] = lines[g]
    BY <1>3, <2>1
  <2> QED  BY <2>2 DEF q
<1>6. /\ call' \in Seq(SendStates) /\ DOMAIN call' = Sends /\ call'[i] = w
      /\ \A j \in Sends \ {i} : call'[j] = call[j]
  BY <1>1, <1>2, OneGoesOn DEF RotTyped, Sends
<1>7. RotTyped'
  <2>1. \A j \in DOMAIN call' :
          /\ call'[j].stage \in {"write", "accepted"} => call'[j].file \in DOMAIN lines
          /\ call'[j].stage = "rename" => call'[j].name \in 1 .. named
    BY <1>2, <1>3, <1>6 DEF RotTyped
  <2> QED  BY <1>1, <1>5, <1>6, <2>1 DEF RotTyped, Sends
<1>8. FilesOnce'  BY <1>1, <1>5, FilesStay
<1>9. raced' \/ Ordered'
  <2>1. Rotating' \subseteq Rotating  BY <1>2, <1>6 DEF Rotating, At, Sends
  <2>2. \A j \in At("rename")' : j \in At("rename") /\ call'[j].name = call[j].name
    BY <1>2, <1>6 DEF At, Sends
  <2> QED  BY <1>1, <2>1, <2>2, OrderStays DEF RotTyped
<1>10. Crowded'
  <2>1. InFlight' \subseteq InFlight  BY <1>1, <1>2, <1>6 DEF InFlight, At, Sends
  <2> QED  BY <2>1, CrowdLess
<1>11. Coming' \subseteq Coming \ {i}  BY <1>1, <1>2, <1>6 DEF Coming, Sends
<1>12. CASE f # path
  <2>1. path # 0 => lines'[path] = lines[path]
    <3>1. path # 0 => path \in DOMAIN lines  BY DEF RotTyped
    <3> QED  BY <1>5, <1>12, <3>1
  <2>2. Roomy'  BY <1>1, <1>11, <2>1, RoomStays
  <2> QED  BY <1>7, <1>8, <1>9, <1>10, <2>2
<1>13. CASE f = path
  <2>1. i \in Coming /\ Coming \in SUBSET DOMAIN call  BY <1>1, <1>13 DEF Coming, Sends, f
  <2>2. IsFiniteSet(Coming) /\ Cardinality(Coming) \in Nat  BY <2>1, SendsFinite DEF RotTyped
  <2>3. IsFiniteSet(Coming \ {i}) /\ Cardinality(Coming \ {i}) = Cardinality(Coming) - 1
    BY <2>1, <2>2, FS_RemoveElement
  <2>4. Cardinality(Coming') <= Cardinality(Coming \ {i}) /\ Cardinality(Coming') \in Nat
    BY <1>11, <2>3, FS_Subset, FS_CardinalityType
  <2>5. path # 0 /\ path' = path  BY <1>1, <1>3, <1>13 DEF RotTyped
  <2>6. Len(lines[path]) + Cardinality(Coming) <= MaxSize + MaxInFlight  BY <2>5 DEF Roomy
  <2>7. Len(lines'[path]) = Len(lines[path]) + 1 /\ Len(lines[path]) \in Nat  BY <1>4, <1>5, <1>13
  <2>8. Len(lines'[path]) + Cardinality(Coming') <= MaxSize + MaxInFlight
    BY <2>2, <2>3, <2>4, <2>6, <2>7, RotationAssumption
  <2>9. Roomy'  BY <2>5, <2>8 DEF Roomy
  <2> QED  BY <1>7, <1>8, <1>9, <1>10, <2>9
<1> QED  BY <1>12, <1>13

LEMMA AppendFailsSound ==
  ASSUME RotInv, NEW i \in Sends, AppendFails(i)
  PROVE  RotInv'
<1> USE DEF RotInv
<1> DEFINE w == [call[i] EXCEPT !.stage = "rejected"]
<1>1. /\ call[i].stage \in {"open", "write"} /\ call' = [call EXCEPT ![i] = w]
      /\ UNCHANGED <<rotation, named, path, lines, backups, moved, raced>>
  BY DEF AppendFails
<1>2. w \in SendStates /\ w.stage = "rejected"
  <2> DEFINE s == "rejected"
  <2>1. call[i] \in SendStates /\ s \in CallStages /\ s = "rejected"  BY DEF RotTyped, Sends, CallStages
  <2> HIDE DEF s
  <2>2. [call[i] EXCEPT !.stage = s] \in SendStates /\ [call[i] EXCEPT !.stage = s].stage = s
    BY <2>1, StageTyped
  <2> QED  BY <2>1, <2>2
<1> HIDE DEF w
<1>3. /\ call' \in Seq(SendStates) /\ DOMAIN call' = Sends /\ call'[i] = w
      /\ \A j \in Sends \ {i} : call'[j] = call[j]
  BY <1>1, <1>2, OneGoesOn DEF RotTyped, Sends
<1>4. RotTyped'
  <2>1. \A j \in DOMAIN call' :
          /\ call'[j].stage \in {"write", "accepted"} => call'[j].file \in DOMAIN lines
          /\ call'[j].stage = "rename" => call'[j].name \in 1 .. named
    BY <1>2, <1>3 DEF RotTyped
  <2> QED  BY <1>1, <1>3, <2>1 DEF RotTyped, Sends
<1>5. FilesOnce'  BY <1>1, FilesStay
<1>6. raced' \/ Ordered'
  <2>1. Rotating' \subseteq Rotating  BY <1>2, <1>3 DEF Rotating, At, Sends
  <2>2. \A j \in At("rename")' : j \in At("rename") /\ call'[j].name = call[j].name
    BY <1>2, <1>3 DEF At, Sends
  <2> QED  BY <1>1, <2>1, <2>2, OrderStays DEF RotTyped
<1>7. Crowded'
  <2>1. InFlight' \subseteq InFlight  BY <1>1, <1>2, <1>3 DEF InFlight, At, Sends
  <2> QED  BY <2>1, CrowdLess
<1>8. Roomy'
  <2>1. Coming' \subseteq Coming  BY <1>1, <1>2, <1>3 DEF Coming, Sends
  <2> QED  BY <1>1, <2>1, RoomStays
<1> QED  BY <1>4, <1>5, <1>6, <1>7, <1>8

-------------------------------------------------------------------------------
LEMMA RotInitially == RotInit => RotInv
<1> SUFFICES ASSUME RotInit  PROVE RotInv  OBVIOUS
<1>1. Sends = {} /\ DOMAIN moved = {} /\ DOMAIN backups = {} /\ DOMAIN lines = {}
      /\ Len(lines) = 0
  BY DEF RotInit, Sends
<1>2. RotTyped
  <2>1. call = << >> /\ lines = << >> /\ moved = << >> /\ rotation = 0 /\ named = 0 /\ raced = FALSE
    BY DEF RotInit
  <2>2. call \in Seq(SendStates) /\ lines \in Seq(Seq(Nat)) /\ moved \in Seq(Nat)  BY <2>1
  <2>3. path \in 0 .. Len(lines)  BY <1>1 DEF RotInit
  <2> QED  BY <1>1, <2>1, <2>2, <2>3 DEF RotTyped
<1>3. FilesOnce  BY <1>1 DEF FilesOnce
<1>4. Ordered  BY <1>1 DEF Ordered, NamedLater, NamesFollow, BackedUp, Rotating, At
<1>5. InFlight = {} /\ Cardinality({}) = 0  BY <1>1, FS_EmptySet DEF InFlight
<1>6. Crowded  BY <1>5, RotationAssumption DEF Crowded
<1>7. Roomy  BY DEF RotInit, Roomy
<1> QED  BY <1>2, <1>3, <1>4, <1>6, <1>7 DEF RotInv

LEMMA RotStepSound == RotInv /\ [RotNext]_rotvars => RotInv'
<1> SUFFICES ASSUME RotInv, [RotNext]_rotvars  PROVE RotInv'  OBVIOUS
<1>1. CASE Arrive  BY <1>1, ArriveSound
<1>2. ASSUME NEW i \in Sends, StatPath(i)  PROVE RotInv'
  <2>1. CASE TooLarge  BY <1>2, <2>1, LargeSound
  <2>2. CASE ~TooLarge  BY <1>2, <2>2, SmallSound DEF StatPath
  <2> QED  BY <2>1, <2>2
<1>3. ASSUME NEW i \in Sends,
             \/ Rename(i) \/ RenameFails(i) \/ CleanupOldBackups(i)
             \/ OpenAppend(i) \/ WriteLine(i) \/ AppendFails(i)
      PROVE  RotInv'
  BY <1>3, RenameSound, RenameFailsSound, CleanupSound, OpenSound, WriteSound, AppendFailsSound
<1>4. CASE UNCHANGED rotvars
  BY <1>4 DEF rotvars, RotInv, RotTyped, FilesOnce, Ordered, NamedLater, NamesFollow, BackedUp,
              Crowded, Roomy, Coming, InFlight, Rotating, At, Sends
<1> QED  BY <1>1, <1>2, <1>3, <1>4 DEF RotNext, RotStep

(* Files, calls and backups while rotations and appends overlap (rotateOnce).    *)
THEOREM RotationInvariant == RotSpec => []RotInv
<1> QED  BY RotInitially, RotStepSound, PTL DEF RotSpec

(* maxSizeBytes bounds the file but for the sends under way, for any sizes, any   *)
(* number of sends and backups, and any overlap of rotations and appends.        *)
THEOREM FileStaysBounded == RotSpec => []FileBounded
<1>1. ASSUME RotInv  PROVE FileBounded
  <2> SUFFICES ASSUME path # 0  PROVE Len(lines[path]) <= MaxSize + MaxInFlight  BY DEF FileBounded
  <2>1. Len(lines[path]) + Cardinality(Coming) <= MaxSize + MaxInFlight  BY <1>1 DEF RotInv, Roomy
  <2>2. Coming \in SUBSET DOMAIN call  BY DEF Coming, Sends
  <2>3. Cardinality(Coming) \in Nat  BY <1>1, <2>2, SendsFinite DEF RotInv, RotTyped
  <2>4. Len(lines[path]) \in Nat
    <3>1. path \in DOMAIN lines  BY <1>1 DEF RotInv, RotTyped
    <3>2. lines[path] \in Seq(Nat)  BY <1>1, <3>1 DEF RotInv, RotTyped
    <3> QED  BY <3>2
  <2> QED  BY <2>1, <2>3, <2>4, RotationAssumption
<1> QED  BY <1>1, RotationInvariant, PTL

(* An accepted line is at the path or in a backup until maxBackups younger files *)
(* were renamed, unless its append or two rotations raced for one file.          *)
THEOREM LinesAreKept == RotSpec => []LineKept
<1>1. ASSUME RotInv  PROVE LineKept
  <2> SUFFICES ASSUME ~raced, NEW i \in At("accepted"), call[i].file # path,
                      call[i].file \notin Range(backups)
               PROVE  Younger(call[i].file) >= MaxBackups
    BY DEF LineKept
  <2> DEFINE f == call[i].file
             at == CHOOSE n \in DOMAIN moved : moved[n] = f
  <2>1. f \in DOMAIN lines  BY <1>1 DEF RotInv, RotTyped, At
  <2>2. \E k \in DOMAIN moved : moved[k] = f  BY <1>1, <2>1 DEF RotInv, FilesOnce
  <2>3. at \in DOMAIN moved /\ moved[at] = f  BY <2>2
  <2>4. Younger(f) = Len(moved) - at  BY DEF Younger
  <2>5. ~ \E n \in DOMAIN backups : backups[n] = moved[at]  BY <2>3 DEF Range
  <2>6. Len(moved) - at >= MaxBackups
    BY <1>1, <2>3, <2>5 DEF RotInv, Ordered, BackedUp
  <2> QED  BY <2>4, <2>6
<1> QED  BY <1>1, RotationInvariant, PTL

-------------------------------------------------------------------------------
(* What the run of the destinations checks holds of them for any number of       *)
(* processes and sends, and any sizes and times.                                 *)
THEOREM DestinationsAreSound == MCSpec => []DestinationsSound
<1>1. MCSpec => Spec
  <2>1. MCInit => Init  BY DEF MCInit
  <2>2. [MCNext]_allvars => [Next]_vars  BY DEF MCNext, allvars, vars
  <2> QED  BY <2>1, <2>2, PTL DEF MCSpec, Spec
<1>2. MCSpec => RotSpec
  <2>1. MCInit => RotInit  BY DEF MCInit
  <2>2. [MCNext]_allvars => [RotNext]_rotvars  BY DEF MCNext, allvars, rotvars
  <2> QED  BY <2>1, <2>2, PTL DEF MCSpec, RotSpec
<1>3. MCSpec => HSpec
  <2>1. MCInit => HInit  BY DEF MCInit
  <2>2. [MCNext]_allvars => [HNext]_httpvars  BY DEF MCNext, allvars, httpvars
  <2> QED  BY <2>1, <2>2, PTL DEF MCSpec, HSpec
<1>4. TypeOK /\ NoFalseHolder /\ FileBounded /\ LineKept /\ EndsInTime /\ PostedOnce
        => DestinationsSound
  BY DEF DestinationsSound
<1> QED
  BY <1>1, <1>2, <1>3, <1>4, TypeCorrect, OwnerHolds, FileStaysBounded, LinesAreKept,
     EndsInBudget, PostedOnceEach, PTL
==============================================================================
