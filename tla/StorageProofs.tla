------------------------------ MODULE StorageProofs ------------------------------
(***************************************************************************)
(* Proofs about DeadLetterDelivery and WebhookDelivery: for any payloads,  *)
(* files, limits, deliveries, exits and restarts.                          *)
(***************************************************************************)
EXTENDS DeadLetterDelivery, WebhookDelivery, DataLemmas

(* A drain as the code builds it; NoDrain and what is left of one that has  *)
(* ended are drains, too.                                                   *)
Drains == [left : SUBSET [line : Nat, id : Payloads], lineCount : Nat, whole : BOOLEAN,
           processed : Nat, failed : SUBSET Nat]

Fitting(d, known) ==
  /\ d \in Drains /\ d.processed <= d.lineCount
  /\ \A e \in d.left : d.processed < e.line /\ e.line <= d.lineCount /\ e.id \in known
  /\ \A e, other \in d.left : e.line = other.line => e = other
  /\ \A n \in d.failed : n \in 1 .. d.processed

(* What holds of the dead letters whatever happens.                         *)
DTypes ==
  /\ file \in Seq(Lines)
  /\ rotated \subseteq Payloads /\ stored \subseteq Payloads /\ dispatched \subseteq Payloads
  /\ deliveries \in [Payloads -> 0 .. MaxDeliveries]
  /\ up \in BOOLEAN /\ failedSince \in BOOLEAN
  /\ count \in Nat \union {Null} /\ recovery \in 0 .. Attempts
  /\ exits \in 0 .. MaxExits /\ happened \subseteq Mishaps

(* The payloads of a file are all different.                                *)
Single(q) == \A m, n \in DOMAIN q : q[m] = q[n] /\ q[m] \in Payloads => m = n

Accepted == {x \in Payloads : deliveries[x] > 0}

Bookkeeping ==
  /\ acked \subseteq Accepted
  /\ stored \union Accepted \union (ToSet(file) \intersect Payloads) \subseteq dispatched
  /\ Single(file)
  /\ Fitting(startup, dispatched) /\ Fitting(draining, dispatched) /\ Fitting(cli, dispatched)
  /\ startup.failed = {} /\ draining.failed = {} /\ draining.whole /\ cli.whole
  /\ ~up => acked = {} /\ count = Null /\ ~On(startup) /\ ~On(draining)

(* A drain knows the file q: its lines are there, each with the payload it  *)
(* had, and every other payload of them was accepted (by a g that counts    *)
(* the deliveries), has failed, or lies beyond its batch.                   *)
Knows(d, q, g) ==
  On(d) =>
    /\ d.lineCount <= Len(q)
    /\ \A e \in d.left : q[e.line] = e.id
    /\ \A n \in 1 .. d.lineCount : q[n] \in Payloads =>
         \/ \E e \in d.left : e.line = n
         \/ g[q[n]] > 0
         \/ n \in d.failed
         \/ ~d.whole /\ \A e \in d.left : e.line < n

Alone ==
  /\ On(startup) => ~On(draining) /\ ~On(cli)
  /\ On(draining) => ~On(cli)

(* What holds until something disturbs a drain ...                          *)
Undisturbed ==
  happened \intersect Disturbances = {} =>
    /\ Alone
    /\ Knows(startup, file, deliveries)
    /\ Knows(draining, file, deliveries)
    /\ Knows(cli, file, deliveries)
    /\ NothingIsLost

(* ... and, until something that was accepted stays in the file unknown to  *)
(* the next drain: whoever has delivered a payload that is still in the file*)
(* remembers it, and what a drain has left was never delivered.             *)
Remembered(n) ==
  \/ file[n] \in acked
  \/ On(startup) /\ n <= startup.processed
  \/ On(cli) /\ n <= cli.processed /\ n \notin cli.failed

Fresh(d, g) == On(d) => \A e \in d.left : g[e.id] = 0

DeliveredOnce ==
  happened \intersect (Disturbances \union {"kept"}) = {} =>
    /\ \A n \in DOMAIN file : file[n] \in Accepted => Remembered(n)
    /\ Fresh(startup, deliveries) /\ Fresh(draining, deliveries) /\ Fresh(cli, deliveries)
    /\ \A x \in Payloads : deliveries[x] <= 1

DIInv == DTypes /\ Bookkeeping /\ Undisturbed /\ DeliveredOnce /\ CountBounded

-------------------------------------------------------------------------------
(* Numbers and sequences                                                    *)

LEMMA LeastElement ==
  ASSUME NEW T, T \subseteq Nat, T # {}
  PROVE  \E n \in T : \A m \in T : n <= m
<1> DEFINE F == {0 .. n : n \in T}
           R == StrictSubsetOrdering(Nat)
<1>1. F \subseteq FiniteSubsetsOf(Nat)
  <2> SUFFICES ASSUME NEW n \in T  PROVE  0 .. n \in FiniteSubsetsOf(Nat)  OBVIOUS
  <2>1. IsFiniteSet(0 .. n)  BY FS_Interval
  <2> QED  BY <2>1 DEF FiniteSubsetsOf
<1>2. F # {}  OBVIOUS
<1>3. \E A \in F : \A U \in F : ~(U \subseteq A /\ U # A)
  <2> HIDE DEF F
  <2>1. IsWellFoundedOn(R, FiniteSubsetsOf(Nat))  BY FS_StrictSubsetOrderingWellFounded
  <2>2. \A A, U \in F : U \subseteq A /\ U # A => <<U, A>> \in R
    BY <1>1 DEF StrictSubsetOrdering, FiniteSubsetsOf
  <2> HIDE DEF R
  <2>3. \E A \in F : \A U \in F : ~(<<U, A>> \in R)  BY <1>1, <1>2, <2>1, WFMin, Zenon
  <2> QED  BY <2>2, <2>3, Zenon
<1>4. PICK A \in F : \A U \in F : ~(U \subseteq A /\ U # A)  BY <1>3
<1>5. PICK n \in T : A = 0 .. n  OBVIOUS
<1>6. ASSUME NEW m \in T, m < n  PROVE  FALSE
  <2>1. n \in 0 .. n /\ n \notin 0 .. m  BY <1>6
  <2>2. 0 .. m \subseteq 0 .. n /\ 0 .. m # 0 .. n  BY <2>1, <1>6
  <2> QED  BY <2>2, <1>4, <1>5
<1> QED  BY <1>6

(* The lines a clear leaves behind are those past n, n places further down. *)
LEMMA CutOff ==
  ASSUME NEW T, NEW q \in Seq(T), NEW n \in Nat, NEW r, r = SubSeq(q, n + 1, Len(q))
  PROVE  /\ r \in Seq(T)
         /\ \A m \in DOMAIN r : n + m \in DOMAIN q /\ r[m] = q[n + m]
         /\ \A m \in DOMAIN q : m > n => m - n \in DOMAIN r /\ r[m - n] = q[m]
<1>1. Len(q) \in Nat /\ DOMAIN q = 1 .. Len(q)  OBVIOUS
<1>2. r \in Seq(T) /\ DOMAIN r = 1 .. Len(r)  OBVIOUS
<1>3. Len(r) = IF n + 1 <= Len(q) THEN Len(q) - n ELSE 0  OBVIOUS
<1>4. \A m \in 1 .. Len(q) - n : r[m] = q[n + m]  BY <1>1
<1>5. ASSUME NEW m \in DOMAIN r  PROVE  n + m \in DOMAIN q /\ r[m] = q[n + m]
  BY <1>1, <1>2, <1>3, <1>4
<1>6. ASSUME NEW m \in DOMAIN q, m > n  PROVE  m - n \in DOMAIN r /\ r[m - n] = q[m]
  <2>1. m - n \in 1 .. Len(q) - n /\ n + (m - n) = m  BY <1>1, <1>6
  <2>2. r[m - n] = q[m]  BY <1>4, <2>1
  <2>3. Len(r) = Len(q) - n
    <3>1. m \in 1 .. Len(q) /\ n < m  BY <1>1, <1>6
    <3>2. n + 1 <= Len(q)  BY <1>1, <3>1
    <3> QED  BY <1>3, <3>2, Zenon
  <2>4. m - n \in DOMAIN r  BY <1>2, <2>1, <2>3
  <2> QED  BY <2>2, <2>4
<1> QED  BY <1>2, <1>5, <1>6

LEMMA Appended ==
  ASSUME NEW T, NEW q \in Seq(T), NEW x \in T, NEW r, r = Append(q, x)
  PROVE  /\ r \in Seq(T) /\ Len(r) = Len(q) + 1 /\ DOMAIN r = 1 .. Len(q) + 1
         /\ r[Len(q) + 1] = x /\ \A m \in 1 .. Len(q) : r[m] = q[m]
         /\ Len(q) \in Nat /\ DOMAIN q = 1 .. Len(q)
OBVIOUS

LEMMA KeptSingle ==
  ASSUME NEW q \in Seq(Lines), NEW S, S \subseteq DOMAIN q, NEW r \in Kept(q, S), Single(q)
  PROVE  Single(r) /\ ToSet(r) \subseteq ToSet(q)
<1>1. PICK o \in Ascending(S) :
        /\ \A k \in DOMAIN r : o[k] \in S /\ r[k] = q[o[k]]
        /\ \A j, k \in DOMAIN r : o[j] = o[k] => j = k
  BY KeptLines
<1>2. \A k \in DOMAIN r : o[k] \in DOMAIN q  BY <1>1
<1> QED  BY <1>1, <1>2 DEF Single, ToSet

LEMMA PrefixSingle ==
  ASSUME NEW q \in Seq(Lines), NEW n \in 1 .. Len(q) + 1, NEW m \in 0 .. Len(q),
         NEW r, r = SubSeq(q, n, m), Single(q)
  PROVE  r \in Seq(Lines) /\ Single(r) /\ ToSet(r) \subseteq ToSet(q)
<1>1. Len(q) \in Nat /\ DOMAIN q = 1 .. Len(q)  OBVIOUS
<1>2. \A i \in n .. m : i \in DOMAIN q /\ q[i] \in Lines  BY <1>1
<1>3. /\ r \in Seq(Lines) /\ Len(r) = IF n <= m THEN m - n + 1 ELSE 0
      /\ \A i \in 1 .. m - n + 1 : r[i] = q[n + i - 1]
  BY <1>2
<1>4. DOMAIN r = 1 .. m - n + 1  BY <1>3
<1>5. \A i \in DOMAIN r : n + i - 1 \in DOMAIN q /\ r[i] = q[n + i - 1]  BY <1>1, <1>3, <1>4
<1>6. Single(r)
  <2> SUFFICES ASSUME NEW i \in DOMAIN r, NEW j \in DOMAIN r, r[i] = r[j], r[i] \in Payloads
               PROVE  i = j
    BY DEF Single
  <2>1. n + i - 1 = n + j - 1  BY <1>5 DEF Single
  <2> QED  BY <1>4, <2>1
<1> QED  BY <1>3, <1>5, <1>6 DEF ToSet

-------------------------------------------------------------------------------
(* Drains                                                                   *)

LEMMA CurrentIsLeast ==
  ASSUME NEW d, d \in Drains, On(d)
  PROVE  Current(d) \in d.left /\ \A e \in d.left : Current(d).line <= e.line
<1> DEFINE T == {e.line : e \in d.left}
<1>1. d.left \subseteq [line : Nat, id : Payloads]  BY DEF Drains
<1>2. T \subseteq Nat /\ T # {}  BY <1>1 DEF On
<1>3. \E n \in T : \A m \in T : n <= m
  <2> HIDE DEF T
  <2> QED  BY <1>2, LeastElement
<1>4. \E e \in d.left : \A other \in d.left : e.line <= other.line  BY <1>3
<1> QED  BY <1>4 DEF Current

LEMMA NoDrainFits ==
  ASSUME NEW known, NEW q, NEW g
  PROVE  /\ Fitting(NoDrain, known) /\ ~On(NoDrain) /\ Knows(NoDrain, q, g)
         /\ NoDrain.failed = {} /\ NoDrain.whole /\ Fresh(NoDrain, g)
<1>1. NoDrain \in Drains  BY DEF NoDrain, Drains
<1>2. NoDrain.left = {} /\ NoDrain.processed = 0 /\ NoDrain.lineCount = 0 /\ NoDrain.failed = {}
      /\ NoDrain.whole
  BY DEF NoDrain
<1> QED  BY <1>1, <1>2 DEF Fitting, On, Knows, Fresh

(* A snapshot of the file that skips what is known to be delivered.         *)
Skips(skip, g) == \A x \in skip : g[x] > 0

Snapped(d, skip, known, g) ==
  /\ Fitting(d, known) /\ Knows(d, file, g) /\ d.failed = {} /\ d.whole
  /\ d.lineCount = Len(file)
  /\ On(d) <=> PayloadLines(skip) # {}
  /\ \A e \in d.left : /\ e.line \in DOMAIN file /\ file[e.line] = e.id
                        /\ e.id \notin skip /\ e.id \in Payloads
  /\ IsFiniteSet(d.left)

LEMMA SnapshotFits ==
  ASSUME NEW skip, NEW d, d = Drained(skip), NEW known, NEW g, file \in Seq(Lines),
         ToSet(file) \intersect Payloads \subseteq known, Skips(skip, g)
  PROVE  Snapped(d, skip, known, g)
<1> DEFINE L == {[line |-> n, id |-> file[n]] : n \in PayloadLines(skip)}
<1>1. Len(file) \in Nat /\ DOMAIN file = 1 .. Len(file)  OBVIOUS
<1>2. /\ d = [left |-> L, lineCount |-> Len(file), whole |-> TRUE, processed |-> 0, failed |-> {}]
  BY DEF Drained, NoDrain
<1>3. /\ d.left = L /\ d.lineCount = Len(file) /\ d.whole = TRUE /\ d.processed = 0
      /\ d.failed = {}
  BY <1>2
<1>4. \A n \in PayloadLines(skip) : /\ n \in 1 .. Len(file) /\ file[n] \in Payloads
                                    /\ file[n] \notin skip /\ file[n] \in known
  BY <1>1 DEF PayloadLines, ToSet
<1>5. L \subseteq [line : Nat, id : Payloads]  BY <1>1, <1>4
<1>6. d \in Drains
  <2> HIDE DEF L
  <2> QED  BY <1>1, <1>2, <1>5 DEF Drains
<1>7. \A e \in L : \E n \in PayloadLines(skip) : e = [line |-> n, id |-> file[n]]  OBVIOUS
<1>8. Fitting(d, known)
  <2>1. \A e \in d.left : d.processed < e.line /\ e.line <= d.lineCount /\ e.id \in known
    BY <1>1, <1>3, <1>4, <1>7
  <2>2. \A e, other \in d.left : e.line = other.line => e = other  BY <1>3, <1>7
  <2> QED  BY <1>1, <1>3, <1>6, <2>1, <2>2 DEF Fitting
<1>9. \A e \in d.left : /\ e.line \in DOMAIN file /\ file[e.line] = e.id
                         /\ e.id \notin skip /\ e.id \in Payloads
  BY <1>1, <1>3, <1>4, <1>7
<1>10. On(d) <=> PayloadLines(skip) # {}  BY <1>3 DEF On
<1>11. Knows(d, file, g)
  <2>1. ASSUME NEW n \in 1 .. Len(file), file[n] \in Payloads, file[n] \notin skip
        PROVE  \E e \in d.left : e.line = n
    <3>1. n \in PayloadLines(skip)  BY <2>1 DEF PayloadLines
    <3>2. [line |-> n, id |-> file[n]] \in L  BY <3>1
    <3> QED  BY <1>3, <3>2
  <2> QED  BY <1>3, <1>9, <2>1 DEF Knows, Skips
<1>12. IsFiniteSet(d.left)
  <2> DEFINE f == [n \in PayloadLines(skip) |-> [line |-> n, id |-> file[n]]]
  <2>1. f \in Surjection(PayloadLines(skip), L)  BY DEF Surjection
  <2>2. IsFiniteSet(PayloadLines(skip))
    <3>1. IsFiniteSet(1 .. Len(file))  BY <1>1, FS_Interval
    <3>2. PayloadLines(skip) \subseteq 1 .. Len(file)  BY DEF PayloadLines
    <3> QED  BY <3>1, <3>2, FS_Subset
  <2> HIDE DEF f, L
  <2> QED  BY <1>3, <2>1, <2>2, FS_Surjection
<1> QED  BY <1>3, <1>8, <1>9, <1>10, <1>11, <1>12 DEF Snapped

(* A batch of it is cut between two lines.                                   *)
LEMMA BatchFits ==
  ASSUME NEW d, NEW known, NEW q, NEW g, Fitting(d, known), Knows(d, q, g), d.whole,
         IsFiniteSet(d.left), NEW b, b = Batch(d)
  PROVE  /\ Fitting(b, known) /\ Knows(b, q, g) /\ b.failed = d.failed
         /\ b.left \subseteq d.left /\ b.processed = d.processed
<1> DEFINE first == {e \in d.left : Cardinality(Upto(d, e)) <= MaxDrain}
<1>1. d \in Drains  BY DEF Fitting
<1>2. b = [d EXCEPT !.left = first, !.whole = (first = d.left)]  BY DEF Batch
<1> HIDE DEF first
<1>3. first \subseteq d.left  BY DEF first
<1>4. /\ b.left = first /\ b.lineCount = d.lineCount /\ b.whole = (first = d.left)
      /\ b.processed = d.processed /\ b.failed = d.failed
  BY <1>1, <1>2 DEF Drains
<1>5. b \in Drains
  <2>1. first \in SUBSET [line : Nat, id : Payloads]  BY <1>1, <1>3 DEF Drains
  <2>2. (first = d.left) \in BOOLEAN  OBVIOUS
  <2> QED  BY <1>1, <1>2, <2>1, <2>2 DEF Drains
<1>6. Fitting(b, known)  BY <1>3, <1>4, <1>5 DEF Fitting
<1>7. ASSUME NEW e \in first, NEW other \in d.left, other \notin first  PROVE  e.line < other.line
  <2>1. \A x \in d.left : IsFiniteSet(Upto(d, x)) /\ Cardinality(Upto(d, x)) \in Nat
    <3> SUFFICES ASSUME NEW x \in d.left
                 PROVE  IsFiniteSet(Upto(d, x)) /\ Cardinality(Upto(d, x)) \in Nat
      OBVIOUS
    <3>1. Upto(d, x) \subseteq d.left  BY DEF Upto
    <3>2. IsFiniteSet(Upto(d, x))  BY <3>1, FS_Subset
    <3> QED  BY <3>2, FS_CardinalityType
  <2>2. e.line \in Nat /\ other.line \in Nat  BY <1>1, <1>3 DEF Drains
  <2>3. SUFFICES ASSUME other.line <= e.line  PROVE  FALSE  BY <2>2
  <2>4. Upto(d, other) \subseteq Upto(d, e)  BY <1>1, <1>3, <2>2, <2>3 DEF Upto, Drains
  <2>5. Cardinality(Upto(d, other)) <= Cardinality(Upto(d, e))  BY <1>3, <2>1, <2>4, FS_Subset
  <2>6. Cardinality(Upto(d, e)) <= MaxDrain /\ ~(Cardinality(Upto(d, other)) <= MaxDrain)
    BY <1>7 DEF first
  <2>7. MaxDrain \in Nat  BY DrainAssumption
  <2> QED  BY <1>3, <2>1, <2>5, <2>6, <2>7
<1>8. Knows(b, q, g)
  <2> SUFFICES ASSUME On(b)
               PROVE  /\ b.lineCount <= Len(q)
                      /\ \A e \in b.left : q[e.line] = e.id
                      /\ \A n \in 1 .. b.lineCount : q[n] \in Payloads =>
                           \/ \E e \in b.left : e.line = n
                           \/ g[q[n]] > 0
                           \/ n \in b.failed
                           \/ ~b.whole /\ \A e \in b.left : e.line < n
    BY DEF Knows
  <2>1. On(d)  BY <1>3, <1>4 DEF On
  <2>2. \A n \in 1 .. b.lineCount : q[n] \in Payloads =>
           \/ \E e \in d.left : e.line = n
           \/ g[q[n]] > 0
           \/ n \in d.failed
    BY <1>4, <2>1 DEF Knows
  <2>3. ASSUME NEW n \in 1 .. b.lineCount, NEW other \in d.left, other.line = n
        PROVE  \/ \E e \in b.left : e.line = n
               \/ ~b.whole /\ \A e \in b.left : e.line < n
    BY <1>4, <1>7, <2>3
  <2>4. b.lineCount <= Len(q) /\ \A e \in b.left : q[e.line] = e.id
    BY <1>3, <1>4, <2>1 DEF Knows
  <2> QED  BY <1>4, <2>2, <2>3, <2>4
<1> QED  BY <1>3, <1>4, <1>6, <1>8

(* One entry of a drain is done with: it was delivered, or (of the CLI)     *)
(* counts as failed.                                                        *)
Steps(d, e, failed) ==
  /\ e \in Drains /\ e.left = d.left \ {Current(d)} /\ e.processed = Current(d).line
  /\ e.lineCount = d.lineCount /\ e.whole = d.whole /\ e.failed = failed

LEMMA StepTaken ==
  ASSUME NEW d, NEW known, Fitting(d, known), On(d), NEW failed,
         failed = d.failed \/ failed = d.failed \union {Current(d).line}
  PROVE  /\ Steps(d, [Advanced(d) EXCEPT !.failed = failed], failed)
         /\ failed = d.failed => Steps(d, Advanced(d), failed)
         /\ Current(d) \in d.left /\ Current(d).line \in Nat /\ Current(d).id \in Payloads
<1>1. Current(d) \in d.left  BY CurrentIsLeast DEF Fitting
<1>2. d \in Drains  BY DEF Fitting
<1>3. Current(d).line \in Nat /\ Current(d).id \in Payloads  BY <1>1, <1>2 DEF Drains
<1>4. failed \in SUBSET Nat  BY <1>2, <1>3 DEF Drains
<1>5. d.left \ {Current(d)} \in SUBSET [line : Nat, id : Payloads]  BY <1>2 DEF Drains
<1> DEFINE c == Current(d)
<1> HIDE DEF c
<1>6. /\ Advanced(d) = [d EXCEPT !.left = d.left \ {c}, !.processed = c.line]
      /\ c.line \in Nat /\ d.left \ {c} \in SUBSET [line : Nat, id : Payloads]
  BY <1>3, <1>5 DEF Advanced, c
<1>7. Advanced(d) \in Drains  BY <1>2, <1>6 DEF Drains
<1>8. /\ Advanced(d).left = d.left \ {c} /\ Advanced(d).processed = c.line
      /\ Advanced(d).lineCount = d.lineCount /\ Advanced(d).whole = d.whole
      /\ Advanced(d).failed = d.failed
  BY <1>2, <1>6 DEF Drains
<1> DEFINE a == Advanced(d)
<1> HIDE DEF a
<1>9. /\ [a EXCEPT !.failed = failed] \in Drains
      /\ [a EXCEPT !.failed = failed].left = a.left
      /\ [a EXCEPT !.failed = failed].processed = a.processed
      /\ [a EXCEPT !.failed = failed].lineCount = a.lineCount
      /\ [a EXCEPT !.failed = failed].whole = a.whole
      /\ [a EXCEPT !.failed = failed].failed = failed
  BY <1>4, <1>7 DEF a, Drains
<1> QED  BY <1>1, <1>3, <1>7, <1>8, <1>9 DEF Steps, a, c

LEMMA StepFits ==
  ASSUME NEW d, NEW known, Fitting(d, known), On(d), NEW e, NEW failed, Steps(d, e, failed),
         failed = d.failed \/ failed = d.failed \union {Current(d).line}
  PROVE  Fitting(e, known) /\ Current(d).line <= d.lineCount /\ d.processed < Current(d).line
<1> DEFINE c == Current(d)
<1>1. c \in d.left /\ \A x \in d.left : c.line <= x.line  BY CurrentIsLeast DEF Fitting
<1>2. d \in Drains  BY DEF Fitting
<1>3. \A x \in d.left : x.line \in Nat  BY <1>2 DEF Drains
<1>4. c.line <= d.lineCount /\ d.processed < c.line  BY <1>1 DEF Fitting
<1> HIDE DEF c
<1>5. \A x \in e.left : x \in d.left /\ c.line < x.line
  <2> SUFFICES ASSUME NEW x \in e.left  PROVE  x \in d.left /\ c.line < x.line  OBVIOUS
  <2>1. x \in d.left /\ x # c  BY DEF Steps, c
  <2>2. x.line # c.line  BY <1>1, <2>1 DEF Fitting
  <2> QED  BY <1>1, <1>3, <2>1, <2>2
<1>6. \A n \in failed : n \in 1 .. c.line
  <2>1. \A n \in d.failed : n \in 1 .. d.processed  BY DEF Fitting
  <2>2. d.processed \in Nat /\ c.line \in Nat  BY <1>1, <1>2, <1>3 DEF Drains
  <2> QED  BY <1>4, <2>1, <2>2 DEF c
<1>7. e \in Drains /\ e.processed = c.line /\ e.lineCount = d.lineCount /\ e.failed = failed
  BY DEF Steps, c
<1> QED  BY <1>4, <1>5, <1>6, <1>7 DEF Fitting, c

LEMMA StepKnows ==
  ASSUME NEW d, NEW known, Fitting(d, known), On(d), NEW e, NEW failed, Steps(d, e, failed),
         NEW q, NEW g, NEW h, Knows(d, q, g), \A x \in Payloads : g[x] > 0 => h[x] > 0,
         \/ failed = d.failed /\ h[Current(d).id] > 0
         \/ failed = d.failed \union {Current(d).line}
  PROVE  Knows(e, q, h)
<1> DEFINE c == Current(d)
<1>1. c \in d.left /\ \A x \in d.left : c.line <= x.line  BY CurrentIsLeast DEF Fitting
<1>2. q[c.line] = c.id  BY <1>1 DEF Knows
<1> HIDE DEF c
<1>3. /\ e.left = d.left \ {c} /\ e.lineCount = d.lineCount /\ e.whole = d.whole /\ e.failed = failed
      /\ (failed = d.failed /\ h[c.id] > 0) \/ failed = d.failed \union {c.line}
  BY DEF Steps, c
<1>4. ASSUME NEW n \in 1 .. d.lineCount, q[n] \in Payloads
      PROVE  \/ \E x \in e.left : x.line = n
             \/ h[q[n]] > 0
             \/ n \in failed
             \/ ~e.whole /\ \A x \in e.left : x.line < n
  <2>1. \/ \E x \in d.left : x.line = n
        \/ g[q[n]] > 0
        \/ n \in d.failed
        \/ ~d.whole /\ \A x \in d.left : x.line < n
    BY <1>4 DEF Knows
  <2>2. CASE n = c.line  BY <1>2, <1>3, <2>2
  <2>3. CASE n # c.line  BY <1>3, <1>4, <2>1, <2>3
  <2> QED  BY <2>2, <2>3
<1> QED  BY <1>3, <1>4 DEF Knows

(* After the last one, whatever is not delivered has failed or lies beyond. *)
LEMMA LastStep ==
  ASSUME NEW d, NEW known, Fitting(d, known), On(d), IsLast(d), NEW failed,
         NEW q, NEW g, NEW h, Knows(d, q, g), \A x \in Payloads : g[x] > 0 => h[x] > 0,
         \/ failed = d.failed /\ h[Current(d).id] > 0
         \/ failed = d.failed \union {Current(d).line}
  PROVE  \A n \in 1 .. d.lineCount : q[n] \in Payloads =>
           h[q[n]] > 0 \/ n \in failed \/ (~d.whole /\ Current(d).line < n)
<1> DEFINE c == Current(d)
<1> HIDE DEF c
<1>1. d.left = {c}  BY DEF IsLast, c
<1>2. q[c.line] = c.id  BY <1>1 DEF Knows
<1>3. \/ failed = d.failed /\ h[c.id] > 0
      \/ failed = d.failed \union {c.line}
  BY DEF c
<1>4. ASSUME NEW n \in 1 .. d.lineCount, q[n] \in Payloads
      PROVE  h[q[n]] > 0 \/ n \in failed \/ (~d.whole /\ c.line < n)
  <2>1. \/ n = c.line
        \/ g[q[n]] > 0
        \/ n \in d.failed
        \/ ~d.whole /\ c.line < n
    BY <1>1, <1>4 DEF Knows
  <2> QED  BY <1>2, <1>3, <1>4, <2>1
<1> QED  BY <1>4 DEF c

(* What was sent so far is delivered, when nothing has failed.              *)
LEMMA ProcessedSent ==
  ASSUME NEW d, NEW known, Fitting(d, known), On(d), d.failed = {}, NEW q, NEW g, Knows(d, q, g)
  PROVE  \A n \in 1 .. d.processed : n <= Len(q) /\ (q[n] \in Payloads => g[q[n]] > 0)
<1>1. PICK e \in d.left : TRUE  BY DEF On
<1>2. d \in Drains  BY DEF Fitting
<1>3. d.processed \in Nat /\ d.lineCount \in Nat /\ \A x \in d.left : x.line \in Nat
  BY <1>2 DEF Drains
<1>4. \A x \in d.left : d.processed < x.line /\ x.line <= d.lineCount  BY DEF Fitting
<1> SUFFICES ASSUME NEW n \in 1 .. d.processed
             PROVE  n <= Len(q) /\ (q[n] \in Payloads => g[q[n]] > 0)
  OBVIOUS
<1>5. n \in 1 .. d.lineCount /\ n < e.line /\ \A x \in d.left : x.line # n  BY <1>1, <1>3, <1>4
<1>6. d.lineCount <= Len(q)  BY DEF Knows
<1>7. q[n] \in Payloads => g[q[n]] > 0  BY <1>1, <1>3, <1>5 DEF Knows
<1>8. n <= Len(q)
  <2>1. n <= d.lineCount  BY <1>5
  <2> QED  BY <1>3, <1>6, <2>1
<1> QED  BY <1>7, <1>8

(* A drain knows a file that has grown, too.                                *)
LEMMA KnowsLonger ==
  ASSUME NEW d, NEW known, Fitting(d, known), NEW q \in Seq(Lines), NEW r \in Seq(Lines),
         NEW g, NEW h, Knows(d, q, g), \A x \in Payloads : g[x] > 0 => h[x] > 0,
         Len(q) <= Len(r), \A n \in 1 .. Len(q) : r[n] = q[n]
  PROVE  Knows(d, r, h)
<1> SUFFICES ASSUME On(d)  PROVE  Knows(d, r, h)  BY DEF Knows
<1>1. d \in Drains  BY DEF Fitting
<1>2. d.lineCount \in Nat /\ Len(q) \in Nat /\ Len(r) \in Nat  BY <1>1 DEF Drains
<1>3. d.lineCount <= Len(q) /\ d.lineCount <= Len(r)  BY <1>2 DEF Knows
<1>4. \A n \in 1 .. d.lineCount : r[n] = q[n]  BY <1>2, <1>3
<1>5. \A e \in d.left : e.line \in 1 .. d.lineCount  BY <1>1, <1>2 DEF Fitting, Drains
<1>6. \A e \in d.left : r[e.line] = e.id  BY <1>4, <1>5 DEF Knows
<1>7. \A n \in 1 .. d.lineCount : r[n] \in Payloads =>
         \/ \E e \in d.left : e.line = n
         \/ h[r[n]] > 0
         \/ n \in d.failed
         \/ ~d.whole /\ \A e \in d.left : e.line < n
  BY <1>4 DEF Knows
<1> QED  BY <1>3, <1>6, <1>7 DEF Knows

-------------------------------------------------------------------------------
(* The payload lines of a file, counted                                     *)

Pay(q, skip) == {n \in 1 .. Len(q) : q[n] \in Payloads \ skip}

(* Between what is still to be sent of q and what is in it.                 *)
Counts(n, q, skip) == n \in Cardinality(Pay(q, skip)) .. Cardinality(Pay(q, {}))

LEMMA PayFinite ==
  ASSUME NEW q, q \in Seq(Lines), NEW skip
  PROVE  /\ IsFiniteSet(Pay(q, skip)) /\ Cardinality(Pay(q, skip)) \in Nat
         /\ Cardinality(Pay(q, skip)) <= Cardinality(Pay(q, {}))
         /\ Counts(Cardinality(Pay(q, {})), q, skip)
<1>1. Len(q) \in Nat  OBVIOUS
<1>2. IsFiniteSet(1 .. Len(q))  BY <1>1, FS_Interval
<1>3. \A A : IsFiniteSet(Pay(q, A)) /\ Cardinality(Pay(q, A)) \in Nat
  <2> SUFFICES ASSUME NEW A  PROVE  IsFiniteSet(Pay(q, A)) /\ Cardinality(Pay(q, A)) \in Nat
    OBVIOUS
  <2>1. Pay(q, A) \subseteq 1 .. Len(q)  BY DEF Pay
  <2>2. IsFiniteSet(Pay(q, A))  BY <1>2, <2>1, FS_Subset
  <2> QED  BY <2>2, FS_CardinalityType
<1>4. Pay(q, skip) \subseteq Pay(q, {})  BY DEF Pay
<1>5. Cardinality(Pay(q, skip)) <= Cardinality(Pay(q, {}))  BY <1>3, <1>4, FS_Subset
<1> QED  BY <1>3, <1>5 DEF Counts

LEMMA PayAppend ==
  ASSUME NEW q, q \in Seq(Lines), NEW x \in Lines, NEW skip
  PROVE  Cardinality(Pay(Append(q, x), skip)) =
           Cardinality(Pay(q, skip)) + (IF x \in Payloads \ skip THEN 1 ELSE 0)
<1> DEFINE r == Append(q, x)
<1>1. /\ r \in Seq(Lines) /\ Len(r) = Len(q) + 1 /\ r[Len(q) + 1] = x /\ Len(q) \in Nat
      /\ \A n \in 1 .. Len(q) : r[n] = q[n]
  BY Appended
<1> HIDE DEF r
<1>2. IsFiniteSet(Pay(q, skip)) /\ Cardinality(Pay(q, skip)) \in Nat  BY PayFinite
<1>3. Len(q) + 1 \notin Pay(q, skip)  BY <1>1 DEF Pay
<1>4. CASE x \in Payloads \ skip
  <2>1. Pay(r, skip) = Pay(q, skip) \union {Len(q) + 1}  BY <1>1, <1>4 DEF Pay
  <2> QED  BY <1>2, <1>3, <1>4, <2>1, FS_AddElement DEF r
<1>5. CASE x \notin Payloads \ skip
  <2>1. Pay(r, skip) = Pay(q, skip)  BY <1>1, <1>5 DEF Pay
  <2> QED  BY <1>2, <1>5, <2>1 DEF r
<1> QED  BY <1>4, <1>5, Zenon

LEMMA PayEmpty ==
  ASSUME NEW skip  PROVE  Pay(<<>>, skip) = {} /\ Counts(0, <<>>, skip)
<1>1. \A A : Pay(<<>>, A) = {}  BY DEF Pay
<1>2. Cardinality({}) = 0 /\ 0 \in 0 .. 0  BY FS_EmptySet
<1>3. Pay(<<>>, skip) = {} /\ Pay(<<>>, {}) = {}  BY <1>1
<1> QED  BY <1>2, <1>3, Zenon DEF Counts

LEMMA CountAppend ==
  ASSUME NEW q, q \in Seq(Lines), NEW x \in Lines, NEW skip, NEW n, Counts(n, q, skip),
         x \notin skip \/ Payloads \subseteq skip
  PROVE  Counts(n + (IF x \in Payloads THEN 1 ELSE 0), Append(q, x), skip)
<1> DEFINE one == IF x \in Payloads THEN 1 ELSE 0
           low == Cardinality(Pay(q, skip))
           high == Cardinality(Pay(q, {}))
<1>1. low \in Nat /\ high \in Nat /\ n \in low .. high  BY PayFinite DEF Counts
<1>2. /\ Cardinality(Pay(Append(q, x), skip)) \in Nat
      /\ Cardinality(Pay(Append(q, x), skip)) <= low + one
  <2>1. CASE x \notin skip
    <3>1. Cardinality(Pay(Append(q, x), skip)) = low + one  BY <2>1, PayAppend
    <3> QED  BY <1>1, <3>1
  <2>2. CASE Payloads \subseteq skip
    <3>1. x \notin Payloads \ skip  BY <2>2
    <3>2. Cardinality(Pay(Append(q, x), skip)) = low  BY <1>1, <3>1, PayAppend
    <3> QED  BY <1>1, <3>2
  <2> QED  BY <2>1, <2>2
<1>3. Cardinality(Pay(Append(q, x), {})) = high + one  BY PayAppend
<1>4. one \in Nat  OBVIOUS
<1> HIDE DEF one, low, high
<1>5. n + one \in (low + one) .. (high + one)  BY <1>1, <1>4
<1>6. n + one \in Cardinality(Pay(Append(q, x), skip)) .. Cardinality(Pay(Append(q, x), {}))
  BY <1>1, <1>2, <1>3, <1>4, <1>5
<1> QED  BY <1>6 DEF Counts, one

(* A line of its own.                                                       *)
LEMMA CountOne ==
  ASSUME NEW x \in Lines, NEW skip, x \notin skip \/ Payloads \subseteq skip
  PROVE  Counts(IF x \in Payloads THEN 1 ELSE 0, <<x>>, skip)
<1>1. Counts(0, <<>>, skip)  BY PayEmpty
<1>2. <<>> \in Seq(Lines) /\ Append(<<>>, x) = <<x>>  OBVIOUS
<1>3. Counts(0 + (IF x \in Payloads THEN 1 ELSE 0), Append(<<>>, x), skip)
  BY <1>1, <1>2, CountAppend
<1> QED  BY <1>2, <1>3

(* One more payload that need not be sent again: the count is lowered.      *)
LEMMA CountAcked ==
  ASSUME NEW q, q \in Seq(Lines), NEW skip, NEW n, Counts(n, q, skip),
         NEW m \in 1 .. Len(q), q[m] \in Payloads
  PROVE  Counts(IF n > 0 /\ q[m] \notin skip THEN n - 1 ELSE n, q, skip \union {q[m]})
<1> DEFINE low == Cardinality(Pay(q, skip))
           high == Cardinality(Pay(q, {}))
           less == Cardinality(Pay(q, skip \union {q[m]}))
<1>1. low \in Nat /\ high \in Nat /\ n \in low .. high /\ less \in Nat
  BY PayFinite DEF Counts
<1>2. CASE q[m] \in skip
  <2>1. skip \union {q[m]} = skip  BY <1>2
  <2> QED  BY <1>2, <2>1
<1>3. CASE q[m] \notin skip
  <2>1. m \in Pay(q, skip)  BY <1>3 DEF Pay
  <2>2. Pay(q, skip \union {q[m]}) \subseteq Pay(q, skip) \ {m}  BY DEF Pay
  <2>3. IsFiniteSet(Pay(q, skip))  BY PayFinite
  <2>4. /\ IsFiniteSet(Pay(q, skip) \ {m}) /\ Cardinality(Pay(q, skip) \ {m}) = low - 1
    BY <2>1, <2>3, FS_RemoveElement
  <2>5. less <= low - 1
    <3> DEFINE A == Pay(q, skip \union {q[m]})
               B == Pay(q, skip) \ {m}
    <3>1. A \subseteq B /\ IsFiniteSet(B) /\ Cardinality(B) = low - 1  BY <2>2, <2>4
    <3> HIDE DEF A, B
    <3>2. Cardinality(A) <= Cardinality(B)  BY <3>1, FS_Subset
    <3> QED  BY <3>1, <3>2 DEF A
  <2> HIDE DEF low, high, less
  <2>6. n > 0 /\ n - 1 \in less .. high  BY <1>1, <2>5
  <2> QED  BY <1>3, <2>6 DEF Counts, low, high, less
<1> QED  BY <1>2, <1>3

(* When lines go that are no payloads, the count stays what it was.         *)
LEMMA CountKept ==
  ASSUME NEW q \in Seq(Lines), NEW r \in Kept(q, {n \in DOMAIN q : q[n] # Bad}), NEW skip,
         NEW n, Counts(n, q, skip)
  PROVE  Counts(n, r, skip)
<1> DEFINE S == {m \in DOMAIN q : q[m] # Bad}
<1>1. S \subseteq DOMAIN q  OBVIOUS
<1>r. r \in Kept(q, S)  OBVIOUS
<1> HIDE DEF S
<1>2. PICK o \in Ascending(S) :
           /\ r \in Seq(Lines) /\ DOMAIN r = 1 .. Cardinality(S) /\ DOMAIN o = DOMAIN r
           /\ Len(r) = Cardinality(S)
           /\ \A k \in DOMAIN r : o[k] \in S /\ r[k] = q[o[k]]
           /\ \A m \in S : \E k \in DOMAIN r : o[k] = m
           /\ \A j, k \in DOMAIN r : o[j] = o[k] => j = k
  BY <1>1, <1>r, KeptLines
<1>3. DOMAIN q = 1 .. Len(q) /\ DOMAIN r = 1 .. Len(r)  BY <1>2
<1>4. \A A : Cardinality(Pay(r, A)) = Cardinality(Pay(q, A))
  <2> SUFFICES ASSUME NEW A  PROVE  Cardinality(Pay(r, A)) = Cardinality(Pay(q, A))  OBVIOUS
  <2> DEFINE f == [k \in Pay(r, A) |-> o[k]]
  <2>1. \A k \in Pay(r, A) : k \in DOMAIN r /\ o[k] \in Pay(q, A)
    BY <1>1, <1>2, <1>3 DEF Pay
  <2>2. \A m \in Pay(q, A) : \E k \in Pay(r, A) : o[k] = m
    <3> SUFFICES ASSUME NEW m \in Pay(q, A)  PROVE  \E k \in Pay(r, A) : o[k] = m  OBVIOUS
    <3>1. m \in DOMAIN q /\ q[m] \in Payloads \ A  BY <1>3 DEF Pay
    <3>2. q[m] # Bad  BY <3>1, LineAssumption
    <3>3. PICK k \in DOMAIN r : o[k] = m  BY <1>2, <3>1, <3>2 DEF S
    <3>4. k \in Pay(r, A)  BY <1>2, <1>3, <3>1, <3>3 DEF Pay
    <3> QED  BY <3>3, <3>4
  <2>3. f \in Bijection(Pay(r, A), Pay(q, A))
    BY <1>2, <2>1, <2>2 DEF Bijection, Injection, Surjection, IsInjective
  <2>4. IsFiniteSet(Pay(r, A))  BY <1>2, PayFinite
  <2> HIDE DEF f
  <2>5. ExistsBijection(Pay(r, A), Pay(q, A))  BY <2>3 DEF ExistsBijection
  <2> QED  BY <2>4, <2>5, FS_Bijection
<1> QED  BY <1>4 DEF Counts

-------------------------------------------------------------------------------
(* The steps of the store                                                   *)

LEMMA Counted ==
  /\ \A skip : PayloadLines(skip) = Pay(file, skip)
  /\ CountBounded <=>
       (count # Null /\ happened \subseteq {"kept", "unread"} => Counts(count, file, Uncountable))
  /\ CountBounded' <=>
       (count' # Null /\ happened' \subseteq {"kept", "unread"} => Counts(count', file', Uncountable'))
  /\ (acked' = acked /\ ("unread" \in happened' <=> "unread" \in happened) => Uncountable' = Uncountable)
BY DEF CountBounded, Counts, PayloadLines, Pay, Uncountable

(* What is counted stays counted when the file could not be read, too.      *)
LEMMA CountExcused ==
  ASSUME NEW q, q \in Seq(Lines), NEW skip, NEW n, Counts(n, q, skip)
  PROVE  n \in Nat /\ Counts(n, q, Payloads)
<1>1. /\ Cardinality(Pay(q, skip)) \in Nat /\ Cardinality(Pay(q, {})) \in Nat
      /\ n \in Cardinality(Pay(q, skip)) .. Cardinality(Pay(q, {}))
  BY PayFinite DEF Counts
<1>2. n \in 0 .. Cardinality(Pay(q, {}))  BY <1>1
<1>3. Pay(q, Payloads) = {}  BY DEF Pay
<1>4. Cardinality({}) = 0  BY FS_EmptySet
<1>5. n \in Cardinality(Pay(q, Payloads)) .. Cardinality(Pay(q, {}))  BY <1>2, <1>3, <1>4
<1> QED  BY <1>2, <1>5 DEF Counts

LEMMA StillCounted ==
  ASSUME NEW q, q \in Seq(Lines), NEW n, Counts(n, q, Uncountable),
         happened \subseteq happened', acked' = acked
  PROVE  Counts(n, q, Uncountable')
<1>1. Counts(n, q, Payloads)  BY CountExcused
<1>2. Uncountable' \in {Uncountable, Payloads}  BY DEF Uncountable
<1> QED  BY <1>1, <1>2

(* A mishap is noted for good.                                              *)
LEMMA Noted ==
  ASSUME NEW condition, NEW mishap \in Mishaps, Note(mishap, condition), happened \subseteq Mishaps
  PROVE  /\ happened \subseteq happened' /\ happened' \subseteq Mishaps
         /\ condition => mishap \in happened'
         /\ mishap # "unread" => ("unread" \in happened' <=> "unread" \in happened)
BY DEF Note, When

LEMMA LineAppended ==
  ASSUME DTypes, Single(file), NEW line \in Lines, line \in Payloads => line \notin ToSet(file),
         NEW ok \in BOOLEAN, NEW before \in Nat \union {Null},
         AppendLine(line, ok, before, IF line \in Payloads THEN 1 ELSE 0)
  PROVE  /\ file' \in Seq(Lines) /\ Single(file') /\ rotated' \subseteq Payloads
         /\ ToSet(file') \subseteq ToSet(file) \union {line}
         /\ ok => line \in ToSet(file')
         /\ \A x \in Payloads : x \in ToSet(file) \union rotated => x \in ToSet(file') \union rotated'
         /\ count' \in Nat \union {Null}
         /\ happened \subseteq happened' /\ happened' \subseteq Mishaps
         /\ \/ "cut" \in happened' \/ ~AnyDrain
            \/ Len(file) <= Len(file') /\ \A n \in 1 .. Len(file) : file'[n] = file[n]
         /\ \A skip : (before # Null => Counts(before, file, skip))
                      /\ (line \notin skip \/ Payloads \subseteq skip) =>
                      (count' # Null => Counts(count', file', skip))
         /\ \/ \A skip : line \notin skip \/ Payloads \subseteq skip => Counts(count', file', skip)
            \/ Unread(before) => "unread" \in happened'
<1> DEFINE added == IF line \in Payloads THEN 1 ELSE 0
<1>1. file \in Seq(Lines) /\ happened \subseteq Mishaps /\ rotated \subseteq Payloads  BY DEF DTypes
<1>2. Len(file) \in Nat /\ DOMAIN file = 1 .. Len(file)  BY <1>1
<1>3. added \in Nat  OBVIOUS
<1> HIDE DEF added
<1>4. CASE AppendRotating(line, ok, added)
  <2>1. /\ rotated' = rotated \union (ToSet(file) \intersect Payloads)
        /\ file' = IF ok THEN <<line>> ELSE <<>>
        /\ count' = IF ok THEN added ELSE 0
        /\ Note("cut", AnyDrain)
    BY <1>4 DEF AppendRotating
  <2>2. /\ happened \subseteq happened' /\ happened' \subseteq Mishaps
        /\ AnyDrain => "cut" \in happened'
    BY <1>1, <2>1, Noted DEF Mishaps
  <2>3. CASE ok
    <3>1. file' = <<line>> /\ count' = added  BY <2>1, <2>3
    <3>2. file' \in Seq(Lines) /\ ToSet(file') = {line} /\ Single(file')
      BY <3>1 DEF ToSet, Single
    <3>3. \A skip : line \notin skip \/ Payloads \subseteq skip => Counts(count', file', skip)
      BY <3>1, CountOne DEF added
    <3> QED  BY <1>1, <1>3, <2>1, <2>2, <3>1, <3>2, <3>3
  <2>4. CASE ~ok
    <3>1. file' = <<>> /\ count' = 0  BY <2>1, <2>4
    <3>2. file' \in Seq(Lines) /\ ToSet(file') = {} /\ Single(file')
      BY <3>1 DEF ToSet, Single
    <3>3. \A skip : Counts(count', file', skip)
      BY <3>1, PayEmpty
    <3> QED  BY <1>1, <1>3, <2>1, <2>2, <2>4, <3>1, <3>2, <3>3
  <2> QED  BY <2>3, <2>4
<1>5. CASE AppendPlain(line, ok, before, added)
  <2>1. /\ file' = IF ok THEN Append(file, line) ELSE file
        /\ count' = IF ok /\ before # Null THEN before + added ELSE before
        /\ rotated' = rotated /\ Note("unread", Unread(before))
    BY <1>5 DEF AppendPlain
  <2>u. /\ happened \subseteq happened' /\ happened' \subseteq Mishaps
        /\ Unread(before) => "unread" \in happened'
    BY <1>1, <2>1, Noted DEF Mishaps
  <2>2. CASE ok
    <3>1. /\ file' \in Seq(Lines) /\ Len(file') = Len(file) + 1 /\ DOMAIN file' = 1 .. Len(file) + 1
          /\ file'[Len(file) + 1] = line /\ \A m \in 1 .. Len(file) : file'[m] = file[m]
      BY <1>1, <2>1, <2>2, Appended
    <3>2. ToSet(file') = ToSet(file) \union {line}  BY <1>2, <3>1 DEF ToSet
    <3>3. Single(file')  BY <1>2, <3>1 DEF Single, ToSet
    <3>4. ASSUME NEW skip, before # Null, Counts(before, file, skip),
                 line \notin skip \/ Payloads \subseteq skip
          PROVE  Counts(count', file', skip)
      <4>1. count' = before + added /\ file' = Append(file, line)  BY <2>1, <2>2, <3>4
      <4>2. Counts(before + added, Append(file, line), skip)
        BY <1>1, <3>4, CountAppend DEF added
      <4> QED  BY <4>1, <4>2
    <3>5. count' \in Nat \union {Null}  BY <1>3, <2>1, <2>2
    <3>6. count' # Null => before # Null  BY <2>1
    <3> QED  BY <1>1, <1>2, <2>1, <2>2, <2>u, <3>1, <3>2, <3>3, <3>4, <3>5, <3>6
  <2>3. CASE ~ok  BY <1>1, <1>2, <2>1, <2>3, <2>u
  <2> QED  BY <2>2, <2>3
<1>6. AppendLine(line, ok, before, added)  BY DEF added
<1> QED  BY <1>4, <1>5, <1>6 DEF AppendLine

Calm == happened \intersect Disturbances = {}
Quiet == happened \intersect (Disturbances \union {"kept"}) = {}

LEMMA Earlier ==
  ASSUME happened \subseteq happened'
  PROVE  (Calm' => Calm) /\ (Quiet' => Quiet) /\ (Quiet' => Calm') /\ (Quiet => Calm)
BY DEF Calm, Quiet

LEMMA FitsMore ==
  ASSUME NEW d, NEW known, NEW more, Fitting(d, known), known \subseteq more  PROVE  Fitting(d, more)
BY DEF Fitting

(* Beside the drains: lines are appended, and what was never dispatched is  *)
(* delivered.                                                               *)
LEMMA Beside ==
  ASSUME DIInv, UNCHANGED <<startup, draining, cli, acked>>, file' \in Seq(Lines),
         Len(file) <= Len(file'), \A n \in 1 .. Len(file) : file'[n] = file[n],
         \A n \in DOMAIN file' : n > Len(file) /\ file'[n] \in Payloads => file'[n] \notin dispatched,
         happened \subseteq happened', deliveries' \in [Payloads -> Nat],
         \A x \in Payloads : \/ deliveries'[x] = deliveries[x]
                             \/ x \notin dispatched /\ deliveries'[x] = 1 /\ x \notin ToSet(file'),
         Calm' => NothingIsLost'
  PROVE  Undisturbed' /\ DeliveredOnce'
<1>1. /\ file \in Seq(Lines) /\ deliveries \in [Payloads -> 0 .. MaxDeliveries]
      /\ Accepted \subseteq dispatched
  BY DEF DIInv, DTypes, Bookkeeping
<1>2. Fitting(startup, dispatched) /\ Fitting(draining, dispatched) /\ Fitting(cli, dispatched)
  BY DEF DIInv, Bookkeeping
<1>3. DOMAIN file = 1 .. Len(file) /\ DOMAIN file' = 1 .. Len(file') /\ Len(file) \in Nat
      /\ Len(file') \in Nat
  BY <1>1
<1>4. MaxDeliveries \in Nat  BY DrainAssumption
<1>5. \A x \in Payloads : deliveries[x] \in Nat /\ deliveries'[x] \in Nat  BY <1>1, <1>4
<1>6. \A x \in Payloads : x \notin dispatched => deliveries[x] = 0  BY <1>1, <1>5 DEF Accepted
<1>7. \A x \in Payloads : deliveries[x] > 0 => deliveries'[x] > 0  BY <1>5, <1>6
<1>8. Undisturbed'
  <2>1. SUFFICES ASSUME Calm'
                 PROVE  /\ Alone'
                        /\ Knows(startup, file, deliveries)'
                        /\ Knows(draining, file, deliveries)'
                        /\ Knows(cli, file, deliveries)'
    BY DEF Undisturbed, Calm
  <2>2. Calm  BY <2>1, Earlier
  <2>3. /\ Alone /\ Knows(startup, file, deliveries) /\ Knows(draining, file, deliveries)
        /\ Knows(cli, file, deliveries)
    BY <2>2 DEF DIInv, Undisturbed, Calm
  <2>4. ASSUME NEW d \in {startup, draining, cli}  PROVE  Knows(d, file', deliveries')
    BY <1>1, <1>2, <1>7, <2>3, KnowsLonger
  <2>5. Alone'  BY <2>3 DEF Alone, On
  <2> QED  BY <2>4, <2>5
<1>9. DeliveredOnce'
  <2>1. SUFFICES ASSUME Quiet'
                 PROVE  /\ \A n \in DOMAIN file' : file'[n] \in Accepted' => Remembered(n)'
                        /\ Fresh(startup, deliveries)' /\ Fresh(draining, deliveries)'
                        /\ Fresh(cli, deliveries)'
                        /\ \A x \in Payloads : deliveries'[x] <= 1
    BY DEF DeliveredOnce, Quiet
  <2>2. Quiet  BY <2>1, Earlier
  <2>3. /\ \A n \in DOMAIN file : file[n] \in Accepted => Remembered(n)
        /\ Fresh(startup, deliveries) /\ Fresh(draining, deliveries) /\ Fresh(cli, deliveries)
        /\ \A x \in Payloads : deliveries[x] <= 1
    BY <2>2 DEF DIInv, DeliveredOnce, Quiet
  <2>4. ASSUME NEW n \in DOMAIN file', file'[n] \in Accepted'  PROVE  Remembered(n)'
    <3>1. file'[n] \in Payloads /\ deliveries'[file'[n]] > 0  BY <2>4 DEF Accepted
    <3>2. file'[n] \in ToSet(file')  BY <2>4 DEF ToSet
    <3>3. deliveries'[file'[n]] = deliveries[file'[n]]  BY <3>1, <3>2
    <3>4. n <= Len(file)  BY <1>3, <1>6, <2>4, <3>1, <3>3
    <3>5. n \in DOMAIN file /\ file'[n] = file[n]  BY <1>3, <2>4, <3>4
    <3>6. Remembered(n)  BY <2>3, <3>1, <3>3, <3>5 DEF Accepted
    <3> QED  BY <3>5, <3>6 DEF Remembered, On
  <2>5. ASSUME NEW d \in {startup, draining, cli}  PROVE  Fresh(d, deliveries')
    <3>1. Fitting(d, dispatched) /\ Fresh(d, deliveries)  BY <1>2, <2>3
    <3>2. \A e \in d.left : e.id \in dispatched /\ e.id \in Payloads
      BY <3>1 DEF Fitting, Drains
    <3> QED  BY <3>1, <3>2 DEF Fresh
  <2>6. \A x \in Payloads : deliveries'[x] <= 1  BY <1>5, <2>3
  <2> QED  BY <2>4, <2>5, <2>6
<1> QED  BY <1>8, <1>9

(* No drain is under way after the step.                                    *)
LEMMA AllOff ==
  ASSUME ~On(startup'), ~On(draining'), ~On(cli'),
         Calm' => NothingIsLost',
         Quiet' => /\ ToSet(file') \intersect Accepted' \subseteq acked'
                   /\ \A x \in Payloads : deliveries'[x] <= 1
  PROVE  Undisturbed' /\ DeliveredOnce'
<1>1. Undisturbed'  BY DEF Undisturbed, Calm, Alone, Knows, On
<1>2. DeliveredOnce'  BY DEF DeliveredOnce, Quiet, Remembered, Fresh, On, ToSet
<1> QED  BY <1>1, <1>2

LEMMA OffBefore ==
  ASSUME DIInv, Quiet, ~On(startup), ~On(cli)
  PROVE  ToSet(file) \intersect Accepted \subseteq acked /\ \A x \in Payloads : deliveries[x] <= 1
BY DEF DIInv, DeliveredOnce, Quiet, Remembered, ToSet

LEMMA AppendMarkerKeeps ==
  ASSUME DIInv, AppendMarker  PROVE  DIInv'
<1>1. PICK ok \in BOOLEAN : AppendLine(Marker, ok, count, 0)  BY DEF AppendMarker
<1>2. /\ UNCHANGED <<stored, dispatched, deliveries, up, acked, failedSince, recovery, startup,
                     draining, cli, exits>>
      /\ up
  BY DEF AppendMarker
<1>3. Marker \notin Payloads /\ Marker \in Lines  BY LineAssumption DEF Lines
<1>4. AppendLine(Marker, ok, count, IF Marker \in Payloads THEN 1 ELSE 0)  BY <1>1, <1>3
<1>5. DTypes /\ Single(file) /\ count \in Nat \union {Null}  BY DEF DIInv, DTypes, Bookkeeping
<1>6. /\ file' \in Seq(Lines) /\ Single(file') /\ rotated' \subseteq Payloads
      /\ ToSet(file') \subseteq ToSet(file) \union {Marker}
      /\ \A x \in Payloads : x \in ToSet(file) \union rotated => x \in ToSet(file') \union rotated'
      /\ count' \in Nat \union {Null}
      /\ happened \subseteq happened' /\ happened' \subseteq Mishaps
      /\ \/ "cut" \in happened' \/ ~AnyDrain
         \/ Len(file) <= Len(file') /\ \A n \in 1 .. Len(file) : file'[n] = file[n]
      /\ \A skip : (count # Null => Counts(count, file, skip))
                   /\ (Marker \notin skip \/ Payloads \subseteq skip) =>
                   (count' # Null => Counts(count', file', skip))
  BY <1>3, <1>4, <1>5, LineAppended
<1>7. DTypes'  BY <1>2, <1>5, <1>6 DEF DTypes
<1>8. Bookkeeping'
  BY <1>2, <1>3, <1>6 DEF DIInv, Bookkeeping, On, Accepted
<1>9. Calm' => NothingIsLost'
  <2>1. \A x \in stored : x \in Payloads  BY <1>5 DEF DTypes
  <2> QED  BY <1>2, <1>6, <2>1, Earlier DEF DIInv, Undisturbed, Calm, NothingIsLost, Safe
<1>10. Undisturbed' /\ DeliveredOnce'
  <2>1. CASE ~AnyDrain
    <3>1. Quiet' => /\ ToSet(file') \intersect Accepted' \subseteq acked'
                    /\ \A x \in Payloads : deliveries'[x] <= 1
      BY <1>2, <1>3, <1>6, <2>1, Earlier, OffBefore DEF AnyDrain, Accepted
    <3> QED  BY <1>2, <1>9, <2>1, <3>1, AllOff DEF AnyDrain
  <2>2. CASE "cut" \in happened'
    BY <2>2 DEF Undisturbed, DeliveredOnce, Disturbances
  <2>3. CASE Len(file) <= Len(file') /\ \A n \in 1 .. Len(file) : file'[n] = file[n]
    <3>1. ASSUME NEW n \in DOMAIN file', n > Len(file), file'[n] \in Payloads  PROVE  FALSE
      <4>0. file'[n] \in ToSet(file')  BY <3>1 DEF ToSet
      <4>1. file'[n] \in ToSet(file)  BY <1>3, <1>6, <3>1, <4>0
      <4>2. PICK m \in DOMAIN file : file[m] = file'[n]  BY <4>1 DEF ToSet
      <4>3. m \in 1 .. Len(file) /\ m \in DOMAIN file' /\ file'[m] = file'[n] /\ m # n
        <5>1. Len(file) \in Nat /\ Len(file') \in Nat  BY <1>5, <1>6 DEF DTypes
        <5>2. m \in 1 .. Len(file)  BY <1>5, <4>2 DEF DTypes
        <5>3. m \in 1 .. Len(file')  BY <2>3, <5>1, <5>2
        <5> QED  BY <1>6, <2>3, <3>1, <4>2, <5>1, <5>2, <5>3
      <4> QED  BY <1>6, <3>1, <4>3 DEF Single
    <3>2. deliveries' \in [Payloads -> Nat]
      <4>1. MaxDeliveries \in Nat  BY DrainAssumption
      <4> QED  BY <1>2, <1>5, <4>1 DEF DTypes
    <3> QED  BY <1>2, <1>6, <1>9, <2>3, <3>1, <3>2, Beside
  <2> QED  BY <1>6, <2>1, <2>2, <2>3
<1>11. CountBounded'
  <2>1. Marker \notin acked  BY <1>3 DEF DIInv, Bookkeeping, Accepted
  <2>2. Marker \notin Uncountable'  BY <1>2, <1>3, <2>1 DEF Uncountable
  <2>3. ASSUME happened' \subseteq {"kept", "unread"}, count' # Null
        PROVE  Counts(count', file', Uncountable')
    <3>1. happened \subseteq {"kept", "unread"} /\ file \in Seq(Lines)  BY <1>5, <1>6, <2>3 DEF DTypes
    <3>2. count # Null => Counts(count, file, Uncountable)  BY <3>1, Counted DEF DIInv
    <3>3. count # Null => Counts(count, file, Uncountable')  BY <1>2, <1>6, <3>1, <3>2, StillCounted
    <3> QED  BY <1>6, <2>2, <2>3, <3>3
  <2> QED  BY <2>3, Counted
<1> QED  BY <1>7, <1>8, <1>10, <1>11 DEF DIInv

LEMMA InitialCounted ==
  ASSUME DIInv, NEW n \in InitialCounts
  PROVE  /\ n \in Nat
         /\ happened \subseteq {"kept", "unread"} =>
              \/ Counts(n, file, Uncountable)
              \/ Unread(n) /\ Counts(n, file, Payloads)
<1>1. file \in Seq(Lines) /\ count \in Nat \union {Null}  BY DEF DIInv, DTypes
<1>2. CASE count = Null /\ n = Cardinality(Pay(file, {}))
  BY <1>1, <1>2, PayFinite
<1>3. CASE count = Null /\ n = 0
  <2>1. CASE Pay(file, {}) = {}
    <3>1. n = Cardinality(Pay(file, {}))  BY <1>3, <2>1, FS_EmptySet
    <3> QED  BY <1>2, <1>3, <3>1
  <2>2. CASE Pay(file, {}) # {}
    <3>1. Unread(n)  BY <1>3, <2>2, Counted DEF Unread
    <3>2. Pay(file, Payloads) = {}  BY DEF Pay
    <3>3. Cardinality({}) = 0 /\ Cardinality(Pay(file, {})) \in Nat  BY <1>1, FS_EmptySet, PayFinite
    <3>4. n \in Cardinality(Pay(file, Payloads)) .. Cardinality(Pay(file, {}))
      BY <1>3, <3>2, <3>3
    <3> QED  BY <1>3, <3>1, <3>4 DEF Counts
  <2> QED  BY <2>1, <2>2
<1>4. CASE count # Null
  <2>1. n = count  BY <1>4 DEF InitialCounts
  <2> QED  BY <1>1, <1>4, <2>1, Counted DEF DIInv
<1>5. count = Null => n \in {Cardinality(Pay(file, {})), 0}
  BY Counted DEF InitialCounts
<1> QED  BY <1>2, <1>3, <1>4, <1>5

LEMMA ReadPendingCountKeeps ==
  ASSUME DIInv, ReadPendingCount  PROVE  DIInv'
<1>0. PICK n \in InitialCounts : count' = n /\ Note("unread", Unread(n))  BY DEF ReadPendingCount
<1>1. /\ up /\ file \in Seq(Lines) /\ happened \subseteq Mishaps
      /\ UNCHANGED <<file, rotated, stored, dispatched, deliveries, up, acked, failedSince, recovery,
                     startup, draining, cli, exits>>
  BY DEF ReadPendingCount, disk, DIInv, DTypes
<1>2. /\ n \in Nat
      /\ happened \subseteq {"kept", "unread"} =>
           \/ Counts(n, file, Uncountable)
           \/ Unread(n) /\ Counts(n, file, Payloads)
  BY InitialCounted
<1>3. /\ happened \subseteq happened' /\ happened' \subseteq Mishaps
      /\ Unread(n) => "unread" \in happened'
  BY <1>0, <1>1, Noted DEF Mishaps
<1>4. DTypes'  BY <1>0, <1>1, <1>2, <1>3 DEF DIInv, DTypes
<1>5. Bookkeeping'  BY <1>1 DEF DIInv, Bookkeeping, Accepted, On
<1>6. Undisturbed'
  BY <1>1, <1>3 DEF DIInv, Undisturbed, Alone, On, NothingIsLost, Safe
<1>7. DeliveredOnce'
  BY <1>1, <1>3 DEF DIInv, DeliveredOnce, Remembered, Accepted, On
<1>8. CountBounded'
  <2>1. ASSUME happened' \subseteq {"kept", "unread"}  PROVE  Counts(n, file, Uncountable')
    <3>1. CASE Counts(n, file, Uncountable)  BY <1>1, <1>3, <3>1, StillCounted
    <3>2. CASE Unread(n) /\ Counts(n, file, Payloads)  BY <1>3, <3>2 DEF Uncountable
    <3> QED  BY <1>2, <1>3, <2>1, <3>1, <3>2
  <2> QED  BY <1>0, <1>1, <2>1, Counted
<1> QED  BY <1>4, <1>5, <1>6, <1>7, <1>8 DEF DIInv

(* A payload is delivered once more.                                        *)
LEMMA OnceMore ==
  ASSUME DTypes, NEW x \in Payloads, deliveries[x] < MaxDeliveries,
         deliveries' = [deliveries EXCEPT ![x] = @ + 1]
  PROVE  /\ deliveries' \in [Payloads -> 0 .. MaxDeliveries]
         /\ deliveries' \in [Payloads -> Nat]
         /\ deliveries'[x] = deliveries[x] + 1 /\ deliveries'[x] > 0
         /\ \A y \in Payloads : y # x => deliveries'[y] = deliveries[y]
         /\ \A y \in Payloads : deliveries[y] > 0 => deliveries'[y] > 0
         /\ Accepted \subseteq Accepted' /\ Accepted' \subseteq Accepted \union {x}
<1>1. MaxDeliveries \in Nat /\ deliveries \in [Payloads -> 0 .. MaxDeliveries]
  BY DrainAssumption DEF DTypes
<1>2. \A y \in Payloads : deliveries[y] \in Nat /\ deliveries[y] <= MaxDeliveries  BY <1>1
<1>3. deliveries[x] + 1 \in 0 .. MaxDeliveries  BY <1>1, <1>2
<1>4. deliveries' \in [Payloads -> 0 .. MaxDeliveries]  BY <1>1, <1>3
<1>5. deliveries'[x] = deliveries[x] + 1 /\ \A y \in Payloads : y # x => deliveries'[y] = deliveries[y]
  BY <1>1
<1>6. deliveries'[x] > 0  BY <1>2, <1>5
<1>7. \A y \in Payloads : deliveries[y] > 0 => deliveries'[y] > 0  BY <1>5, <1>6
<1>8. deliveries' \in [Payloads -> Nat]  BY <1>1, <1>4
<1>9. Accepted \subseteq Accepted' /\ Accepted' \subseteq Accepted \union {x}
  BY <1>5, <1>7 DEF Accepted
<1> QED  BY <1>4, <1>5, <1>6, <1>7, <1>8, <1>9

LEMMA LiveSentKeeps ==
  ASSUME DIInv, NEW x \in Payloads, LiveSent(x)  PROVE  DIInv'
<1>1. /\ up /\ x \notin dispatched /\ dispatched' = dispatched \union {x}
      /\ deliveries' = [deliveries EXCEPT ![x] = @ + 1]
      /\ failedSince' = FALSE
      /\ UNCHANGED <<file, rotated, stored, up, acked, count, startup, draining, cli, exits, happened>>
      /\ recovery' \in {recovery, 1}
  BY DEF LiveSent, Schedule, disk
<1>2. DTypes /\ Accepted \subseteq dispatched /\ ToSet(file) \intersect Payloads \subseteq dispatched
  BY DEF DIInv, Bookkeeping
<1>3. deliveries[x] = 0 /\ x \notin ToSet(file) /\ x \notin Accepted
  <2>1. MaxDeliveries \in Nat  BY DrainAssumption
  <2>2. deliveries[x] \in Nat  BY <1>2, <2>1 DEF DTypes
  <2> QED  BY <1>1, <1>2, <2>2 DEF Accepted
<1>4. deliveries[x] < MaxDeliveries  BY <1>3, DrainAssumption
<1>5. /\ deliveries' \in [Payloads -> 0 .. MaxDeliveries]
      /\ deliveries' \in [Payloads -> Nat]
      /\ deliveries'[x] = deliveries[x] + 1
      /\ \A y \in Payloads : y # x => deliveries'[y] = deliveries[y]
      /\ \A y \in Payloads : deliveries[y] > 0 => deliveries'[y] > 0
      /\ Accepted \subseteq Accepted' /\ Accepted' \subseteq Accepted \union {x}
  BY <1>1, <1>2, <1>4, OnceMore
<1>6. DTypes'
  <2>1. recovery' \in 0 .. Attempts  BY <1>1, <1>2 DEF DTypes, Attempts
  <2> QED  BY <1>1, <1>2, <1>5, <2>1 DEF DTypes
<1>7. Bookkeeping'
  <2>1. /\ Fitting(startup, dispatched') /\ Fitting(draining, dispatched') /\ Fitting(cli, dispatched')
    BY <1>1, FitsMore DEF DIInv, Bookkeeping
  <2> QED  BY <1>1, <1>2, <1>5, <2>1 DEF DIInv, Bookkeeping, On
<1>8. Calm' => NothingIsLost'
  <2>1. stored \subseteq Payloads  BY <1>2 DEF DTypes
  <2> QED  BY <1>1, <1>5, <2>1 DEF DIInv, Undisturbed, Calm, NothingIsLost, Safe
<1>9. Undisturbed' /\ DeliveredOnce'
  <2>1. file \in Seq(Lines)  BY <1>2 DEF DTypes
  <2>2. DOMAIN file = 1 .. Len(file) /\ Len(file) \in Nat  BY <2>1
  <2>3. \A n \in DOMAIN file' : n > Len(file) /\ file'[n] \in Payloads => file'[n] \notin dispatched
    BY <1>1, <2>2
  <2>4. \A y \in Payloads : \/ deliveries'[y] = deliveries[y]
                            \/ y \notin dispatched /\ deliveries'[y] = 1 /\ y \notin ToSet(file')
    <3>1. deliveries'[x] = 1  BY <1>3, <1>5
    <3> QED  BY <1>1, <1>3, <1>5, <3>1
  <2> QED  BY <1>1, <1>5, <1>8, <2>1, <2>2, <2>3, <2>4, Beside
<1>10. CountBounded'  BY <1>1, Counted DEF DIInv
<1> QED  BY <1>6, <1>7, <1>9, <1>10 DEF DIInv

LEMMA LiveFailedKeeps ==
  ASSUME DIInv, NEW x \in Payloads, LiveFailed(x)  PROVE  DIInv'
<1>1. /\ up /\ x \notin dispatched /\ dispatched' = dispatched \union {x}
      /\ failedSince' = TRUE
      /\ UNCHANGED <<deliveries, up, acked, startup, draining, cli, exits>>
      /\ \/ /\ stored' = stored \union {x} /\ \E n \in InitialCounts : AppendLine(x, TRUE, n, 1)
            /\ Schedule
         \/ /\ \E n \in InitialCounts : AppendLine(x, FALSE, n, 1)
            /\ UNCHANGED <<stored, recovery>>
         \/ UNCHANGED <<disk, stored, count, recovery, happened>>
  BY DEF LiveFailed
<1>2. DTypes /\ Accepted \subseteq dispatched /\ ToSet(file) \intersect Payloads \subseteq dispatched
      /\ Single(file) /\ acked \subseteq dispatched
  BY DEF DIInv, Bookkeeping
<1>3. Fitting(startup, dispatched') /\ Fitting(draining, dispatched') /\ Fitting(cli, dispatched')
  BY <1>1, FitsMore DEF DIInv, Bookkeeping
<1>4. x \notin ToSet(file) /\ x \notin acked /\ x \in Lines  BY <1>1, <1>2 DEF Lines
<1>5. recovery' \in 0 .. Attempts
  <2>1. recovery' = recovery \/ recovery' = 1  BY <1>1, Zenon DEF Schedule
  <2>2. recovery \in 0 .. Attempts  BY <1>2 DEF DTypes
  <2> QED  BY <2>1, <2>2 DEF Attempts
<1>6. CASE UNCHANGED <<disk, stored, count, recovery, happened>>
  <2>1. UNCHANGED <<file, rotated, stored, count, recovery, happened>>  BY <1>6 DEF disk
  <2>2. DTypes'  BY <1>1, <1>2, <2>1 DEF DTypes
  <2>3. Bookkeeping'  BY <1>1, <1>3, <2>1 DEF DIInv, Bookkeeping, Accepted, On
  <2>4. Undisturbed'
    BY <1>1, <2>1 DEF DIInv, Undisturbed, Alone, On, NothingIsLost, Safe
  <2>5. DeliveredOnce'
    BY <1>1, <2>1 DEF DIInv, DeliveredOnce, Remembered, Accepted, On
  <2>6. CountBounded'  BY <1>1, <2>1, Counted DEF DIInv
  <2> QED  BY <2>2, <2>3, <2>4, <2>5, <2>6 DEF DIInv
<1>7. ASSUME NEW ok \in BOOLEAN, NEW i \in InitialCounts, AppendLine(x, ok, i, 1),
             stored' = IF ok THEN stored \union {x} ELSE stored
      PROVE  DIInv'
  <2>1. /\ i \in Nat
        /\ happened \subseteq {"kept", "unread"} =>
             \/ Counts(i, file, Uncountable)
             \/ Unread(i) /\ Counts(i, file, Payloads)
    BY InitialCounted
  <2>2. AppendLine(x, ok, i, IF x \in Payloads THEN 1 ELSE 0)  BY <1>7
  <2>3. /\ file' \in Seq(Lines) /\ Single(file') /\ rotated' \subseteq Payloads
        /\ ToSet(file') \subseteq ToSet(file) \union {x}
        /\ ok => x \in ToSet(file')
        /\ \A y \in Payloads : y \in ToSet(file) \union rotated => y \in ToSet(file') \union rotated'
        /\ count' \in Nat \union {Null}
        /\ happened \subseteq happened' /\ happened' \subseteq Mishaps
        /\ \/ "cut" \in happened' \/ ~AnyDrain
           \/ Len(file) <= Len(file') /\ \A n \in 1 .. Len(file) : file'[n] = file[n]
        /\ \A skip : (i # Null => Counts(i, file, skip))
                     /\ (x \notin skip \/ Payloads \subseteq skip) =>
                     (count' # Null => Counts(count', file', skip))
        /\ \/ \A skip : x \notin skip \/ Payloads \subseteq skip => Counts(count', file', skip)
           \/ Unread(i) => "unread" \in happened'
    BY <1>2, <1>4, <2>1, <2>2, LineAppended
  <2>4. stored' \subseteq stored \union {x} /\ (x \in stored' /\ x \notin stored => ok)  BY <1>7
  <2>5. DTypes'  BY <1>1, <1>2, <1>5, <2>3, <2>4 DEF DTypes
  <2>6. Bookkeeping'
    BY <1>1, <1>2, <1>3, <2>3, <2>4 DEF DIInv, Bookkeeping, On, Accepted
  <2>7. Calm' => NothingIsLost'
    <3>1. ASSUME Calm', NEW y \in stored'  PROVE  Safe(y)'
      <4>1. CASE y \in stored
        <5>1. y \in Payloads  BY <1>2, <4>1 DEF DTypes
        <5>2. Safe(y)  BY <2>3, <3>1, <4>1, Earlier DEF DIInv, Undisturbed, Calm, NothingIsLost
        <5> QED  BY <1>1, <2>3, <5>1, <5>2 DEF Safe
      <4>2. CASE y \notin stored  BY <2>3, <2>4, <3>1, <4>2 DEF Safe
      <4> QED  BY <4>1, <4>2
    <3> QED  BY <3>1 DEF NothingIsLost
  <2>8. Undisturbed' /\ DeliveredOnce'
    <3>1. CASE ~AnyDrain
      <4>1. Quiet' => /\ ToSet(file') \intersect Accepted' \subseteq acked'
                      /\ \A y \in Payloads : deliveries'[y] <= 1
        BY <1>1, <1>2, <2>3, <3>1, Earlier, OffBefore DEF AnyDrain, Accepted
      <4> QED  BY <1>1, <2>7, <3>1, <4>1, AllOff DEF AnyDrain
    <3>2. CASE "cut" \in happened'
      BY <3>2 DEF Undisturbed, DeliveredOnce, Disturbances
    <3>3. CASE Len(file) <= Len(file') /\ \A n \in 1 .. Len(file) : file'[n] = file[n]
      <4>1. ASSUME NEW n \in DOMAIN file', n > Len(file), file'[n] \in Payloads
            PROVE  file'[n] \notin dispatched
        <5>1. Len(file) \in Nat /\ Len(file') \in Nat /\ DOMAIN file = 1 .. Len(file)
              /\ DOMAIN file' = 1 .. Len(file')
          BY <1>2, <2>3 DEF DTypes
        <5>2. SUFFICES ASSUME file'[n] # x  PROVE  FALSE  BY <1>1
        <5>3. file'[n] \in ToSet(file')  BY <4>1 DEF ToSet
        <5>4. file'[n] \in ToSet(file)  BY <2>3, <5>2, <5>3
        <5>5. PICK m \in 1 .. Len(file) : file[m] = file'[n]  BY <5>1, <5>4 DEF ToSet
        <5>6. m \in DOMAIN file' /\ file'[m] = file'[n] /\ m # n  BY <3>3, <4>1, <5>1, <5>5
        <5> QED  BY <2>3, <4>1, <5>6 DEF Single
      <4>2. deliveries' \in [Payloads -> Nat]
        <5>1. MaxDeliveries \in Nat  BY DrainAssumption
        <5> QED  BY <1>1, <1>2, <5>1 DEF DTypes
      <4> QED  BY <1>1, <2>3, <2>7, <3>3, <4>1, <4>2, Beside
    <3> QED  BY <2>3, <3>1, <3>2, <3>3
  <2>9. CountBounded'
    <3>1. ASSUME happened' \subseteq {"kept", "unread"}, count' # Null
          PROVE  Counts(count', file', Uncountable')
      <4>1. x \notin Uncountable' \/ Payloads \subseteq Uncountable'  BY <1>1, <1>4 DEF Uncountable
      <4>2. CASE Counts(i, file, Uncountable)
        <5>1. file \in Seq(Lines) /\ acked' = acked  BY <1>1, <1>2 DEF DTypes
        <5>2. Counts(i, file, Uncountable')  BY <2>3, <4>2, <5>1, StillCounted
        <5> QED  BY <2>3, <3>1, <4>1, <5>2
      <4>3. CASE Unread(i) /\ Counts(i, file, Payloads)
        <5>1. CASE "unread" \in happened'
          <6>1. Uncountable' = Payloads  BY <5>1 DEF Uncountable
          <6> QED  BY <2>3, <3>1, <4>3, <6>1
        <5>2. CASE "unread" \notin happened'  BY <2>3, <4>1, <4>3, <5>2
        <5> QED  BY <5>1, <5>2
      <4> QED  BY <2>1, <2>3, <3>1, <4>2, <4>3
    <3> QED  BY <3>1, Counted
  <2> QED  BY <2>5, <2>6, <2>8, <2>9 DEF DIInv
<1> QED  BY <1>1, <1>6, <1>7

-------------------------------------------------------------------------------
(* What a clear leaves                                                      *)

Shrunk ==
  /\ file' \in Seq(Lines) /\ Single(file') /\ ToSet(file') \subseteq ToSet(file)
  /\ rotated' = rotated /\ count' \in Nat \union {Null}
  /\ happened \subseteq happened' /\ happened' \subseteq Mishaps

LEMMA ClearedShrinks ==
  ASSUME DTypes, Single(file), NEW n \in Nat, Cleared(n), happened' \subseteq Mishaps,
         happened \subseteq happened'
  PROVE  /\ Shrunk
         /\ \A skip : count' # Null => Counts(count', file', skip)
         /\ \A m \in DOMAIN file : m > n => file[m] \in ToSet(file')
         /\ \A x \in ToSet(file') : \E m \in DOMAIN file : m > n /\ file[m] = x
<1>1. /\ file' = SubSeq(file, n + 1, Len(file)) /\ rotated' = rotated
      /\ count' = IF file = <<>> THEN 0 ELSE Null
  BY DEF Cleared
<1>2. file \in Seq(Lines) /\ DOMAIN file = 1 .. Len(file) /\ Len(file) \in Nat  BY DEF DTypes
<1>3. /\ file' \in Seq(Lines)
      /\ \A m \in DOMAIN file' : n + m \in DOMAIN file /\ file'[m] = file[n + m]
      /\ \A m \in DOMAIN file : m > n => m - n \in DOMAIN file' /\ file'[m - n] = file[m]
  <2>1. file' = SubSeq(file, n + 1, Len(file)) /\ file \in Seq(Lines)  BY <1>1, <1>2
  <2> QED  BY <2>1, CutOff
<1>4. DOMAIN file' = 1 .. Len(file')  BY <1>3
<1>5. Single(file')
  <2> SUFFICES ASSUME NEW i \in DOMAIN file', NEW j \in DOMAIN file', file'[i] = file'[j],
                      file'[i] \in Payloads
               PROVE  i = j
    BY DEF Single
  <2>1. n + i = n + j  BY <1>3 DEF Single
  <2> QED  BY <1>4, <2>1
<1>6. \A m \in DOMAIN file : m > n => file[m] \in ToSet(file')  BY <1>3 DEF ToSet
<1>7. \A x \in ToSet(file') : \E m \in DOMAIN file : m > n /\ file[m] = x
  <2> SUFFICES ASSUME NEW x \in ToSet(file')  PROVE  \E m \in DOMAIN file : m > n /\ file[m] = x
    OBVIOUS
  <2>1. PICK i \in DOMAIN file' : file'[i] = x  BY DEF ToSet
  <2>2. n + i \in DOMAIN file /\ file[n + i] = x  BY <1>3, <2>1
  <2>3. n + i > n  BY <1>4
  <2> QED  BY <2>2, <2>3
<1>8. ToSet(file') \subseteq ToSet(file)  BY <1>7 DEF ToSet
<1>9. ASSUME count' # Null, NEW skip  PROVE  Counts(count', file', skip)
  <2>1. file = <<>> /\ count' = 0  BY <1>1, <1>9
  <2>2. file' = <<>>
    <3>1. ToSet(file') = {}  BY <1>8, <2>1 DEF ToSet
    <3>2. DOMAIN file' = {}  BY <3>1 DEF ToSet
    <3>3. Len(file') \in Nat  BY <1>3
    <3>4. Len(file') = 0  BY <1>4, <3>2, <3>3
    <3> QED  BY <1>3, <3>4
  <2> QED  BY <2>1, <2>2, PayEmpty
<1>10. count' \in Nat \union {Null}  BY <1>1
<1> QED  BY <1>1, <1>3, <1>5, <1>6, <1>7, <1>8, <1>9, <1>10 DEF Shrunk

LEMMA TornShrinks ==
  ASSUME DTypes, Single(file), NEW n \in Nat, NEW before \in Nat \union {Null}, Torn(n, before)
  PROVE  Shrunk /\ "torn" \in happened'
<1>1. /\ Len(file) > n /\ Note("torn", TRUE) /\ count' = before /\ rotated' = rotated
      /\ \E k \in n .. Len(file) - 1 : file' = SubSeq(file, n + 1, k)
  BY DEF Torn
<1>2. PICK k \in n .. Len(file) - 1 : file' = SubSeq(file, n + 1, k)  BY <1>1
<1>3. file \in Seq(Lines) /\ Len(file) \in Nat /\ happened \subseteq Mishaps  BY DEF DTypes
<1>4. n + 1 \in 1 .. Len(file) + 1 /\ k \in 0 .. Len(file)  BY <1>1, <1>3
<1>5. file' \in Seq(Lines) /\ Single(file') /\ ToSet(file') \subseteq ToSet(file)
  <2>1. \E j \in 1 .. Len(file) + 1 : j = n + 1 /\ file' = SubSeq(file, j, k)  BY <1>2, <1>4
  <2>2. PICK j \in 1 .. Len(file) + 1 : file' = SubSeq(file, j, k)  BY <2>1
  <2>3. k \in 0 .. Len(file) /\ file \in Seq(Lines) /\ Single(file)  BY <1>3, <1>4
  <2> QED  BY <2>2, <2>3, PrefixSingle
<1>6. happened \subseteq happened' /\ happened' \subseteq Mishaps /\ "torn" \in happened'
  BY <1>1, <1>3, Noted DEF Mishaps
<1> QED  BY <1>1, <1>5, <1>6 DEF Shrunk

LEMMA SameShrinks ==
  ASSUME DTypes, Single(file), UNCHANGED disk, count' \in Nat \union {Null},
         happened \subseteq happened', happened' \subseteq Mishaps
  PROVE  Shrunk /\ file' = file
BY DEF DTypes, Shrunk, disk

LEMMA ClearSentShrinks ==
  ASSUME DTypes, Single(file), NEW n \in Nat, NEW before \in Nat \union {Null}, ClearSent(n, before)
  PROVE  /\ Shrunk
         /\ \/ "torn" \in happened'
            \/ /\ \A m \in DOMAIN file : m > n => file[m] \in ToSet(file')
               /\ \A skip : (before # Null => Counts(before, file, skip)) =>
                            (count' # Null => Counts(count', file', skip))
            \/ file' = file /\ count' = before
<1>0. happened \subseteq Mishaps  BY DEF DTypes
<1>1. CASE Torn(n, before)  BY <1>1, TornShrinks
<1>2. CASE Cleared(n) /\ UNCHANGED happened
  <2>1. happened' \subseteq Mishaps /\ happened \subseteq happened'  BY <1>0, <1>2
  <2>2. /\ Shrunk
        /\ \A skip : count' # Null => Counts(count', file', skip)
        /\ \A m \in DOMAIN file : m > n => file[m] \in ToSet(file')
    BY <1>2, <2>1, ClearedShrinks
  <2> QED  BY <2>2
<1>3. CASE Restored(before) /\ UNCHANGED happened
  <2>1. count' = before /\ UNCHANGED disk /\ happened' = happened  BY <1>3 DEF Restored
  <2>2. Shrunk /\ file' = file  BY <1>0, <2>1, SameShrinks
  <2> QED  BY <2>1, <2>2
<1> QED  BY <1>1, <1>2, <1>3 DEF ClearSent

(* The rest of the books after a clear.                                     *)
LEMMA BooksKept ==
  ASSUME DIInv, Shrunk, UNCHANGED <<stored, dispatched, exits>>,
         deliveries' \in [Payloads -> 0 .. MaxDeliveries], Accepted' \subseteq dispatched,
         acked' \subseteq Accepted', up' \in BOOLEAN, failedSince' \in BOOLEAN,
         recovery' \in 0 .. Attempts,
         Fitting(startup', dispatched), Fitting(draining', dispatched), Fitting(cli', dispatched),
         startup'.failed = {}, draining'.failed = {}, draining'.whole, cli'.whole,
         ~up' => acked' = {} /\ count' = Null /\ ~On(startup') /\ ~On(draining')
  PROVE  DTypes' /\ Bookkeeping'
<1>1. DTypes'  BY DEF DIInv, DTypes, Shrunk
<1>2. Bookkeeping'
  <2>1. stored \union (ToSet(file) \intersect Payloads) \subseteq dispatched  BY DEF DIInv, Bookkeeping
  <2>2. stored' \union Accepted' \union (ToSet(file') \intersect Payloads) \subseteq dispatched'
    BY <2>1 DEF Shrunk
  <2> QED  BY <2>2 DEF Bookkeeping, Shrunk, On
<1> QED  BY <1>1, <1>2

(* Nothing is lost when what goes has been delivered.                       *)
LEMMA NothingGoes ==
  ASSUME DIInv, Calm, Shrunk, stored' = stored, NEW n \in Nat,
         \A m \in DOMAIN file : m > n => file[m] \in ToSet(file'),
         \A m \in 1 .. n : m <= Len(file) /\ file[m] \in Payloads => deliveries'[file[m]] > 0,
         \A x \in Payloads : deliveries[x] > 0 => deliveries'[x] > 0
  PROVE  NothingIsLost'
<1>1. file \in Seq(Lines) /\ DOMAIN file = 1 .. Len(file) /\ stored \subseteq Payloads /\ Len(file) \in Nat
  BY DEF DIInv, DTypes
<1>2. ASSUME NEW x \in stored  PROVE  deliveries'[x] > 0 \/ x \in ToSet(file') \union rotated
  <2>1. deliveries[x] > 0 \/ x \in ToSet(file) \union rotated
    BY DEF DIInv, Undisturbed, Calm, NothingIsLost, Safe
  <2>2. CASE x \in ToSet(file)
    <3>1. PICK m \in 1 .. Len(file) : file[m] = x  BY <1>1, <2>2 DEF ToSet
    <3>2. CASE m > n  BY <1>1, <3>1, <3>2
    <3>3. CASE m <= n
      <4>1. m \in 1 .. n /\ m <= Len(file)  BY <1>1, <3>3
      <4> QED  BY <1>1, <3>1, <4>1
    <3> QED  BY <1>1, <3>2, <3>3
  <2> QED  BY <1>1, <2>1, <2>2
<1> QED  BY <1>2 DEF NothingIsLost, Safe, Shrunk

(* A drain begins, or nothing does, over the same file.                     *)
LEMMA Begins ==
  ASSUME DIInv, UNCHANGED <<file, rotated, stored, deliveries, acked>>, happened \subseteq happened',
         On(startup) => startup' = startup, On(cli) => cli' = cli,
         Calm' => /\ Alone' /\ Knows(startup', file, deliveries)
                  /\ Knows(draining', file, deliveries) /\ Knows(cli', file, deliveries),
         Quiet' => Fresh(startup', deliveries) /\ Fresh(draining', deliveries) /\ Fresh(cli', deliveries)
  PROVE  Undisturbed' /\ DeliveredOnce'
<1>1. Undisturbed'
  <2> SUFFICES ASSUME Calm'
               PROVE  /\ Alone' /\ Knows(startup, file, deliveries)'
                      /\ Knows(draining, file, deliveries)' /\ Knows(cli, file, deliveries)'
                      /\ NothingIsLost'
    BY DEF Undisturbed, Calm
  <2>1. NothingIsLost  BY Earlier DEF DIInv, Undisturbed, Calm
  <2> QED  BY <2>1 DEF NothingIsLost, Safe
<1>2. DeliveredOnce'
  <2> SUFFICES ASSUME Quiet'
               PROVE  /\ \A n \in DOMAIN file' : file'[n] \in Accepted' => Remembered(n)'
                      /\ Fresh(startup, deliveries)' /\ Fresh(draining, deliveries)'
                      /\ Fresh(cli, deliveries)'
                      /\ \A x \in Payloads : deliveries'[x] <= 1
    BY DEF DeliveredOnce, Quiet
  <2>1. Quiet  BY Earlier
  <2>2. /\ \A n \in DOMAIN file : file[n] \in Accepted => Remembered(n)
        /\ \A x \in Payloads : deliveries[x] <= 1
    BY <2>1 DEF DIInv, DeliveredOnce, Quiet
  <2>3. \A n \in DOMAIN file' : file'[n] \in Accepted' => Remembered(n)'
    BY <2>2 DEF Remembered, Accepted
  <2> QED  BY <2>2, <2>3
<1> QED  BY <1>1, <1>2

(* clearSent of a file in which nothing is left to send; no drain begins.   *)
LEMMA UselessClear ==
  ASSUME DIInv, NEW skip, skip \subseteq Accepted, PayloadLines(skip) = {}, ClearUseless(Len(file)),
         UNCHANGED <<stored, dispatched, deliveries, acked, cli>>,
         On(startup) => startup' = startup, ~On(startup) => ~On(startup'),
         On(draining) => draining' = draining, ~On(draining) => ~On(draining')
  PROVE  Shrunk /\ Undisturbed' /\ DeliveredOnce' /\ CountBounded'
<1>1. DTypes /\ Single(file) /\ file \in Seq(Lines) /\ Len(file) \in Nat /\ happened \subseteq Mishaps
      /\ DOMAIN file = 1 .. Len(file) /\ count \in Nat \union {Null}
  BY DEF DIInv, DTypes, Bookkeeping
<1>2. CASE Restored(count) /\ UNCHANGED happened
  <2>1. UNCHANGED <<file, rotated, count, happened>>  BY <1>2 DEF Restored, disk
  <2>2. Shrunk  BY <1>1, <2>1 DEF Shrunk, DTypes
  <2>3. Calm' => /\ Alone /\ Knows(startup, file, deliveries)
                 /\ Knows(draining, file, deliveries) /\ Knows(cli, file, deliveries)
    BY <2>1 DEF DIInv, Undisturbed, Calm
  <2>4. Calm' => /\ Alone' /\ Knows(startup', file, deliveries)
                 /\ Knows(draining', file, deliveries) /\ Knows(cli', file, deliveries)
    BY <2>3 DEF Alone, Knows
  <2>5. Quiet' => Fresh(startup', deliveries) /\ Fresh(draining', deliveries) /\ Fresh(cli', deliveries)
    BY <2>1 DEF DIInv, DeliveredOnce, Quiet, Fresh
  <2>6. Undisturbed' /\ DeliveredOnce'  BY <2>1, <2>4, <2>5, Begins
  <2> QED  BY <2>1, <2>2, <2>6, Counted DEF DIInv
<1>3. CASE Cleared(Len(file)) /\ Note("cut", AnyDrain)
  <2>1. /\ happened \subseteq happened' /\ happened' \subseteq Mishaps
        /\ AnyDrain => "cut" \in happened'
    BY <1>1, <1>3, Noted DEF Mishaps
  <2>2. /\ Shrunk
        /\ \A A : count' # Null => Counts(count', file', A)
        /\ \A m \in DOMAIN file : m > Len(file) => file[m] \in ToSet(file')
    BY <1>1, <1>3, <2>1, ClearedShrinks
  <2>3. CountBounded'  BY <2>2, Counted
  <2>4. Undisturbed' /\ DeliveredOnce'
    <3>1. CASE AnyDrain  BY <2>1, <3>1 DEF Undisturbed, DeliveredOnce, Disturbances
    <3>2. CASE ~AnyDrain
      <4>1. ~On(startup') /\ ~On(draining') /\ ~On(cli')  BY <3>2 DEF AnyDrain
      <4>2. Calm' => NothingIsLost'
        <5>1. \A m \in 1 .. Len(file) : file[m] \in Payloads => deliveries'[file[m]] > 0
          BY DEF PayloadLines, Accepted
        <5>2. SUFFICES ASSUME Calm'  PROVE  NothingIsLost'  OBVIOUS
        <5>3. Calm  BY <2>1, <5>2, Earlier
        <5> QED  BY <1>1, <2>2, <5>1, <5>3, NothingGoes
      <4>3. Quiet' => /\ ToSet(file') \intersect Accepted' \subseteq acked'
                      /\ \A x \in Payloads : deliveries'[x] <= 1
        BY <2>1, <2>2, <3>2, Earlier, OffBefore DEF AnyDrain, Accepted, Shrunk
      <4> QED  BY <4>1, <4>2, <4>3, AllOff
    <3> QED  BY <3>1, <3>2
  <2> QED  BY <2>2, <2>3, <2>4
<1> QED  BY <1>2, <1>3 DEF ClearUseless

-------------------------------------------------------------------------------
(* The startup drain                                                        *)

LEMMA Beginning ==
  ASSUME Began, happened \subseteq Mishaps
  PROVE  /\ happened \subseteq happened' /\ happened' \subseteq Mishaps
         /\ Calm' => ~On(startup) /\ ~On(draining) /\ ~On(cli)
BY DEF Began, When, Mishaps, Calm, Disturbances

LEMMA ActivateKeeps ==
  ASSUME DIInv, Activate  PROVE  DIInv'
<1>1. /\ ~up
      /\ UNCHANGED <<stored, dispatched, deliveries, acked, failedSince, recovery, draining, cli, exits>>
  BY DEF Activate
<1>2. PICK d \in Snapshots({}) :
        /\ startup' = Batch(d)
        /\ IF ~On(d) /\ d.lineCount > 0
           THEN \/ ClearUseless(d.lineCount) /\ up' = TRUE
                \/ UNCHANGED <<disk, count, up, happened>>
           ELSE /\ up' = TRUE /\ UNCHANGED <<disk, count>>
                /\ IF On(startup') THEN Began ELSE UNCHANGED happened
  BY DEF Activate
<1>3. /\ DTypes /\ Single(file) /\ file \in Seq(Lines) /\ Len(file) \in Nat /\ happened \subseteq Mishaps
      /\ acked = {} /\ count = Null /\ ~On(startup) /\ ~On(draining)
      /\ ToSet(file) \intersect Payloads \subseteq dispatched /\ Accepted \subseteq dispatched
      /\ draining.whole /\ cli.whole /\ draining.failed = {}
  BY <1>1 DEF DIInv, DTypes, Bookkeeping
<1>4. /\ Fitting(d, dispatched) /\ Knows(d, file, deliveries) /\ d.failed = {} /\ d.whole
      /\ \A e \in d.left : e.line \in DOMAIN file /\ file[e.line] = e.id /\ e.id \in Payloads
      /\ IsFiniteSet(d.left)
      /\ d.lineCount > 0 => d.lineCount = Len(file) /\ (On(d) <=> PayloadLines({}) # {})
  <2>1. CASE d = Drained({})
    <3>1. Skips({}, deliveries)  BY DEF Skips
    <3>2. Snapped(d, {}, dispatched, deliveries)  BY <1>3, <2>1, <3>1, SnapshotFits
    <3> QED  BY <3>2, Zenon DEF Snapped
  <2>2. CASE d = NoDrain
    <3>1. NoDrain.left = {} /\ NoDrain.lineCount = 0  BY DEF NoDrain
    <3> QED  BY <2>2, <3>1, NoDrainFits, FS_EmptySet
  <2> QED  BY <2>1, <2>2 DEF Snapshots
<1>5. /\ Fitting(startup', dispatched) /\ Knows(startup', file, deliveries) /\ startup'.failed = {}
      /\ startup'.left \subseteq d.left
  BY <1>2, <1>4, BatchFits
<1>6. Fitting(draining', dispatched) /\ Fitting(cli', dispatched)  BY <1>1 DEF DIInv, Bookkeeping
<1>7. CASE ~On(startup')
  <2>1. ~On(startup')  BY <1>7
  <2>2. CASE ClearUseless(d.lineCount) /\ up' = TRUE /\ d.lineCount > 0 /\ ~On(d)
    <3>1. PayloadLines({}) = {} /\ ClearUseless(Len(file))  BY <1>4, <2>2
    <3>2. Shrunk /\ Undisturbed' /\ DeliveredOnce' /\ CountBounded'
      <4>1. {} \subseteq Accepted  OBVIOUS
      <4> QED  BY <1>1, <1>3, <2>1, <3>1, <4>1, UselessClear
    <3>3. DTypes' /\ Bookkeeping'
      BY <1>1, <1>3, <1>5, <1>6, <2>2, <3>2, BooksKept DEF DTypes, Accepted
    <3> QED  BY <3>2, <3>3 DEF DIInv
  <2>3. CASE UNCHANGED <<disk, count, happened>> /\ up' \in BOOLEAN
    <3>1. UNCHANGED <<file, rotated, count, happened>>  BY <2>3 DEF disk
    <3>2. Shrunk  BY <1>3, <3>1 DEF Shrunk, DTypes
    <3>3. Calm' => /\ Alone /\ Knows(draining, file, deliveries) /\ Knows(cli, file, deliveries)
      BY <3>1 DEF DIInv, Undisturbed, Calm
    <3>4. Calm' => /\ Alone' /\ Knows(startup', file, deliveries)
                   /\ Knows(draining', file, deliveries) /\ Knows(cli', file, deliveries)
      BY <1>1, <1>5, <2>1, <3>3 DEF Alone
    <3>5. Quiet' => Fresh(startup', deliveries) /\ Fresh(draining', deliveries) /\ Fresh(cli', deliveries)
      BY <1>1, <2>1, <3>1 DEF DIInv, DeliveredOnce, Quiet, Fresh
    <3>6. Undisturbed' /\ DeliveredOnce'  BY <1>1, <1>3, <3>1, <3>4, <3>5, Begins
    <3>7. DTypes' /\ Bookkeeping'
      BY <1>1, <1>3, <1>5, <1>6, <2>1, <2>3, <3>1, <3>2, BooksKept DEF DTypes, Accepted
    <3> QED  BY <1>1, <3>1, <3>6, <3>7, Counted DEF DIInv
  <2> QED  BY <1>2, <1>3, <1>7, <2>2, <2>3 DEF DTypes
<1>8. CASE On(startup')
  <2> On(d)  BY <1>5, <1>8 DEF On
  <2>1. up' = TRUE /\ UNCHANGED <<file, rotated, count>> /\ Began  BY <1>2, <1>8 DEF disk
  <2>2. /\ happened \subseteq happened' /\ happened' \subseteq Mishaps
        /\ Calm' => ~On(startup) /\ ~On(draining) /\ ~On(cli)
    BY <1>3, <2>1, Beginning
  <2>3. Shrunk  BY <1>3, <2>1, <2>2 DEF Shrunk, DTypes
  <2>4. Calm' => /\ Alone' /\ Knows(startup', file, deliveries)
                 /\ Knows(draining', file, deliveries) /\ Knows(cli', file, deliveries)
    BY <1>1, <1>5, <2>2 DEF Alone, Knows
  <2>5. Quiet' => Fresh(startup', deliveries) /\ Fresh(draining', deliveries) /\ Fresh(cli', deliveries)
    <3> SUFFICES ASSUME Quiet'  PROVE  Fresh(startup', deliveries)
      BY <1>1, <2>2, Earlier DEF Fresh
    <3>1. ToSet(file) \intersect Accepted \subseteq acked  BY <1>3, <2>2, Earlier, OffBefore
    <3>2. \A e \in startup'.left : e.id \in ToSet(file) /\ e.id \in Payloads /\ e.id \notin Accepted
      BY <1>3, <1>4, <1>5, <3>1 DEF ToSet
    <3>3. \A x \in Payloads : x \notin Accepted => deliveries[x] = 0
      <4>1. MaxDeliveries \in Nat  BY DrainAssumption
      <4>2. \A x \in Payloads : deliveries[x] \in Nat  BY <1>3, <4>1 DEF DTypes
      <4> QED  BY <4>2 DEF Accepted
    <3> QED  BY <3>2, <3>3 DEF Fresh
  <2>6. Undisturbed' /\ DeliveredOnce'  BY <1>1, <1>3, <2>1, <2>2, <2>4, <2>5, Begins
  <2>7. DTypes' /\ Bookkeeping'
    BY <1>1, <1>3, <1>5, <1>6, <2>1, <2>3, BooksKept DEF DTypes, Accepted
  <2>8. CountBounded'  BY <1>3, <2>1, Counted
  <2> QED  BY <2>6, <2>7, <2>8 DEF DIInv
<1> QED  BY <1>7, <1>8

(* What a drain sends next is at its line, and was never delivered.         *)
LEMMA NextLine ==
  ASSUME DIInv, NEW d \in {startup, draining, cli}, On(d)
  PROVE  /\ Fitting(d, dispatched) /\ Current(d) \in d.left
         /\ Current(d).id \in Payloads /\ Current(d).id \in dispatched
         /\ Current(d).line \in Nat /\ Current(d).line <= d.lineCount
         /\ d.processed < Current(d).line
         /\ d.processed \in Nat /\ d.lineCount \in Nat
         /\ Calm => /\ Knows(d, file, deliveries)
                    /\ d.lineCount <= Len(file)
                    /\ Current(d).line \in DOMAIN file /\ file[Current(d).line] = Current(d).id
         /\ Quiet => deliveries[Current(d).id] = 0
<1>1. Fitting(d, dispatched)  BY DEF DIInv, Bookkeeping
<1>2. d \in Drains  BY <1>1 DEF Fitting
<1>3. Current(d) \in d.left  BY <1>2, CurrentIsLeast
<1>4. /\ Current(d).id \in Payloads /\ Current(d).line \in Nat
      /\ d.processed \in Nat /\ d.lineCount \in Nat
  BY <1>2, <1>3 DEF Drains
<1>5. /\ Current(d).id \in dispatched /\ Current(d).line <= d.lineCount
      /\ d.processed < Current(d).line
  BY <1>1, <1>3 DEF Fitting
<1>6. ASSUME Calm
      PROVE  /\ Knows(d, file, deliveries) /\ d.lineCount <= Len(file)
             /\ Current(d).line \in DOMAIN file /\ file[Current(d).line] = Current(d).id
  <2>1. Knows(d, file, deliveries)  BY <1>6 DEF DIInv, Undisturbed, Calm
  <2>2. d.lineCount <= Len(file) /\ file[Current(d).line] = Current(d).id  BY <1>3, <2>1 DEF Knows
  <2>3. file \in Seq(Lines)  BY DEF DIInv, DTypes
  <2>4. Current(d).line \in 1 .. Len(file)  BY <1>4, <1>5, <2>2, <2>3
  <2> QED  BY <2>1, <2>2, <2>3, <2>4
<1>7. ASSUME Quiet  PROVE  deliveries[Current(d).id] = 0
  BY <1>3, <1>7 DEF DIInv, DeliveredOnce, Quiet, Fresh
<1> QED  BY <1>1, <1>3, <1>4, <1>5, <1>6, <1>7

LEMMA Delivered ==
  ASSUME DIInv, NEW x \in Payloads, Deliver(x)
  PROVE  /\ deliveries' \in [Payloads -> 0 .. MaxDeliveries]
         /\ deliveries'[x] = deliveries[x] + 1 /\ deliveries'[x] > 0
         /\ \A y \in Payloads : y # x => deliveries'[y] = deliveries[y]
         /\ \A y \in Payloads : deliveries[y] > 0 => deliveries'[y] > 0
         /\ Accepted \subseteq Accepted' /\ Accepted' \subseteq Accepted \union {x} /\ x \in Accepted'
<1>1. DTypes /\ deliveries[x] < MaxDeliveries /\ deliveries' = [deliveries EXCEPT ![x] = @ + 1]
  BY DEF DIInv, Deliver
<1>2. /\ deliveries' \in [Payloads -> 0 .. MaxDeliveries]
      /\ deliveries'[x] = deliveries[x] + 1 /\ deliveries'[x] > 0
      /\ \A y \in Payloads : y # x => deliveries'[y] = deliveries[y]
      /\ \A y \in Payloads : deliveries[y] > 0 => deliveries'[y] > 0
      /\ Accepted \subseteq Accepted' /\ Accepted' \subseteq Accepted \union {x}
  BY <1>1, OnceMore
<1> QED  BY <1>2 DEF Accepted

(* What a drain has left stays fresh when something else is delivered.      *)
LEMMA StaysFresh ==
  ASSUME DIInv, NEW d \in {startup, draining, cli}, On(d), Calm, Quiet,
         Deliver(Current(d).id), NEW e, NEW failed, Steps(d, e, failed)
  PROVE  Fresh(e, deliveries') /\ \A y \in Payloads : deliveries'[y] <= 1
<1> DEFINE c == Current(d)
<1>1. /\ Fitting(d, dispatched) /\ c \in d.left /\ c.id \in Payloads
      /\ c.line \in DOMAIN file /\ file[c.line] = c.id /\ deliveries[c.id] = 0
      /\ Knows(d, file, deliveries)
  BY NextLine
<1>2. /\ deliveries'[c.id] = deliveries[c.id] + 1
      /\ \A y \in Payloads : y # c.id => deliveries'[y] = deliveries[y]
  BY <1>1, Delivered
<1>3. Fresh(d, deliveries) /\ \A y \in Payloads : deliveries[y] <= 1
  BY DEF DIInv, DeliveredOnce, Quiet
<1>4. d \in Drains /\ e.left = d.left \ {c}  BY <1>1 DEF Fitting, Steps
<1> HIDE DEF c
<1>5. \A y \in Payloads : deliveries'[y] <= 1  BY <1>1, <1>2, <1>3
<1>6. ASSUME NEW x \in e.left  PROVE  deliveries'[x.id] = 0
  <2>1. x \in d.left /\ x # c /\ x.id \in Payloads  BY <1>4 DEF Drains
  <2>2. x.line # c.line /\ file[x.line] = x.id  BY <1>1, <2>1 DEF Fitting, Knows, On
  <2>3. d.lineCount <= Len(file) /\ x.line <= d.lineCount /\ d.processed < x.line /\ x.line \in Nat
        /\ d.processed \in Nat /\ d.lineCount \in Nat
    BY <1>1, <1>4, <2>1 DEF Fitting, Knows, On, Drains
  <2>4. x.line \in DOMAIN file
    <3>1. file \in Seq(Lines)  BY DEF DIInv, DTypes
    <3>2. x.line \in 1 .. Len(file)  BY <2>3, <3>1
    <3> QED  BY <3>1, <3>2
  <2>5. x.id # c.id
    <3>1. Single(file)  BY DEF DIInv, Bookkeeping
    <3> QED  BY <1>1, <2>1, <2>2, <2>4, <3>1 DEF Single
  <2> QED  BY <1>2, <1>3, <2>1, <2>5 DEF Fresh, On
<1> QED  BY <1>5, <1>6 DEF Fresh

(* The clear at the end of a startup drain, when lines 1 to n are delivered.*)
LEMMA StartupCleared ==
  ASSUME DIInv, NEW n \in Nat, StartupEnds(n), On(startup),
         UNCHANGED <<stored, dispatched, up, acked, failedSince, recovery, draining, cli, exits>>,
         deliveries' \in [Payloads -> 0 .. MaxDeliveries],
         Accepted \subseteq Accepted', Accepted' \subseteq dispatched,
         Calm => \A m \in 1 .. n : m <= Len(file) /\ (file[m] \in Payloads => deliveries'[file[m]] > 0),
         Calm /\ Quiet => /\ \A m \in DOMAIN file : file[m] \in Accepted' /\ m > n => file[m] \in acked
                          /\ \A y \in Payloads : deliveries'[y] <= 1
  PROVE  DIInv'
<1>1. /\ DTypes /\ Single(file) /\ happened \subseteq Mishaps /\ count \in Nat \union {Null}
      /\ draining.failed = {} /\ draining.whole /\ cli.whole /\ up
      /\ up \in BOOLEAN /\ failedSince \in BOOLEAN /\ recovery \in 0 .. Attempts
  BY DEF DIInv, DTypes, Bookkeeping
<1>2. startup' = NoDrain  BY DEF StartupEnds
<1>3. /\ Fitting(startup', dispatched) /\ ~On(startup') /\ startup'.failed = {}
      /\ Fitting(draining', dispatched) /\ Fitting(cli', dispatched)
  BY <1>2, NoDrainFits DEF DIInv, Bookkeeping
<1>4. acked' \subseteq Accepted'  BY DEF DIInv, Bookkeeping
<1>5. Calm => ~On(draining') /\ ~On(cli')  BY DEF DIInv, Undisturbed, Calm, Alone
<1>6. ASSUME Shrunk  PROVE  DTypes' /\ Bookkeeping'
  BY <1>1, <1>3, <1>4, <1>6, BooksKept
<1>7. \A x \in Payloads : deliveries[x] > 0 => deliveries'[x] > 0  BY DEF Accepted
<1>8. CASE Cleared(n) /\ UNCHANGED happened
  <2>1. happened' \subseteq Mishaps /\ happened \subseteq happened'  BY <1>1, <1>8
  <2>2. /\ Shrunk
        /\ \A skip : count' # Null => Counts(count', file', skip)
        /\ \A m \in DOMAIN file : m > n => file[m] \in ToSet(file')
        /\ \A x \in ToSet(file') : \E m \in DOMAIN file : m > n /\ file[m] = x
    BY <1>1, <1>8, <2>1, ClearedShrinks
  <2>3. CountBounded'  BY <2>2, Counted
  <2>4. CASE ~Calm'
    BY <1>6, <2>2, <2>3, <2>4 DEF DIInv, Undisturbed, DeliveredOnce, Calm
  <2>5. CASE Calm'
    <3>1. Calm  BY <2>1, <2>5, Earlier
    <3>2. NothingIsLost'  BY <1>7, <2>2, <3>1, NothingGoes
    <3>3. Quiet' => /\ ToSet(file') \intersect Accepted' \subseteq acked'
                    /\ \A y \in Payloads : deliveries'[y] <= 1
      BY <2>1, <2>2, <3>1, Earlier
    <3>4. Undisturbed' /\ DeliveredOnce'  BY <1>3, <1>5, <3>1, <3>2, <3>3, AllOff
    <3> QED  BY <1>6, <2>2, <2>3, <3>4 DEF DIInv
  <2> QED  BY <2>4, <2>5
<1>9. CASE Torn(n, count)
  <2>1. Shrunk /\ "torn" \in happened'  BY <1>1, <1>9, TornShrinks
  <2> QED  BY <1>6, <2>1 DEF DIInv, Undisturbed, DeliveredOnce, CountBounded, Disturbances
<1>10. CASE UNCHANGED <<disk, count>> /\ Note("kept", TRUE)
  <2>1. /\ happened \subseteq happened' /\ happened' \subseteq Mishaps /\ "kept" \in happened'
        /\ ("unread" \in happened' <=> "unread" \in happened)
    BY <1>1, <1>10, Noted DEF Mishaps
  <2>2. Shrunk /\ file' = file /\ rotated' = rotated /\ count' = count
    BY <1>1, <1>10, <2>1, SameShrinks DEF disk
  <2>3. CountBounded'  BY <2>1, <2>2, Counted DEF DIInv
  <2>4. DeliveredOnce'  BY <2>1 DEF DeliveredOnce
  <2>5. Undisturbed'
    <3>1. SUFFICES ASSUME Calm'  PROVE  Undisturbed'  BY DEF Undisturbed, Calm
    <3>2. Calm  BY <2>1, <3>1, Earlier
    <3>3. NothingIsLost'
      <4>1. \A x \in stored : x \in Payloads  BY <1>1 DEF DTypes
      <4> QED  BY <1>7, <2>2, <3>2, <4>1 DEF DIInv, Undisturbed, Calm, NothingIsLost, Safe
    <3>4. ~Quiet'  BY <2>1 DEF Quiet
    <3> QED  BY <1>3, <1>5, <3>2, <3>3, <3>4, AllOff
  <2> QED  BY <1>6, <2>2, <2>3, <2>4, <2>5 DEF DIInv
<1> QED  BY <1>8, <1>9, <1>10 DEF StartupEnds

(* The drain d goes on as e, over the same file.                            *)
LEMMA GoesOn ==
  ASSUME DIInv, UNCHANGED <<file, rotated, stored, happened>>,
         acked \subseteq acked', \A y \in Payloads : deliveries[y] > 0 => deliveries'[y] > 0,
         On(startup) => On(startup'), On(draining') => On(draining), On(startup') => On(startup),
         On(cli') => On(cli),
         Calm => Knows(startup', file, deliveries') /\ Knows(draining', file, deliveries')
                 /\ Knows(cli', file, deliveries'),
         Quiet => /\ Fresh(startup', deliveries') /\ Fresh(draining', deliveries')
                  /\ Fresh(cli', deliveries')
                  /\ \A y \in Payloads : deliveries'[y] <= 1
                  /\ \A n \in DOMAIN file : file[n] \in Accepted' => Remembered(n)'
  PROVE  Undisturbed' /\ DeliveredOnce'
<1>1. (Calm' <=> Calm) /\ (Quiet' <=> Quiet)  BY DEF Calm, Quiet
<1>2. Undisturbed'
  <2> SUFFICES ASSUME Calm
               PROVE  /\ Alone' /\ Knows(startup, file, deliveries)'
                      /\ Knows(draining, file, deliveries)' /\ Knows(cli, file, deliveries)'
                      /\ NothingIsLost'
    BY <1>1 DEF Undisturbed, Calm
  <2>1. Alone /\ NothingIsLost  BY DEF DIInv, Undisturbed, Calm
  <2>2. stored \subseteq Payloads  BY DEF DIInv, DTypes
  <2>3. NothingIsLost'  BY <2>1, <2>2 DEF NothingIsLost, Safe
  <2> QED  BY <2>1, <2>3 DEF Alone
<1>3. DeliveredOnce'  BY <1>1 DEF DeliveredOnce, Quiet
<1> QED  BY <1>2, <1>3

LEMMA StartupSentKeeps ==
  ASSUME DIInv, StartupSent  PROVE  DIInv'
<1> DEFINE c == Current(startup)
<1>1. /\ On(startup) /\ Deliver(c.id)
      /\ UNCHANGED <<stored, dispatched, up, acked, failedSince, recovery, draining, cli, exits>>
      /\ IF IsLast(startup)
         THEN StartupEnds(StartupClears(startup))
         ELSE startup' = Advanced(startup) /\ UNCHANGED <<disk, count, happened>>
  BY DEF StartupSent
<1>2. /\ Fitting(startup, dispatched) /\ c \in startup.left /\ c.id \in Payloads /\ c.id \in dispatched
      /\ c.line \in Nat /\ c.line <= startup.lineCount /\ startup.processed < c.line
      /\ startup.processed \in Nat /\ startup.lineCount \in Nat
      /\ Calm => /\ Knows(startup, file, deliveries) /\ startup.lineCount <= Len(file)
                 /\ c.line \in DOMAIN file /\ file[c.line] = c.id
      /\ Quiet => deliveries[c.id] = 0
  BY <1>1, NextLine
<1>3. /\ deliveries' \in [Payloads -> 0 .. MaxDeliveries]
      /\ deliveries'[c.id] = deliveries[c.id] + 1 /\ deliveries'[c.id] > 0
      /\ \A y \in Payloads : y # c.id => deliveries'[y] = deliveries[y]
      /\ \A y \in Payloads : deliveries[y] > 0 => deliveries'[y] > 0
      /\ Accepted \subseteq Accepted' /\ Accepted' \subseteq Accepted \union {c.id}
  BY <1>1, <1>2, Delivered
<1>4. /\ DTypes /\ Single(file) /\ file \in Seq(Lines) /\ DOMAIN file = 1 .. Len(file) /\ Len(file) \in Nat
      /\ Accepted' \subseteq dispatched /\ startup.failed = {} /\ up
      /\ acked \subseteq Accepted
  BY <1>1, <1>2, <1>3 DEF DIInv, DTypes, Bookkeeping
<1>5. Steps(startup, Advanced(startup), {})  BY <1>1, <1>2, <1>4, StepTaken
<1>6. Calm => ~On(draining) /\ ~On(cli)  BY <1>1 DEF DIInv, Undisturbed, Calm, Alone
<1>7. Quiet => Calm  BY DEF Quiet, Calm
<1>8. Calm /\ Quiet => \A n \in DOMAIN file : file[n] \in Accepted => file[n] \in acked \/ n <= startup.processed
  BY <1>1, <1>6 DEF DIInv, DeliveredOnce, Quiet, Remembered
<1> HIDE DEF c
<1>9. CASE ~IsLast(startup)
  <2>1. startup' = Advanced(startup) /\ UNCHANGED <<file, rotated, count, happened>>
    BY <1>1, <1>9 DEF disk
  <2>2. /\ Fitting(startup', dispatched) /\ startup'.failed = {} /\ startup'.processed = c.line
        /\ startup'.left = startup.left \ {c}
    BY <1>1, <1>2, <1>4, <1>5, <2>1, StepFits DEF Steps, c
  <2>3. Shrunk  BY <1>4, <2>1 DEF Shrunk, DTypes
  <2>4. DTypes' /\ Bookkeeping'
    BY <1>1, <1>3, <1>4, <2>2, <2>3, BooksKept DEF DIInv, DTypes, Bookkeeping
  <2>5. On(startup')  BY <1>2, <1>9, <2>2 DEF On, IsLast, c
  <2>6. Calm => Knows(startup', file, deliveries')
    BY <1>1, <1>2, <1>3, <1>4, <1>5, <2>1, StepKnows DEF c
  <2>7. Quiet => Fresh(startup', deliveries') /\ \A y \in Payloads : deliveries'[y] <= 1
    BY <1>1, <1>5, <1>7, <2>1, StaysFresh DEF c
  <2>8. ASSUME Quiet, NEW n \in DOMAIN file, file[n] \in Accepted'  PROVE  Remembered(n)'
    <3>1. CASE file[n] \in Accepted
      <4>1. file[n] \in acked \/ n <= startup.processed  BY <1>7, <1>8, <2>8, <3>1
      <4>2. n \in Nat  BY <1>4
      <4>3. file[n] \in acked \/ n <= c.line  BY <1>2, <4>1, <4>2
      <4> QED  BY <1>1, <2>1, <2>2, <2>5, <4>3 DEF Remembered
    <3>2. CASE file[n] = c.id
      <4>1. n = c.line  BY <1>2, <1>4, <1>7, <2>8, <3>2 DEF Single
      <4> QED  BY <1>2, <2>1, <2>2, <2>5, <4>1 DEF Remembered
    <3> QED  BY <1>3, <2>8, <3>1, <3>2
  <2>9. Calm => Knows(draining', file, deliveries') /\ Knows(cli', file, deliveries')
    BY <1>1, <1>6 DEF Knows
  <2>10. Quiet => Fresh(draining', deliveries') /\ Fresh(cli', deliveries')
    BY <1>1, <1>6, <1>7 DEF Fresh
  <2>11. Undisturbed' /\ DeliveredOnce'
    BY <1>1, <1>3, <2>1, <2>5, <2>6, <2>7, <2>8, <2>9, <2>10, GoesOn
  <2>12. CountBounded'  BY <1>1, <2>1, Counted DEF DIInv
  <2> QED  BY <2>4, <2>11, <2>12 DEF DIInv
<1>10. CASE IsLast(startup)
  <2> DEFINE n == StartupClears(startup)
  <2>1. StartupEnds(n)  BY <1>1, <1>10
  <2>2. /\ n = IF startup.whole THEN startup.lineCount ELSE c.line
    BY DEF StartupClears, c
  <2> HIDE DEF n
  <2>3. n \in Nat /\ n <= startup.lineCount /\ c.line <= n
    <3>1. CASE startup.whole  BY <1>2, <2>2, <3>1
    <3>2. CASE ~startup.whole  BY <1>2, <2>2, <3>2
    <3> QED  BY <3>1, <3>2
  <2>4. ASSUME Calm, NEW m \in 1 .. n
        PROVE  m <= Len(file) /\ (file[m] \in Payloads => deliveries'[file[m]] > 0)
    <3>1. m \in 1 .. startup.lineCount /\ m <= n  BY <1>2, <2>3
    <3>2. file[m] \in Payloads =>
            deliveries'[file[m]] > 0 \/ (~startup.whole /\ c.line < m)
      <4>1. \A k \in 1 .. startup.lineCount : file[k] \in Payloads =>
              deliveries'[file[k]] > 0 \/ k \in {} \/ (~startup.whole /\ c.line < k)
        BY <1>1, <1>2, <1>3, <1>4, <1>10, <2>4, LastStep DEF c
      <4> QED  BY <3>1, <4>1
    <3>3. ~(~startup.whole /\ c.line < m)
      <4>1. CASE startup.whole  BY <4>1
      <4>2. CASE ~startup.whole  BY <1>2, <2>2, <3>1, <4>2
      <4> QED  BY <4>1, <4>2
    <3>4. m <= Len(file)  BY <1>2, <1>4, <2>4, <3>1
    <3> QED  BY <3>2, <3>3, <3>4
  <2>5. ASSUME Calm, Quiet, NEW m \in DOMAIN file, file[m] \in Accepted', m > n
        PROVE  file[m] \in acked
    <3>1. m \in Nat /\ m # c.line /\ ~(m <= startup.processed)  BY <1>2, <1>4, <2>3, <2>5
    <3>2. file[m] # c.id  BY <1>2, <1>4, <2>5, <3>1 DEF Single
    <3>3. file[m] \in Accepted  BY <1>3, <2>5, <3>2
    <3> QED  BY <1>8, <2>5, <3>1, <3>3
  <2>6. Quiet => \A y \in Payloads : deliveries'[y] <= 1
    BY <1>1, <1>5, <1>7, StaysFresh DEF c
  <2> QED  BY <1>1, <1>3, <1>4, <2>1, <2>3, <2>4, <2>5, <2>6, StartupCleared
<1> QED  BY <1>9, <1>10

LEMMA StartupFailedKeeps ==
  ASSUME DIInv, StartupFailed  PROVE  DIInv'
<1>1. /\ On(startup)
      /\ UNCHANGED <<stored, dispatched, deliveries, up, acked, failedSince, recovery, draining, cli, exits>>
      /\ IF startup.processed > 0
         THEN StartupEnds(startup.processed)
         ELSE startup' = NoDrain /\ UNCHANGED <<disk, count, happened>>
  BY DEF StartupFailed
<1>2. /\ Fitting(startup, dispatched) /\ startup.processed \in Nat
      /\ Calm => Knows(startup, file, deliveries)
  BY <1>1, NextLine
<1>3. /\ DTypes /\ Single(file) /\ file \in Seq(Lines) /\ DOMAIN file = 1 .. Len(file) /\ Len(file) \in Nat
      /\ Accepted \subseteq dispatched /\ startup.failed = {} /\ up
      /\ deliveries \in [Payloads -> 0 .. MaxDeliveries]
  BY <1>1 DEF DIInv, DTypes, Bookkeeping
<1>4. Accepted' = Accepted  BY <1>1 DEF Accepted
<1>5. Calm => ~On(draining) /\ ~On(cli)  BY <1>1 DEF DIInv, Undisturbed, Calm, Alone
<1>6. Calm /\ Quiet =>
        /\ \A n \in DOMAIN file : file[n] \in Accepted => file[n] \in acked \/ n <= startup.processed
        /\ \A y \in Payloads : deliveries[y] <= 1
  BY <1>1, <1>5 DEF DIInv, DeliveredOnce, Quiet, Remembered
<1>7. CASE startup.processed > 0
  <2>1. StartupEnds(startup.processed)  BY <1>1, <1>7
  <2>2. Calm => \A m \in 1 .. startup.processed : m <= Len(file) /\ (file[m] \in Payloads => deliveries'[file[m]] > 0)
    BY <1>1, <1>2, <1>3, ProcessedSent
  <2>3. Calm /\ Quiet => \A m \in DOMAIN file : file[m] \in Accepted' /\ m > startup.processed => file[m] \in acked
    BY <1>2, <1>3, <1>4, <1>6
  <2> QED  BY <1>1, <1>2, <1>3, <1>4, <1>6, <2>1, <2>2, <2>3, StartupCleared
<1>8. CASE ~(startup.processed > 0)
  <2>1. startup' = NoDrain /\ UNCHANGED <<file, rotated, count, happened>>  BY <1>1, <1>8 DEF disk
  <2>2. /\ Fitting(startup', dispatched) /\ ~On(startup') /\ startup'.failed = {}
    BY <2>1, NoDrainFits
  <2>3. Shrunk  BY <1>3, <2>1 DEF Shrunk, DTypes
  <2>4. DTypes' /\ Bookkeeping'
    BY <1>1, <1>3, <1>4, <2>2, <2>3, BooksKept DEF DIInv, DTypes, Bookkeeping
  <2>5. CountBounded'  BY <1>1, <2>1, Counted DEF DIInv
  <2>6. (Calm' <=> Calm) /\ (Quiet' <=> Quiet) /\ (Quiet => Calm)  BY <2>1 DEF Calm, Quiet
  <2>7. CASE ~Calm  BY <2>4, <2>5, <2>6, <2>7 DEF DIInv, Undisturbed, DeliveredOnce, Calm, Quiet
  <2>8. CASE Calm
    <3>1. NothingIsLost'  BY <1>1, <2>1, <2>8 DEF DIInv, Undisturbed, Calm, NothingIsLost, Safe
    <3>2. startup.processed = 0  BY <1>2, <1>8
    <3>3. \A n \in DOMAIN file : ~(n <= startup.processed)  BY <1>3, <3>2
    <3>4. Quiet => /\ ToSet(file) \intersect Accepted \subseteq acked
                   /\ \A y \in Payloads : deliveries[y] <= 1
      BY <1>6, <2>8, <3>3 DEF ToSet
    <3>5. Undisturbed' /\ DeliveredOnce'
      BY <1>1, <1>4, <1>5, <2>1, <2>2, <2>6, <2>8, <3>1, <3>4, AllOff
    <3> QED  BY <2>4, <2>5, <3>5 DEF DIInv
  <2> QED  BY <2>7, <2>8
<1> QED  BY <1>7, <1>8

-------------------------------------------------------------------------------
(* The recovery drain                                                       *)

LEMMA RecoveryTypes ==
  ASSUME DTypes
  PROVE  /\ RecoveryDone => recovery' \in 0 .. Attempts /\ failedSince' \in BOOLEAN
         /\ RecoveryThrows => recovery' \in 0 .. Attempts /\ failedSince' \in BOOLEAN
         /\ NextTry => recovery' \in 0 .. Attempts /\ failedSince' \in BOOLEAN
         /\ RecoveryThrows => UNCHANGED <<disk, happened>>
<1>1. recovery \in 0 .. Attempts /\ failedSince \in BOOLEAN  BY DEF DTypes
<1>2. 0 \in 0 .. Attempts  BY DEF Attempts
<1>3. recovery < Attempts => recovery + 1 \in 0 .. Attempts  BY <1>1 DEF Attempts
<1>4. RecoveryDone => recovery' \in 0 .. Attempts /\ failedSince' \in BOOLEAN
  BY <1>2 DEF RecoveryDone
<1>5. RecoveryThrows => recovery' \in 0 .. Attempts /\ failedSince' \in BOOLEAN
  BY <1>1, <1>2 DEF RecoveryThrows
<1>6. NextTry => recovery' \in 0 .. Attempts /\ failedSince' \in BOOLEAN
  BY <1>1, <1>2, <1>3 DEF NextTry
<1>7. RecoveryThrows => UNCHANGED <<disk, happened>>  BY DEF RecoveryThrows
<1> QED  BY <1>4, <1>5, <1>6, <1>7

LEMMA RecoveryWakesKeeps ==
  ASSUME DIInv, RecoveryWakes  PROVE  DIInv'
<1>1. /\ up /\ recovery > 0 /\ ~On(draining)
      /\ UNCHANGED <<stored, dispatched, deliveries, up, acked, startup, cli, exits>>
  BY DEF RecoveryWakes
<1>2. PICK d \in Snapshots(acked) :
        /\ draining' = d
        /\ IF On(d)
           THEN UNCHANGED <<disk, count, recovery, failedSince>> /\ Began
           ELSE IF d.lineCount = 0
           THEN RecoveryDone /\ UNCHANGED <<disk, count, happened>>
           ELSE \/ RecoveryDone /\ ClearUseless(d.lineCount)
                \/ RecoveryThrows /\ UNCHANGED count
  BY DEF RecoveryWakes
<1>3. /\ DTypes /\ Single(file) /\ file \in Seq(Lines) /\ Len(file) \in Nat /\ happened \subseteq Mishaps
      /\ ToSet(file) \intersect Payloads \subseteq dispatched /\ Accepted \subseteq dispatched
      /\ cli.whole /\ startup.failed = {} /\ acked \subseteq Accepted
      /\ deliveries \in [Payloads -> 0 .. MaxDeliveries]
  BY <1>1 DEF DIInv, DTypes, Bookkeeping
<1>4. /\ Fitting(d, dispatched) /\ Knows(d, file, deliveries) /\ d.failed = {} /\ d.whole
      /\ \A e \in d.left : /\ e.line \in DOMAIN file /\ file[e.line] = e.id
                            /\ e.id \notin acked /\ e.id \in Payloads
      /\ d.lineCount = 0 \/ (d.lineCount = Len(file) /\ (On(d) <=> PayloadLines(acked) # {}))
  <2>1. CASE d = Drained(acked)
    <3>1. Skips(acked, deliveries)  BY <1>3 DEF Skips, Accepted
    <3>2. Snapped(d, acked, dispatched, deliveries)  BY <1>3, <2>1, <3>1, SnapshotFits
    <3> QED  BY <3>2, Zenon DEF Snapped
  <2>2. CASE d = NoDrain
    <3>1. NoDrain.left = {} /\ NoDrain.lineCount = 0  BY DEF NoDrain
    <3> QED  BY <2>2, <3>1, NoDrainFits
  <2> QED  BY <2>1, <2>2 DEF Snapshots
<1>5. Fitting(startup', dispatched) /\ Fitting(cli', dispatched)  BY <1>1 DEF DIInv, Bookkeeping
<1>6. CASE On(d)
  <2>1. UNCHANGED <<file, rotated, count, recovery, failedSince>> /\ Began  BY <1>2, <1>6 DEF disk
  <2>2. /\ happened \subseteq happened' /\ happened' \subseteq Mishaps
        /\ Calm' => ~On(startup) /\ ~On(draining) /\ ~On(cli)
    BY <1>3, <2>1, Beginning
  <2>3. Shrunk  BY <1>3, <2>1, <2>2 DEF Shrunk, DTypes
  <2>4. DTypes' /\ Bookkeeping'
    BY <1>1, <1>2, <1>3, <1>4, <1>5, <2>1, <2>3, BooksKept DEF DTypes, Accepted
  <2>5. Calm' => /\ Alone' /\ Knows(startup', file, deliveries)
                 /\ Knows(draining', file, deliveries) /\ Knows(cli', file, deliveries)
    BY <1>1, <1>2, <1>4, <2>2 DEF Alone, Knows
  <2>6. Quiet' => Fresh(startup', deliveries) /\ Fresh(draining', deliveries) /\ Fresh(cli', deliveries)
    <3> SUFFICES ASSUME Quiet'  PROVE  Fresh(d, deliveries)
      BY <1>1, <1>2, <2>2, Earlier DEF Fresh
    <3>1. ToSet(file) \intersect Accepted \subseteq acked  BY <1>3, <2>2, Earlier, OffBefore
    <3>2. \A e \in d.left : e.id \in ToSet(file) /\ e.id \in Payloads /\ e.id \notin Accepted
      BY <1>3, <1>4, <3>1 DEF ToSet
    <3>3. \A x \in Payloads : x \notin Accepted => deliveries[x] = 0
      <4>1. MaxDeliveries \in Nat  BY DrainAssumption
      <4>2. \A x \in Payloads : deliveries[x] \in Nat  BY <1>3, <4>1
      <4> QED  BY <4>2 DEF Accepted
    <3> QED  BY <3>2, <3>3 DEF Fresh
  <2>7. Undisturbed' /\ DeliveredOnce'  BY <1>1, <1>3, <2>1, <2>2, <2>5, <2>6, Begins
  <2>8. CountBounded'
    <3>1. happened' \subseteq {"kept", "unread"} => happened \subseteq {"kept", "unread"}  BY <2>2
    <3>2. "unread" \in happened' <=> "unread" \in happened  BY <2>1 DEF Began, When
    <3> QED  BY <1>1, <2>1, <3>1, <3>2, Counted DEF DIInv
  <2> QED  BY <2>4, <2>7, <2>8 DEF DIInv
<1>7. CASE ~On(d)
  <2>1. ~On(draining')  BY <1>2, <1>7
  <2>2. CASE RecoveryDone /\ ClearUseless(d.lineCount) /\ d.lineCount # 0
    <3>1. PayloadLines(acked) = {} /\ ClearUseless(Len(file))  BY <1>4, <1>7, <2>2
    <3>2. Shrunk /\ Undisturbed' /\ DeliveredOnce' /\ CountBounded'
      BY <1>1, <1>3, <2>1, <3>1, UselessClear
    <3>3. recovery' \in 0 .. Attempts /\ failedSince' \in BOOLEAN  BY <1>3, <2>2, RecoveryTypes
    <3>4. DTypes' /\ Bookkeeping'
      BY <1>1, <1>2, <1>3, <1>4, <1>5, <2>1, <3>2, <3>3, BooksKept DEF DTypes, Accepted
    <3> QED  BY <3>2, <3>4 DEF DIInv
  <2>3. CASE UNCHANGED <<disk, count, happened>> /\ (RecoveryDone \/ RecoveryThrows)
    <3>1. UNCHANGED <<file, rotated, count, happened>>  BY <2>3 DEF disk
    <3>2. Shrunk  BY <1>3, <3>1 DEF Shrunk, DTypes
    <3>3. Calm' => Alone /\ Knows(startup, file, deliveries) /\ Knows(cli, file, deliveries)
      BY <3>1 DEF DIInv, Undisturbed, Calm
    <3>4. Calm' => /\ Alone' /\ Knows(startup', file, deliveries)
                   /\ Knows(draining', file, deliveries) /\ Knows(cli', file, deliveries)
      BY <1>1, <1>2, <1>4, <2>1, <3>3 DEF Alone
    <3>5. Quiet' => Fresh(startup', deliveries) /\ Fresh(draining', deliveries) /\ Fresh(cli', deliveries)
      BY <1>1, <2>1, <3>1 DEF DIInv, DeliveredOnce, Quiet, Fresh
    <3>6. Undisturbed' /\ DeliveredOnce'  BY <1>1, <3>1, <3>4, <3>5, Begins
    <3>7. recovery' \in 0 .. Attempts /\ failedSince' \in BOOLEAN  BY <1>3, <2>3, RecoveryTypes
    <3>8. DTypes' /\ Bookkeeping'
      BY <1>1, <1>2, <1>3, <1>4, <1>5, <2>1, <3>1, <3>2, <3>7, BooksKept DEF DTypes, Accepted
    <3> QED  BY <1>1, <3>1, <3>6, <3>8, Counted DEF DIInv
  <2>4. RecoveryThrows /\ UNCHANGED count => UNCHANGED <<disk, count, happened>>
    BY <1>3, RecoveryTypes
  <2> QED  BY <1>2, <1>7, <2>2, <2>3, <2>4
<1> QED  BY <1>6, <1>7

(* The end of a drain of the recovery: a clear of n lines that are delivered,*)
(* or none.                                                                  *)
LEMMA RecoveryCleared ==
  ASSUME DIInv, On(draining), draining' = NoDrain, NEW n \in Nat, NEW before \in Nat \union {Null},
         ClearSent(n, before) \/ (UNCHANGED <<disk, happened>> /\ count' = before),
         UNCHANGED <<stored, dispatched, up, startup, cli, exits>>,
         recovery' \in 0 .. Attempts, failedSince' \in BOOLEAN,
         deliveries' \in [Payloads -> 0 .. MaxDeliveries], acked' \subseteq Accepted',
         Accepted \subseteq Accepted', Accepted' \subseteq dispatched,
         Calm => \A m \in 1 .. n : m <= Len(file) /\ (file[m] \in Payloads => deliveries'[file[m]] > 0),
         Calm /\ Quiet => /\ ToSet(file) \intersect Accepted' \subseteq acked'
                          /\ \A y \in Payloads : deliveries'[y] <= 1,
         happened \subseteq {"kept", "unread"} /\ before # Null =>
           Counts(before, file, IF "unread" \in happened THEN Payloads ELSE acked')
  PROVE  DIInv'
<1>1. /\ DTypes /\ Single(file) /\ happened \subseteq Mishaps /\ up
      /\ startup.failed = {} /\ cli.whole /\ up \in BOOLEAN
  BY DEF DIInv, DTypes, Bookkeeping
<1>2. /\ Fitting(draining', dispatched) /\ ~On(draining') /\ draining'.failed = {} /\ draining'.whole
      /\ Fitting(startup', dispatched) /\ Fitting(cli', dispatched)
  BY NoDrainFits DEF DIInv, Bookkeeping
<1>3. Calm => ~On(startup') /\ ~On(cli')  BY DEF DIInv, Undisturbed, Calm, Alone
<1>4. /\ Shrunk
      /\ \/ "torn" \in happened'
         \/ /\ \A m \in DOMAIN file : m > n => file[m] \in ToSet(file')
            /\ \A skip : (before # Null => Counts(before, file, skip)) =>
                         (count' # Null => Counts(count', file', skip))
         \/ file' = file /\ count' = before
  <2>1. CASE ClearSent(n, before)  BY <1>1, <2>1, ClearSentShrinks
  <2>2. CASE UNCHANGED <<disk, happened>> /\ count' = before
    BY <1>1, <2>2, SameShrinks
  <2> QED  BY <2>1, <2>2
<1>5. DTypes' /\ Bookkeeping'  BY <1>1, <1>2, <1>4, BooksKept
<1>6. \A x \in Payloads : deliveries[x] > 0 => deliveries'[x] > 0  BY DEF Accepted
<1>7. happened \subseteq happened'  BY <1>4 DEF Shrunk
<1>8. CASE "torn" \in happened'
  BY <1>5, <1>8 DEF DIInv, Undisturbed, DeliveredOnce, CountBounded, Disturbances
<1>9. CASE \/ /\ \A m \in DOMAIN file : m > n => file[m] \in ToSet(file')
              /\ \A skip : (before # Null => Counts(before, file, skip)) =>
                           (count' # Null => Counts(count', file', skip))
           \/ file' = file /\ count' = before
  <2>1. CountBounded'
    <3>1. ASSUME happened' \subseteq {"kept", "unread"}, count' # Null
          PROVE  Counts(count', file', Uncountable')
      <4>1. happened \subseteq {"kept", "unread"} /\ file \in Seq(Lines)  BY <1>1, <1>7, <3>1 DEF DTypes
      <4>2. ASSUME before # Null  PROVE  Counts(before, file, Uncountable')
        <5>1. Counts(before, file, IF "unread" \in happened THEN Payloads ELSE acked')  BY <4>1, <4>2
        <5>2. Counts(before, file, Payloads)  BY <4>1, <5>1, CountExcused
        <5>3. CASE "unread" \in happened'  BY <5>2, <5>3 DEF Uncountable
        <5>4. CASE "unread" \notin happened'  BY <1>7, <5>1, <5>4 DEF Uncountable
        <5> QED  BY <5>3, <5>4
      <4> QED  BY <1>9, <3>1, <4>2
    <3> QED  BY <3>1, Counted
  <2>2. Undisturbed' /\ DeliveredOnce'
    <3>1. CASE ~Calm'  BY <3>1 DEF Undisturbed, DeliveredOnce, Calm
    <3>2. CASE Calm'
      <4>1. Calm  BY <1>7, <3>2, Earlier
      <4>2. NothingIsLost'
        <5>1. \A m \in 1 .. n : m <= Len(file) /\ file[m] \in Payloads => deliveries'[file[m]] > 0
          BY <4>1
        <5>2. CASE \A m \in DOMAIN file : m > n => file[m] \in ToSet(file')
          BY <1>4, <1>6, <4>1, <5>1, <5>2, NothingGoes
        <5>3. CASE file' = file
          <6>1. \A x \in stored : x \in Payloads  BY <1>1 DEF DTypes
          <6> QED  BY <1>4, <1>6, <4>1, <5>3, <6>1 DEF DIInv, Undisturbed, Calm, NothingIsLost, Safe, Shrunk
        <5> QED  BY <1>9, <5>2, <5>3
      <4>3. Quiet' => /\ ToSet(file') \intersect Accepted' \subseteq acked'
                      /\ \A y \in Payloads : deliveries'[y] <= 1
        BY <1>4, <1>7, <4>1, Earlier DEF Shrunk
      <4> QED  BY <1>2, <1>3, <4>1, <4>2, <4>3, AllOff
    <3> QED  BY <3>1, <3>2
  <2> QED  BY <1>5, <2>1, <2>2 DEF DIInv
<1> QED  BY <1>4, <1>8, <1>9

LEMMA RecoverySentKeeps ==
  ASSUME DIInv, RecoverySent  PROVE  DIInv'
<1> DEFINE c == Current(draining)
<1>1. /\ On(draining) /\ Deliver(c.id) /\ acked' = acked \union {c.id}
      /\ UNCHANGED <<stored, dispatched, up, startup, cli, exits>>
      /\ IF ~IsLast(draining)
         THEN /\ draining' = Advanced(draining) /\ count' = Uncounted(c.id)
              /\ UNCHANGED <<disk, recovery, failedSince, happened>>
         ELSE /\ draining' = NoDrain
              /\ \/ RecoveryDone /\ ClearSent(draining.lineCount, Uncounted(c.id))
                 \/ RecoveryThrows /\ count' = Uncounted(c.id)
  BY DEF RecoverySent, Acked
<1>2. /\ Fitting(draining, dispatched) /\ c \in draining.left /\ c.id \in Payloads
      /\ c.id \in dispatched /\ c.line \in Nat /\ c.line <= draining.lineCount
      /\ draining.lineCount \in Nat
      /\ Calm => /\ Knows(draining, file, deliveries) /\ draining.lineCount <= Len(file)
                 /\ c.line \in DOMAIN file /\ file[c.line] = c.id
  BY <1>1, NextLine
<1>3. /\ deliveries' \in [Payloads -> 0 .. MaxDeliveries]
      /\ deliveries'[c.id] > 0
      /\ \A y \in Payloads : deliveries[y] > 0 => deliveries'[y] > 0
      /\ Accepted \subseteq Accepted' /\ Accepted' \subseteq Accepted \union {c.id}
      /\ c.id \in Accepted'
  BY <1>1, <1>2, Delivered
<1>4. /\ DTypes /\ Single(file) /\ file \in Seq(Lines) /\ DOMAIN file = 1 .. Len(file) /\ Len(file) \in Nat
      /\ Accepted' \subseteq dispatched /\ draining.failed = {} /\ draining.whole /\ up
      /\ acked \subseteq Accepted /\ count \in Nat \union {Null}
  BY <1>1, <1>2, <1>3 DEF DIInv, DTypes, Bookkeeping
<1>5. Steps(draining, Advanced(draining), {})  BY <1>1, <1>2, <1>4, StepTaken
<1>6. Calm => ~On(startup) /\ ~On(cli)  BY <1>1 DEF DIInv, Undisturbed, Calm, Alone
<1>7. Quiet => Calm  BY DEF Quiet, Calm
<1> HIDE DEF c
<1>8. Quiet => ToSet(file) \intersect Accepted' \subseteq acked'
  BY <1>1, <1>3, <1>6, <1>7, OffBefore
<1>9. acked' \subseteq Accepted'  BY <1>1, <1>3, <1>4
<1>10. Quiet => Fresh(Advanced(draining), deliveries') /\ \A y \in Payloads : deliveries'[y] <= 1
  BY <1>1, <1>5, <1>7, StaysFresh DEF c
<1>11. /\ Uncounted(c.id) \in Nat \union {Null}
       /\ happened \subseteq {"kept", "unread"} /\ Uncounted(c.id) # Null =>
            Counts(Uncounted(c.id), file, IF "unread" \in happened THEN Payloads ELSE acked')
  <2>1. Uncounted(c.id) \in Nat \union {Null}  BY <1>4 DEF Uncounted, Null
  <2>2. ASSUME happened \subseteq {"kept", "unread"}, Uncounted(c.id) # Null
        PROVE  Counts(Uncounted(c.id), file, IF "unread" \in happened THEN Payloads ELSE acked')
    <3>1. count # Null  BY <2>2 DEF Uncounted, Null
    <3>2. Counts(count, file, Uncountable)  BY <2>2, <3>1, Counted DEF DIInv
    <3>3. Calm  BY <2>2 DEF Calm, Disturbances
    <3>4. c.line \in 1 .. Len(file) /\ file[c.line] = c.id  BY <1>2, <1>4, <3>3
    <3>5. CASE "unread" \notin happened
      <4>1. Counts(count, file, acked)  BY <3>2, <3>5 DEF Uncountable
      <4>2. Counts(IF count > 0 /\ c.id \notin acked THEN count - 1 ELSE count, file, acked \union {c.id})
        BY <1>2, <1>4, <3>4, <4>1, CountAcked
      <4> QED  BY <1>1, <3>5, <4>2 DEF Uncounted
    <3>6. CASE "unread" \in happened
      <4>1. file \in Seq(Lines) /\ Pay(file, Payloads) = {}  BY <1>2, <1>4 DEF DTypes, Pay
      <4>2. Cardinality({}) = 0 /\ Cardinality(Pay(file, {})) \in Nat
        BY <4>1, FS_EmptySet, PayFinite
      <4>3. count \in 0 .. Cardinality(Pay(file, {}))
        BY <3>2, <3>6, <4>1, <4>2 DEF Counts, Uncountable
      <4>4. Uncounted(c.id) \in 0 .. Cardinality(Pay(file, {}))
        BY <4>2, <4>3 DEF Uncounted
      <4> QED  BY <3>6, <4>1, <4>2, <4>4 DEF Counts
    <3> QED  BY <3>5, <3>6
  <2> QED  BY <2>1, <2>2
<1>12. CASE ~IsLast(draining)
  <2>1. /\ draining' = Advanced(draining) /\ count' = Uncounted(c.id)
        /\ UNCHANGED <<file, rotated, recovery, failedSince, happened>>
    BY <1>1, <1>12 DEF disk
  <2>2. /\ Fitting(draining', dispatched) /\ draining'.failed = {} /\ draining'.whole
    BY <1>1, <1>2, <1>4, <1>5, <2>1, StepFits DEF Steps
  <2>3. Shrunk  BY <1>4, <1>11, <2>1 DEF Shrunk, DTypes
  <2>4. DTypes' /\ Bookkeeping'
    BY <1>1, <1>3, <1>4, <1>9, <2>1, <2>2, <2>3, BooksKept DEF DIInv, DTypes, Bookkeeping
  <2>5. Calm => Knows(draining', file, deliveries')
    BY <1>1, <1>2, <1>3, <1>4, <1>5, <2>1, StepKnows DEF c
  <2>6. Calm => Knows(startup', file, deliveries') /\ Knows(cli', file, deliveries')
    BY <1>1, <1>6 DEF Knows
  <2>7. Quiet => Fresh(startup', deliveries') /\ Fresh(cli', deliveries')
    BY <1>1, <1>6, <1>7 DEF Fresh
  <2>8. Quiet => \A n \in DOMAIN file : file[n] \in Accepted' => Remembered(n)'
    BY <1>8, <2>1 DEF Remembered, ToSet
  <2>9. Undisturbed' /\ DeliveredOnce'
    BY <1>1, <1>3, <1>10, <2>1, <2>5, <2>6, <2>7, <2>8, GoesOn
  <2>10. CountBounded'  BY <1>11, <2>1, Counted DEF Uncountable
  <2> QED  BY <2>4, <2>9, <2>10 DEF DIInv
<1>13. CASE IsLast(draining)
  <2>1. /\ draining' = NoDrain
        /\ \/ RecoveryDone /\ ClearSent(draining.lineCount, Uncounted(c.id))
           \/ RecoveryThrows /\ count' = Uncounted(c.id)
    BY <1>1, <1>13
  <2>2. /\ recovery' \in 0 .. Attempts /\ failedSince' \in BOOLEAN
        /\ \/ ClearSent(draining.lineCount, Uncounted(c.id))
           \/ UNCHANGED <<disk, happened>> /\ count' = Uncounted(c.id)
    BY <1>4, <2>1, RecoveryTypes
  <2>3. ASSUME Calm, NEW m \in 1 .. draining.lineCount
        PROVE  m <= Len(file) /\ (file[m] \in Payloads => deliveries'[file[m]] > 0)
    <3>1. \A k \in 1 .. draining.lineCount : file[k] \in Payloads =>
            deliveries'[file[k]] > 0 \/ k \in {} \/ (~draining.whole /\ c.line < k)
      BY <1>1, <1>2, <1>3, <1>4, <1>13, <2>3, LastStep DEF c
    <3>2. m <= Len(file)  BY <1>2, <1>4, <2>3
    <3> QED  BY <1>4, <3>1, <3>2
  <2>4. Calm /\ Quiet => /\ ToSet(file) \intersect Accepted' \subseteq acked'
                         /\ \A y \in Payloads : deliveries'[y] <= 1
    BY <1>8, <1>10
  <2>5. /\ UNCHANGED <<stored, dispatched, up, startup, cli, exits>> /\ draining.lineCount \in Nat
    BY <1>1, <1>2
  <2> QED
    BY <1>1, <1>3, <1>4, <1>9, <1>11, <2>1, <2>2, <2>3, <2>4, <2>5, RecoveryCleared
<1> QED  BY <1>12, <1>13

LEMMA RecoveryFailedKeeps ==
  ASSUME DIInv, RecoveryFailed  PROVE  DIInv'
<1>1. /\ On(draining) /\ draining' = NoDrain
      /\ UNCHANGED <<stored, dispatched, deliveries, up, acked, startup, cli, exits>>
      /\ IF draining.processed = 0
         THEN NextTry /\ UNCHANGED <<disk, count, happened>>
         ELSE \/ NextTry /\ ClearSent(draining.processed, count)
              \/ RecoveryThrows /\ UNCHANGED count
  BY DEF RecoveryFailed
<1>2. /\ Fitting(draining, dispatched) /\ draining.processed \in Nat
      /\ Calm => Knows(draining, file, deliveries)
  BY <1>1, NextLine
<1>3. /\ DTypes /\ Single(file) /\ draining.failed = {} /\ count \in Nat \union {Null}
      /\ Accepted \subseteq dispatched /\ acked \subseteq Accepted
      /\ deliveries \in [Payloads -> 0 .. MaxDeliveries]
  BY DEF DIInv, DTypes, Bookkeeping
<1>4. Accepted' = Accepted  BY <1>1 DEF Accepted
<1>5. Calm => ~On(startup) /\ ~On(cli)  BY <1>1 DEF DIInv, Undisturbed, Calm, Alone
<1>6. /\ recovery' \in 0 .. Attempts /\ failedSince' \in BOOLEAN
      /\ \/ ClearSent(draining.processed, count)
         \/ UNCHANGED <<disk, happened>> /\ count' = count
  BY <1>1, <1>3, RecoveryTypes
<1>7. Calm => \A m \in 1 .. draining.processed :
                m <= Len(file) /\ (file[m] \in Payloads => deliveries'[file[m]] > 0)
  BY <1>1, <1>2, <1>3, ProcessedSent
<1>8. Calm /\ Quiet => /\ ToSet(file) \intersect Accepted' \subseteq acked'
                       /\ \A y \in Payloads : deliveries'[y] <= 1
  BY <1>1, <1>4, <1>5, OffBefore
<1>9. happened \subseteq {"kept", "unread"} /\ count # Null =>
        Counts(count, file, IF "unread" \in happened THEN Payloads ELSE acked')
  BY <1>1, Counted DEF DIInv, Uncountable
<1>10. /\ deliveries' \in [Payloads -> 0 .. MaxDeliveries] /\ acked' \subseteq Accepted'
       /\ Accepted \subseteq Accepted' /\ Accepted' \subseteq dispatched
  BY <1>1, <1>3, <1>4
<1> QED
  BY <1>1, <1>2, <1>3, <1>6, <1>7, <1>8, <1>9, <1>10, RecoveryCleared

-------------------------------------------------------------------------------
(* `errorcore drain`                                                        *)

LEMMA ReSignAllKeeps ==
  ASSUME DIInv, ReSignAll  PROVE  DIInv'
<1> DEFINE S == {n \in DOMAIN file : file[n] # Bad}
<1>1. /\ file' \in Kept(file, S) /\ Note("cut", AnyDrain)
      /\ UNCHANGED <<rotated, stored, dispatched, deliveries, up, acked, count, failedSince, recovery,
                     startup, draining, cli, exits>>
  BY DEF ReSignAll, sdk
<1>2. DTypes /\ Single(file) /\ file \in Seq(Lines) /\ happened \subseteq Mishaps /\ stored \subseteq Payloads
  BY DEF DIInv, DTypes, Bookkeeping
<1>3. /\ happened \subseteq happened' /\ happened' \subseteq Mishaps
      /\ AnyDrain => "cut" \in happened'
  BY <1>1, <1>2, Noted DEF Mishaps
<1>s. S \subseteq DOMAIN file  OBVIOUS
<1>4. CountBounded'
  <2>1. ASSUME happened' \subseteq {"kept", "unread"}, count' # Null
        PROVE  Counts(count', file', Uncountable')
    <3>1. Counts(count, file, Uncountable)  BY <1>1, <1>3, <2>1, Counted DEF DIInv
    <3>2. Counts(count, file, Uncountable')  BY <1>1, <1>2, <1>3, <3>1, StillCounted
    <3> QED  BY <1>1, <1>2, <3>2, CountKept
  <2> QED  BY <2>1, Counted
<1>5. \A m \in DOMAIN file : file[m] # Bad => m \in S  OBVIOUS
<1> HIDE DEF S
<1>6. Single(file') /\ ToSet(file') \subseteq ToSet(file)  BY <1>1, <1>2, <1>s, KeptSingle
<1>7. file' \in Seq(Lines) /\ \A m \in S : \E k \in DOMAIN file' : file'[k] = file[m]
  <2>1. PICK o \in Ascending(S) :
           /\ file' \in Seq(Lines)
           /\ \A k \in DOMAIN file' : o[k] \in S /\ file'[k] = file[o[k]]
           /\ \A m \in S : \E k \in DOMAIN file' : o[k] = m
    BY <1>1, <1>2, <1>s, KeptLines
  <2> QED  BY <2>1
<1>8. \A x \in Payloads : x \in ToSet(file) => x \in ToSet(file')
  <2> SUFFICES ASSUME NEW x \in Payloads, x \in ToSet(file)  PROVE  x \in ToSet(file')  OBVIOUS
  <2>1. PICK m \in DOMAIN file : file[m] = x  BY DEF ToSet
  <2>2. m \in S  BY <1>5, <2>1, LineAssumption
  <2> QED  BY <1>7, <2>1, <2>2 DEF ToSet
<1>9. Shrunk  BY <1>1, <1>2, <1>3, <1>6, <1>7 DEF Shrunk, DTypes
<1>10. DTypes' /\ Bookkeeping'
  BY <1>1, <1>9, BooksKept DEF DIInv, DTypes, Bookkeeping, Accepted
<1>11. Undisturbed' /\ DeliveredOnce'
  <2>1. CASE AnyDrain  BY <1>3, <2>1 DEF Undisturbed, DeliveredOnce, Disturbances
  <2>2. CASE ~AnyDrain
    <3>1. Calm' => NothingIsLost'
      BY <1>1, <1>2, <1>3, <1>8, Earlier DEF DIInv, Undisturbed, Calm, NothingIsLost, Safe
    <3>2. Quiet' => /\ ToSet(file') \intersect Accepted' \subseteq acked'
                    /\ \A x \in Payloads : deliveries'[x] <= 1
      BY <1>1, <1>3, <1>6, <2>2, Earlier, OffBefore DEF AnyDrain, Accepted
    <3> QED  BY <1>1, <2>2, <3>1, <3>2, AllOff DEF AnyDrain
  <2> QED  BY <2>1, <2>2
<1> QED  BY <1>4, <1>10, <1>11 DEF DIInv

LEMMA CliStartKeeps ==
  ASSUME DIInv, CliStart  PROVE  DIInv'
<1> DEFINE d == Drained({})
<1>1. /\ ~On(cli) /\ cli' = d
      /\ happened' = happened \union When(AnyDrain, "cli")
                              \union When(acked \intersect ToSet(file) # {}, "kept")
      /\ UNCHANGED <<file, rotated, stored, dispatched, deliveries, up, acked, count, failedSince,
                     recovery, startup, draining, exits>>
  BY DEF CliStart, disk, sdk
<1>2. /\ DTypes /\ Single(file) /\ file \in Seq(Lines) /\ happened \subseteq Mishaps
      /\ ToSet(file) \intersect Payloads \subseteq dispatched /\ Accepted \subseteq dispatched
      /\ deliveries \in [Payloads -> 0 .. MaxDeliveries]
  BY DEF DIInv, DTypes, Bookkeeping
<1>3. /\ happened \subseteq happened' /\ happened' \subseteq Mishaps
      /\ AnyDrain => "cli" \in happened'
      /\ acked \intersect ToSet(file) # {} => "kept" \in happened'
      /\ ("unread" \in happened' <=> "unread" \in happened)
  BY <1>1, <1>2 DEF When, Mishaps
<1>4. /\ Fitting(d, dispatched) /\ Knows(d, file, deliveries) /\ d.whole
      /\ \A e \in d.left : e.line \in DOMAIN file /\ file[e.line] = e.id /\ e.id \in Payloads
  <2>1. Skips({}, deliveries)  BY DEF Skips
  <2>2. Snapped(d, {}, dispatched, deliveries)  BY <1>2, <2>1, SnapshotFits
  <2> QED  BY <2>2, Zenon DEF Snapped
<1> HIDE DEF d
<1>5. Shrunk  BY <1>1, <1>2, <1>3 DEF Shrunk, DTypes
<1>6. DTypes' /\ Bookkeeping'
  BY <1>1, <1>4, <1>5, BooksKept DEF DIInv, DTypes, Bookkeeping, Accepted
<1>7. Calm' => ~On(startup) /\ ~On(draining)
  BY <1>3 DEF Calm, Disturbances, AnyDrain
<1>8. Calm' => /\ Alone' /\ Knows(startup', file, deliveries)
               /\ Knows(draining', file, deliveries) /\ Knows(cli', file, deliveries)
  BY <1>1, <1>4, <1>7 DEF Alone, Knows
<1>9. Quiet' => Fresh(startup', deliveries) /\ Fresh(draining', deliveries) /\ Fresh(cli', deliveries)
  <2> SUFFICES ASSUME Quiet'  PROVE  Fresh(d, deliveries)
    BY <1>1, <1>3, <1>7, Earlier DEF Fresh
  <2>1. ToSet(file) \intersect Accepted \subseteq acked  BY <1>1, <1>3, <1>7, Earlier, OffBefore
  <2>2. acked \intersect ToSet(file) = {}  BY <1>3 DEF Quiet
  <2>3. \A e \in d.left : e.id \in ToSet(file) /\ e.id \in Payloads /\ e.id \notin Accepted
    BY <1>4, <2>1, <2>2 DEF ToSet
  <2>4. \A x \in Payloads : x \notin Accepted => deliveries[x] = 0
    <3>1. MaxDeliveries \in Nat  BY DrainAssumption
    <3>2. \A x \in Payloads : deliveries[x] \in Nat  BY <1>2, <3>1
    <3> QED  BY <3>2 DEF Accepted
  <2> QED  BY <2>3, <2>4 DEF Fresh
<1>10. Undisturbed' /\ DeliveredOnce'  BY <1>1, <1>3, <1>8, <1>9, Begins
<1>11. CountBounded'
  <2>1. happened' \subseteq {"kept", "unread"} => happened \subseteq {"kept", "unread"}  BY <1>3
  <2> QED  BY <1>1, <1>3, <2>1, Counted DEF DIInv
<1> QED  BY <1>6, <1>10, <1>11 DEF DIInv

(* The last send was answered: the file is rewritten, or is not.            *)
LEMMA CliRewriteKeeps ==
  ASSUME DIInv, On(cli), cli' = NoDrain, NEW failed, failed \subseteq Nat, CliRewrite(failed),
         UNCHANGED <<rotated, stored, dispatched, sdk, exits>>,
         deliveries' \in [Payloads -> 0 .. MaxDeliveries],
         Accepted \subseteq Accepted', Accepted' \subseteq dispatched,
         Calm => \A n \in 1 .. cli.lineCount : file[n] \in Payloads =>
                   deliveries'[file[n]] > 0 \/ n \in failed,
         Calm /\ Quiet => /\ \A n \in DOMAIN file : file[n] \in Accepted' =>
                               file[n] \in acked \/ (n <= cli.lineCount /\ n \notin failed)
                          /\ \A y \in Payloads : deliveries'[y] <= 1
  PROVE  DIInv'
<1>1. UNCHANGED <<up, acked, count, failedSince, recovery, startup, draining>>  BY DEF sdk
<1>2. /\ DTypes /\ Single(file) /\ file \in Seq(Lines) /\ happened \subseteq Mishaps
      /\ stored \subseteq Payloads /\ DOMAIN file = 1 .. Len(file) /\ Len(file) \in Nat
      /\ cli.lineCount \in Nat
  BY DEF DIInv, DTypes, Bookkeeping, Fitting, Drains
<1>3. Fitting(cli', dispatched) /\ ~On(cli') /\ cli'.whole  BY NoDrainFits
<1>4. Calm => ~On(startup') /\ ~On(draining')  BY <1>1 DEF DIInv, Undisturbed, Calm, Alone
<1>5. ASSUME Shrunk  PROVE  DTypes' /\ Bookkeeping'
  BY <1>1, <1>3, <1>5, BooksKept DEF DIInv, DTypes, Bookkeeping
<1>6. \A x \in Payloads : deliveries[x] > 0 => deliveries'[x] > 0  BY DEF Accepted
<1> DEFINE S == CliKept(failed)
<1>7. S \subseteq DOMAIN file /\ \A n \in DOMAIN file : n \in S <=> n \in failed \/ n > cli.lineCount
  BY <1>2 DEF CliKept
<1> HIDE DEF S
<1>8. ASSUME NEW lines \in Kept(file, S)
      PROVE  /\ lines \in Seq(Lines) /\ Single(lines) /\ ToSet(lines) \subseteq ToSet(file)
             /\ \A m \in S : file[m] \in ToSet(lines)
             /\ \A x \in ToSet(lines) : \E m \in S : file[m] = x
  <2>1. PICK o \in Ascending(S) :
           /\ lines \in Seq(Lines)
           /\ \A k \in DOMAIN lines : o[k] \in S /\ lines[k] = file[o[k]]
           /\ \A m \in S : \E k \in DOMAIN lines : o[k] = m
    BY <1>2, <1>7, KeptLines
  <2>2. Single(lines) /\ ToSet(lines) \subseteq ToSet(file)  BY <1>2, <1>7, KeptSingle
  <2>3. \A m \in S : file[m] \in ToSet(lines)
    <3> SUFFICES ASSUME NEW m \in S  PROVE  file[m] \in ToSet(lines)  OBVIOUS
    <3>1. PICK k \in DOMAIN lines : o[k] = m  BY <2>1
    <3> QED  BY <2>1, <3>1 DEF ToSet
  <2>4. \A x \in ToSet(lines) : \E m \in S : file[m] = x  BY <2>1 DEF ToSet
  <2> QED  BY <2>1, <2>2, <2>3, <2>4
<1>9. ASSUME NEW lines \in Kept(file, S), file' = lines, Note("foreign", up)  PROVE  DIInv'
  <2>1. /\ happened \subseteq happened' /\ happened' \subseteq Mishaps
        /\ up => "foreign" \in happened'
    BY <1>2, <1>9, Noted DEF Mishaps
  <2>2. Shrunk  BY <1>1, <1>2, <1>8, <1>9, <2>1 DEF Shrunk, DTypes
  <2>3. CountBounded'
    <3>1. ~up => count' = Null  BY <1>1 DEF DIInv, Bookkeeping
    <3> QED  BY <2>1, <3>1 DEF CountBounded
  <2>4. Undisturbed' /\ DeliveredOnce'
    <3>1. CASE ~Calm'  BY <3>1 DEF Undisturbed, DeliveredOnce, Calm
    <3>2. CASE Calm'
      <4>1. Calm  BY <2>1, <3>2, Earlier
      <4>2. NothingIsLost'
        <5> SUFFICES ASSUME NEW x \in stored
                     PROVE  deliveries'[x] > 0 \/ x \in ToSet(file') \union rotated'
          BY DEF NothingIsLost, Safe
        <5>1. deliveries[x] > 0 \/ x \in ToSet(file) \union rotated
          BY <4>1 DEF DIInv, Undisturbed, Calm, NothingIsLost, Safe
        <5>2. CASE x \in ToSet(file)
          <6>1. PICK m \in DOMAIN file : file[m] = x  BY <5>2 DEF ToSet
          <6>2. CASE m \in S  BY <1>8, <1>9, <6>1, <6>2
          <6>3. CASE m \notin S
            <7>1. m \in 1 .. cli.lineCount /\ m \notin failed  BY <1>2, <1>7, <6>3
            <7> QED  BY <1>2, <4>1, <6>1, <7>1
          <6> QED  BY <6>2, <6>3
        <5> QED  BY <1>2, <1>6, <5>1, <5>2
      <4>3. ASSUME Quiet', NEW x \in ToSet(file'), x \in Accepted'  PROVE  x \in acked'
        <5>1. Quiet  BY <2>1, <4>3, Earlier
        <5>2. PICK m \in S : file[m] = x  BY <1>8, <1>9, <4>3
        <5>3. m \in DOMAIN file /\ (m \in failed \/ m > cli.lineCount)  BY <1>7, <5>2
        <5>4. ~(m <= cli.lineCount /\ m \notin failed)  BY <1>2, <5>3
        <5>5. file[m] \in acked  BY <4>1, <4>3, <5>1, <5>2, <5>3, <5>4
        <5> QED  BY <1>1, <5>2, <5>5
      <4>4. Quiet' => \A y \in Payloads : deliveries'[y] <= 1  BY <2>1, <4>1, Earlier
      <4> QED  BY <1>3, <1>4, <4>1, <4>2, <4>3, <4>4, AllOff
    <3> QED  BY <3>1, <3>2
  <2> QED  BY <1>5, <2>2, <2>3, <2>4 DEF DIInv
<1>10. ASSUME NEW lines \in Kept(file, S), NEW k \in 0 .. Len(lines) - 1,
              file' = SubSeq(lines, 1, k), Note("torn", TRUE)
       PROVE  DIInv'
  <2>1. /\ happened \subseteq happened' /\ happened' \subseteq Mishaps /\ "torn" \in happened'
    BY <1>2, <1>10, Noted DEF Mishaps
  <2>2. lines \in Seq(Lines) /\ Single(lines) /\ ToSet(lines) \subseteq ToSet(file)  BY <1>8
  <2>3. Len(lines) \in Nat  BY <2>2
  <2>4. 1 \in 1 .. Len(lines) + 1 /\ k \in 0 .. Len(lines)  BY <2>3
  <2>5. file' \in Seq(Lines) /\ Single(file') /\ ToSet(file') \subseteq ToSet(lines)
    BY <1>10, <2>2, <2>4, PrefixSingle
  <2>6. Shrunk  BY <1>1, <1>2, <2>1, <2>2, <2>5 DEF Shrunk, DTypes
  <2> QED  BY <1>5, <2>1, <2>6 DEF DIInv, Undisturbed, DeliveredOnce, CountBounded, Disturbances
<1>11. ASSUME file' = file, Note("kept", TRUE)  PROVE  DIInv'
  <2>1. /\ happened \subseteq happened' /\ happened' \subseteq Mishaps /\ "kept" \in happened'
        /\ ("unread" \in happened' <=> "unread" \in happened)
    BY <1>2, <1>11, Noted DEF Mishaps
  <2>2. Shrunk  BY <1>1, <1>2, <1>11, <2>1 DEF Shrunk, DTypes
  <2>3. CountBounded'
    <3>1. happened' \subseteq {"kept", "unread"} => happened \subseteq {"kept", "unread"}  BY <2>1
    <3> QED  BY <1>1, <1>11, <2>1, <3>1, Counted DEF DIInv
  <2>4. ~Quiet'  BY <2>1 DEF Quiet
  <2>5. Undisturbed' /\ DeliveredOnce'
    <3>1. CASE ~Calm'  BY <3>1 DEF Undisturbed, DeliveredOnce, Calm
    <3>2. CASE Calm'
      <4>1. Calm  BY <2>1, <3>2, Earlier
      <4>2. NothingIsLost'
        BY <1>2, <1>6, <1>11, <4>1 DEF DIInv, Undisturbed, Calm, NothingIsLost, Safe
      <4> QED  BY <1>3, <1>4, <2>4, <4>1, <4>2, AllOff
    <3> QED  BY <3>1, <3>2
  <2> QED  BY <1>5, <2>2, <2>3, <2>5 DEF DIInv
<1>12. \/ \E lines \in Kept(file, S) :
            \/ file' = lines /\ Note("foreign", up)
            \/ /\ \E k \in 0 .. Len(lines) - 1 : file' = SubSeq(lines, 1, k)
               /\ Note("torn", TRUE)
       \/ file' = file /\ Note("kept", TRUE)
  BY DEF CliRewrite, S
<1> QED  BY <1>9, <1>10, <1>11, <1>12

(* One send of the CLI was answered.                                        *)
LEMMA CliNextKeeps ==
  ASSUME DIInv, On(cli), NEW failed, CliNext(failed), UNCHANGED exits,
         deliveries' \in [Payloads -> 0 .. MaxDeliveries],
         Accepted \subseteq Accepted', Accepted' \subseteq dispatched,
         \/ failed = cli.failed /\ deliveries'[Current(cli).id] > 0
         \/ failed = cli.failed \union {Current(cli).line},
         Calm /\ Quiet => /\ \A e \in cli.left : e # Current(cli) => deliveries'[e.id] = 0
                          /\ \A n \in DOMAIN file : file[n] \in Accepted' =>
                               file[n] \in acked \/ (n <= Current(cli).line /\ n \notin failed)
                          /\ \A y \in Payloads : deliveries'[y] <= 1
  PROVE  DIInv'
<1> DEFINE c == Current(cli)
<1>1. /\ UNCHANGED <<rotated, stored, dispatched, sdk, exits>>
      /\ IF IsLast(cli)
         THEN cli' = NoDrain /\ CliRewrite(failed)
         ELSE cli' = [Advanced(cli) EXCEPT !.failed = failed] /\ UNCHANGED <<file, happened>>
  BY DEF CliNext
<1>2. UNCHANGED <<up, acked, count, failedSince, recovery, startup, draining>>  BY <1>1 DEF sdk
<1>3. /\ Fitting(cli, dispatched) /\ c \in cli.left /\ c.line \in Nat /\ c.line <= cli.lineCount
      /\ cli.lineCount \in Nat
      /\ Calm => Knows(cli, file, deliveries)
  BY NextLine
<1>4. /\ DTypes /\ Single(file) /\ file \in Seq(Lines) /\ DOMAIN file = 1 .. Len(file) /\ Len(file) \in Nat
      /\ cli.whole
  BY DEF DIInv, DTypes, Bookkeeping
<1>5. \A y \in Payloads : deliveries[y] > 0 => deliveries'[y] > 0  BY DEF Accepted
<1>6. Calm => ~On(startup) /\ ~On(draining)  BY DEF DIInv, Undisturbed, Calm, Alone
<1>7. Quiet => Calm  BY DEF Quiet, Calm
<1>8. Steps(cli, [Advanced(cli) EXCEPT !.failed = failed], failed)  BY <1>3, StepTaken
<1> HIDE DEF c
<1>9. CASE ~IsLast(cli)
  <2>1. cli' = [Advanced(cli) EXCEPT !.failed = failed] /\ UNCHANGED <<file, happened>>
    BY <1>1, <1>9
  <2>2. /\ Fitting(cli', dispatched) /\ cli'.processed = c.line /\ cli'.left = cli.left \ {c}
        /\ cli'.failed = failed /\ cli'.whole
    BY <1>3, <1>4, <1>8, <2>1, StepFits DEF Steps, c
  <2>3. Shrunk  BY <1>1, <1>2, <1>4, <2>1 DEF Shrunk, DTypes
  <2>4. DTypes' /\ Bookkeeping'
    BY <1>1, <1>2, <2>2, <2>3, BooksKept DEF DIInv, DTypes, Bookkeeping
  <2>5. On(cli')  BY <1>3, <1>9, <2>2 DEF On, IsLast, c
  <2>6. Calm => Knows(cli', file, deliveries')
    <3> SUFFICES ASSUME Calm  PROVE  Knows(cli', file, deliveries')  OBVIOUS
    <3>1. Knows(cli, file, deliveries)  BY <1>3
    <3> QED  BY <1>3, <1>5, <1>8, <2>1, <3>1, StepKnows
  <2>7. Calm => Knows(startup', file, deliveries') /\ Knows(draining', file, deliveries')
    BY <1>2, <1>6 DEF Knows
  <2>8. Quiet => /\ Fresh(startup', deliveries') /\ Fresh(draining', deliveries')
                 /\ Fresh(cli', deliveries') /\ \A y \in Payloads : deliveries'[y] <= 1
    BY <1>2, <1>6, <1>7, <2>2 DEF Fresh, c
  <2>9. Quiet => \A n \in DOMAIN file : file[n] \in Accepted' => Remembered(n)'
    BY <1>2, <1>7, <2>1, <2>2, <2>5 DEF Remembered, c
  <2>10. Undisturbed' /\ DeliveredOnce'
    BY <1>1, <1>2, <1>5, <2>1, <2>5, <2>6, <2>7, <2>8, <2>9, GoesOn
  <2>11. CountBounded'  BY <1>2, <2>1, Counted DEF DIInv
  <2> QED  BY <2>4, <2>10, <2>11 DEF DIInv
<1>10. CASE IsLast(cli)
  <2>1. cli' = NoDrain /\ CliRewrite(failed)  BY <1>1, <1>10
  <2>2. failed \subseteq Nat
    <3>1. cli.failed \subseteq Nat  BY <1>3 DEF Fitting, Drains
    <3> QED  BY <1>3, <3>1 DEF c
  <2>3. Calm => \A n \in 1 .. cli.lineCount : file[n] \in Payloads =>
                  deliveries'[file[n]] > 0 \/ n \in failed
    <3> SUFFICES ASSUME Calm
                 PROVE  \A n \in 1 .. cli.lineCount : file[n] \in Payloads =>
                          deliveries'[file[n]] > 0 \/ n \in failed
      OBVIOUS
    <3>1. Knows(cli, file, deliveries)  BY <1>3
    <3>2. \A n \in 1 .. cli.lineCount : file[n] \in Payloads =>
            deliveries'[file[n]] > 0 \/ n \in failed \/ (~cli.whole /\ Current(cli).line < n)
      BY <1>3, <1>5, <1>10, <3>1, LastStep
    <3> QED  BY <1>4, <3>2
  <2>4. Calm /\ Quiet =>
          /\ \A n \in DOMAIN file : file[n] \in Accepted' =>
               file[n] \in acked \/ (n <= cli.lineCount /\ n \notin failed)
          /\ \A y \in Payloads : deliveries'[y] <= 1
    <3>1. ASSUME NEW n \in DOMAIN file, n <= c.line  PROVE  n <= cli.lineCount
      BY <1>3, <1>4, <3>1
    <3> QED  BY <3>1 DEF c
  <2> QED  BY <1>1, <2>1, <2>2, <2>3, <2>4, CliRewriteKeeps
<1> QED  BY <1>9, <1>10

LEMMA CliSentKeeps ==
  ASSUME DIInv, CliSent  PROVE  DIInv'
<1> DEFINE c == Current(cli)
<1>1. On(cli) /\ Deliver(c.id) /\ CliNext(cli.failed)  BY DEF CliSent
<1>2. exits' = exits  BY <1>1 DEF CliNext
<1>3. /\ Fitting(cli, dispatched) /\ c \in cli.left /\ c.id \in Payloads /\ c.id \in dispatched
      /\ c.line \in Nat /\ cli.processed < c.line /\ cli.processed \in Nat
      /\ Calm => c.line \in DOMAIN file /\ file[c.line] = c.id
  BY <1>1, NextLine
<1>4. /\ deliveries' \in [Payloads -> 0 .. MaxDeliveries]
      /\ deliveries'[c.id] > 0
      /\ Accepted \subseteq Accepted' /\ Accepted' \subseteq Accepted \union {c.id}
  BY <1>1, <1>3, Delivered
<1>5. Accepted' \subseteq dispatched  BY <1>3, <1>4 DEF DIInv, Bookkeeping
<1>6. Steps(cli, [Advanced(cli) EXCEPT !.failed = cli.failed], cli.failed)
  BY <1>1, <1>3, StepTaken
<1>7. Calm => ~On(startup)  BY <1>1 DEF DIInv, Undisturbed, Calm, Alone
<1>8. ASSUME Calm, Quiet
      PROVE  /\ \A e \in cli.left : e # c => deliveries'[e.id] = 0
             /\ \A n \in DOMAIN file : file[n] \in Accepted' =>
                  file[n] \in acked \/ (n <= c.line /\ n \notin cli.failed)
             /\ \A y \in Payloads : deliveries'[y] <= 1
  <2>1. /\ Fresh([Advanced(cli) EXCEPT !.failed = cli.failed], deliveries')
        /\ \A y \in Payloads : deliveries'[y] <= 1
    BY <1>1, <1>6, <1>8, StaysFresh
  <2>2. \A e \in cli.left : e # c => deliveries'[e.id] = 0
    BY <1>6, <2>1 DEF Fresh, On, Steps
  <2>3. \A n \in cli.failed : n \in 1 .. cli.processed  BY <1>3 DEF Fitting
  <2>4. ASSUME NEW n \in DOMAIN file, file[n] \in Accepted'
        PROVE  file[n] \in acked \/ (n <= c.line /\ n \notin cli.failed)
    <3>1. file \in Seq(Lines) /\ Single(file)  BY DEF DIInv, DTypes, Bookkeeping
    <3>2. n \in Nat  BY <3>1
    <3>3. CASE file[n] \in Accepted
      <4>1. file[n] \in acked \/ (n <= cli.processed /\ n \notin cli.failed)
        BY <1>7, <1>8, <3>3 DEF DIInv, DeliveredOnce, Quiet, Remembered
      <4>2. n <= cli.processed => n <= c.line  BY <1>3, <3>2
      <4> QED  BY <4>1, <4>2
    <3>4. CASE file[n] = c.id
      <4>1. n = c.line  BY <1>3, <1>8, <3>1, <3>4 DEF Single
      <4>2. n <= c.line /\ ~(n <= cli.processed)  BY <1>3, <4>1
      <4> QED  BY <2>3, <4>2
    <3> QED  BY <1>4, <2>4, <3>3, <3>4
  <2> QED  BY <2>1, <2>2, <2>4
<1> QED  BY <1>1, <1>2, <1>4, <1>5, <1>8, CliNextKeeps

LEMMA CliFailedKeeps ==
  ASSUME DIInv, CliFailed  PROVE  DIInv'
<1> DEFINE c == Current(cli)
           f == cli.failed \union {c.line}
<1>1. On(cli) /\ deliveries' = deliveries /\ CliNext(f)  BY DEF CliFailed
<1>2. exits' = exits  BY <1>1 DEF CliNext
<1>3. /\ c \in cli.left /\ c.id \in Payloads /\ c.line \in Nat /\ cli.processed < c.line
      /\ cli.processed \in Nat
      /\ Calm => c.line \in DOMAIN file /\ file[c.line] = c.id
      /\ Quiet => deliveries[c.id] = 0
  BY <1>1, NextLine
<1>4. /\ deliveries \in [Payloads -> 0 .. MaxDeliveries] /\ Accepted' = Accepted
      /\ Accepted \subseteq dispatched
  BY <1>1 DEF DIInv, DTypes, Bookkeeping, Accepted
<1>5. Calm => ~On(startup)  BY <1>1 DEF DIInv, Undisturbed, Calm, Alone
<1>6. ASSUME Calm, Quiet
      PROVE  /\ \A e \in cli.left : e # c => deliveries'[e.id] = 0
             /\ \A n \in DOMAIN file : file[n] \in Accepted' =>
                  file[n] \in acked \/ (n <= c.line /\ n \notin f)
             /\ \A y \in Payloads : deliveries'[y] <= 1
  <2>1. Fresh(cli, deliveries) /\ \A y \in Payloads : deliveries[y] <= 1
    BY <1>6 DEF DIInv, DeliveredOnce, Quiet
  <2>2. ASSUME NEW n \in DOMAIN file, file[n] \in Accepted'
        PROVE  file[n] \in acked \/ (n <= c.line /\ n \notin f)
    <3>1. file \in Seq(Lines)  BY DEF DIInv, DTypes
    <3>2. n \in Nat  BY <3>1
    <3>3. file[n] \in acked \/ (n <= cli.processed /\ n \notin cli.failed)
      BY <1>4, <1>5, <1>6, <2>2 DEF DIInv, DeliveredOnce, Quiet, Remembered
    <3>4. n <= cli.processed => n <= c.line /\ n # c.line  BY <1>3, <3>2
    <3> QED  BY <3>3, <3>4
  <2> QED  BY <1>1, <2>1, <2>2 DEF Fresh, On
<1> QED  BY <1>1, <1>2, <1>4, <1>6, CliNextKeeps

LEMMA CliDiesKeeps ==
  ASSUME DIInv, CliDies  PROVE  DIInv'
<1>1. /\ On(cli) /\ cli' = NoDrain /\ Note("kept", TRUE)
      /\ UNCHANGED <<file, rotated, stored, dispatched, deliveries, up, acked, count, failedSince,
                     recovery, startup, draining, exits>>
  BY DEF CliDies, disk, sdk
<1>2. DTypes /\ Single(file) /\ happened \subseteq Mishaps  BY DEF DIInv, DTypes, Bookkeeping
<1>3. /\ happened \subseteq happened' /\ happened' \subseteq Mishaps /\ "kept" \in happened'
      /\ ("unread" \in happened' <=> "unread" \in happened)
  BY <1>1, <1>2, Noted DEF Mishaps
<1>4. Fitting(cli', dispatched) /\ ~On(cli') /\ cli'.whole  BY <1>1, NoDrainFits
<1>5. Shrunk  BY <1>1, <1>2, <1>3 DEF Shrunk, DTypes
<1>6. DTypes' /\ Bookkeeping'
  BY <1>1, <1>4, <1>5, BooksKept DEF DIInv, DTypes, Bookkeeping, Accepted
<1>7. CountBounded'
  <2>1. happened' \subseteq {"kept", "unread"} => happened \subseteq {"kept", "unread"}  BY <1>3
  <2> QED  BY <1>1, <1>3, <2>1, Counted DEF DIInv
<1>8. Undisturbed' /\ DeliveredOnce'
  <2>1. CASE ~Calm'  BY <2>1 DEF Undisturbed, DeliveredOnce, Calm
  <2>2. CASE Calm'
    <3>1. Calm  BY <1>3, <2>2, Earlier
    <3>2. ~On(startup') /\ ~On(draining')
      BY <1>1, <3>1 DEF DIInv, Undisturbed, Calm, Alone
    <3>3. NothingIsLost'  BY <1>1, <3>1 DEF DIInv, Undisturbed, Calm, NothingIsLost, Safe
    <3>4. ~Quiet'  BY <1>3 DEF Quiet
    <3> QED  BY <1>4, <3>2, <3>3, <3>4, AllOff
  <2> QED  BY <2>1, <2>2
<1> QED  BY <1>6, <1>7, <1>8 DEF DIInv

-------------------------------------------------------------------------------
(* The end of the process, and the whole                                    *)

LEMMA ExitKeeps ==
  ASSUME DIInv, Exit  PROVE  DIInv'
<1>1. /\ exits < MaxExits /\ exits' = exits + 1
      /\ up' = FALSE /\ acked' = {} /\ count' = Null /\ failedSince' = FALSE /\ recovery' = 0
      /\ startup' = NoDrain /\ draining' = NoDrain
      /\ Note("kept", On(startup) \/ On(draining) \/ acked \intersect ToSet(file) # {})
      /\ UNCHANGED <<file, rotated, stored, dispatched, deliveries, cli>>
  BY DEF Exit, disk
<1>2. DTypes /\ Bookkeeping /\ happened \subseteq Mishaps  BY DEF DIInv, DTypes
<1>3. /\ happened \subseteq happened' /\ happened' \subseteq Mishaps
      /\ On(startup) \/ On(draining) \/ acked \intersect ToSet(file) # {} => "kept" \in happened'
  BY <1>1, <1>2, Noted DEF Mishaps
<1>4. /\ Fitting(startup', dispatched) /\ ~On(startup') /\ startup'.failed = {}
      /\ Fitting(draining', dispatched) /\ ~On(draining') /\ draining'.failed = {} /\ draining'.whole
      /\ Knows(startup', file, deliveries) /\ Knows(draining', file, deliveries)
      /\ Fresh(startup', deliveries) /\ Fresh(draining', deliveries)
  BY <1>1, NoDrainFits
<1>5. DTypes'
  <2>1. exits' \in 0 .. MaxExits
    <3>1. exits \in 0 .. MaxExits /\ MaxExits \in Nat  BY <1>2, DrainAssumption DEF DTypes
    <3> QED  BY <1>1, <3>1
  <2>2. recovery' \in 0 .. Attempts  BY <1>1 DEF Attempts
  <2>3. count' \in Nat \union {Null} /\ failedSince' \in BOOLEAN /\ up' \in BOOLEAN  BY <1>1
  <2> QED  BY <1>1, <1>2, <1>3, <2>1, <2>2, <2>3 DEF DTypes
<1>6. Bookkeeping'  BY <1>1, <1>2, <1>4 DEF Bookkeeping, Accepted, On
<1>7. CountBounded'  BY <1>1 DEF CountBounded
<1>8. Undisturbed'
  <2> SUFFICES ASSUME Calm'
               PROVE  /\ Alone' /\ Knows(startup, file, deliveries)'
                      /\ Knows(draining, file, deliveries)' /\ Knows(cli, file, deliveries)'
                      /\ NothingIsLost'
    BY DEF Undisturbed, Calm
  <2>1. Knows(cli, file, deliveries) /\ NothingIsLost
    BY <1>3, Earlier DEF DIInv, Undisturbed, Calm
  <2> QED  BY <1>1, <1>4, <2>1 DEF Alone, NothingIsLost, Safe, On
<1>9. DeliveredOnce'
  <2> SUFFICES ASSUME Quiet'
               PROVE  /\ \A n \in DOMAIN file' : file'[n] \in Accepted' => Remembered(n)'
                      /\ Fresh(startup, deliveries)' /\ Fresh(draining, deliveries)'
                      /\ Fresh(cli, deliveries)'
                      /\ \A x \in Payloads : deliveries'[x] <= 1
    BY DEF DeliveredOnce, Quiet
  <2>1. Quiet  BY <1>3, Earlier
  <2>2. ~On(startup) /\ acked \intersect ToSet(file) = {}  BY <1>3 DEF Quiet
  <2>3. /\ \A n \in DOMAIN file : file[n] \in Accepted => Remembered(n)
        /\ Fresh(cli, deliveries) /\ \A x \in Payloads : deliveries[x] <= 1
    BY <2>1 DEF DIInv, DeliveredOnce, Quiet
  <2>4. \A n \in DOMAIN file' : file'[n] \in Accepted' => Remembered(n)'
    BY <1>1, <2>2, <2>3 DEF Remembered, Accepted, ToSet, On
  <2> QED  BY <1>1, <1>4, <2>3, <2>4
<1> QED  BY <1>5, <1>6, <1>7, <1>8, <1>9 DEF DIInv

LEMMA DInitHolds ==
  ASSUME DInit  PROVE  DIInv
<1>1. /\ file \in InitialFiles /\ rotated = {}
      /\ stored = ToSet(file) \intersect Payloads /\ dispatched = stored
      /\ deliveries = [x \in Payloads |-> 0]
      /\ up = FALSE /\ acked = {} /\ count = Null /\ failedSince = FALSE /\ recovery = 0
      /\ startup = NoDrain /\ draining = NoDrain /\ cli = NoDrain
      /\ exits = 0 /\ happened = {}
  BY DEF DInit
<1>2. file \in Seq(Lines) /\ Single(file)  BY <1>1, LineAssumption DEF Single
<1>3. MaxDeliveries \in Nat /\ MaxExits \in Nat  BY DrainAssumption
<1>4. Accepted = {} /\ \A x \in Payloads : deliveries[x] = 0  BY <1>1 DEF Accepted
<1>5. /\ Fitting(NoDrain, dispatched) /\ ~On(NoDrain) /\ Knows(NoDrain, file, deliveries)
      /\ NoDrain.failed = {} /\ NoDrain.whole /\ Fresh(NoDrain, deliveries)
  BY NoDrainFits
<1>6. DTypes
  <2>1. recovery \in 0 .. Attempts  BY <1>1 DEF Attempts
  <2>2. count \in Nat \union {Null} /\ failedSince \in BOOLEAN /\ up \in BOOLEAN  BY <1>1
  <2>3. stored \subseteq Payloads /\ dispatched \subseteq Payloads  BY <1>1
  <2>4. deliveries \in [Payloads -> 0 .. MaxDeliveries]  BY <1>1, <1>3
  <2>5. exits \in 0 .. MaxExits  BY <1>1, <1>3
  <2> QED  BY <1>1, <1>2, <2>1, <2>2, <2>3, <2>4, <2>5 DEF DTypes
<1>7. Bookkeeping  BY <1>1, <1>2, <1>4, <1>5 DEF Bookkeeping
<1>8. Undisturbed  BY <1>1, <1>5 DEF Undisturbed, Alone, NothingIsLost, Safe
<1>9. DeliveredOnce  BY <1>1, <1>4, <1>5 DEF DeliveredOnce
<1>10. CountBounded  BY <1>1 DEF CountBounded
<1> QED  BY <1>6, <1>7, <1>8, <1>9, <1>10 DEF DIInv

LEMMA DStutters ==
  ASSUME DIInv, UNCHANGED drainvars  PROVE  DIInv'
<1>1. UNCHANGED <<file, rotated, stored, dispatched, deliveries, up, acked, count, failedSince,
                  recovery, startup, draining, cli, exits, happened>>
  BY DEF drainvars, disk, sdk
<1>2. DTypes' /\ Bookkeeping'  BY <1>1 DEF DIInv, DTypes, Bookkeeping, Accepted, On
<1>3. Undisturbed'  BY <1>1 DEF DIInv, Undisturbed, Alone, On, NothingIsLost, Safe
<1>4. DeliveredOnce'  BY <1>1 DEF DIInv, DeliveredOnce, Remembered, Accepted, On
<1>5. CountBounded'  BY <1>1, Counted DEF DIInv
<1> QED  BY <1>2, <1>3, <1>4, <1>5 DEF DIInv

(* What the three drains, the store and the exits keep, whatever they do in  *)
(* which order: the books, what a drain knows of the file, who has delivered *)
(* what, and the gauge.                                                      *)
THEOREM LettersInductive == DSpec => []DIInv
<1>1. DInit => DIInv  BY DInitHolds
<1>2. DIInv /\ [DNext]_drainvars => DIInv'
  <2> SUFFICES ASSUME DIInv, [DNext]_drainvars  PROVE  DIInv'  OBVIOUS
  <2>1. CASE Store
    <3>1. CASE AppendMarker  BY <3>1, AppendMarkerKeeps
    <3>2. CASE ReadPendingCount  BY <3>2, ReadPendingCountKeeps
    <3>3. ASSUME NEW x \in Payloads, LiveSent(x)  PROVE  DIInv'  BY <3>3, LiveSentKeeps
    <3>4. ASSUME NEW x \in Payloads, LiveFailed(x)  PROVE  DIInv'  BY <3>4, LiveFailedKeeps
    <3> QED  BY <2>1, <3>1, <3>2, <3>3, <3>4 DEF Store
  <2>2. CASE Startup
    <3>1. CASE Activate  BY <3>1, ActivateKeeps
    <3>2. CASE StartupSent  BY <3>2, StartupSentKeeps
    <3>3. CASE StartupFailed  BY <3>3, StartupFailedKeeps
    <3> QED  BY <2>2, <3>1, <3>2, <3>3 DEF Startup
  <2>3. CASE Recovery
    <3>1. CASE RecoveryWakes  BY <3>1, RecoveryWakesKeeps
    <3>2. CASE RecoverySent  BY <3>2, RecoverySentKeeps
    <3>3. CASE RecoveryFailed  BY <3>3, RecoveryFailedKeeps
    <3> QED  BY <2>3, <3>1, <3>2, <3>3 DEF Recovery
  <2>4. CASE Cli
    <3>1. CASE ReSignAll  BY <3>1, ReSignAllKeeps
    <3>2. CASE CliStart  BY <3>2, CliStartKeeps
    <3>3. CASE CliSent  BY <3>3, CliSentKeeps
    <3>4. CASE CliFailed  BY <3>4, CliFailedKeeps
    <3>5. CASE CliDies  BY <3>5, CliDiesKeeps
    <3> QED  BY <2>4, <3>1, <3>2, <3>3, <3>4, <3>5 DEF Cli
  <2>5. CASE Exit  BY <2>5, ExitKeeps
  <2>6. CASE UNCHANGED drainvars  BY <2>6, DStutters
  <2> QED  BY <2>1, <2>2, <2>3, <2>4, <2>5, <2>6 DEF DNext
<1> QED  BY <1>1, <1>2, PTL DEF DSpec

(* The line numbers with which the three drains cut the file are right: what *)
(* the store accepted is delivered, or still there, or in a backup, until    *)
(* two drains overlap, lines move under one, or a clear is torn.             *)
THEOREM NothingLost == DSpec => []NoLoss
<1>1. DIInv => NoLoss  BY DEF DIInv, Undisturbed, NoLoss
<1> QED  BY <1>1, LettersInductive, PTL

(* ackedPayloadIds and the cut of the file keep every payload from a second  *)
(* delivery, also when clearSent fails, until a mishap.                      *)
THEOREM NothingTwice == DSpec => []NoRedelivery
<1>1. DIInv => NoRedelivery  BY DEF DIInv, DeliveredOnce, NoRedelivery
<1> QED  BY <1>1, LettersInductive, PTL

(* Types, and the gauge deadLetterDepth: a count that is decremented by      *)
(* markAcked, incremented by the store and forgotten by every clear lies     *)
(* between what still has to be sent and what the file holds.                *)
THEOREM DepthIsSound == DSpec => []DepthSound
<1>1. DIInv => DepthSound
  <2> SUFFICES ASSUME DIInv  PROVE  DepthSound  OBVIOUS
  <2>1. \A d \in {startup, draining, cli} : Fitting(d, dispatched)  BY DEF DIInv, Bookkeeping
  <2>2. ASSUME NEW d \in {startup, draining, cli}
        PROVE  /\ d.left \subseteq [line : 1 .. d.lineCount, id : Payloads]
               /\ d.processed \in 0 .. d.lineCount /\ d.failed \subseteq 1 .. d.lineCount
    <3>1. Fitting(d, dispatched) /\ d \in Drains  BY <2>1 DEF Fitting
    <3>2. d.processed \in Nat /\ d.lineCount \in Nat /\ d.processed <= d.lineCount
      BY <3>1 DEF Fitting, Drains
    <3>3. d.failed \subseteq 1 .. d.lineCount
      <4>1. \A n \in d.failed : n \in 1 .. d.processed  BY <3>1 DEF Fitting
      <4> QED  BY <3>2, <4>1
    <3>4. ASSUME NEW e \in d.left  PROVE  e \in [line : 1 .. d.lineCount, id : Payloads]
      <4>1. e \in [line : Nat, id : Payloads]  BY <3>1 DEF Drains
      <4>2. d.processed < e.line /\ e.line <= d.lineCount  BY <3>1 DEF Fitting
      <4>3. e.line \in 1 .. d.lineCount  BY <3>2, <4>1, <4>2
      <4> QED  BY <4>1, <4>3
    <3> QED  BY <3>2, <3>3, <3>4
  <2>3. acked \subseteq Payloads  BY DEF DIInv, Bookkeeping, Accepted
  <2> QED  BY <2>2, <2>3 DEF DIInv, DTypes, DTypeOK, DepthSound
<1> QED  BY <1>1, LettersInductive, PTL

-------------------------------------------------------------------------------
(* The webhook: its store, its queue and its flushes                        *)

Flushes == [at : {"idle", "waiting", "resumed", "draining", "done"},
            covers : SUBSET Events, tried : BOOLEAN]

AsideTypes == backups \in Seq(SUBSET Events) /\ outnumbered \subseteq Events
StoreTypes == records \in Seq(Events) /\ AsideTypes /\ retainOnAck \in BOOLEAN

(* What has left the file by a rotation.                                    *)
Aside == InBackups \union outnumbered

QueueTypes ==
  /\ queue \in Seq(Events) /\ batch \in Seq(Events) /\ Len(batch) <= BatchSize
  /\ Len(queue) + Len(batch) <= MaxBuffer + BatchSize
  /\ posts \in 0 .. Retries - 1 /\ since \subseteq Flushers /\ drainTimer \in BOOLEAN

FlushTypes == flush \in [Flushers -> Flushes]

GhostTypes ==
  /\ running \in BOOLEAN /\ closed \in BOOLEAN /\ touched \in BOOLEAN
  /\ called \subseteq Events /\ mine \subseteq Events /\ accepted \subseteq Events
  /\ acknowledged \subseteq Events /\ deferred \subseteq Events /\ torn \subseteq Events
  /\ stops \in 0 .. MaxStops

(* What this process need not fear for.                                     *)
Known == InMemory \union acknowledged \union deferred

(* Nothing is under way while the process is down.                          *)
Stopped ==
  ~running => /\ queue = <<>> /\ batch = <<>> /\ ~touched
              /\ \A f \in Flushers : flush[f].at = "idle"

(* A flush under way has what it covers in sight, and every batch that is   *)
(* being posted after its wait was begun after its call.                    *)
Covered ==
  \A f \in Flushers :
    /\ flush[f].at # "idle" => flush[f].tried \/ flush[f].covers \subseteq Known
    /\ ~Idle /\ flush[f].at \in {"resumed", "draining"} => f \in since

WIInv ==
  /\ StoreTypes /\ QueueTypes /\ FlushTypes /\ GhostTypes
  /\ Stopped /\ StoredUntilAcked /\ NothingForgotten /\ NoStall /\ FlushTries /\ Covered

LEMMA FrontLines ==
  ASSUME NEW T, NEW q \in Seq(T), NEW k \in Nat, k <= Len(q), NEW r, r = SubSeq(q, 1, k)
  PROVE  r \in Seq(T) /\ Len(r) = k /\ DOMAIN r = 1 .. k /\ \A i \in 1 .. k : r[i] = q[i]
<1>1. Len(q) \in Nat /\ DOMAIN q = 1 .. Len(q)  OBVIOUS
<1>2. \A i \in 1 .. k : q[i] \in T  BY <1>1
<1>3. r \in Seq(T) /\ Len(r) = k /\ \A i \in 1 .. k : r[i] = q[i]  BY <1>1, <1>2
<1> QED  BY <1>3

(* q is cut after k lines, of which there may be less than n.               *)
CutAt(q, n, k, front, back) ==
  /\ q \in Seq(Events) /\ n \in Nat /\ k \in Nat /\ k <= Len(q) /\ k <= n /\ (k < n => k = Len(q))
  /\ front \in Seq(Events) /\ Len(front) = k /\ \A i \in 1 .. k : front[i] = q[i]
  /\ back \in Seq(Events) /\ Len(back) = Len(q) - k
  /\ \A m \in DOMAIN back : n + m \in DOMAIN q /\ back[m] = q[n + m]
  /\ \A m \in DOMAIN q : m > n => m - n \in DOMAIN back /\ back[m - n] = q[m]

Halved(q, n, front, back) ==
  /\ front \in Seq(Events) /\ back \in Seq(Events) /\ Len(front) <= n
  /\ Len(front) + Len(back) = Len(q)
  /\ ToSet(front) \union ToSet(back) = ToSet(q)
  /\ q = <<>> => front = <<>> /\ back = <<>>
  /\ q # <<>> /\ n > 0 => front # <<>>

LEMMA Parts ==
  ASSUME NEW q, NEW n, NEW k, NEW front, NEW back, CutAt(q, n, k, front, back)
  PROVE  Halved(q, n, front, back)
<1>0. /\ q \in Seq(Events) /\ n \in Nat /\ k \in Nat /\ k <= Len(q) /\ k <= n /\ (k < n => k = Len(q))
      /\ front \in Seq(Events) /\ Len(front) = k /\ \A i \in 1 .. k : front[i] = q[i]
      /\ back \in Seq(Events) /\ Len(back) = Len(q) - k
      /\ \A m \in DOMAIN back : n + m \in DOMAIN q /\ back[m] = q[n + m]
      /\ \A m \in DOMAIN q : m > n => m - n \in DOMAIN back /\ back[m - n] = q[m]
  BY DEF CutAt
<1>1. DOMAIN q = 1 .. Len(q) /\ Len(q) \in Nat /\ DOMAIN front = 1 .. k  BY <1>0
<1>2. \A i \in DOMAIN front : i \in DOMAIN q /\ front[i] = q[i]  BY <1>0, <1>1
<1>3. ToSet(front) \subseteq ToSet(q)  BY <1>2 DEF ToSet
<1>4. ToSet(back) \subseteq ToSet(q)  BY <1>0 DEF ToSet
<1>5. ASSUME NEW m \in DOMAIN q  PROVE  q[m] \in ToSet(front) \union ToSet(back)
  <2>1. CASE m <= k
    <3>1. m \in DOMAIN front /\ front[m] = q[m]  BY <1>0, <1>1, <2>1
    <3> QED  BY <3>1 DEF ToSet
  <2>2. CASE m > n
    <3>1. m - n \in DOMAIN back /\ back[m - n] = q[m]  BY <1>0, <2>2
    <3> QED  BY <3>1 DEF ToSet
  <2>3. m <= k \/ m > n  BY <1>0, <1>1
  <2> QED  BY <2>1, <2>2, <2>3
<1>6. Len(front) + Len(back) = Len(q)  BY <1>0, <1>1
<1>7. q = <<>> => front = <<>> /\ back = <<>>
  <2> SUFFICES ASSUME q = <<>>  PROVE  front = <<>> /\ back = <<>>  OBVIOUS
  <2>1. Len(q) = 0  OBVIOUS
  <2>2. Len(front) = 0 /\ Len(back) = 0 /\ front \in Seq(Events) /\ back \in Seq(Events)
    BY <1>0, <2>1
  <2> QED  BY <2>2
<1>8. q # <<>> /\ n > 0 => front # <<>>
  <2> SUFFICES ASSUME n > 0, front = <<>>  PROVE  q = <<>>  OBVIOUS
  <2>1. Len(front) = 0  OBVIOUS
  <2>2. Len(q) = 0  BY <1>0, <1>1, <2>1
  <2> QED  BY <1>0, <2>2
<1>9. ToSet(front) \union ToSet(back) = ToSet(q)  BY <1>3, <1>4, <1>5 DEF ToSet
<1> QED  BY <1>0, <1>6, <1>7, <1>8, <1>9, Zenon DEF Halved

LEMMA Halves ==
  ASSUME NEW q, q \in Seq(Events), NEW n, n \in Nat, n > 0,
         NEW front, front = SubSeq(q, 1, IF Len(q) < n THEN Len(q) ELSE n),
         NEW back, back = SubSeq(q, n + 1, Len(q))
  PROVE  Halved(q, n, front, back)
<1>1. Len(q) \in Nat  OBVIOUS
<1>2. PICK k \in Nat : k = IF Len(q) < n THEN Len(q) ELSE n  BY <1>1
<1>3. k <= Len(q) /\ k <= n /\ (k < n => k = Len(q))  BY <1>1, <1>2
<1>4. front = SubSeq(q, 1, k)  BY <1>2, Zenon
<1>5. front \in Seq(Events) /\ Len(front) = k /\ \A i \in 1 .. k : front[i] = q[i]
  BY <1>3, <1>4, FrontLines
<1>6. /\ back \in Seq(Events)
      /\ \A m \in DOMAIN back : n + m \in DOMAIN q /\ back[m] = q[n + m]
      /\ \A m \in DOMAIN q : m > n => m - n \in DOMAIN back /\ back[m - n] = q[m]
  BY CutOff
<1>7. Len(back) = IF n + 1 <= Len(q) THEN Len(q) - n ELSE 0
  BY <1>1
<1>8. Len(back) = Len(q) - k
  <2>1. CASE n + 1 <= Len(q)
    <3>1. Len(back) = Len(q) - n  BY <1>7, <2>1, Zenon
    <3>2. k = n  BY <1>1, <1>3, <2>1
    <3> QED  BY <3>1, <3>2, Zenon
  <2>2. CASE ~(n + 1 <= Len(q))
    <3>1. Len(back) = 0  BY <1>7, <2>2, Zenon
    <3>2. Len(q) - k = 0  BY <1>1, <1>3, <2>2
    <3> QED  BY <3>1, <3>2, Zenon
  <2> QED  BY <2>1, <2>2
<1>9. CutAt(q, n, k, front, back)  BY <1>3, <1>5, <1>6, <1>8, Zenon DEF CutAt
<1> QED  BY <1>9, Parts, Zenon

(* A batch is taken from the front of the queue q.                          *)
LEMMA BatchTaken ==
  ASSUME NEW q \in Seq(Events), NEW callers, NextBatch(q, callers)
  PROVE  /\ queue' \in Seq(Events) /\ batch' \in Seq(Events) /\ Len(batch') <= BatchSize
         /\ Len(queue') + Len(batch') = Len(q)
         /\ InMemory' = ToSet(q)
         /\ q = <<>> => queue' = <<>> /\ batch' = <<>>
         /\ q # <<>> => batch' # <<>>
         /\ posts' \in 0 .. Retries - 1 /\ since' = callers
<1>1. /\ batch' = SubSeq(q, 1, IF Len(q) < BatchSize THEN Len(q) ELSE BatchSize)
      /\ queue' = SubSeq(q, BatchSize + 1, Len(q))
      /\ posts' = 0 /\ since' = callers
  BY DEF NextBatch
<1>2. BatchSize \in Nat /\ BatchSize > 0 /\ Retries \in Nat /\ Retries > 0  BY SizeAssumption
<1>3. /\ batch' \in Seq(Events) /\ queue' \in Seq(Events) /\ Len(batch') <= BatchSize
      /\ Len(batch') + Len(queue') = Len(q)
      /\ ToSet(batch') \union ToSet(queue') = ToSet(q)
      /\ q = <<>> => batch' = <<>> /\ queue' = <<>>
      /\ q # <<>> => batch' # <<>>
  <2>1. Halved(q, BatchSize, batch', queue')  BY <1>1, <1>2, Halves
  <2> QED  BY <1>2, <2>1, Zenon DEF Halved
<1>4. Len(queue') + Len(batch') = Len(q)
  <2>1. Len(batch') \in Nat /\ Len(queue') \in Nat  BY <1>3
  <2> QED  BY <1>3, <2>1
<1>5. posts' \in 0 .. Retries - 1  BY <1>1, <1>2
<1>6. InMemory' = ToSet(q)
  <2>1. InMemory' = ToSet(queue') \union ToSet(batch')  BY DEF InMemory
  <2> QED  BY <1>3, <2>1
<1> QED  BY <1>1, <1>3, <1>4, <1>5, <1>6, Zenon

LEMMA Joined ==
  ASSUME NEW T, NEW q \in Seq(T), NEW r \in Seq(T)
  PROVE  /\ q \o r \in Seq(T) /\ Len(q \o r) = Len(q) + Len(r)
         /\ ToSet(q \o r) = ToSet(q) \union ToSet(r)
<1>1. /\ q \o r \in Seq(T) /\ Len(q \o r) = Len(q) + Len(r) /\ Len(q) \in Nat /\ Len(r) \in Nat
      /\ \A i \in 1 .. Len(q) : (q \o r)[i] = q[i]
      /\ \A i \in 1 .. Len(r) : (q \o r)[Len(q) + i] = r[i]
  OBVIOUS
<1>2. DOMAIN q = 1 .. Len(q) /\ DOMAIN r = 1 .. Len(r) /\ DOMAIN (q \o r) = 1 .. Len(q) + Len(r)
  BY <1>1
<1> DEFINE w == q \o r
<1> HIDE DEF w
<1>3. /\ \A i \in 1 .. Len(q) : w[i] = q[i]
      /\ \A i \in 1 .. Len(r) : w[Len(q) + i] = r[i]
      /\ DOMAIN w = 1 .. Len(q) + Len(r)
  BY <1>1, <1>2 DEF w
<1>4. ASSUME NEW i \in 1 .. Len(r)  PROVE  r[i] \in ToSet(w)
  <2>1. Len(q) + i \in DOMAIN w /\ w[Len(q) + i] = r[i]  BY <1>1, <1>3
  <2> QED  BY <2>1 DEF ToSet
<1>5. ASSUME NEW i \in 1 .. Len(q)  PROVE  q[i] \in ToSet(w)
  <2>1. i \in DOMAIN w /\ w[i] = q[i]  BY <1>1, <1>3
  <2> QED  BY <2>1 DEF ToSet
<1>6. ASSUME NEW i \in DOMAIN w  PROVE  w[i] \in ToSet(q) \union ToSet(r)
  <2>1. CASE i <= Len(q)  BY <1>1, <1>2, <1>3, <2>1 DEF ToSet
  <2>2. CASE ~(i <= Len(q))
    <3>1. i - Len(q) \in 1 .. Len(r) /\ Len(q) + (i - Len(q)) = i  BY <1>1, <1>3, <2>2
    <3>2. w[i] = r[i - Len(q)]  BY <1>3, <3>1
    <3> QED  BY <1>2, <3>1, <3>2 DEF ToSet
  <2> QED  BY <2>1, <2>2
<1>7. ToSet(w) = ToSet(q) \union ToSet(r)  BY <1>2, <1>4, <1>5, <1>6 DEF ToSet
<1> QED  BY <1>1, <1>7 DEF w

(* A rotation keeps the file and the newest backups, or they are outnumbered.*)
LEMMA Rotated ==
  ASSUME StoreTypes, Rotate
  PROVE  AsideTypes' /\ InFile \union Aside \subseteq Aside'
<1> DEFINE all == Append(backups, InFile)
           old == 1 .. Len(all) - MaxBackups
           new == DOMAIN all \ old
<1>1. PICK kept \in SUBSET old : backups' \in Kept(all, kept \union new)
  BY DEF Rotate
<1>2. outnumbered' = outnumbered \union UNION {all[n] : n \in old}
  BY DEF Rotate
<1>3. records \in Seq(Events) /\ backups \in Seq(SUBSET Events) /\ outnumbered \subseteq Events
  BY DEF StoreTypes, AsideTypes
<1>4. InFile \in SUBSET Events  BY <1>3 DEF InFile, ToSet
<1>5. MaxBackups \in Nat  BY SizeAssumption
<1>6. /\ all \in Seq(SUBSET Events) /\ Len(all) \in Nat /\ DOMAIN all = 1 .. Len(all)
      /\ all[Len(backups) + 1] = InFile /\ Len(backups) + 1 \in DOMAIN all
      /\ \A n \in DOMAIN backups : n \in DOMAIN all /\ all[n] = backups[n]
  <2>1. /\ all \in Seq(SUBSET Events) /\ Len(all) = Len(backups) + 1
        /\ all[Len(backups) + 1] = InFile /\ \A n \in 1 .. Len(backups) : all[n] = backups[n]
    BY <1>3, <1>4, Appended
  <2>2. Len(backups) \in Nat /\ DOMAIN backups = 1 .. Len(backups) /\ DOMAIN all = 1 .. Len(all)
    BY <1>3, <2>1
  <2> QED  BY <2>1, <2>2
<1>7. \A n \in old : n \in DOMAIN all  BY <1>5, <1>6
<1>8. kept \union new \subseteq DOMAIN all /\ \A n \in DOMAIN all : n \in old \/ n \in new
  BY <1>7
<1>9. \A n \in DOMAIN all : all[n] \subseteq Events  BY <1>6
<1>10. outnumbered' \subseteq Events  BY <1>2, <1>3, <1>7, <1>9
<1> DEFINE S == kept \union new
<1> HIDE DEF all, old, new, S
<1>11. S \subseteq DOMAIN all /\ backups' \in Kept(all, S) /\ new \subseteq S  BY <1>1, <1>8 DEF S
<1>12. PICK o \in Ascending(S) :
         /\ backups' \in Seq(SUBSET Events)
         /\ \A m \in S : \E k \in DOMAIN backups' : o[k] = m
         /\ \A k \in DOMAIN backups' : o[k] \in S /\ backups'[k] = all[o[k]]
  BY <1>6, <1>11, KeptLines
<1>13. ASSUME NEW n \in DOMAIN all  PROVE  all[n] \subseteq Aside'
  <2>1. CASE n \in old  BY <1>2, <2>1 DEF Aside
  <2>2. CASE n \in new
    <3>1. PICK k \in DOMAIN backups' : o[k] = n  BY <1>11, <1>12, <2>2
    <3>2. backups'[k] = all[n]  BY <1>12, <3>1
    <3> QED  BY <3>2 DEF Aside, InBackups, ToSet
  <2> QED  BY <1>8, <2>1, <2>2
<1>14. InFile \subseteq Aside'  BY <1>6, <1>13
<1>15. InBackups \subseteq Aside'
  <2>1. \A n \in DOMAIN backups : backups[n] \subseteq Aside'
    <3> SUFFICES ASSUME NEW n \in DOMAIN backups  PROVE  backups[n] \subseteq Aside'  OBVIOUS
    <3>1. n \in DOMAIN all /\ all[n] = backups[n]  BY <1>6
    <3> QED  BY <1>13, <3>1
  <2> QED  BY <2>1 DEF InBackups, ToSet
<1>16. outnumbered \subseteq Aside'  BY <1>2 DEF Aside
<1> QED  BY <1>10, <1>12, <1>14, <1>15, <1>16 DEF Aside, AsideTypes

LEMMA RecordAppended ==
  ASSUME StoreTypes, NEW x \in Events, AppendRecord(x)
  PROVE  /\ records' \in Seq(Events) /\ AsideTypes'
         /\ InFile \union Aside \union {x} \subseteq InFile' \union Aside'
<1>1. records \in Seq(Events) /\ AsideTypes  BY DEF StoreTypes
<1>2. CASE Rotate /\ records' = <<x>>
  <2>1. AsideTypes' /\ InFile \union Aside \subseteq Aside'  BY <1>2, Rotated
  <2>2. records' \in Seq(Events) /\ x \in InFile'  BY <1>2 DEF InFile, ToSet
  <2> QED  BY <2>1, <2>2
<1>3. CASE records' = Append(records, x) /\ UNCHANGED aside
  <2>1. /\ records' \in Seq(Events) /\ DOMAIN records' = 1 .. Len(records) + 1
        /\ records'[Len(records) + 1] = x /\ \A m \in 1 .. Len(records) : records'[m] = records[m]
        /\ Len(records) \in Nat /\ DOMAIN records = 1 .. Len(records)
    BY <1>1, <1>3, Appended
  <2>2. \A m \in DOMAIN records : m \in DOMAIN records' /\ records'[m] = records[m]  BY <2>1
  <2>3. Len(records) + 1 \in DOMAIN records'  BY <2>1
  <2>4. InFile \subseteq InFile' /\ x \in InFile'
    BY <2>1, <2>2, <2>3 DEF InFile, ToSet
  <2>5. AsideTypes' /\ Aside' = Aside  BY <1>1, <1>3 DEF aside, AsideTypes, Aside, InBackups
  <2> QED  BY <2>1, <2>4, <2>5
<1> QED  BY <1>2, <1>3 DEF AppendRecord

LEMMA RecordFails ==
  ASSUME StoreTypes, NEW x \in Events, AppendFails(x)
  PROVE  /\ records' \in Seq(Events) /\ AsideTypes'
         /\ InFile \union Aside \subseteq InFile' \union Aside'
<1>1. CASE Rotate /\ records' = <<>>
  <2>1. AsideTypes' /\ InFile \union Aside \subseteq Aside'  BY <1>1, Rotated
  <2> QED  BY <1>1, <2>1
<1>2. CASE UNCHANGED store
  BY <1>2 DEF store, aside, StoreTypes, AsideTypes, InFile, Aside, InBackups
<1>3. CASE AppendRecord(x)  BY <1>3, RecordAppended
<1> QED  BY <1>1, <1>2, <1>3 DEF AppendFails

(* What a rewrite without acks leaves.                                      *)
LEMMA RecordsLeft ==
  ASSUME StoreTypes, NEW acks, NEW left \in Without(acks)
  PROVE  left \in Seq(Events) /\ ToSet(left) \subseteq InFile /\ InFile \ acks \subseteq ToSet(left)
<1> DEFINE S == {n \in DOMAIN records : records[n] \notin acks}
<1>1. left \in Kept(records, S) /\ S \subseteq DOMAIN records  BY DEF Without
<1>2. records \in Seq(Events)  BY DEF StoreTypes
<1>3. \A n \in DOMAIN records : records[n] \notin acks => n \in S  OBVIOUS
<1> HIDE DEF S
<1>4. PICK o \in Ascending(S) :
        /\ left \in Seq(Events)
        /\ \A k \in DOMAIN left : o[k] \in S /\ left[k] = records[o[k]]
        /\ \A m \in S : \E k \in DOMAIN left : o[k] = m
  BY <1>1, <1>2, KeptLines
<1>5. ToSet(left) \subseteq InFile  BY <1>1, <1>4 DEF InFile, ToSet
<1>6. ASSUME NEW n \in DOMAIN records, records[n] \notin acks  PROVE  records[n] \in ToSet(left)
  <2>1. PICK k \in DOMAIN left : o[k] = n  BY <1>3, <1>4, <1>6
  <2>2. left[k] = records[n]  BY <1>4, <2>1
  <2> QED  BY <2>2 DEF ToSet
<1> QED  BY <1>4, <1>5, <1>6 DEF InFile, ToSet

LEMMA AckedRemoved ==
  ASSUME StoreTypes, NEW acks, RemoveAcked(acks)
  PROVE  /\ records' \in Seq(Events) /\ AsideTypes'
         /\ InFile \union Aside \subseteq InFile' \union Aside' \union acks
<1>0. records \in Seq(Events) /\ AsideTypes  BY DEF StoreTypes
<1>a. UNCHANGED <<backups, outnumbered>>  BY DEF RemoveAcked, store, aside
<1>b. AsideTypes' /\ Aside' = Aside  BY <1>0, <1>a DEF AsideTypes, Aside, InBackups
<1>1. CASE UNCHANGED records  BY <1>0, <1>1, <1>b DEF InFile
<1>2. CASE records' \in Without(acks)
  <2>1. records' \in Seq(Events) /\ InFile \ acks \subseteq ToSet(records')  BY <1>2, RecordsLeft
  <2> QED  BY <1>b, <2>1 DEF InFile
<1> QED  BY <1>1, <1>2 DEF RemoveAcked, store, aside

(* The queue after enqueue: what leaves it is counted as deferred.          *)
LEMMA Queued ==
  ASSUME QueueTypes, NEW x \in Events, NEW r, r = Enqueued(x)
  PROVE  /\ r \in Seq(Events) /\ r # <<>> /\ x \in ToSet(r)
         /\ Len(r) <= MaxBuffer \/ Len(r) <= Len(queue)
<1>1. queue \in Seq(Events) /\ Len(queue) \in Nat /\ MaxBuffer \in Nat /\ MaxBuffer > 0
  BY SizeAssumption DEF QueueTypes
<1>2. CASE Len(queue) >= MaxBuffer
  <2>1. r = Append(Tail(queue), x)  BY <1>2 DEF Enqueued
  <2>2. Tail(queue) \in Seq(Events) /\ Len(Tail(queue)) = Len(queue) - 1  BY <1>1, <1>2
  <2> DEFINE t == Tail(queue)
  <2>3. t \in Seq(Events) /\ Len(t) = Len(queue) - 1 /\ r = Append(t, x)  BY <2>1, <2>2
  <2> HIDE DEF t
  <2>4. /\ r \in Seq(Events) /\ Len(r) = Len(t) + 1 /\ DOMAIN r = 1 .. Len(t) + 1
        /\ r[Len(t) + 1] = x /\ Len(t) \in Nat
    BY <2>3, Appended
  <2>5. Len(t) + 1 \in DOMAIN r  BY <2>4
  <2>6. x \in ToSet(r) /\ r # <<>>  BY <2>4, <2>5 DEF ToSet
  <2>7. Len(r) <= Len(queue)  BY <1>1, <2>3, <2>4
  <2> QED  BY <2>4, <2>6, <2>7
<1>3. CASE ~(Len(queue) >= MaxBuffer)
  <2>1. r = Append(queue, x)  BY <1>3 DEF Enqueued
  <2>2. /\ r \in Seq(Events) /\ Len(r) = Len(queue) + 1 /\ DOMAIN r = 1 .. Len(queue) + 1
        /\ r[Len(queue) + 1] = x
    BY <1>1, <2>1, Appended
  <2>3. Len(queue) + 1 \in DOMAIN r  BY <1>1, <2>2
  <2>4. x \in ToSet(r) /\ r # <<>>  BY <2>2, <2>3 DEF ToSet
  <2>5. Len(r) <= MaxBuffer  BY <1>1, <1>3, <2>2
  <2> QED  BY <2>2, <2>4, <2>5
<1> QED  BY <1>2, <1>3

LEMMA EnqueueHolds ==
  ASSUME QueueTypes, GhostTypes, NEW x \in Events, Enqueue(x)
  PROVE  /\ QueueTypes' /\ deferred' \subseteq Events /\ deferred \subseteq deferred'
         /\ InMemory \union deferred \union {x} \subseteq InMemory' \union deferred'
         /\ Idle' => drainTimer'
         /\ ~Idle' => (~Idle /\ since' = since) \/ since' = Callers
<1> DEFINE r == Enqueued(x)
<1>1. /\ deferred' = deferred \union (ToSet(queue) \ ToSet(r))
      /\ \/ /\ Len(r) >= BatchSize
            /\ IF Idle THEN BeginDrain(r, Callers) ELSE JoinDrain(r)
         \/ /\ Len(r) < BatchSize
            /\ queue' = r /\ drainTimer' = TRUE
            /\ UNCHANGED <<batch, posts, since>>
  BY DEF Enqueue
<1>2. /\ r \in Seq(Events) /\ r # <<>> /\ x \in ToSet(r)
      /\ Len(r) <= MaxBuffer \/ Len(r) <= Len(queue)
  BY Queued
<1> HIDE DEF r
<1>3. /\ queue \in Seq(Events) /\ Len(queue) \in Nat /\ Len(r) \in Nat
      /\ batch \in Seq(Events) /\ Len(batch) \in Nat /\ Len(batch) <= BatchSize
      /\ Len(queue) + Len(batch) <= MaxBuffer + BatchSize
      /\ BatchSize \in Nat /\ MaxBuffer \in Nat /\ ToSet(queue) \subseteq Events
      /\ Callers \subseteq Flushers /\ ToSet(<<>>) = {}
  BY <1>2, SizeAssumption DEF QueueTypes, ToSet, Callers
<1>4. Len(r) + Len(batch) <= MaxBuffer + BatchSize  BY <1>2, <1>3
<1>5. deferred' \subseteq Events /\ deferred \subseteq deferred'  BY <1>1, <1>3 DEF GhostTypes
<1>6. CASE Idle /\ BeginDrain(r, Callers)
  <2>1. NextBatch(r, Callers) /\ drainTimer' = FALSE  BY <1>6 DEF BeginDrain
  <2>2. /\ queue' \in Seq(Events) /\ batch' \in Seq(Events) /\ Len(batch') <= BatchSize
        /\ Len(queue') + Len(batch') = Len(r) /\ InMemory' = ToSet(r) /\ batch' # <<>>
        /\ posts' \in 0 .. Retries - 1 /\ since' = Callers
    BY <1>2, <2>1, BatchTaken
  <2>3. Len(queue') + Len(batch') <= MaxBuffer + BatchSize  BY <1>3, <1>4, <2>2
  <2>4. QueueTypes'  BY <1>3, <2>1, <2>2, <2>3 DEF QueueTypes
  <2>5. InMemory = ToSet(queue)  BY <1>3, <1>6 DEF InMemory, Idle
  <2> QED  BY <1>1, <1>2, <1>5, <2>2, <2>4, <2>5 DEF Idle
<1>7. CASE queue' = r /\ UNCHANGED <<batch, posts, since>> /\ drainTimer' \in BOOLEAN
           /\ (drainTimer' = TRUE \/ ~Idle)
  <2>1. QueueTypes'  BY <1>2, <1>4, <1>7 DEF QueueTypes
  <2> QED  BY <1>1, <1>2, <1>5, <1>7, <2>1 DEF InMemory, Idle
<1> QED  BY <1>1, <1>6, <1>7 DEF JoinDrain, QueueTypes

(* A drain ends: whoever waits for it goes on.                              *)
LEMMA FlushesGoOn ==
  ASSUME FlushTypes, NEW failed \in BOOLEAN, DrainEnds(failed)
  PROVE  /\ FlushTypes' /\ batch' = <<>> /\ posts' = 0 /\ since' = {}
         /\ \A f \in Flushers :
              /\ flush'[f].covers = flush[f].covers
              /\ flush[f].tried => flush'[f].tried
              /\ failed /\ f \in since => flush'[f].tried
              /\ flush[f].at = "idle" => flush'[f].at = "idle"
              /\ flush[f].at # "idle" => flush'[f].at # "idle"
              /\ flush'[f].at = "done" => flush[f].at \in {"done", "draining"}
<1>1. /\ batch' = <<>> /\ posts' = 0 /\ since' = {}
      /\ flush' = [f \in Flushers |-> AfterDrain(f, failed)]
  BY DEF DrainEnds
<1>2. ASSUME NEW f \in Flushers
      PROVE  /\ AfterDrain(f, failed) \in Flushes
             /\ AfterDrain(f, failed).covers = flush[f].covers
             /\ flush[f].tried => AfterDrain(f, failed).tried
             /\ failed /\ f \in since => AfterDrain(f, failed).tried
             /\ flush[f].at = "idle" => AfterDrain(f, failed).at = "idle"
             /\ flush[f].at # "idle" => AfterDrain(f, failed).at # "idle"
             /\ AfterDrain(f, failed).at = "done" => flush[f].at \in {"done", "draining"}
  <2>1. flush[f] \in Flushes  BY DEF FlushTypes
  <2> DEFINE at == CASE flush[f].at = "waiting" -> "resumed"
                     [] flush[f].at = "draining" -> "done"
                     [] OTHER -> flush[f].at
             tried == flush[f].tried \/ (failed /\ f \in since)
  <2>2. AfterDrain(f, failed) = [flush[f] EXCEPT !.at = at, !.tried = tried]  BY DEF AfterDrain
  <2>3. /\ at \in {"idle", "waiting", "resumed", "draining", "done"}
        /\ flush[f].at = "idle" => at = "idle"
        /\ flush[f].at # "idle" => at # "idle"
        /\ at = "done" => flush[f].at \in {"done", "draining"}
    BY <2>1 DEF Flushes
  <2>4. /\ tried \in BOOLEAN /\ (flush[f].tried => tried) /\ (failed /\ f \in since => tried)
    OBVIOUS
  <2> HIDE DEF at, tried
  <2>5. /\ AfterDrain(f, failed) \in Flushes
        /\ AfterDrain(f, failed).covers = flush[f].covers
        /\ AfterDrain(f, failed).at = at /\ AfterDrain(f, failed).tried = tried
    BY <2>1, <2>2, <2>3, <2>4 DEF Flushes
  <2> QED  BY <2>3, <2>4, <2>5
<1>3. FlushTypes'  BY <1>1, <1>2 DEF FlushTypes
<1>4. \A f \in Flushers : flush'[f] = AfterDrain(f, failed)  BY <1>1
<1> QED  BY <1>1, <1>2, <1>3, <1>4

(* What was known stays known, and no flush moves.                          *)
LEMMA FlushesStay ==
  ASSUME WIInv, Known \subseteq Known', acknowledged \subseteq acknowledged',
         deferred \subseteq deferred', flush' = flush,
         ~Idle' => (~Idle /\ since' = since) \/ Callers \subseteq since'
  PROVE  FlushTypes' /\ FlushTries' /\ Covered'
<1>1. FlushTypes'  BY DEF WIInv, FlushTypes
<1>2. FlushTries'  BY DEF WIInv, FlushTries
<1>3. ASSUME NEW f \in Flushers
      PROVE  /\ flush'[f].at # "idle" => flush'[f].tried \/ flush'[f].covers \subseteq Known'
             /\ ~Idle' /\ flush'[f].at \in {"resumed", "draining"} => f \in since'
  <2>1. /\ flush[f].at # "idle" => flush[f].tried \/ flush[f].covers \subseteq Known
        /\ ~Idle /\ flush[f].at \in {"resumed", "draining"} => f \in since
    BY DEF WIInv, Covered
  <2>2. flush[f].at \in {"resumed", "draining"} => f \in Callers  BY DEF Callers
  <2> QED  BY <2>1, <2>2
<1> QED  BY <1>1, <1>2, <1>3 DEF Covered

LEMMA SendKeeps ==
  ASSUME WIInv, NEW x \in Events, Send(x)  PROVE  WIInv'
<1>1. /\ running /\ called' = called \union {x}
      /\ \/ /\ AppendRecord(x) /\ Enqueue(x)
            /\ accepted' = accepted \union {x} /\ mine' = mine \union {x} /\ touched' = TRUE
         \/ /\ AppendFails(x)
            /\ UNCHANGED <<drain, accepted, mine, deferred, touched>>
      /\ UNCHANGED <<retainOnAck, running, closed, flush, acknowledged, torn, stops>>
  BY DEF Send
<1>2. StoreTypes /\ QueueTypes /\ FlushTypes /\ GhostTypes  BY DEF WIInv
<1>3. Stopped'  BY <1>1 DEF Stopped
<1>4. CASE AppendRecord(x) /\ Enqueue(x)
           /\ accepted' = accepted \union {x} /\ mine' = mine \union {x} /\ touched' = TRUE
  <2>1. /\ records' \in Seq(Events) /\ AsideTypes'
        /\ InFile \union Aside \union {x} \subseteq InFile' \union Aside'
    BY <1>2, <1>4, RecordAppended
  <2>2. /\ QueueTypes' /\ deferred' \subseteq Events /\ deferred \subseteq deferred'
        /\ InMemory \union deferred \union {x} \subseteq InMemory' \union deferred'
        /\ Idle' => drainTimer'
        /\ ~Idle' => (~Idle /\ since' = since) \/ since' = Callers
    BY <1>2, <1>4, EnqueueHolds
  <2>3. StoreTypes'  BY <1>1, <1>2, <2>1 DEF StoreTypes, AsideTypes
  <2>4. GhostTypes'  BY <1>1, <1>2, <1>4, <2>2 DEF GhostTypes
  <2>5. StoredUntilAcked'  BY <1>1, <1>4, <2>1 DEF WIInv, StoredUntilAcked, Aside
  <2>6. Known \union {x} \subseteq Known'  BY <1>1, <2>2 DEF Known
  <2>7. NothingForgotten'
    <3>1. mine \subseteq Known  BY <1>1 DEF WIInv, NothingForgotten, Known
    <3>2. mine' \subseteq Known'  BY <1>4, <2>6, <3>1
    <3> QED  BY <3>2 DEF NothingForgotten, Known
  <2>8. NoStall'  BY <2>2 DEF NoStall
  <2>9. FlushTypes' /\ FlushTries' /\ Covered'  BY <1>1, <2>2, <2>6, FlushesStay
  <2> QED  BY <1>3, <2>2, <2>3, <2>4, <2>5, <2>7, <2>8, <2>9 DEF WIInv
<1>5. CASE AppendFails(x) /\ UNCHANGED <<drain, accepted, mine, deferred, touched>>
  <2>1. /\ records' \in Seq(Events) /\ AsideTypes'
        /\ InFile \union Aside \subseteq InFile' \union Aside'
    BY <1>2, <1>5, RecordFails
  <2>2. UNCHANGED <<queue, batch, posts, drainTimer, since, accepted, mine, deferred, touched>>
    BY <1>5 DEF drain
  <2>3. StoreTypes' /\ QueueTypes' /\ GhostTypes'
    BY <1>1, <1>2, <2>1, <2>2 DEF StoreTypes, QueueTypes, GhostTypes, AsideTypes
  <2>4. StoredUntilAcked'  BY <1>1, <2>1, <2>2 DEF WIInv, StoredUntilAcked, Aside
  <2>5. Known' = Known /\ (Idle' <=> Idle)  BY <1>1, <2>2 DEF Known, InMemory, Idle
  <2>6. NothingForgotten'  BY <1>1, <2>2, <2>5 DEF WIInv, NothingForgotten, Known
  <2>7. NoStall'  BY <1>1, <2>2, <2>5 DEF WIInv, NoStall
  <2>8. FlushTypes' /\ FlushTries' /\ Covered'  BY <1>1, <2>2, <2>5, FlushesStay
  <2> QED  BY <1>3, <2>3, <2>4, <2>6, <2>7, <2>8 DEF WIInv
<1> QED  BY <1>1, <1>4, <1>5

(* A drain begins over the whole queue, or the one under way is joined.     *)
LEMMA DrainBegins ==
  ASSUME WIInv, NEW callers, callers \subseteq Flushers,
         IF Idle THEN NextBatch(queue, callers) ELSE UNCHANGED <<queue, batch, posts, since>>,
         drainTimer' \in BOOLEAN
  PROVE  /\ QueueTypes' /\ InMemory' = InMemory
         /\ ~Idle' => (~Idle /\ since' = since) \/ since' = callers
         /\ Idle' => queue' = <<>> /\ queue = <<>> /\ Idle
         /\ ~Idle => ~Idle'
<1>1. QueueTypes  BY DEF WIInv
<1>2. CASE Idle
  <2>1. queue \in Seq(Events) /\ Len(queue) \in Nat /\ NextBatch(queue, callers) /\ batch = <<>>
    BY <1>1, <1>2 DEF QueueTypes, Idle
  <2>2. /\ queue' \in Seq(Events) /\ batch' \in Seq(Events) /\ Len(batch') <= BatchSize
        /\ Len(queue') + Len(batch') = Len(queue)
        /\ InMemory' = ToSet(queue)
        /\ queue = <<>> => queue' = <<>> /\ batch' = <<>>
        /\ queue # <<>> => batch' # <<>>
        /\ posts' \in 0 .. Retries - 1 /\ since' = callers
    BY <2>1, BatchTaken
  <2>3. Len(queue') + Len(batch') <= MaxBuffer + BatchSize
    <3>1. Len(queue) + Len(batch) <= MaxBuffer + BatchSize /\ Len(batch) = 0
      BY <1>1, <2>1 DEF QueueTypes
    <3> QED  BY <2>1, <2>2, <3>1
  <2>4. QueueTypes'  BY <2>2, <2>3 DEF QueueTypes
  <2>5. ToSet(<<>>) = {}  BY DEF ToSet
  <2>6. InMemory = ToSet(queue)  BY <2>1, <2>5 DEF InMemory
  <2> QED  BY <1>2, <2>2, <2>4, <2>6 DEF Idle
<1>3. CASE ~Idle  BY <1>1, <1>3 DEF QueueTypes, InMemory, Idle
<1> QED  BY <1>2, <1>3

LEMMA TimerFiresKeeps ==
  ASSUME WIInv, TimerFires  PROVE  WIInv'
<1>1. /\ running /\ drainTimer' = FALSE
      /\ IF Idle THEN NextBatch(queue, Callers) ELSE UNCHANGED <<queue, batch, posts, since>>
      /\ UNCHANGED <<records, backups, outnumbered, retainOnAck, running, closed, flush, called, mine, accepted,
                     acknowledged, deferred, torn, touched, stops>>
  BY DEF TimerFires, BeginDrain, store, aside, ghosts
<1>2. Callers \subseteq Flushers  BY DEF Callers
<1>3. /\ QueueTypes' /\ InMemory' = InMemory
      /\ ~Idle' => (~Idle /\ since' = since) \/ since' = Callers
      /\ Idle' => queue' = <<>>
  BY <1>1, <1>2, DrainBegins
<1>4. Known' = Known  BY <1>1, <1>3 DEF Known
<1>5. StoreTypes' /\ GhostTypes'  BY <1>1 DEF WIInv, StoreTypes, GhostTypes, AsideTypes
<1>6. StoredUntilAcked'  BY <1>1 DEF WIInv, StoredUntilAcked, InFile, InBackups
<1>7. NothingForgotten'  BY <1>1, <1>3 DEF WIInv, NothingForgotten
<1>8. Stopped' /\ NoStall'  BY <1>1, <1>3 DEF Stopped, NoStall
<1>9. FlushTypes' /\ FlushTries' /\ Covered'  BY <1>1, <1>3, <1>4, FlushesStay
<1> QED  BY <1>3, <1>5, <1>6, <1>7, <1>8, <1>9 DEF WIInv

LEMMA ShutdownKeeps ==
  ASSUME WIInv, Shutdown  PROVE  WIInv'
<1>1. /\ running /\ closed' = TRUE /\ drainTimer' = FALSE
      /\ UNCHANGED <<records, backups, outnumbered, retainOnAck, running, queue, batch, posts, since, flush, called,
                     mine, accepted, acknowledged, deferred, torn, touched, stops>>
  BY DEF Shutdown, store, aside, ghosts
<1>2. Known' = Known /\ InMemory' = InMemory /\ (Idle' <=> Idle)
  BY <1>1 DEF Known, InMemory, Idle
<1>3. StoreTypes' /\ QueueTypes' /\ GhostTypes'
  BY <1>1 DEF WIInv, StoreTypes, QueueTypes, GhostTypes, AsideTypes
<1>4. StoredUntilAcked' /\ NothingForgotten'
  BY <1>1, <1>2 DEF WIInv, StoredUntilAcked, NothingForgotten, InFile, InBackups
<1>5. Stopped' /\ NoStall'  BY <1>1 DEF Stopped, NoStall
<1>6. FlushTypes' /\ FlushTries' /\ Covered'  BY <1>1, <1>2, FlushesStay
<1> QED  BY <1>3, <1>4, <1>5, <1>6 DEF WIInv

LEMMA FlushResumesKeeps ==
  ASSUME WIInv, NEW f \in Flushers, FlushResumes(f)  PROVE  WIInv'
<1> DEFINE to == IF Idle /\ queue = <<>> THEN "done" ELSE "draining"
<1>1. /\ running /\ flush[f].at = "resumed" /\ flush' = [flush EXCEPT ![f].at = to]
      /\ IF Idle THEN BeginDrain(queue, Callers) ELSE UNCHANGED drain
      /\ UNCHANGED <<records, backups, outnumbered, retainOnAck, running, closed, called, mine, accepted,
                     acknowledged, deferred, torn, touched, stops>>
  BY DEF FlushResumes, store, aside, ghosts
<1>2. Callers \subseteq Flushers  BY DEF Callers
<1>3. drainTimer' \in BOOLEAN  BY <1>1 DEF BeginDrain, drain, WIInv, QueueTypes
<1>4. IF Idle THEN NextBatch(queue, Callers) ELSE UNCHANGED <<queue, batch, posts, since>>
  BY <1>1 DEF BeginDrain, drain
<1>5. /\ QueueTypes' /\ InMemory' = InMemory
      /\ ~Idle' => (~Idle /\ since' = since) \/ since' = Callers
      /\ Idle' => queue' = <<>>
  BY <1>2, <1>3, <1>4, DrainBegins
<1>6. Known' = Known  BY <1>1, <1>5 DEF Known
<1>7. StoreTypes' /\ GhostTypes'  BY <1>1 DEF WIInv, StoreTypes, GhostTypes, AsideTypes
<1>8. StoredUntilAcked'  BY <1>1 DEF WIInv, StoredUntilAcked, InFile, InBackups
<1>9. NothingForgotten'  BY <1>1, <1>5 DEF WIInv, NothingForgotten
<1>10. Stopped' /\ NoStall'  BY <1>1, <1>5 DEF Stopped, NoStall
<1>11. to \in {"done", "draining"} /\ (to = "done" => Idle /\ queue = <<>>)  OBVIOUS
<1> HIDE DEF to
<1>12. FlushTypes /\ flush[f] \in Flushes  BY DEF WIInv, FlushTypes
<1>13. /\ flush' \in [Flushers -> Flushes]
       /\ flush'[f].at = to /\ flush'[f].covers = flush[f].covers /\ flush'[f].tried = flush[f].tried
       /\ \A g \in Flushers : g # f => flush'[g] = flush[g]
  BY <1>1, <1>11, <1>12 DEF FlushTypes, Flushes
<1>14. to = "done" => InMemory = {}
  <2>1. ToSet(<<>>) = {}  BY DEF ToSet
  <2> QED  BY <1>11, <2>1 DEF InMemory, Idle
<1>15. flush[f].tried \/ flush[f].covers \subseteq Known  BY <1>1 DEF WIInv, Covered
<1>16. FlushTries'
  <2> SUFFICES ASSUME NEW g \in Flushers, flush'[g].at = "done"
               PROVE  flush'[g].tried \/ flush'[g].covers \subseteq acknowledged' \union deferred'
    BY DEF FlushTries
  <2>1. CASE g = f  BY <1>1, <1>13, <1>14, <1>15, <2>1 DEF Known
  <2>2. CASE g # f  BY <1>1, <1>13, <2>2 DEF WIInv, FlushTries
  <2> QED  BY <2>1, <2>2
<1>17. Covered'
  <2> SUFFICES ASSUME NEW g \in Flushers
               PROVE  /\ flush'[g].at # "idle" => flush'[g].tried \/ flush'[g].covers \subseteq Known'
                      /\ ~Idle' /\ flush'[g].at \in {"resumed", "draining"} => g \in since'
    BY DEF Covered
  <2>1. /\ flush[g].at # "idle" => flush[g].tried \/ flush[g].covers \subseteq Known
        /\ ~Idle /\ flush[g].at \in {"resumed", "draining"} => g \in since
    BY DEF WIInv, Covered
  <2>2. flush[g].at \in {"resumed", "draining"} => g \in Callers  BY DEF Callers
  <2>3. CASE g = f  BY <1>1, <1>5, <1>6, <1>13, <2>1, <2>2, <2>3
  <2>4. CASE g # f  BY <1>5, <1>6, <1>13, <2>1, <2>2, <2>4
  <2> QED  BY <2>3, <2>4
<1>18. FlushTypes'  BY <1>13 DEF FlushTypes
<1> QED  BY <1>5, <1>7, <1>8, <1>9, <1>10, <1>16, <1>17, <1>18 DEF WIInv

LEMMA CallFlushKeeps ==
  ASSUME WIInv, NEW f \in Flushers, CallFlush(f)  PROVE  WIInv'
<1> DEFINE to == IF ~Idle THEN "waiting" ELSE IF queue = <<>> THEN "done" ELSE "draining"
           mark == [at |-> to, covers |-> InMemory, tried |-> FALSE]
<1>1. /\ running /\ touched' = TRUE /\ drainTimer' = FALSE /\ flush' = [flush EXCEPT ![f] = mark]
      /\ IF Idle THEN NextBatch(queue, Callers \union {f})
                 ELSE UNCHANGED <<queue, batch, posts, since>>
      /\ UNCHANGED <<records, backups, outnumbered, retainOnAck, running, closed, called, mine, accepted,
                     acknowledged, deferred, torn, stops>>
  BY DEF CallFlush, store, aside, Callers
<1>2. Callers \union {f} \subseteq Flushers  BY DEF Callers
<1>3. /\ QueueTypes' /\ InMemory' = InMemory
      /\ ~Idle' => (~Idle /\ since' = since) \/ since' = Callers \union {f}
      /\ Idle' => queue' = <<>>
  BY <1>1, <1>2, DrainBegins
<1>4. Known' = Known  BY <1>1, <1>3 DEF Known
<1>5. StoreTypes' /\ GhostTypes'  BY <1>1 DEF WIInv, StoreTypes, GhostTypes, AsideTypes
<1>6. StoredUntilAcked'  BY <1>1 DEF WIInv, StoredUntilAcked, InFile, InBackups
<1>7. NothingForgotten'  BY <1>1, <1>3 DEF WIInv, NothingForgotten
<1>8. Stopped' /\ NoStall'  BY <1>1, <1>3 DEF Stopped, NoStall
<1>9. /\ to \in {"waiting", "done", "draining"} /\ (to = "done" => Idle /\ queue = <<>>)
      /\ to = "draining" => Idle
  OBVIOUS
<1>10. InMemory \subseteq Events /\ InMemory \subseteq Known
  BY DEF WIInv, QueueTypes, InMemory, ToSet, Known
<1> HIDE DEF to
<1>11. mark \in Flushes  BY <1>9, <1>10 DEF Flushes
<1>12. mark.at = to /\ mark.covers = InMemory  OBVIOUS
<1> HIDE DEF mark
<1>13. /\ flush' \in [Flushers -> Flushes] /\ flush'[f] = mark
       /\ \A g \in Flushers : g # f => flush'[g] = flush[g]
  BY <1>1, <1>11 DEF WIInv, FlushTypes
<1>14. to = "done" => InMemory = {}
  <2>1. ToSet(<<>>) = {}  BY DEF ToSet
  <2> QED  BY <1>9, <2>1 DEF InMemory, Idle
<1>15. FlushTries'
  <2> SUFFICES ASSUME NEW g \in Flushers, flush'[g].at = "done"
               PROVE  flush'[g].tried \/ flush'[g].covers \subseteq acknowledged' \union deferred'
    BY DEF FlushTries
  <2>1. CASE g = f  BY <1>12, <1>13, <1>14, <2>1
  <2>2. CASE g # f  BY <1>1, <1>13, <2>2 DEF WIInv, FlushTries
  <2> QED  BY <2>1, <2>2
<1>16. Covered'
  <2> SUFFICES ASSUME NEW g \in Flushers
               PROVE  /\ flush'[g].at # "idle" => flush'[g].tried \/ flush'[g].covers \subseteq Known'
                      /\ ~Idle' /\ flush'[g].at \in {"resumed", "draining"} => g \in since'
    BY DEF Covered
  <2>1. /\ flush[g].at # "idle" => flush[g].tried \/ flush[g].covers \subseteq Known
        /\ ~Idle /\ flush[g].at \in {"resumed", "draining"} => g \in since
    BY DEF WIInv, Covered
  <2>2. flush[g].at \in {"resumed", "draining"} => g \in Callers  BY DEF Callers
  <2>3. CASE g = f
    <3>1. flush'[g].at = to /\ flush'[g].covers \subseteq Known'  BY <1>4, <1>10, <1>12, <1>13, <2>3
    <3>2. to \in {"resumed", "draining"} => Idle  BY <1>9
    <3>3. Idle /\ ~Idle' => f \in since'  BY <1>3
    <3> QED  BY <2>3, <3>1, <3>2, <3>3
  <2>4. CASE g # f  BY <1>3, <1>4, <1>13, <2>1, <2>2, <2>4
  <2> QED  BY <2>3, <2>4
<1>17. FlushTypes'  BY <1>13 DEF FlushTypes
<1> QED  BY <1>3, <1>5, <1>6, <1>7, <1>8, <1>15, <1>16, <1>17 DEF WIInv

LEMMA BatchAckedKeeps ==
  ASSUME WIInv, BatchAcked  PROVE  WIInv'
<1>1. /\ ~Idle /\ acknowledged' = acknowledged \union ToSet(batch)
      /\ RemoveAcked(ToSet(batch))
      /\ UNCHANGED <<retainOnAck, running, closed, called, mine, accepted, deferred, torn, touched,
                     stops, drainTimer>>
      /\ \/ /\ queue # <<>> /\ NextBatch(queue, Callers) /\ flush' = flush
         \/ /\ queue = <<>> /\ DrainEnds(FALSE) /\ queue' = queue
  BY DEF BatchAcked
<1>2. StoreTypes /\ QueueTypes /\ FlushTypes /\ GhostTypes  BY DEF WIInv
<1>3. /\ queue \in Seq(Events) /\ batch \in Seq(Events) /\ ToSet(batch) \subseteq Events
      /\ Len(queue) \in Nat /\ Len(batch) \in Nat
      /\ Len(queue) + Len(batch) <= MaxBuffer + BatchSize
      /\ BatchSize \in Nat /\ MaxBuffer \in Nat /\ Retries \in Nat /\ Retries > 0
      /\ ToSet(<<>>) = {}
  BY <1>2, SizeAssumption DEF QueueTypes, ToSet
<1>4. running /\ running'
  <2>1. batch # <<>>  BY <1>1 DEF Idle
  <2> QED  BY <1>1, <2>1 DEF WIInv, Stopped
<1>5. /\ records' \in Seq(Events) /\ AsideTypes'
      /\ InFile \union Aside \subseteq InFile' \union Aside' \union ToSet(batch)
  BY <1>1, <1>2, AckedRemoved
<1>6. StoreTypes' /\ GhostTypes'  BY <1>1, <1>2, <1>3, <1>5 DEF StoreTypes, GhostTypes, AsideTypes
<1>7. StoredUntilAcked'  BY <1>1, <1>5 DEF WIInv, StoredUntilAcked, Aside
<1>8. Stopped'  BY <1>4 DEF Stopped
<1>9. CASE queue # <<>> /\ NextBatch(queue, Callers) /\ flush' = flush
  <2>1. /\ queue' \in Seq(Events) /\ batch' \in Seq(Events) /\ Len(batch') <= BatchSize
        /\ Len(queue') + Len(batch') = Len(queue) /\ InMemory' = ToSet(queue)
        /\ batch' # <<>> /\ posts' \in 0 .. Retries - 1 /\ since' = Callers
    BY <1>3, <1>9, BatchTaken
  <2>2. Len(queue') + Len(batch') <= MaxBuffer + BatchSize  BY <1>3, <2>1
  <2>3. QueueTypes'  BY <1>1, <1>2, <2>1, <2>2 DEF QueueTypes, Callers
  <2>4. Known \subseteq Known'  BY <1>1, <2>1 DEF Known, InMemory
  <2>5. NothingForgotten'  BY <1>1, <1>4, <2>4 DEF WIInv, NothingForgotten, Known
  <2>6. NoStall'  BY <2>1 DEF NoStall, Idle
  <2>7. FlushTypes' /\ FlushTries' /\ Covered'  BY <1>1, <1>9, <2>1, <2>4, FlushesStay
  <2> QED  BY <1>6, <1>7, <1>8, <2>3, <2>5, <2>6, <2>7 DEF WIInv
<1>10. CASE queue = <<>> /\ DrainEnds(FALSE) /\ queue' = queue
  <2>1. /\ FlushTypes' /\ batch' = <<>> /\ posts' = 0 /\ since' = {}
        /\ \A f \in Flushers :
              /\ flush'[f].covers = flush[f].covers
              /\ flush[f].tried => flush'[f].tried
              /\ flush[f].at = "idle" => flush'[f].at = "idle"
    BY <1>2, <1>10, FlushesGoOn
  <2>2. Len(batch') = 0 /\ Len(queue') = 0 /\ batch' \in Seq(Events) /\ queue' \in Seq(Events)
    BY <1>10, <2>1
  <2>3. QueueTypes'  BY <1>1, <1>2, <1>3, <2>1, <2>2 DEF QueueTypes
  <2>4. Known \subseteq acknowledged' \union deferred'  BY <1>1, <1>3, <1>10 DEF Known, InMemory
  <2>5. Known \subseteq Known'  BY <2>4 DEF Known
  <2>6. NothingForgotten'  BY <1>1, <1>4, <2>5 DEF WIInv, NothingForgotten, Known
  <2>7. NoStall'  BY <1>10 DEF NoStall
  <2>8. ASSUME NEW f \in Flushers, flush'[f].at # "idle"
        PROVE  flush'[f].tried \/ flush'[f].covers \subseteq acknowledged' \union deferred'
    <3>1. flush[f].tried \/ flush[f].covers \subseteq Known  BY <2>1, <2>8 DEF WIInv, Covered
    <3> QED  BY <2>1, <2>4, <3>1
  <2>9. FlushTries'  BY <2>8 DEF FlushTries
  <2>10. Covered'  BY <2>1, <2>8 DEF Covered, Known, Idle
  <2> QED  BY <1>6, <1>7, <1>8, <2>1, <2>3, <2>6, <2>7, <2>9, <2>10 DEF WIInv
<1> QED  BY <1>1, <1>9, <1>10

LEMMA BatchRetriedKeeps ==
  ASSUME WIInv, BatchRetried  PROVE  WIInv'
<1>1. /\ posts + 1 < Retries /\ posts' = posts + 1
      /\ UNCHANGED <<records, backups, outnumbered, retainOnAck, running, closed, queue, batch, drainTimer, since,
                     flush, called, mine, accepted, acknowledged, deferred, torn, touched, stops>>
  BY DEF BatchRetried, store, aside, ghosts
<1>2. Known' = Known /\ InMemory' = InMemory /\ (Idle' <=> Idle) /\ InFile' = InFile
  BY <1>1 DEF Known, InMemory, Idle, InFile
<1>3. posts' \in 0 .. Retries - 1
  <2>1. posts \in 0 .. Retries - 1 /\ Retries \in Nat  BY SizeAssumption DEF WIInv, QueueTypes
  <2> QED  BY <1>1, <2>1
<1>4. StoreTypes' /\ QueueTypes' /\ GhostTypes'
  BY <1>1, <1>3 DEF WIInv, StoreTypes, QueueTypes, GhostTypes, AsideTypes
<1>5. StoredUntilAcked' /\ NothingForgotten'
  BY <1>1, <1>2 DEF WIInv, StoredUntilAcked, NothingForgotten, InBackups
<1>6. Stopped' /\ NoStall'  BY <1>1, <1>2 DEF WIInv, Stopped, NoStall
<1>7. FlushTypes' /\ FlushTries' /\ Covered'  BY <1>1, <1>2, FlushesStay
<1> QED  BY <1>4, <1>5, <1>6, <1>7 DEF WIInv

LEMMA BatchFailedKeeps ==
  ASSUME WIInv, BatchFailed  PROVE  WIInv'
<1>1. /\ ~Idle /\ queue' = batch \o queue /\ drainTimer' = TRUE /\ DrainEnds(TRUE)
      /\ UNCHANGED <<records, backups, outnumbered, retainOnAck, running, closed, called, mine, accepted,
                     acknowledged, deferred, torn, touched, stops>>
  BY DEF BatchFailed, PutBack, Reschedule, store, aside, ghosts
<1>2. StoreTypes /\ QueueTypes /\ FlushTypes /\ GhostTypes  BY DEF WIInv
<1>3. /\ queue \in Seq(Events) /\ batch \in Seq(Events)
      /\ Len(queue) \in Nat /\ Len(batch) \in Nat
      /\ Len(queue) + Len(batch) <= MaxBuffer + BatchSize
      /\ BatchSize \in Nat /\ MaxBuffer \in Nat /\ Retries \in Nat /\ Retries > 0
  BY <1>2, SizeAssumption DEF QueueTypes
<1>4. running /\ running'
  <2>1. batch # <<>>  BY <1>1 DEF Idle
  <2> QED  BY <1>1, <2>1 DEF WIInv, Stopped
<1>5. /\ batch \o queue \in Seq(Events) /\ Len(batch \o queue) = Len(batch) + Len(queue)
      /\ ToSet(batch \o queue) = ToSet(batch) \union ToSet(queue)
  BY <1>3, Joined
<1>6. /\ queue' \in Seq(Events) /\ Len(queue') = Len(batch) + Len(queue)
      /\ ToSet(queue') = ToSet(batch) \union ToSet(queue)
  <2> DEFINE r == batch \o queue
  <2>1. queue' = r /\ r \in Seq(Events) /\ Len(r) = Len(batch) + Len(queue)
        /\ ToSet(r) = ToSet(batch) \union ToSet(queue)
    BY <1>1, <1>5
  <2> HIDE DEF r
  <2>2. ToSet(queue') = ToSet(r)  BY <2>1
  <2> QED  BY <2>1, <2>2
<1>7. /\ FlushTypes' /\ batch' = <<>> /\ posts' = 0 /\ since' = {}
      /\ \A f \in Flushers :
            /\ flush'[f].covers = flush[f].covers
            /\ flush[f].tried => flush'[f].tried
            /\ f \in since => flush'[f].tried
            /\ flush[f].at = "idle" => flush'[f].at = "idle"
            /\ flush'[f].at = "done" => flush[f].at \in {"done", "draining"}
  BY <1>1, <1>2, FlushesGoOn
<1>8. batch' \in Seq(Events) /\ Len(batch') = 0  BY <1>7
<1>9. QueueTypes'
  <2>1. Len(queue') + Len(batch') <= MaxBuffer + BatchSize /\ Len(batch') <= BatchSize
    BY <1>3, <1>6, <1>8
  <2>2. posts' \in 0 .. Retries - 1  BY <1>3, <1>7
  <2> QED  BY <1>1, <1>6, <1>7, <1>8, <2>1, <2>2 DEF QueueTypes
<1>10. Known \subseteq Known'  BY <1>1, <1>6 DEF Known, InMemory
<1>11. StoreTypes' /\ GhostTypes'  BY <1>1, <1>2 DEF StoreTypes, GhostTypes, AsideTypes
<1>12. StoredUntilAcked'  BY <1>1 DEF WIInv, StoredUntilAcked, InFile, InBackups
<1>13. NothingForgotten'  BY <1>1, <1>4, <1>10 DEF WIInv, NothingForgotten, Known
<1>14. Stopped' /\ NoStall'  BY <1>1, <1>4 DEF Stopped, NoStall
<1>15. FlushTries'
  <2> SUFFICES ASSUME NEW f \in Flushers, flush'[f].at = "done"
               PROVE  flush'[f].tried \/ flush'[f].covers \subseteq acknowledged' \union deferred'
    BY DEF FlushTries
  <2>1. CASE flush[f].at = "done"  BY <1>1, <1>7, <2>1 DEF WIInv, FlushTries
  <2>2. CASE flush[f].at = "draining"
    <3>1. f \in since  BY <1>1, <2>2 DEF WIInv, Covered
    <3> QED  BY <1>7, <3>1
  <2> QED  BY <1>7, <2>1, <2>2
<1>16. Covered'
  <2>1. Idle'  BY <1>7 DEF Idle
  <2>2. ASSUME NEW f \in Flushers, flush'[f].at # "idle"
        PROVE  flush'[f].tried \/ flush'[f].covers \subseteq Known'
    <3>1. flush[f].tried \/ flush[f].covers \subseteq Known  BY <1>7, <2>2 DEF WIInv, Covered
    <3> QED  BY <1>7, <1>10, <3>1
  <2> QED  BY <2>1, <2>2 DEF Covered
<1> QED  BY <1>7, <1>9, <1>11, <1>12, <1>13, <1>14, <1>15, <1>16 DEF WIInv

(* Whatever the file and what is acknowledged become, the process leaves    *)
(* nothing behind in memory.                                                *)
LEMMA ProcessIsGone ==
  ASSUME WIInv, ProcessEnds, records' \in Seq(Events), acknowledged' \subseteq Events,
         torn' \subseteq Events, StoredUntilAcked'
  PROVE  WIInv'
<1> DEFINE idle == [at |-> "idle", covers |-> {}, tried |-> FALSE]
<1>1. /\ stops < MaxStops /\ running' = FALSE /\ stops' = stops + 1
      /\ queue' = <<>> /\ batch' = <<>> /\ posts' = 0 /\ drainTimer' = FALSE /\ since' = {}
      /\ flush' = [f \in Flushers |-> idle]
      /\ mine' = {} /\ deferred' = {} /\ touched' = FALSE
      /\ UNCHANGED <<backups, outnumbered, retainOnAck, closed, called, accepted>>
  BY DEF ProcessEnds, aside
<1>2. StoreTypes /\ QueueTypes /\ GhostTypes  BY DEF WIInv
<1>3. {BatchSize, MaxBuffer, Retries} \subseteq Nat \ {0} /\ MaxStops \in Nat
  BY SizeAssumption
<1>4. StoreTypes'  BY <1>1, <1>2 DEF StoreTypes, AsideTypes
<1>5. QueueTypes'
  <2>1. Len(queue') = 0 /\ Len(batch') = 0 /\ queue' \in Seq(Events) /\ batch' \in Seq(Events)
    BY <1>1
  <2>2. Len(batch') <= BatchSize /\ Len(queue') + Len(batch') <= MaxBuffer + BatchSize
    BY <1>3, <2>1
  <2>3. posts' \in 0 .. Retries - 1  BY <1>1, <1>3
  <2>4. since' \subseteq Flushers /\ drainTimer' \in BOOLEAN  BY <1>1
  <2> QED  BY <2>1, <2>2, <2>3, <2>4, Zenon DEF QueueTypes
<1>6. GhostTypes'
  <2>1. stops' \in 0 .. MaxStops  BY <1>1, <1>2, <1>3 DEF GhostTypes
  <2> QED  BY <1>1, <1>2, <2>1 DEF GhostTypes
<1>7. idle \in Flushes /\ idle.at = "idle"  BY DEF Flushes
<1> HIDE DEF idle
<1>8. FlushTypes' /\ \A f \in Flushers : flush'[f].at = "idle"
  <2>1. \A f \in Flushers : flush'[f] = idle  BY <1>1
  <2>2. flush' \in [Flushers -> Flushes]  BY <1>1, <1>7
  <2> QED  BY <1>7, <2>1, <2>2 DEF FlushTypes
<1>9. Stopped' /\ NothingForgotten' /\ NoStall'
  BY <1>1, <1>8 DEF Stopped, NothingForgotten, NoStall
<1>10. FlushTries' /\ Covered'  BY <1>8 DEF FlushTries, Covered
<1> QED  BY <1>4, <1>5, <1>6, <1>8, <1>9, <1>10 DEF WIInv

LEMMA StopKeeps ==
  ASSUME WIInv, Stop  PROVE  WIInv'
<1>1. ProcessEnds /\ UNCHANGED <<records, acknowledged, torn>>  BY DEF Stop
<1>2. UNCHANGED <<backups, outnumbered, accepted>>  BY <1>1 DEF ProcessEnds, aside
<1>3. StoredUntilAcked'  BY <1>1, <1>2 DEF WIInv, StoredUntilAcked, InFile, InBackups
<1>4. records' \in Seq(Events) /\ acknowledged' \subseteq Events /\ torn' \subseteq Events
  BY <1>1 DEF WIInv, StoreTypes, GhostTypes
<1> QED  BY <1>1, <1>3, <1>4, ProcessIsGone

(* A rewrite the process did not survive: what it had not written again is  *)
(* what the model calls torn.                                               *)
LEMMA StopInRemoveKeeps ==
  ASSUME WIInv, StopInRemove  PROVE  WIInv'
<1>1. /\ ProcessEnds
      /\ acknowledged' = acknowledged \union ToSet(batch)
      /\ torn' = torn \union (InFile \ (ToSet(records') \union acknowledged'))
  BY DEF StopInRemove
<1>2. StoreTypes /\ QueueTypes /\ GhostTypes  BY DEF WIInv
<1>3. PICK left \in Without(ToSet(batch)) : \E n \in 0 .. Len(left) : records' = SubSeq(left, 1, n)
  BY DEF StopInRemove
<1>4. left \in Seq(Events) /\ Len(left) \in Nat  BY <1>2, RecordsLeft
<1>9. PICK n \in 0 .. Len(left) : records' = SubSeq(left, 1, n)  BY <1>3
<1>5. records' \in Seq(Events)
  <2>1. n \in Nat /\ n <= Len(left)  BY <1>4
  <2> QED  BY <1>9, <1>4, <2>1, FrontLines
<1>6. InFile \subseteq Events /\ ToSet(batch) \subseteq Events
  BY <1>2 DEF StoreTypes, QueueTypes, InFile, ToSet
<1>7. acknowledged' \subseteq Events /\ torn' \subseteq Events
  BY <1>1, <1>2, <1>6 DEF GhostTypes
<1>8. StoredUntilAcked'
  <2>1. UNCHANGED <<backups, outnumbered, accepted>>  BY <1>1 DEF ProcessEnds, aside
  <2> QED  BY <1>1, <2>1 DEF WIInv, StoredUntilAcked, InFile, InBackups
<1> QED  BY <1>1, <1>5, <1>7, <1>8, ProcessIsGone

LEMMA RestartKeeps ==
  ASSUME WIInv, Restart  PROVE  WIInv'
<1> DEFINE first == IF Len(records) > MaxBuffer THEN Len(records) - MaxBuffer ELSE 0
<1>1. /\ ~running /\ running' = TRUE /\ closed' = FALSE
      /\ queue' = SubSeq(records, IF Len(records) > MaxBuffer THEN Len(records) - MaxBuffer + 1 ELSE 1,
                         Len(records))
      /\ mine' = InFile /\ deferred' = InFile \ ToSet(queue')
      /\ UNCHANGED <<records, backups, outnumbered, retainOnAck, batch, posts, drainTimer, since, flush, called,
                     accepted, acknowledged, torn, touched, stops>>
  BY DEF Restart, store, aside
<1>2. StoreTypes /\ QueueTypes /\ FlushTypes /\ GhostTypes  BY DEF WIInv
<1>3. batch = <<>> /\ ~touched /\ \A f \in Flushers : flush[f].at = "idle"
  BY <1>1 DEF WIInv, Stopped
<1>4. records \in Seq(Events) /\ Len(records) \in Nat /\ MaxBuffer \in Nat /\ BatchSize \in Nat
  BY <1>2, SizeAssumption DEF StoreTypes
<1>5. first \in Nat /\ first <= Len(records) /\ Len(records) - first <= MaxBuffer  BY <1>4
<1>6. queue' = SubSeq(records, first + 1, Len(records))  BY <1>1, <1>4
<1> HIDE DEF first
<1>7. queue' \in Seq(Events)  BY <1>4, <1>5, <1>6, CutOff
<1>8. Len(queue') <= MaxBuffer  BY <1>4, <1>5, <1>6
<1>9. StoreTypes'  BY <1>1, <1>2 DEF StoreTypes, AsideTypes
<1>10. QueueTypes'
  <2>1. batch' = <<>> /\ Len(batch') = 0  BY <1>1, <1>3
  <2>2. Len(queue') + Len(batch') <= MaxBuffer + BatchSize  BY <1>4, <1>7, <1>8, <2>1
  <2> QED  BY <1>1, <1>2, <1>7, <2>2 DEF QueueTypes
<1>11. InFile \subseteq Events  BY <1>2 DEF StoreTypes, InFile, ToSet
<1>12. GhostTypes'  BY <1>1, <1>2, <1>11 DEF GhostTypes
<1>13. StoredUntilAcked'  BY <1>1 DEF WIInv, StoredUntilAcked, InFile, InBackups
<1>14. NothingForgotten'  BY <1>1 DEF NothingForgotten, InMemory
<1>15. Stopped' /\ NoStall'  BY <1>1, <1>3 DEF Stopped, NoStall
<1>16. FlushTypes' /\ \A f \in Flushers : flush'[f].at = "idle"  BY <1>1, <1>2, <1>3 DEF FlushTypes
<1>17. FlushTries' /\ Covered'  BY <1>16 DEF FlushTries, Covered
<1> QED  BY <1>9, <1>10, <1>12, <1>13, <1>14, <1>15, <1>16, <1>17 DEF WIInv

LEMMA WInitHolds ==
  ASSUME WInit  PROVE  WIInv
<1> DEFINE idle == [at |-> "idle", covers |-> {}, tried |-> FALSE]
<1>1. /\ records = <<>> /\ backups = <<>> /\ outnumbered = {} /\ retainOnAck \in BOOLEAN
      /\ running = TRUE /\ closed = FALSE
      /\ queue = <<>> /\ batch = <<>> /\ posts = 0 /\ drainTimer = FALSE /\ since = {}
      /\ flush = [f \in Flushers |-> idle]
      /\ called = {} /\ mine = {} /\ accepted = {} /\ acknowledged = {} /\ deferred = {} /\ torn = {}
      /\ touched = FALSE /\ stops = 0
  BY DEF WInit
<1>2. {BatchSize, MaxBuffer, Retries} \subseteq Nat \ {0} /\ MaxStops \in Nat
  BY SizeAssumption
<1>3. StoreTypes /\ GhostTypes
  <2>1. StoreTypes  BY <1>1 DEF StoreTypes, AsideTypes
  <2>2. stops \in 0 .. MaxStops  BY <1>1, <1>2
  <2>3. /\ running \in BOOLEAN /\ closed \in BOOLEAN /\ touched \in BOOLEAN
        /\ called \subseteq Events /\ mine \subseteq Events /\ accepted \subseteq Events
        /\ acknowledged \subseteq Events /\ deferred \subseteq Events /\ torn \subseteq Events
    BY <1>1
  <2> QED  BY <2>1, <2>2, <2>3, Zenon DEF GhostTypes
<1>4. QueueTypes
  <2>1. Len(queue) = 0 /\ Len(batch) = 0 /\ queue \in Seq(Events) /\ batch \in Seq(Events)
    BY <1>1
  <2>2. Len(batch) <= BatchSize /\ Len(queue) + Len(batch) <= MaxBuffer + BatchSize
    BY <1>2, <2>1
  <2>3. posts \in 0 .. Retries - 1  BY <1>1, <1>2
  <2>4. since \subseteq Flushers /\ drainTimer \in BOOLEAN  BY <1>1
  <2> QED  BY <2>1, <2>2, <2>3, <2>4, Zenon DEF QueueTypes
<1>5. idle \in Flushes /\ idle.at = "idle"  BY DEF Flushes
<1> HIDE DEF idle
<1>6. FlushTypes /\ \A f \in Flushers : flush[f].at = "idle"
  <2>1. \A f \in Flushers : flush[f] = idle  BY <1>1
  <2>2. flush \in [Flushers -> Flushes]  BY <1>1, <1>5
  <2> QED  BY <1>5, <2>1, <2>2 DEF FlushTypes
<1>7. Stopped /\ StoredUntilAcked /\ NothingForgotten /\ NoStall
  BY <1>1 DEF Stopped, StoredUntilAcked, NothingForgotten, NoStall, InBackups
<1>8. FlushTries /\ Covered  BY <1>6 DEF FlushTries, Covered
<1> QED  BY <1>3, <1>4, <1>6, <1>7, <1>8 DEF WIInv

LEMMA WStutters ==
  ASSUME WIInv, UNCHANGED wvars  PROVE  WIInv'
<1>1. UNCHANGED <<records, backups, outnumbered, retainOnAck, running, closed, queue, batch, posts, drainTimer,
                  since, flush, called, mine, accepted, acknowledged, deferred, torn, touched, stops>>
  BY DEF wvars, store, aside, drain, ghosts
<1>2. Known' = Known /\ InMemory' = InMemory /\ (Idle' <=> Idle) /\ InFile' = InFile
  BY <1>1 DEF Known, InMemory, Idle, InFile
<1>3. StoreTypes' /\ QueueTypes' /\ GhostTypes'
  BY <1>1 DEF WIInv, StoreTypes, QueueTypes, GhostTypes, AsideTypes
<1>4. StoredUntilAcked' /\ NothingForgotten'
  BY <1>1, <1>2 DEF WIInv, StoredUntilAcked, NothingForgotten, InBackups
<1>5. Stopped' /\ NoStall'  BY <1>1, <1>2 DEF WIInv, Stopped, NoStall
<1>6. FlushTypes' /\ FlushTries' /\ Covered'  BY <1>1, <1>2, FlushesStay
<1> QED  BY <1>3, <1>4, <1>5, <1>6 DEF WIInv

(* What send(), flush(), the timer, the batches and the ends of the process *)
(* keep of the store, the queue and the flushes under way.                  *)
THEOREM QueueInductive == WSpec => []WIInv
<1>1. WInit => WIInv  BY WInitHolds
<1>2. WIInv /\ [WNext]_wvars => WIInv'
  <2> SUFFICES ASSUME WIInv, [WNext]_wvars  PROVE  WIInv'  OBVIOUS
  <2>1. ASSUME NEW x \in Events, Send(x)  PROVE  WIInv'  BY <2>1, SendKeeps
  <2>2. ASSUME NEW f \in Flushers, CallFlush(f)  PROVE  WIInv'  BY <2>2, CallFlushKeeps
  <2>3. ASSUME NEW f \in Flushers, FlushResumes(f)  PROVE  WIInv'  BY <2>3, FlushResumesKeeps
  <2>4. CASE TimerFires  BY <2>4, TimerFiresKeeps
  <2>5. CASE Shutdown  BY <2>5, ShutdownKeeps
  <2>6. CASE BatchAcked  BY <2>6, BatchAckedKeeps
  <2>7. CASE BatchRetried  BY <2>7, BatchRetriedKeeps
  <2>8. CASE BatchFailed  BY <2>8, BatchFailedKeeps
  <2>9. CASE Stop  BY <2>9, StopKeeps
  <2>10. CASE StopInRemove  BY <2>10, StopInRemoveKeeps
  <2>11. CASE Restart  BY <2>11, RestartKeeps
  <2>12. CASE UNCHANGED wvars  BY <2>12, WStutters
  <2> QED
    BY <2>1, <2>2, <2>3, <2>4, <2>5, <2>6, <2>7, <2>8, <2>9, <2>10, <2>11, <2>12 DEF WNext
<1> QED  BY <1>1, <1>2, PTL DEF WSpec

(* append(), its rotation and remove() keep what send() accepted until it   *)
(* is acknowledged, across any number of restarts.                          *)
THEOREM StoredIsSafe == WSpec => []StoredUntilAcked
<1>1. WIInv => StoredUntilAcked  BY DEF WIInv
<1> QED  BY <1>1, QueueInductive, PTL

(* enqueue(), drainQueueInner() and what it puts back forget no payload of  *)
(* this process, whatever fails.                                            *)
THEOREM NothingIsForgotten == WSpec => []NothingForgotten
<1>1. WIInv => NothingForgotten  BY DEF WIInv
<1> QED  BY <1>1, QueueInductive, PTL

(* The queue keeps its bound, goes on by itself, and flush() makes it try.  *)
THEOREM QueueIsSound == WSpec => []QueueSound
<1>1. WIInv => QueueSound
  <2> SUFFICES ASSUME WIInv  PROVE  QueueSound  OBVIOUS
  <2>1. WTypeOK
    BY DEF WIInv, StoreTypes, QueueTypes, FlushTypes, Flushes, GhostTypes, WTypeOK, AsideTypes
  <2> QED  BY <2>1 DEF WIInv, QueueSound
<1> QED  BY <1>1, QueueInductive, PTL

================================================================================
