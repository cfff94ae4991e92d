----------------------- MODULE TransportDispatcherProofs -----------------------
(***************************************************************************)
(* Proofs about TransportDispatcher, for any number of calls and any size  *)
(* of its queues.                                                          *)
(***************************************************************************)
EXTENDS TransportDispatcher, FiniteSetTheorems, WellFoundedInduction, TLAPS

(* Induction without an operator: a non-empty set of finite sets has one    *)
(* that is minimal, and a non-empty set of numbers has a least one.         *)
LEMMA SmallestSet ==
  ASSUME NEW S, NEW F, F \subseteq FiniteSubsetsOf(S), F # {}
  PROVE  \E T \in F : \A U \in F : ~(U \subseteq T /\ U # T)
<1> DEFINE R == StrictSubsetOrdering(S)
<1>1. IsWellFoundedOn(R, FiniteSubsetsOf(S))  BY FS_StrictSubsetOrderingWellFounded
<1>2. \A T, U \in F : U \subseteq T /\ U # T => <<U, T>> \in R
  BY DEF StrictSubsetOrdering, FiniteSubsetsOf
<1> HIDE DEF R
<1>3. \E x \in F : \A y \in F : ~ (<<y, x>> \in R)  BY <1>1, WFMin, Zenon
<1> QED  BY <1>2, <1>3, Zenon

LEMMA LeastElement ==
  ASSUME NEW T, T \subseteq Nat, T # {}
  PROVE  \E n \in T : \A m \in T : n <= m
<1> DEFINE F == {0 .. n : n \in T}
<1>1. F \subseteq FiniteSubsetsOf(Nat)
  <2> SUFFICES ASSUME NEW n \in T  PROVE  0 .. n \in FiniteSubsetsOf(Nat)  OBVIOUS
  <2>1. IsFiniteSet(0 .. n)  BY FS_Interval
  <2> QED  BY <2>1 DEF FiniteSubsetsOf
<1>2. F # {}  OBVIOUS
<1>3. PICK A \in F : \A U \in F : ~(U \subseteq A /\ U # A)
  <2> HIDE DEF F
  <2>1. \E A \in F : \A U \in F : ~(U \subseteq A /\ U # A)  BY <1>1, <1>2, SmallestSet
  <2> QED  BY <2>1
<1>4. PICK n \in T : A = 0 .. n  OBVIOUS
<1>5. ASSUME NEW m \in T, m < n  PROVE  FALSE
  <2>1. n \in 0 .. n /\ n \notin 0 .. m  BY <1>5
  <2>2. 0 .. m \subseteq 0 .. n /\ 0 .. m # 0 .. n  BY <2>1, <1>5
  <2> QED  BY <2>2, <1>3, <1>4
<1> QED  BY <1>5

-------------------------------------------------------------------------------
(* Sequences                                                                *)

Once(q) == \A m, n \in 1 .. Len(q) : q[m] = q[n] => m = n

LEMMA Appended ==
  ASSUME NEW S, NEW q \in Seq(S), NEW x \in S
  PROVE  LET r == Append(q, x)
         IN  /\ r \in Seq(S) /\ Len(r) = Len(q) + 1 /\ r[Len(q) + 1] = x
             /\ \A n \in 1 .. Len(q) : r[n] = q[n]
             /\ ToSet(r) = ToSet(q) \union {x}
             /\ Once(q) /\ x \notin ToSet(q) => Once(r)
<1> DEFINE r == Append(q, x)
<1>1. /\ r \in Seq(S) /\ Len(r) = Len(q) + 1 /\ r[Len(q) + 1] = x
      /\ \A n \in 1 .. Len(q) : r[n] = q[n]
  OBVIOUS
<1> HIDE DEF r
<1>2. DOMAIN q = 1 .. Len(q) /\ DOMAIN r = 1 .. Len(q) + 1 /\ Len(q) \in Nat  BY <1>1
<1>3. ToSet(r) = ToSet(q) \union {x}  BY <1>1, <1>2 DEF ToSet
<1>4. Once(q) /\ x \notin ToSet(q) => Once(r)  BY <1>1, <1>2 DEF ToSet, Once
<1> QED  BY <1>1, <1>3, <1>4 DEF r

LEMMA Taken ==
  ASSUME NEW S, NEW q \in Seq(S), q # <<>>
  PROVE  LET t == Tail(q)
         IN  /\ t \in Seq(S) /\ Len(t) = Len(q) - 1 /\ Head(q) \in S
             /\ \A n \in 1 .. Len(q) - 1 : t[n] = q[n + 1]
             /\ ToSet(q) = ToSet(t) \union {Head(q)}
             /\ Once(q) => Once(t) /\ Head(q) \notin ToSet(t)
<1> DEFINE t == Tail(q)
<1>1. /\ t \in Seq(S) /\ Len(t) = Len(q) - 1 /\ Head(q) \in S /\ Head(q) = q[1]
      /\ \A n \in 1 .. Len(q) - 1 : t[n] = q[n + 1]
      /\ Len(q) \in Nat /\ Len(q) > 0
  OBVIOUS
<1> HIDE DEF t
<1>2. DOMAIN q = 1 .. Len(q) /\ DOMAIN t = 1 .. Len(q) - 1  BY <1>1
<1>3. ToSet(q) = ToSet(t) \union {Head(q)}
  <2>1. \A n \in 1 .. Len(q) : n = 1 \/ (n - 1 \in 1 .. Len(q) - 1 /\ q[n] = t[n - 1])
    BY <1>1
  <2>2. ASSUME NEW n \in 1 .. Len(q)  PROVE  q[n] \in ToSet(t) \union {Head(q)}
    BY <1>1, <1>2, <2>1 DEF ToSet
  <2>3. ToSet(t) \union {Head(q)} \subseteq ToSet(q)  BY <1>1, <1>2 DEF ToSet
  <2> QED  BY <1>2, <2>2, <2>3 DEF ToSet
<1>4. Once(q) => Once(t) /\ Head(q) \notin ToSet(t)  BY <1>1, <1>2 DEF ToSet, Once
<1> QED  BY <1>1, <1>3, <1>4 DEF t

LEMMA NothingIn == ToSet(<<>>) = {} /\ Once(<<>>)
  BY DEF ToSet, Once

(* A finite set of numbers is put in order by one sequence of its elements. *)
Ordered(S, q) ==
  /\ q \in [1 .. Cardinality(S) -> S]
  /\ ToSet(q) = S /\ \A m, n \in DOMAIN q : m < n => q[m] < q[n]

LEMMA OrderExists ==
  ASSUME NEW S, S \subseteq Nat, IsFiniteSet(S)
  PROVE  \E q : Ordered(S, q)
<1> SUFFICES ASSUME ~ \E q : Ordered(S, q)  PROVE FALSE  OBVIOUS
<1> DEFINE F == {T \in SUBSET S : ~ \E q : Ordered(T, q)}
<1>1. F \subseteq FiniteSubsetsOf(S)
  <2>1. \A T \in F : IsFiniteSet(T)  BY FS_Subset
  <2> QED  BY <2>1 DEF FiniteSubsetsOf
<1>2. F # {}  OBVIOUS
<1>3. PICK T \in F : \A U \in F : ~(U \subseteq T /\ U # T)
  <2> HIDE DEF F
  <2> QED  BY <1>1, <1>2, SmallestSet
<1>4. T \subseteq Nat /\ IsFiniteSet(T)  BY FS_Subset
<1>5. CASE T = {}
  <2> DEFINE e == [n \in 1 .. 0 |-> n]
  <2>1. Cardinality(T) = 0 /\ DOMAIN e = {}  BY <1>5, FS_EmptySet
  <2>2. e \in [1 .. Cardinality(T) -> T]  BY <2>1, <1>5
  <2>3. ToSet(e) = T  BY <2>1, <1>5 DEF ToSet
  <2> HIDE DEF e
  <2>4. Ordered(T, e)  BY <2>1, <2>2, <2>3 DEF Ordered
  <2> QED  BY <2>4
<1>6. CASE T # {}
  <2>1. PICK least \in T : \A m \in T : least <= m  BY <1>4, <1>6, LeastElement
  <2> DEFINE U == T \ {least}
  <2>2. PICK q : Ordered(U, q)  BY <1>3
  <2>3. Cardinality(U) \in Nat /\ Cardinality(T) = Cardinality(U) + 1
    BY <1>4, FS_RemoveElement, FS_CardinalityType, FS_Subset
  <2> DEFINE c == Cardinality(U)
             r == [n \in 1 .. c + 1 |-> IF n = 1 THEN least ELSE q[n - 1]]
  <2>4. q \in [1 .. c -> U] /\ DOMAIN q = 1 .. c
    BY <2>2 DEF Ordered
  <2>5. ASSUME NEW n \in 1 .. c + 1, n # 1  PROVE  n - 1 \in 1 .. c /\ q[n - 1] \in U
    <3>1. n - 1 \in 1 .. c  BY <2>3, <2>5
    <3> QED  BY <3>1, <2>4
  <2>6. \A n \in 1 .. c : n + 1 \in 1 .. c + 1 /\ r[n + 1] = q[n]
    BY <2>3, <2>4
  <2>7. r \in [1 .. Cardinality(T) -> T]  BY <2>3, <2>5
  <2>8. DOMAIN r = 1 .. c + 1 /\ 1 \in DOMAIN r /\ r[1] = least  BY <2>3
  <2>9. \A n \in 1 .. c + 1 : n # 1 => r[n] = q[n - 1]  OBVIOUS
  <2> HIDE DEF r
  <2>10. ToSet(r) = T
    <3>1. ASSUME NEW x \in T  PROVE \E n \in DOMAIN r : r[n] = x
      <4>1. CASE x = least  BY <4>1, <2>8
      <4>2. CASE x # least
        <5>1. PICK n \in 1 .. c : q[n] = x  BY <4>2, <2>2, <2>4 DEF Ordered, ToSet
        <5> QED  BY <5>1, <2>6, <2>8
      <4> QED  BY <4>1, <4>2
    <3>2. \A n \in DOMAIN r : r[n] \in T  BY <2>7
    <3> QED  BY <3>1, <3>2 DEF ToSet
  <2>11. ASSUME NEW m \in 1 .. c + 1, NEW n \in 1 .. c + 1, m < n
         PROVE  r[m] < r[n]
    <3>1. n # 1 /\ n - 1 \in 1 .. c /\ q[n - 1] \in U  BY <2>3, <2>5, <2>11
    <3>2. CASE m = 1
      <4>1. r[m] = least /\ r[n] \in U  BY <3>1, <3>2, <2>8, <2>9
      <4>2. r[n] \in T /\ r[n] # least /\ least <= r[n]  BY <4>1, <2>1
      <4>3. r[n] \in Nat /\ least \in Nat  BY <4>2, <1>4
      <4> QED  BY <4>1, <4>2, <4>3
    <3>3. CASE m # 1
      <4>1. m - 1 \in 1 .. c /\ m - 1 < n - 1  BY <3>3, <2>3, <2>11
      <4>2. q[m - 1] < q[n - 1]  BY <4>1, <3>1, <2>2, <2>4 DEF Ordered
      <4> QED  BY <4>2, <3>1, <3>3, <2>9
    <3> QED  BY <3>2, <3>3
  <2>12. Ordered(T, r)  BY <2>7, <2>8, <2>10, <2>11 DEF Ordered
  <2> QED  BY <2>12, <1>3
<1> QED  BY <1>5, <1>6

(* What InOrder returns: the elements of S, each once, in order.            *)
LEMMA InOrderSound ==
  ASSUME NEW S, S \subseteq Nat, IsFiniteSet(S)
  PROVE  /\ InOrder(S) \in Seq(S) /\ Len(InOrder(S)) = Cardinality(S)
         /\ ToSet(InOrder(S)) = S /\ Once(InOrder(S))
         /\ InOrder(S) = <<>> <=> S = {}
<1> DEFINE q == InOrder(S)
<1>1. Ordered(S, q)
  <2>1. PICK r : Ordered(S, r)  BY OrderExists
  <2> QED  BY <2>1 DEF Ordered, InOrder
<1>2. Cardinality(S) \in Nat  BY FS_CardinalityType
<1> HIDE DEF q
<1>3. q \in Seq(S) /\ Len(q) = Cardinality(S) /\ DOMAIN q = 1 .. Cardinality(S)
  BY <1>1, <1>2 DEF Ordered
<1>4. Once(q)
  <2> SUFFICES ASSUME NEW m \in 1 .. Len(q), NEW n \in 1 .. Len(q), q[m] = q[n], m < n
               PROVE  FALSE
    BY <1>2, <1>3 DEF Once
  <2>1. q[m] < q[n] /\ q[m] \in Nat  BY <1>1, <1>3 DEF Ordered
  <2> QED  BY <2>1
<1>5. q = <<>> <=> S = {}
  <2>1. q = <<>> <=> Cardinality(S) = 0  BY <1>2, <1>3
  <2> QED  BY <2>1, FS_EmptySet
<1> QED  BY <1>1, <1>3, <1>4, <1>5 DEF Ordered, q
-------------------------------------------------------------------------------
(* The inductive invariant: its type, and six groups of facts.              *)

(* The worker and the queue of the main thread are never both in use, and   *)
(* a thread that has ended holds nothing.                                   *)
Phases ==
  /\ worker => /\ threaded /\ queue = <<>> /\ ~scheduled /\ active = 0
               /\ waiters = <<>> /\ syncing = {} /\ shutdownOps = {}
  /\ ~worker => pending = {} /\ ~errorDue /\ thread = "dead"
  /\ thread # "running" => inbox = <<>>
  /\ thread = "dead" => running = {} /\ finished = {}
  /\ errorDue => thread = "dead"
  /\ worker /\ thread = "dead" => errorDue \/ shuttingDown
  /\ thread = "closed" => shuttingDown
  /\ \A i \in Ids : ops[i].type = "shutdown" => shuttingDown
  /\ ~threaded => outbox = <<>>
  /\ threaded => creatable
  /\ ~creatable => queue = <<>> /\ active = 0 /\ shutdownOps = {}

(* What waits where is of one kind.                                         *)
Kinds ==
  /\ \A i \in ToSet(queue) : IsSend(i)
  /\ active # 0 => IsSend(active)
  /\ \A n \in 1 .. Len(waiters) : ~IsSend(waiters[n].id)
  /\ \A i \in syncing : ~IsSend(i)
  /\ \A i \in shutdownOps : ops[i].type = "shutdown"

(* Who has not settled is awaited by the worker's map or by the queue.      *)
Awaited ==
  /\ worker => \A i \in Ids : ops[i].state = "pending" => i \in pending
  /\ \A i \in pending : IsSend(i) => ops[i].state = "pending"
  /\ \A i \in ToSet(queue) : ops[i].state = "pending"
  /\ active # 0 => ops[active].state = "pending"
  /\ Once(queue) /\ active \notin ToSet(queue)
  /\ scheduled => active = 0

(* What the worker has not run yet it has not written, and what it answered *)
(* with success it has written or synced.                                   *)
Copies(i) == Cardinality({n \in 1 .. Len(file) : file[n] = i})
Writes ==
  /\ Once(inbox)
  /\ \A i \in ToSet(inbox) : i \notin running /\ Copies(i) = 0
  /\ \A i \in running : Copies(i) = 0
  /\ \A i \in ToSet(queue) \union {active} :
       Copies(i) <= IF threaded THEN 1 ELSE 0
Answered ==
  /\ \A i \in Ids : ops[i].before \subseteq Written
  /\ \A a \in finished \union ToSet(outbox) :
       a.ok => /\ IsSend(a.id) => a.id \in Written
               /\ ops[a.id].type = "flush" => ops[a.id].before \subseteq Durable

(* Without a worker: a call that waits for a sync waits for no send, and    *)
(* the calls of shutdown() share one promise.                               *)
Shared ==
  ~threaded =>
    /\ \A i \in syncing : \A j \in 1 .. i - 1 : IsSend(j) => ops[j].state # "pending"
    /\ \A n \in 1 .. Len(waiters) : ~waiters[n].direct
    /\ creatable => shutdownOps = {i \in Ids : ops[i].type = "shutdown"}

TIInv ==
  /\ TTypeOK /\ Phases /\ Kinds /\ Awaited /\ NoOrphan
  /\ Writes /\ DuplicateNeedsCrash /\ Answered /\ AcceptedIsWritten
  /\ FlushCoversWhileAlive /\ Shared
-------------------------------------------------------------------------------
(* How a step changes the calls                                             *)

CallRecords == [type : Types, state : States, before : SUBSET Nat]

LEMMA CallRestated ==
  ASSUME NEW c \in CallRecords, NEW state \in States
  PROVE  LET d == [c EXCEPT !.state = state]
         IN  /\ d \in CallRecords /\ d.state = state /\ d.type = c.type /\ d.before = c.before
             /\ c.state = state => d = c
BY DEF CallRecords

LEMMA CallParts ==
  ASSUME TTypeOK
  PROVE  /\ ops \in Seq(CallRecords) /\ Len(ops) \in Nat
         /\ \A i \in Ids : ops[i] \in CallRecords /\ ops[i].state \in States
                          /\ ops[i].type \in Types
<1>1. ops \in Seq(CallRecords)  BY DEF TTypeOK, CallRecords
<1>2. \A i \in Ids : ops[i] \in CallRecords  BY <1>1 DEF Ids
<1> QED  BY <1>1, <1>2 DEF CallRecords

LEMMA SeqWiden ==
  ASSUME NEW S, NEW T, S \subseteq T, NEW q \in Seq(S)
  PROVE  q \in Seq(T)
OBVIOUS

LEMMA NewOpParts ==
  ASSUME NEW type, NEW state
  PROVE  /\ NewOp(type, state).type = type /\ NewOp(type, state).state = state
         /\ NewOp(type, state).before = Accepted
BY DEF NewOp

(* A call is added; nothing is said of the others.                          *)
LEMMA Called ==
  ASSUME TTypeOK, NEW type \in Types, NEW state \in States,
         ops' = Append(ops, NewOp(type, state))
  PROVE  /\ Len(ops') = Len(ops) + 1 /\ NewId = Len(ops) + 1 /\ NewId \notin Ids
         /\ Ids' = Ids \union {NewId} /\ NewId \in Nat \ {0}
         /\ ops'[NewId] = NewOp(type, state) /\ \A i \in Ids : ops'[i] = ops[i]
         /\ ops'[NewId].type = type /\ ops'[NewId].state = state
         /\ ops'[NewId].before = Accepted
         /\ ops' \in Seq(CallRecords) /\ \A i \in Ids' : ops'[i].before \subseteq Ids'
<1>1. NewOp(type, state) \in CallRecords /\ NewOp(type, state).before \subseteq Ids
  BY DEF TTypeOK, NewOp, Accepted, Ids, CallRecords
<1>2. ops \in Seq(CallRecords)  BY DEF TTypeOK, CallRecords
<1> DEFINE new == NewOp(type, state)
<1> HIDE DEF new
<1>3. /\ ops' \in Seq(CallRecords) /\ Len(ops') = Len(ops) + 1 /\ ops'[Len(ops) + 1] = new
      /\ \A i \in 1 .. Len(ops) : ops'[i] = ops[i]
  BY <1>1, <1>2, Appended DEF new
<1>4. Len(ops) \in Nat  BY <1>2
<1>5. Ids' = Ids \union {NewId} /\ NewId \notin Ids  BY <1>3, <1>4 DEF Ids, NewId
<1>6. \A i \in Ids' : ops'[i].before \subseteq Ids'
  BY <1>1, <1>3, <1>5 DEF TTypeOK, Ids, NewId, new
<1>7. ops'[NewId] = NewOp(type, state)  BY <1>3 DEF NewId, new
<1>8. /\ ops'[NewId].type = type /\ ops'[NewId].state = state
      /\ ops'[NewId].before = Accepted
  BY <1>7, NewOpParts
<1> QED  BY <1>3, <1>4, <1>5, <1>6, <1>7, <1>8 DEF Ids, NewId

(* Some calls change their state, and nothing else does.                    *)
Restated ==
  /\ Len(ops') = Len(ops) /\ Ids' = Ids /\ ops' \in Seq(CallRecords)
  /\ \A i \in Ids : ops'[i].type = ops[i].type /\ ops'[i].before = ops[i].before
  /\ \A i \in Ids' : ops'[i].before \subseteq Ids'

LEMMA SettleSound ==
  ASSUME TTypeOK, NEW i \in Ids, NEW state \in States, Settle(i, state)
  PROVE  /\ Restated /\ ops'[i].state = state
         /\ \A j \in Ids \ {i} : ops'[j] = ops[j]
<1>1. ops \in Seq(CallRecords) /\ ops[i] \in CallRecords  BY CallParts
<1> DEFINE c == [ops[i] EXCEPT !.state = state]
<1>2. c \in CallRecords /\ c.type = ops[i].type /\ c.before = ops[i].before /\ c.state = state
  BY <1>1, CallRestated
<1>3. ops' = [ops EXCEPT ![i] = c]  BY DEF Settle
<1> HIDE DEF c
<1>4. ops' \in Seq(CallRecords) /\ Len(ops') = Len(ops) /\ ops'[i] = c
      /\ \A j \in Ids \ {i} : ops'[j] = ops[j]
  BY <1>1, <1>2, <1>3 DEF Ids
<1>5. Ids' = Ids  BY <1>4 DEF Ids
<1>6. \A j \in Ids : ops'[j].type = ops[j].type /\ ops'[j].before = ops[j].before
  BY <1>2, <1>4
<1>7. \A j \in Ids' : ops'[j].before \subseteq Ids'  BY <1>5, <1>6 DEF TTypeOK
<1> QED  BY <1>2, <1>4, <1>5, <1>6, <1>7 DEF Restated

LEMMA RestateSound ==
  ASSUME TTypeOK, NEW F \in [Ids -> States],
         ops' = [i \in Ids |-> [ops[i] EXCEPT !.state = F[i]]]
  PROVE  Restated /\ \A i \in Ids : ops'[i].state = F[i]
<1>1. ops \in Seq(CallRecords) /\ Len(ops) \in Nat  BY CallParts
<1>2. ASSUME NEW i \in Ids
      PROVE  /\ ops'[i] \in CallRecords /\ ops'[i].state = F[i]
             /\ ops'[i].type = ops[i].type /\ ops'[i].before = ops[i].before
  <2>1. ops[i] \in CallRecords /\ F[i] \in States  BY CallParts
  <2>2. ops'[i] = [ops[i] EXCEPT !.state = F[i]]  OBVIOUS
  <2> QED  BY <2>1, <2>2, CallRestated
<1>3. ops' \in [1 .. Len(ops) -> CallRecords]  BY <1>2 DEF Ids
<1>4. ops' \in Seq(CallRecords) /\ Len(ops') = Len(ops)  BY <1>1, <1>3
<1>5. Ids' = Ids  BY <1>4 DEF Ids
<1>6. \A j \in Ids' : ops'[j].before \subseteq Ids'  BY <1>2, <1>5 DEF TTypeOK
<1> QED  BY <1>2, <1>4, <1>5, <1>6 DEF Restated

LEMMA SetStateSound ==
  ASSUME TTypeOK, NEW S, NEW state \in States, SetState(S, state)
  PROVE  /\ Restated
         /\ \A i \in Ids : ops'[i].state = IF i \in S /\ ops[i].state = "pending"
                                           THEN state ELSE ops[i].state
<1> DEFINE F == [i \in Ids |-> IF i \in S /\ ops[i].state = "pending"
                               THEN state ELSE ops[i].state]
<1>1. \A i \in Ids : ops[i] \in CallRecords /\ ops[i].state \in States  BY CallParts
<1>2. F \in [Ids -> States]  BY <1>1
<1>3. \A i \in Ids : [ops[i] EXCEPT !.state = ops[i].state] = ops[i]
  BY <1>1, CallRestated
<1>4. ops' = [i \in Ids |-> [ops[i] EXCEPT !.state = F[i]]]  BY <1>3 DEF SetState
<1> HIDE DEF F
<1>5. Restated /\ \A i \in Ids : ops'[i].state = F[i]  BY <1>2, <1>4, RestateSound
<1> QED  BY <1>5 DEF F
LEMMA NextItemSound ==
  ASSUME TTypeOK, NEW S, NEW state \in States, NextItem(S, state)
  PROVE  /\ Restated
         /\ queue # <<>> =>
              \A i \in Ids : ops'[i].state = IF i \in S /\ ops[i].state = "pending"
                                             THEN state ELSE ops[i].state
         /\ queue = <<>> =>
              \A i \in Ids : ops'[i].state = IF i \in S THEN state
                                             ELSE IF i \in DirectWaiters THEN "resolved"
                                             ELSE ops[i].state
<1>1. CASE queue # <<>>
  <2>1. SetState(S, state)  BY <1>1 DEF NextItem
  <2> QED  BY <1>1, <2>1, SetStateSound
<1>2. CASE queue = <<>>
  <2> DEFINE F == [i \in Ids |-> IF i \in S THEN state
                                 ELSE IF i \in DirectWaiters THEN "resolved"
                                 ELSE ops[i].state]
  <2>1. \A i \in Ids : ops[i] \in CallRecords /\ ops[i].state \in States  BY CallParts
  <2>2. F \in [Ids -> States]  BY <2>1 DEF States
  <2>3. \A i \in Ids : [ops[i] EXCEPT !.state = ops[i].state] = ops[i]
    BY <2>1, CallRestated
  <2>4. ops' = [i \in Ids |-> [ops[i] EXCEPT !.state = F[i]]]
    BY <1>2, <2>3 DEF NextItem
  <2> HIDE DEF F
  <2>5. Restated /\ \A i \in Ids : ops'[i].state = F[i]  BY <2>2, <2>4, RestateSound
  <2> QED  BY <1>2, <2>5 DEF F
<1> QED  BY <1>1, <1>2

Waiter == [id : Ids, direct : BOOLEAN]

LEMMA WaitForSound ==
  ASSUME TTypeOK, NEW S \in SUBSET Ids, NEW direct \in BOOLEAN
  PROVE  /\ WaitFor(S, direct) \in Seq(Waiter) /\ Len(WaitFor(S, direct)) = Cardinality(S)
         /\ \A n \in 1 .. Len(WaitFor(S, direct)) :
              /\ WaitFor(S, direct)[n].id \in S
              /\ WaitFor(S, direct)[n].direct = direct
<1>1. S \subseteq Nat /\ IsFiniteSet(S)
  <2>1. Ids \subseteq Nat /\ IsFiniteSet(Ids)  BY CallParts, FS_Interval DEF Ids
  <2> QED  BY <2>1, FS_Subset
<1>2. Cardinality(S) \in Nat  BY <1>1, FS_CardinalityType
<1>3. \A n \in 1 .. Cardinality(S) : InOrder(S)[n] \in S
  <2>1. InOrder(S) \in Seq(S) /\ Len(InOrder(S)) = Cardinality(S)  BY <1>1, InOrderSound
  <2> QED  BY <2>1
<1> DEFINE w == WaitFor(S, direct)
<1>4. DOMAIN w = 1 .. Cardinality(S)
      /\ \A n \in 1 .. Cardinality(S) : /\ w[n] \in Waiter /\ w[n].id \in S
                                        /\ w[n].direct = direct
  BY <1>3 DEF WaitFor, Waiter
<1>5. w = [n \in 1 .. Cardinality(S) |-> [id |-> InOrder(S)[n], direct |-> direct]]
  BY DEF WaitFor
<1> HIDE DEF w
<1>6. w \in Seq(Waiter) /\ Len(w) = Cardinality(S)  BY <1>2, <1>4, <1>5
<1> QED  BY <1>4, <1>6 DEF w

LEMMA PendingFinite ==
  ASSUME TTypeOK, NEW S \in SUBSET Ids
  PROVE  S \subseteq Nat /\ IsFiniteSet(S) /\ Cardinality(S) \in Nat
<1>1. Ids \subseteq Nat /\ IsFiniteSet(Ids)  BY CallParts, FS_Interval DEF Ids
<1>2. IsFiniteSet(S)  BY <1>1, FS_Subset
<1> QED  BY <1>1, <1>2, FS_CardinalityType

(* The worker has died: its sends are in the queue, each once; only flushes *)
(* and shutdowns may settle, and only they wait.                            *)
LEMMA FallbackSound ==
  ASSUME TTypeOK, FallbackToMainThread, waiters = <<>>, syncing = {}
  PROVE  /\ Restated
         /\ \A i \in Ids : /\ IsSend(i) => ops'[i].state = ops[i].state
                           /\ ops[i].state # "pending" => ops'[i].state = ops[i].state
         /\ queue' \in Seq(Ids) /\ Once(queue') /\ ToSet(queue') = PendingOf("send")
         /\ waiters' \in Seq(Waiter)
         /\ \A n \in 1 .. Len(waiters') : ~IsSend(waiters'[n].id)
         /\ syncing' \subseteq PendingOf("shutdown") /\ shutdownOps' = PendingOf("shutdown")
<1> DEFINE flushes == PendingOf("flush")
           downs == PendingOf("shutdown")
           first == {i \in downs : \A j \in downs : i <= j}
           refused == downs # {} /\ Cardinality(flushes) >= MaxFlushResolvers
<1>1. /\ PendingOf("send") \in SUBSET Ids /\ flushes \in SUBSET Ids
      /\ downs \in SUBSET Ids /\ first \in SUBSET Ids
      /\ \A i \in flushes \union downs : ~IsSend(i)
  BY DEF PendingOf, TTypeOK, IsSend
<1>2. queue' = InOrder(PendingOf("send"))  BY DEF FallbackToMainThread, Requeued
<1>3. /\ queue' \in Seq(PendingOf("send")) /\ Once(queue') /\ ToSet(queue') = PendingOf("send")
      /\ queue' = <<>> <=> PendingOf("send") = {}
  BY <1>1, <1>2, PendingFinite, InOrderSound
<1>4. queue' \in Seq(Ids)  BY <1>1, <1>3, SeqWiden
<1>5. shutdownOps' = downs  BY DEF FallbackToMainThread
<1>6. syncing' \subseteq downs  BY DEF FallbackToMainThread
<1>7. \E S \in SUBSET (flushes \union downs) : \E state \in States : SetState(S, state)
  <2>1. \/ SetState(flushes, "resolved")
        \/ SetState(IF refused THEN downs ELSE {}, "rejected")
    BY DEF FallbackToMainThread
  <2>2. flushes \in SUBSET (flushes \union downs)
        /\ (IF refused THEN downs ELSE {}) \in SUBSET (flushes \union downs)
    OBVIOUS
  <2>3. "resolved" \in States /\ "rejected" \in States  BY DEF States
  <2> HIDE DEF flushes, downs, refused
  <2> QED  BY <2>1, <2>2, <2>3
<1>8. /\ waiters' \in Seq(Waiter)
      /\ \A n \in 1 .. Len(waiters') : waiters'[n].id \in flushes \union downs
  <2> DEFINE a == WaitFor(flushes, TRUE)
             b == IF refused THEN <<>> ELSE WaitFor(first, FALSE)
  <2>1. waiters' = waiters \/ waiters' = a \o b  BY DEF FallbackToMainThread
  <2>2. a \in Seq(Waiter) /\ \A n \in 1 .. Len(a) : a[n].id \in flushes
    <3> HIDE DEF flushes
    <3> QED  BY <1>1, WaitForSound
  <2>3. b \in Seq(Waiter) /\ \A n \in 1 .. Len(b) : b[n].id \in downs
    <3>1. CASE refused  BY <3>1
    <3>2. CASE ~refused
      <4>1. WaitFor(first, FALSE) \in Seq(Waiter)
            /\ \A n \in 1 .. Len(WaitFor(first, FALSE)) : WaitFor(first, FALSE)[n].id \in first
        <5> HIDE DEF first
        <5> QED  BY <1>1, WaitForSound
      <4> QED  BY <3>2, <4>1
    <3> QED  BY <3>1, <3>2
  <2> HIDE DEF a, b, flushes, downs
  <2>4. a \o b \in Seq(Waiter) /\ Len(a \o b) = Len(a) + Len(b)
        /\ \A n \in 1 .. Len(a) + Len(b) :
             (a \o b)[n] = IF n <= Len(a) THEN a[n] ELSE b[n - Len(a)]
    BY <2>2, <2>3
  <2>5. \A n \in 1 .. Len(a \o b) : (a \o b)[n].id \in flushes \union downs
    <3> TAKE n \in 1 .. Len(a \o b)
    <3>1. CASE n <= Len(a)  BY <3>1, <2>2, <2>4
    <3>2. CASE ~(n <= Len(a))
      <4>1. Len(a) \in Nat /\ Len(b) \in Nat  BY <2>2, <2>3
      <4>2. n - Len(a) \in 1 .. Len(b)  BY <3>2, <2>4, <4>1
      <4> QED  BY <3>2, <4>2, <2>3, <2>4
    <3> QED  BY <3>1, <3>2
  <2>6. CASE waiters' = waiters
    <3>1. waiters' = <<>> /\ Len(waiters') = 0  BY <2>6
    <3>2. <<>> \in Seq(Waiter)  OBVIOUS
    <3> QED  BY <3>1, <3>2
  <2>7. CASE waiters' = a \o b  BY <2>7, <2>4, <2>5
  <2> QED  BY <2>1, <2>6, <2>7
<1> HIDE DEF flushes, downs
<1>9. Restated /\ \A i \in Ids : /\ IsSend(i) => ops'[i].state = ops[i].state
                                 /\ ops[i].state # "pending" => ops'[i].state = ops[i].state
  BY <1>1, <1>7, SetStateSound
<1> QED  BY <1>1, <1>3, <1>4, <1>5, <1>6, <1>8, <1>9 DEF downs
-------------------------------------------------------------------------------
(* Type correctness                                                         *)

(* What waited before the step is of its type after it, as calls are never  *)
(* taken back.                                                              *)
LEMMA TypeKept ==
  ASSUME TTypeOK, Ids \subseteq Ids'
  PROVE  /\ Answers \subseteq Answers' /\ Waiter \subseteq Waiter'
         /\ file \in Seq(Ids') /\ inbox \in Seq(Ids') /\ queue \in Seq(Ids')
         /\ outbox \in Seq(Answers') /\ waiters \in Seq(Waiter')
         /\ \A S : S \subseteq Ids => S \subseteq Ids'
         /\ \A S : S \subseteq Answers => S \subseteq Answers'
<1>1. Answers \subseteq Answers' /\ Waiter \subseteq Waiter'  BY DEF Answers, Waiter
<1>2. /\ file \in Seq(Ids) /\ inbox \in Seq(Ids) /\ queue \in Seq(Ids)
      /\ outbox \in Seq(Answers) /\ waiters \in Seq(Waiter)
  BY DEF TTypeOK, Waiter
<1>3. file \in Seq(Ids') /\ inbox \in Seq(Ids') /\ queue \in Seq(Ids')  BY <1>2, SeqWiden
<1>4. outbox \in Seq(Answers') /\ waiters \in Seq(Waiter')  BY <1>1, <1>2, SeqWiden
<1> QED  BY <1>1, <1>3, <1>4

(* The parts of the type, one per line, as the proofs below set them.       *)
TypeParts ==
  /\ ops \in Seq(CallRecords) /\ \A i \in Ids : ops[i].before \subseteq Ids
  /\ file \in Seq(Ids) /\ durable \in 0 .. Len(file)
  /\ {threaded, worker, errorDue, shuttingDown, scheduled, creatable} \subseteq BOOLEAN
  /\ thread \in {"running", "closed", "dead"}
  /\ pending \subseteq Ids /\ running \subseteq Ids /\ finished \subseteq Answers
  /\ inbox \in Seq(Ids) /\ outbox \in Seq(Answers)
  /\ queue \in Seq(Ids) /\ active \in Ids \union {0}
  /\ waiters \in Seq(Waiter)
  /\ syncing \subseteq Ids /\ shutdownOps \subseteq Ids

LEMMA TypeInParts == TTypeOK <=> TypeParts
  BY DEF TTypeOK, TypeParts, CallRecords, Waiter
LEMMA TypeInPartsNext == TTypeOK' <=> TypeParts'
  BY DEF TTypeOK, TypeParts, CallRecords, Waiter

(* A full queue evicts its oldest send.                                     *)
LEMMA SendFallbackSound ==
  ASSUME TTypeOK, SendFallback
  PROVE  /\ Ids' = Ids \union {NewId} /\ NewId \notin Ids /\ ops' \in Seq(CallRecords)
         /\ \A i \in Ids' : ops'[i].before \subseteq Ids'
         /\ ops'[NewId] = NewOp("send", "pending")
         /\ \A i \in Ids : ops'[i].type = ops[i].type /\ ops'[i].before = ops[i].before
         /\ \/ /\ ops' = Append(ops, NewOp("send", "pending"))
               /\ \A i \in Ids : ops'[i] = ops[i]
               /\ queue' = Append(queue, NewId)
            \/ /\ queue # <<>> /\ Head(queue) \in Ids
               /\ ops' = [Append(ops, NewOp("send", "pending"))
                            EXCEPT ![Head(queue)].state = "rejected"]
               /\ ops'[Head(queue)].state = "rejected"
               /\ \A i \in Ids \ {Head(queue)} : ops'[i] = ops[i]
               /\ queue' = Append(Tail(queue), NewId)
<1> DEFINE new == NewOp("send", "pending")
           all == Append(ops, new)
<1>1. "pending" \in States /\ "rejected" \in States /\ "send" \in Types  BY DEF States, Types
<1>2. CASE ~(Len(queue) >= MaxFallbackQueue)
  <2>1. ops' = all /\ queue' = Append(queue, NewId)  BY <1>2 DEF SendFallback, Enqueue
  <2> HIDE DEF all
  <2>2. ops' = Append(ops, NewOp("send", "pending"))  BY <2>1 DEF all
  <2> QED  BY <1>1, <2>1, <2>2, Called
<1>3. CASE Len(queue) >= MaxFallbackQueue
  <2>1. ops' = [all EXCEPT ![Head(queue)].state = "rejected"]
        /\ queue' = Append(Tail(queue), NewId)
    BY <1>3 DEF SendFallback, Enqueue
  <2>2. queue \in Seq(Ids) /\ queue # <<>>  BY <1>3, QueueAssumption DEF TTypeOK
  <2> DEFINE h == Head(queue)
             c == [ops[h] EXCEPT !.state = "rejected"]
  <2>3. h \in Ids  BY <2>2
  <2>4. ops \in Seq(CallRecords) /\ ops[h] \in CallRecords /\ Len(ops) \in Nat
    BY <2>3, CallParts
  <2> HIDE DEF h
  <2>5. c \in CallRecords /\ c.state = "rejected" /\ c.type = ops[h].type
        /\ c.before = ops[h].before
    BY <2>4, <1>1, CallRestated
  <2>6. new \in CallRecords /\ new.before \subseteq Ids
    BY <1>1 DEF TTypeOK, NewOp, Accepted, Ids, CallRecords
  <2> HIDE DEF new
  <2>7. all \in Seq(CallRecords) /\ Len(all) = Len(ops) + 1 /\ all[Len(ops) + 1] = new
        /\ \A i \in 1 .. Len(ops) : all[i] = ops[i]
    BY <2>4, <2>6, Appended
  <2> HIDE DEF all, c
  <2>8. all[h] = ops[h] /\ h \in 1 .. Len(all)  BY <2>3, <2>4, <2>7 DEF Ids
  <2>9. ops' = [all EXCEPT ![h] = c]  BY <2>1, <2>8 DEF h, c
  <2>10. /\ ops' \in Seq(CallRecords) /\ Len(ops') = Len(ops) + 1 /\ ops'[h] = c
         /\ \A i \in 1 .. Len(all) : i # h => ops'[i] = all[i]
    BY <2>5, <2>7, <2>8, <2>9
  <2>11. Ids' = Ids \union {NewId} /\ NewId \notin Ids  BY <2>4, <2>10 DEF Ids, NewId
  <2>12. ops'[NewId] = new /\ \A i \in Ids \ {h} : ops'[i] = ops[i]
    BY <2>3, <2>4, <2>7, <2>10, <2>11 DEF Ids, NewId
  <2>13. \A i \in Ids : ops'[i].type = ops[i].type /\ ops'[i].before = ops[i].before
    BY <2>5, <2>10, <2>12
  <2>14. \A i \in Ids' : ops'[i].before \subseteq Ids'
    BY <2>6, <2>11, <2>12, <2>13 DEF TTypeOK
  <2> QED
    BY <2>1, <2>2, <2>3, <2>5, <2>10, <2>11, <2>12, <2>13, <2>14 DEF h, new, all
<1> QED  BY <1>2, <1>3

(* flushFallback() on behalf of a new call.                                 *)
LEMMA FlushFallbackSound ==
  ASSUME TTypeOK, NEW type \in Types, FlushFallback(type)
  PROVE  /\ \E state \in {"pending", "rejected"} : ops' = Append(ops, NewOp(type, state))
         /\ syncing' \subseteq syncing \union {NewId}
         /\ \/ waiters' = waiters
            \/ waiters' = Append(waiters, [id |-> NewId, direct |-> FALSE])
BY DEF FlushFallback

LEMMA TypeCall ==
  ASSUME TTypeOK, Calls, UNCHANGED given
  PROVE  TTypeOK'
<1>0. TypeParts  BY TypeInParts
<1>1. CASE \E type \in Types : DispatchToWorker(type) /\ shuttingDown' \in BOOLEAN
  <2>1. PICK type \in Types : DispatchToWorker(type) /\ shuttingDown' \in BOOLEAN  BY <1>1
  <2>2. ops' = Append(ops, NewOp(type, "pending"))  BY <2>1 DEF DispatchToWorker
  <2>3. "pending" \in States  BY DEF States
  <2>4. /\ Ids' = Ids \union {NewId} /\ ops' \in Seq(CallRecords)
        /\ \A i \in Ids' : ops'[i].before \subseteq Ids'
    BY <2>2, <2>3, Called
  <2>5. Append(inbox, NewId) \in Seq(Ids')
    <3>1. inbox \in Seq(Ids') /\ NewId \in Ids'  BY <2>4, TypeKept
    <3> QED  BY <3>1
  <2>6. inbox' \in Seq(Ids')  BY <2>1, <2>4, <2>5, TypeKept DEF DispatchToWorker
  <2>7. pending' \subseteq Ids'  BY <1>0, <2>1, <2>4 DEF DispatchToWorker, TypeParts
  <2>8. TypeParts'
    BY <1>0, <2>1, <2>4, <2>6, <2>7, TypeKept DEF DispatchToWorker, TypeParts, fvars, given
  <2> QED  BY <2>8, TypeInPartsNext
<1>2. CASE \E type \in Types : Uncreatable(type)
  <2>1. PICK type \in Types : Uncreatable(type)  BY <1>2
  <2>2. ops' = Append(ops, NewOp(type, "rejected"))  BY <2>1 DEF Uncreatable
  <2>3. "rejected" \in States  BY DEF States
  <2>4. /\ Ids' = Ids \union {NewId} /\ ops' \in Seq(CallRecords)
        /\ \A i \in Ids' : ops'[i].before \subseteq Ids'
    BY <2>2, <2>3, Called
  <2>5. TypeParts'
    BY <1>0, <2>1, <2>4, TypeKept DEF Uncreatable, TypeParts, wvars, fvars, given
  <2> QED  BY <2>5, TypeInPartsNext
<1>3. CASE SendFallback
  <2>1. /\ Ids' = Ids \union {NewId} /\ ops' \in Seq(CallRecords)
        /\ \A i \in Ids' : ops'[i].before \subseteq Ids'
    BY <1>3, SendFallbackSound
  <2>2. queue' = Append(queue, NewId)
        \/ (queue # <<>> /\ queue' = Append(Tail(queue), NewId))
    BY <1>3, SendFallbackSound
  <2>3. queue' \in Seq(Ids')
    <3>1. queue \in Seq(Ids') /\ NewId \in Ids'  BY <2>1, TypeKept
    <3> QED  BY <3>1, <2>2
  <2>4. TypeParts'
    BY <1>0, <1>3, <2>1, <2>3, TypeKept DEF SendFallback, TypeParts, wvars, given
  <2> QED  BY <2>4, TypeInPartsNext
<1>4. ASSUME NEW type \in Types, FlushFallback(type)
      PROVE  /\ Ids' = Ids \union {NewId} /\ ops' \in Seq(CallRecords)
             /\ \A i \in Ids' : ops'[i].before \subseteq Ids'
             /\ syncing' \subseteq Ids' /\ waiters' \in Seq(Waiter')
  <2>1. PICK state \in States : ops' = Append(ops, NewOp(type, state))
    BY <1>4, FlushFallbackSound DEF States
  <2>2. /\ Ids' = Ids \union {NewId} /\ ops' \in Seq(CallRecords)
        /\ \A i \in Ids' : ops'[i].before \subseteq Ids'
    BY <2>1, Called
  <2>3. syncing' \subseteq Ids'  BY <1>0, <1>4, <2>2, FlushFallbackSound DEF TypeParts
  <2>4. waiters' \in Seq(Waiter')
    <3> DEFINE w == [id |-> NewId, direct |-> FALSE]
    <3>1. w \in Waiter'  BY <2>2 DEF Waiter
    <3> HIDE DEF w
    <3>2. waiters \in Seq(Waiter')  BY <2>2, TypeKept
    <3>3. Append(waiters, w) \in Seq(Waiter')  BY <3>1, <3>2
    <3>4. waiters' = waiters \/ waiters' = Append(waiters, w)
      BY <1>4, FlushFallbackSound DEF w
    <3> QED  BY <3>2, <3>3, <3>4
  <2> QED  BY <2>2, <2>3, <2>4
<1>5. CASE FlushCall
  <2>1. FlushFallback("flush") /\ "flush" \in Types  BY <1>5 DEF FlushCall, Types
  <2>2. TypeParts'
    BY <1>0, <1>4, <1>5, <2>1, TypeKept DEF FlushCall, TypeParts, wvars, given
  <2> QED  BY <2>2, TypeInPartsNext
<1>6. CASE ShutdownCall
  <2>1. /\ Ids' = Ids \union {NewId} /\ ops' \in Seq(CallRecords)
        /\ \A i \in Ids' : ops'[i].before \subseteq Ids'
        /\ syncing' \subseteq Ids' /\ waiters' \in Seq(Waiter')
    <3>1. CASE shutdownOps = {}
      <4>1. FlushFallback("shutdown") /\ "shutdown" \in Types
        BY <1>6, <3>1 DEF ShutdownCall, Types
      <4> QED  BY <4>1, <1>4
    <3>2. CASE shutdownOps # {}
      <4>1. PICK first \in shutdownOps : \A i \in shutdownOps : first <= i
        <5>1. shutdownOps \subseteq Nat  BY <1>0 DEF TypeParts, Ids
        <5> QED  BY <5>1, <3>2, LeastElement
      <4> DEFINE least == CHOOSE i \in shutdownOps : \A j \in shutdownOps : i <= j
      <4>2. least \in shutdownOps  BY <4>1
      <4>3. ops' = Append(ops, NewOp("shutdown", ops[least].state))
            /\ syncing' = syncing /\ waiters' = waiters
        BY <1>6, <3>2 DEF ShutdownCall
      <4> HIDE DEF least
      <4>4. ops[least].state \in States /\ "shutdown" \in Types
        BY <4>2, <1>0, CallParts DEF TypeParts, Types
      <4>5. /\ Ids' = Ids \union {NewId} /\ ops' \in Seq(CallRecords)
            /\ \A i \in Ids' : ops'[i].before \subseteq Ids'
        BY <4>3, <4>4, Called
      <4> QED  BY <1>0, <4>3, <4>5, TypeKept DEF TypeParts
    <3> QED  BY <3>1, <3>2
  <2>2. shutdownOps' \subseteq Ids'  BY <1>0, <1>6, <2>1 DEF ShutdownCall, TypeParts
  <2>3. TypeParts'
    BY <1>0, <1>6, <2>1, <2>2, TypeKept DEF ShutdownCall, TypeParts, wvars, given
  <2> QED  BY <2>3, TypeInPartsNext
<1>7. SendToWorker \/ FlushToWorker \/ ShutdownToWorker
        => \E type \in Types : DispatchToWorker(type) /\ shuttingDown' \in BOOLEAN
  BY <1>0 DEF SendToWorker, FlushToWorker, ShutdownToWorker, Types, TypeParts
<1> QED  BY <1>1, <1>2, <1>3, <1>5, <1>6, <1>7 DEF Calls
LEMMA FileType ==
  ASSUME TTypeOK, \/ UNCHANGED file /\ durable' \in {durable, Len(file)}
                  \/ UNCHANGED durable /\ \E i \in Ids : file' = Append(file, i)
  PROVE  /\ file' \in Seq(Ids) /\ durable' \in 0 .. Len(file') /\ durable <= durable'
         /\ Written \subseteq Written' /\ Durable \subseteq Durable'
<1>0. file \in Seq(Ids) /\ Len(file) \in Nat /\ durable \in 0 .. Len(file)
  BY DEF TTypeOK
<1>1. CASE UNCHANGED file /\ durable' \in {durable, Len(file)}
  BY <1>0, <1>1 DEF Written, Durable
<1>2. CASE UNCHANGED durable /\ \E i \in Ids : file' = Append(file, i)
  <2>1. PICK i \in Ids : file' = Append(file, i)  BY <1>2
  <2>2. /\ file' \in Seq(Ids) /\ Len(file') = Len(file) + 1
        /\ \A n \in 1 .. Len(file) : file'[n] = file[n]
    BY <1>0, <2>1
  <2>3. durable' \in 0 .. Len(file') /\ durable <= durable'  BY <1>0, <1>2, <2>2
  <2>4. Written \subseteq Written'  BY <1>0, <2>2 DEF Written
  <2>5. Durable \subseteq Durable'  BY <1>0, <1>2, <2>2 DEF Durable
  <2> QED  BY <2>2, <2>3, <2>4, <2>5
<1> QED  BY <1>1, <1>2

LEMMA TypeWorker ==
  ASSUME TTypeOK, Worker \/ ((WorkerCrash \/ Timer) /\ UNCHANGED given)
  PROVE  TTypeOK'
<1>0. TypeParts  BY TypeInParts
<1>1. CASE WorkerStart /\ UNCHANGED given
  <2>1. inbox \in Seq(Ids) /\ inbox # <<>>  BY <1>0, <1>1 DEF WorkerStart, TypeParts
  <2>2. Head(inbox) \in Ids /\ Tail(inbox) \in Seq(Ids)  BY <2>1
  <2>3. UNCHANGED ops /\ Ids' = Ids  BY <1>1 DEF WorkerStart, cvars, Ids
  <2>4. TypeParts'
    BY <1>0, <1>1, <2>2, <2>3, TypeKept DEF WorkerStart, TypeParts, cvars, fvars, given
  <2> QED  BY <2>4, TypeInPartsNext
<1>2. CASE WorkerShutdown /\ UNCHANGED given
  <2>1. inbox \in Seq(Ids) /\ inbox # <<>>  BY <1>0, <1>2 DEF WorkerShutdown, TypeParts
  <2> DEFINE a == [id |-> Head(inbox), ok |-> TRUE]
  <2>2. a \in Answers  BY <2>1 DEF Answers
  <2> HIDE DEF a
  <2>3. Append(outbox, a) \in Seq(Answers)  BY <1>0, <2>2 DEF TypeParts
  <2>4. UNCHANGED ops /\ Ids' = Ids  BY <1>2 DEF WorkerShutdown, cvars, Ids
  <2>5. outbox' = Append(outbox, a) /\ inbox' = <<>>  BY <1>2 DEF WorkerShutdown, a
  <2>6. inbox' \in Seq(Ids')  BY <2>5
  <2>7. TypeParts'
    BY <1>0, <1>2, <2>3, <2>4, <2>5, <2>6, TypeKept
    DEF WorkerShutdown, TypeParts, cvars, fvars, given
  <2> QED  BY <2>7, TypeInPartsNext
<1>3. ASSUME NEW i \in running, WorkerWrite(i) \/ WorkerSync(i) \/ WorkerFail(i),
             UNCHANGED given
      PROVE  TTypeOK'
  <2>1. \E ok \in BOOLEAN : WorkerDone(i, ok)
    BY <1>3 DEF WorkerWrite, WorkerSync, WorkerFail
  <2>2. i \in Ids /\ UNCHANGED ops /\ Ids' = Ids
    BY <1>0, <2>1 DEF WorkerDone, TypeParts, Ids
  <2>3. finished' \subseteq Answers  BY <1>0, <2>1, <2>2 DEF WorkerDone, TypeParts, Answers
  <2>4. file' \in Seq(Ids) /\ durable' \in 0 .. Len(file')
    <3>1. \/ UNCHANGED file /\ durable' \in {durable, Len(file)}
          \/ UNCHANGED durable /\ file' = Append(file, i)
      BY <1>3 DEF WorkerWrite, WorkerSync, WorkerFail
    <3> QED  BY <2>2, <3>1, FileType
  <2>5. TypeParts'
    BY <1>0, <1>3, <2>1, <2>2, <2>3, <2>4, TypeKept DEF WorkerDone, TypeParts, fvars, given
  <2> QED  BY <2>5, TypeInPartsNext
<1>4. ASSUME NEW a \in finished, WorkerAnswer(a), UNCHANGED given
      PROVE  TTypeOK'
  <2>1. UNCHANGED ops /\ Ids' = Ids  BY <1>4 DEF WorkerAnswer, cvars, Ids
  <2>2. a \in Answers  BY <1>0 DEF TypeParts
  <2>3. outbox' \in Seq(Answers)  BY <1>0, <1>4, <2>2 DEF WorkerAnswer, TypeParts
  <2>4. TypeParts'
    BY <1>0, <1>4, <2>1, <2>3, TypeKept DEF WorkerAnswer, TypeParts, cvars, fvars, given
  <2> QED  BY <2>4, TypeInPartsNext
<1>5. CASE WorkerCrash /\ UNCHANGED given
  <2>1. UNCHANGED ops /\ Ids' = Ids  BY <1>5 DEF WorkerCrash, cvars, Ids
  <2>2. inbox' \in Seq(Ids')  BY <1>5 DEF WorkerCrash
  <2>3. TypeParts'
    BY <1>0, <1>5, <2>1, <2>2, TypeKept DEF WorkerCrash, TypeParts, cvars, fvars, given
  <2> QED  BY <2>3, TypeInPartsNext
<1>6. ASSUME NEW i \in pending, ShutdownTimeout(i), UNCHANGED given
      PROVE  TTypeOK'
  <2>1. i \in Ids /\ Settle(i, "resolved") /\ "resolved" \in States
    BY <1>0, <1>6 DEF ShutdownTimeout, TypeParts, States
  <2>2. Restated  BY <2>1, SettleSound
  <2>3. inbox' \in Seq(Ids')  BY <1>6 DEF ShutdownTimeout
  <2>4. TypeParts'
    BY <1>0, <1>6, <2>2, <2>3, TypeKept DEF ShutdownTimeout, Restated, TypeParts, fvars, given
  <2> QED  BY <2>4, TypeInPartsNext
<1> QED  BY <1>1, <1>2, <1>3, <1>4, <1>5, <1>6 DEF Worker, Timer

LEMMA TypeMain ==
  ASSUME TTypeOK, Phases, Main
  PROVE  TTypeOK'
<1>0. TypeParts  BY TypeInParts
<1>1. UNCHANGED given  BY DEF Main
<1>2. CASE ReceiveAnswer
  <2> DEFINE a == Head(outbox)
  <2>1. outbox \in Seq(Answers) /\ outbox # <<>>  BY <1>0, <1>2 DEF ReceiveAnswer, TypeParts
  <2>2. a \in Answers /\ Tail(outbox) \in Seq(Answers)  BY <2>1
  <2>3. a.id \in Ids /\ "resolved" \in States /\ "rejected" \in States
    BY <2>2 DEF Answers, States
  <2>4. \/ UNCHANGED ops
        \/ Settle(a.id, "resolved") \/ Settle(a.id, "rejected")
    BY <1>2 DEF ReceiveAnswer
  <2> HIDE DEF a
  <2>5. Restated
    <3>1. CASE UNCHANGED ops  BY <1>0, <3>1 DEF Restated, TypeParts, Ids
    <3> QED  BY <3>1, <2>3, <2>4, SettleSound
  <2>6. outbox' \in Seq(Answers) /\ pending' \subseteq pending  BY <1>2, <2>2 DEF ReceiveAnswer
  <2>7. TypeParts'
    BY <1>0, <1>1, <1>2, <2>5, <2>6, TypeKept
    DEF ReceiveAnswer, Restated, TypeParts, fvars, given
  <2> QED  BY <2>7, TypeInPartsNext
<1>3. CASE FallbackToMainThread
  <2>1. worker /\ waiters = <<>> /\ syncing = {}  BY <1>3 DEF FallbackToMainThread, Phases
  <2>2. /\ Restated /\ queue' \in Seq(Ids) /\ waiters' \in Seq(Waiter)
        /\ syncing' \subseteq Ids /\ shutdownOps' \subseteq Ids
    BY <1>0, <1>3, <2>1, FallbackSound DEF PendingOf, TypeParts
  <2>3. Waiter' = Waiter  BY <2>2 DEF Waiter, Restated
  <2>4. scheduled' \in BOOLEAN  BY <1>0, <1>3 DEF FallbackToMainThread, TypeParts
  <2>5. TypeParts'
    BY <1>0, <1>1, <1>3, <2>2, <2>3, <2>4, TypeKept
    DEF FallbackToMainThread, Restated, TypeParts, given
  <2> QED  BY <2>5, TypeInPartsNext
<1>4. ASSUME NEW S, NEW state \in States, NextItem(S, state)
      PROVE  /\ Restated /\ queue' \in Seq(Ids) /\ active' \in Ids \union {0}
             /\ waiters' \in Seq(Waiter) /\ syncing' \subseteq Ids
  <2>1. Restated  BY <1>4, NextItemSound
  <2>2. queue' \in Seq(Ids) /\ active' \in Ids \union {0}
    <3>1. CASE queue # <<>>
      <4>1. queue' = Tail(queue) /\ active' = Head(queue)  BY <1>4, <3>1 DEF NextItem, Rest
      <4>2. queue \in Seq(Ids)  BY <1>0 DEF TypeParts
      <4> QED  BY <3>1, <4>1, <4>2
    <3>2. CASE queue = <<>>
      BY <1>0, <1>4, <3>2 DEF NextItem, TypeParts
    <3> QED  BY <3>1, <3>2
  <2>3. waiters' \in Seq(Waiter)
    <3>1. waiters' = waiters \/ waiters' = <<>>  BY <1>4 DEF NextItem
    <3>2. <<>> \in Seq(Waiter)  OBVIOUS
    <3> QED  BY <1>0, <3>1, <3>2 DEF TypeParts
  <2>4. OtherWaiters \subseteq Ids
    <3>1. \A n \in 1 .. Len(waiters) : waiters[n] \in Waiter  BY <1>0 DEF TypeParts
    <3> QED  BY <3>1 DEF OtherWaiters, Waiter
  <2>5. syncing' \subseteq Ids  BY <1>0, <1>4, <2>4 DEF NextItem, TypeParts
  <2> QED  BY <2>1, <2>2, <2>3, <2>5
<1>5. CASE ProcessStart
  <2>1. NextItem({}, "resolved") /\ "resolved" \in States  BY <1>5 DEF ProcessStart, States
  <2>2. TypeParts'
    BY <1>0, <1>1, <1>4, <1>5, <2>1, TypeKept
    DEF ProcessStart, Restated, TypeParts, wvars, given, Waiter
  <2> QED  BY <2>2, TypeInPartsNext
<1>6. CASE FallbackSent \/ FallbackFailed
  <2>1. PICK state \in States : NextItem({active}, state)
    BY <1>6 DEF FallbackSent, FallbackFailed, States
  <2>2. file' \in Seq(Ids) /\ durable' \in 0 .. Len(file')
    <3>1. active \in Ids  BY <1>0, <1>6 DEF FallbackSent, FallbackFailed, TypeParts
    <3>2. UNCHANGED durable /\ (UNCHANGED file \/ file' = Append(file, active))
      BY <1>6 DEF FallbackSent, FallbackFailed
    <3> QED  BY <3>1, <3>2, FileType
  <2>3. TypeParts'
    BY <1>0, <1>1, <1>4, <1>6, <2>1, <2>2, TypeKept
    DEF FallbackSent, FallbackFailed, Restated, TypeParts, wvars, given, Waiter
  <2> QED  BY <2>3, TypeInPartsNext
<1>7. ASSUME NEW i \in syncing, SyncDone(i) \/ SyncFailed(i)
      PROVE  TTypeOK'
  <2>1. PICK state \in States : SetState(Sharers(i), state)
    BY <1>7 DEF SyncDone, SyncFailed, States
  <2>2. Restated  BY <2>1, SetStateSound
  <2>3. durable' \in 0 .. Len(file) /\ UNCHANGED file
    BY <1>0, <1>7 DEF SyncDone, SyncFailed, TypeParts
  <2>4. TypeParts'
    BY <1>0, <1>1, <1>7, <2>2, <2>3, TypeKept
    DEF SyncDone, SyncFailed, Restated, TypeParts, wvars, given
  <2> QED  BY <2>4, TypeInPartsNext
<1> QED  BY <1>2, <1>3, <1>5, <1>6, <1>7 DEF Main
-------------------------------------------------------------------------------
(* The steps, as the proofs below tell them apart                           *)

DispatchStep(type) ==
  DispatchToWorker(type) /\ shuttingDown' = (shuttingDown \/ type = "shutdown")

(* A call without a worker that leaves the queue as it is: a flush, a       *)
(* shutdown, or a send that is refused at once.                             *)
QuietStep(type, state) ==
  /\ ~worker /\ ops' = Append(ops, NewOp(type, state))
  /\ type = "send" => state = "rejected"
  /\ shuttingDown' = (shuttingDown \/ type = "shutdown")
  /\ \/ UNCHANGED syncing
     \/ type # "send" /\ Idle /\ syncing' = syncing \union {NewId}
  /\ \/ UNCHANGED waiters
     \/ type # "send" /\ waiters' = Append(waiters, [id |-> NewId, direct |-> FALSE])
  /\ \/ UNCHANGED shutdownOps /\ (type = "shutdown" => ~creatable)
     \/ type = "shutdown" /\ creatable /\ shutdownOps' = shutdownOps \union {NewId}
  /\ UNCHANGED <<file, durable, wvars, queue, scheduled, active>>

LeastShutdown == CHOOSE i \in shutdownOps : \A j \in shutdownOps : i <= j

LEMMA LeastShutdownSound ==
  ASSUME TTypeOK, shutdownOps # {}
  PROVE  LeastShutdown \in shutdownOps /\ \A j \in shutdownOps : LeastShutdown <= j
<1>1. shutdownOps \subseteq Nat  BY CallParts DEF TTypeOK, Ids
<1>2. \E i \in shutdownOps : \A j \in shutdownOps : i <= j  BY <1>1, LeastElement
<1> QED  BY <1>2 DEF LeastShutdown

LEMMA CallSteps ==
  ASSUME TTypeOK, Calls
  PROVE  \/ \E type \in Types : DispatchStep(type)
         \/ SendFallback
         \/ \E type \in Types, state \in States : QuietStep(type, state)
<1>0. shuttingDown \in BOOLEAN  BY DEF TTypeOK
<1>1. /\ "pending" \in States /\ "rejected" \in States
      /\ "send" \in Types /\ "flush" \in Types /\ "shutdown" \in Types
  BY DEF States, Types
<1>2. CASE SendToWorker \/ FlushToWorker \/ ShutdownToWorker
  <2>1. \/ SendToWorker /\ DispatchStep("send")
        \/ FlushToWorker /\ DispatchStep("flush")
        \/ ShutdownToWorker /\ DispatchStep("shutdown")
    BY <1>0, <1>2 DEF SendToWorker, FlushToWorker, ShutdownToWorker, DispatchStep
  <2> QED  BY <1>1, <2>1
<1>3. CASE FlushCall
  <2>1. PICK state \in {"pending", "rejected"} :
          /\ ops' = Append(ops, NewOp("flush", state))
          /\ UNCHANGED syncing \/ (Idle /\ syncing' = syncing \union {NewId})
          /\ UNCHANGED waiters
             \/ waiters' = Append(waiters, [id |-> NewId, direct |-> FALSE])
    BY <1>3 DEF FlushCall, FlushFallback
  <2>2. QuietStep("flush", state)  BY <1>0, <1>3, <2>1 DEF FlushCall, QuietStep
  <2> QED  BY <1>1, <2>2
<1>4. CASE ShutdownCall /\ shutdownOps = {}
  <2>1. PICK state \in {"pending", "rejected"} :
          /\ ops' = Append(ops, NewOp("shutdown", state))
          /\ UNCHANGED syncing \/ (Idle /\ syncing' = syncing \union {NewId})
          /\ UNCHANGED waiters
             \/ waiters' = Append(waiters, [id |-> NewId, direct |-> FALSE])
    BY <1>4 DEF ShutdownCall, FlushFallback
  <2>2. QuietStep("shutdown", state)  BY <1>0, <1>4, <2>1 DEF ShutdownCall, QuietStep
  <2> QED  BY <1>1, <2>2
<1>5. CASE ShutdownCall /\ shutdownOps # {}
  <2>1. ops' = Append(ops, NewOp("shutdown", ops[LeastShutdown].state))
    BY <1>5 DEF ShutdownCall, LeastShutdown
  <2>2. ops[LeastShutdown].state \in States
    BY <1>5, LeastShutdownSound, CallParts DEF TTypeOK
  <2>3. QuietStep("shutdown", ops[LeastShutdown].state)
    BY <1>0, <1>5, <2>1 DEF ShutdownCall, QuietStep
  <2> QED  BY <1>1, <2>2, <2>3
<1>6. CASE \E type \in Types : Uncreatable(type)
  <2>1. PICK type \in Types : Uncreatable(type)  BY <1>6
  <2>2. QuietStep(type, "rejected")  BY <1>0, <2>1 DEF Uncreatable, QuietStep, fvars
  <2> QED  BY <1>1, <2>2
<1> QED  BY <1>2, <1>3, <1>4, <1>5, <1>6 DEF Calls

LEMMA Steps ==
  ASSUME TTypeOK, TNext
  PROVE  /\ UNCHANGED given
         /\ \/ \E type \in Types : DispatchStep(type)
            \/ SendFallback
            \/ \E type \in Types, state \in States : QuietStep(type, state)
            \/ WorkerStart \/ WorkerShutdown \/ WorkerCrash
            \/ \E i \in running : WorkerWrite(i) \/ WorkerSync(i) \/ WorkerFail(i)
            \/ \E a \in finished : WorkerAnswer(a)
            \/ \E i \in pending : ShutdownTimeout(i)
            \/ ReceiveAnswer \/ FallbackToMainThread
            \/ ProcessStart \/ FallbackSent \/ FallbackFailed
            \/ \E i \in syncing : SyncDone(i) \/ SyncFailed(i)
  BY CallSteps DEF TNext, Worker, Main, Timer

(* A new call, for the invariants: what was said of the others stays said.  *)
LEMMA NewCall ==
  ASSUME TTypeOK,
         \/ \E type \in Types : DispatchStep(type)
         \/ SendFallback
         \/ \E type \in Types, state \in States : QuietStep(type, state)
  PROVE  /\ Ids' = Ids \union {NewId} /\ NewId \notin Ids /\ NewId \in Nat \ {0}
         /\ \A i \in Ids : ops'[i].type = ops[i].type /\ ops'[i].before = ops[i].before
         /\ ops'[NewId].before = Accepted
<1>1. CASE SendFallback
  <2>0. NewId \in Nat \ {0}  BY CallParts DEF NewId
  <2>1. /\ Ids' = Ids \union {NewId} /\ NewId \notin Ids
        /\ \A i \in Ids : ops'[i].type = ops[i].type /\ ops'[i].before = ops[i].before
        /\ ops'[NewId] = NewOp("send", "pending")
    BY <1>1, SendFallbackSound
  <2> QED  BY <2>0, <2>1 DEF NewOp
<1>2. CASE \E type \in Types : DispatchStep(type)
  <2>1. PICK type \in Types : ops' = Append(ops, NewOp(type, "pending"))
    BY <1>2 DEF DispatchStep, DispatchToWorker
  <2>2. "pending" \in States  BY DEF States
  <2>3. /\ ops'[NewId] = NewOp(type, "pending")
        /\ Ids' = Ids \union {NewId} /\ NewId \notin Ids /\ NewId \in Nat \ {0}
        /\ \A i \in Ids : ops'[i] = ops[i]
    BY <2>1, <2>2, Called
  <2> QED  BY <2>3, NewOpParts
<1>3. CASE \E type \in Types, state \in States : QuietStep(type, state)
  <2>1. PICK type \in Types, state \in States : ops' = Append(ops, NewOp(type, state))
    BY <1>3 DEF QuietStep
  <2>2. /\ ops'[NewId] = NewOp(type, state)
        /\ Ids' = Ids \union {NewId} /\ NewId \notin Ids /\ NewId \in Nat \ {0}
        /\ \A i \in Ids : ops'[i] = ops[i]
    BY <2>1, Called
  <2> QED  BY <2>2, NewOpParts
<1> QED  BY <1>1, <1>2, <1>3
LEMMA OpsUnchanged ==
  ASSUME TTypeOK, UNCHANGED ops
  PROVE  Restated /\ \A i \in Ids : ops'[i] = ops[i]
<1>1. TypeParts  BY TypeInParts
<1> QED  BY <1>1 DEF Restated, TypeParts, Ids

LEMMA NoCall ==
  ASSUME TTypeOK, Phases,
         \/ WorkerStart \/ WorkerShutdown \/ WorkerCrash
         \/ \E i \in running : WorkerWrite(i) \/ WorkerSync(i) \/ WorkerFail(i)
         \/ \E a \in finished : WorkerAnswer(a)
         \/ \E i \in pending : ShutdownTimeout(i)
         \/ ReceiveAnswer \/ FallbackToMainThread
         \/ ProcessStart \/ FallbackSent \/ FallbackFailed
         \/ \E i \in syncing : SyncDone(i) \/ SyncFailed(i)
  PROVE  Restated
<1>0. TypeParts  BY TypeInParts
<1>1. "resolved" \in States /\ "rejected" \in States  BY DEF States
<1>2. CASE \/ WorkerStart \/ WorkerShutdown \/ WorkerCrash
           \/ \E i \in running : WorkerWrite(i) \/ WorkerSync(i) \/ WorkerFail(i)
           \/ \E a \in finished : WorkerAnswer(a)
  <2>1. UNCHANGED ops
    BY <1>2 DEF WorkerStart, WorkerShutdown, WorkerCrash, WorkerWrite, WorkerSync,
                WorkerFail, WorkerDone, WorkerAnswer, cvars
  <2> QED  BY <2>1, OpsUnchanged
<1>3. CASE \E i \in pending : ShutdownTimeout(i)
  <2>1. PICK i \in pending : Settle(i, "resolved")  BY <1>3 DEF ShutdownTimeout
  <2> QED  BY <1>0, <1>1, <2>1, SettleSound DEF TypeParts
<1>4. CASE ReceiveAnswer
  <2>1. pending \subseteq Ids  BY <1>0 DEF TypeParts
  <2>2. UNCHANGED ops \/ \E i \in pending : \E state \in States : Settle(i, state)
    BY <1>1, <1>4 DEF ReceiveAnswer
  <2> QED  BY <2>1, <2>2, OpsUnchanged, SettleSound
<1>5. CASE FallbackToMainThread
  BY <1>5, FallbackSound DEF FallbackToMainThread, Phases
<1>6. CASE ProcessStart \/ FallbackSent \/ FallbackFailed
  <2>1. PICK S \in {{}, {active}}, state \in States : NextItem(S, state)
    BY <1>1, <1>6 DEF ProcessStart, FallbackSent, FallbackFailed
  <2> QED  BY <2>1, NextItemSound
<1>7. CASE \E i \in syncing : SyncDone(i) \/ SyncFailed(i)
  <2>1. PICK i \in syncing, state \in States : SetState(Sharers(i), state)
    BY <1>1, <1>7 DEF SyncDone, SyncFailed
  <2> QED  BY <2>1, SetStateSound
<1> QED  BY <1>2, <1>3, <1>4, <1>5, <1>6, <1>7

-------------------------------------------------------------------------------
(* Phases                                                                   *)

LEMMA PhasesStep ==
  ASSUME TTypeOK, TTypeOK', Phases, TNext
  PROVE  Phases'
<1>0. TypeParts /\ TypeParts' /\ UNCHANGED given
  BY TypeInParts, TypeInPartsNext, Steps
<1> DEFINE Told == \A i \in Ids : ops[i].type = "shutdown" => shuttingDown
<1>1. ASSUME NEW type \in Types, DispatchStep(type)  PROVE Phases'
  <2>1. ops' = Append(ops, NewOp(type, "pending")) /\ "pending" \in States
    BY <1>1 DEF DispatchStep, DispatchToWorker, States
  <2>2. Ids' = Ids \union {NewId} /\ ops'[NewId].type = type
        /\ \A i \in Ids : ops'[i] = ops[i]
    BY <2>1, Called
  <2>3. Told'  BY <1>1, <2>2 DEF Phases, DispatchStep
  <2> QED
    BY <1>0, <1>1, <2>3 DEF Phases, DispatchStep, DispatchToWorker, fvars, given
<1>2. CASE SendFallback
  <2>1. Ids' = Ids \union {NewId} /\ ops'[NewId].type = "send"
        /\ \A i \in Ids : ops'[i].type = ops[i].type
    BY <1>2, SendFallbackSound, NewOpParts
  <2>2. Told'  BY <1>2, <2>1 DEF Phases, SendFallback
  <2> QED  BY <1>0, <1>2, <2>2 DEF Phases, SendFallback, wvars, given
<1>3. ASSUME NEW type \in Types, NEW state \in States, QuietStep(type, state)  PROVE Phases'
  <2>1. ops' = Append(ops, NewOp(type, state))  BY <1>3 DEF QuietStep
  <2>2. Ids' = Ids \union {NewId} /\ ops'[NewId].type = type
        /\ \A i \in Ids : ops'[i] = ops[i]
    BY <2>1, Called
  <2>3. Told'  BY <1>3, <2>2 DEF Phases, QuietStep
  <2> QED  BY <1>0, <1>3, <2>3 DEF Phases, QuietStep, wvars, given
<1>4. ASSUME Restated, UNCHANGED shuttingDown \/ shuttingDown'  PROVE Told'
  BY <1>4 DEF Phases, Restated
<1>5. CASE WorkerStart
  <2>1. Told'  BY <1>4, <1>5, NoCall DEF WorkerStart
  <2> QED  BY <1>0, <1>5, <2>1 DEF Phases, WorkerStart, fvars, given
<1>6. CASE WorkerShutdown
  <2>1. Told'  BY <1>4, <1>6, NoCall DEF WorkerShutdown
  <2>2. shuttingDown
    <3>1. inbox \in Seq(Ids) /\ inbox # <<>>  BY <1>0, <1>6 DEF WorkerShutdown, TypeParts
    <3>2. Head(inbox) \in Ids  BY <3>1
    <3> QED  BY <1>6, <3>2 DEF Phases, WorkerShutdown
  <2> QED  BY <1>0, <1>6, <2>1, <2>2 DEF Phases, WorkerShutdown, fvars, given
<1>7. CASE WorkerCrash
  <2>1. Told'  BY <1>4, <1>7, NoCall DEF WorkerCrash
  <2> QED  BY <1>0, <1>7, <2>1 DEF Phases, WorkerCrash, fvars, given
<1>8. ASSUME NEW i \in running, WorkerWrite(i) \/ WorkerSync(i) \/ WorkerFail(i)
      PROVE  Phases'
  <2>1. PICK ok \in BOOLEAN : WorkerDone(i, ok)
    BY <1>8 DEF WorkerWrite, WorkerSync, WorkerFail
  <2>2. Told'  BY <1>4, <1>8, <2>1, NoCall DEF WorkerDone
  <2> QED  BY <1>0, <2>1, <2>2 DEF Phases, WorkerDone, fvars, given
<1>9. ASSUME NEW a \in finished, WorkerAnswer(a)  PROVE Phases'
  <2>1. Told'  BY <1>4, <1>9, NoCall DEF WorkerAnswer
  <2> QED  BY <1>0, <1>9, <2>1 DEF Phases, WorkerAnswer, fvars, given
<1>10. ASSUME NEW i \in pending, ShutdownTimeout(i)  PROVE Phases'
  <2>1. Told'  BY <1>4, <1>10, NoCall DEF ShutdownTimeout
  <2>2. shuttingDown  BY <1>0, <1>10 DEF Phases, ShutdownTimeout, TypeParts
  <2> QED  BY <1>0, <1>10, <2>1, <2>2 DEF Phases, ShutdownTimeout, fvars, given
<1>11. CASE ReceiveAnswer
  <2>1. Told'  BY <1>4, <1>11, NoCall DEF ReceiveAnswer
  <2> QED  BY <1>0, <1>11, <2>1 DEF Phases, ReceiveAnswer, fvars, given
<1>12. CASE FallbackToMainThread
  <2>1. Told'  BY <1>4, <1>12, NoCall DEF FallbackToMainThread
  <2>2. threaded /\ creatable  BY <1>12 DEF Phases, FallbackToMainThread
  <2> QED  BY <1>0, <1>12, <2>1, <2>2 DEF Phases, FallbackToMainThread, given
<1>13. ASSUME NEW S, NEW state \in States, NextItem(S, state), Restated, ~worker,
              UNCHANGED <<wvars, shutdownOps, shuttingDown>>
       PROVE  Phases'
  <2>1. Told'  BY <1>4, <1>13
  <2>2. ~creatable => queue' = <<>> /\ active' = 0  BY <1>13 DEF Phases, NextItem
  <2> QED  BY <1>0, <1>13, <2>1, <2>2 DEF Phases, wvars, given
<1>14. CASE ProcessStart \/ FallbackSent \/ FallbackFailed
  <2>1. PICK S \in {{}, {active}}, state \in States : NextItem(S, state)
    BY <1>14 DEF ProcessStart, FallbackSent, FallbackFailed, States
  <2>2. ~worker  BY <1>14 DEF Phases, ProcessStart, FallbackSent, FallbackFailed
  <2>3. UNCHANGED <<wvars, shutdownOps, shuttingDown>>
    BY <1>14 DEF ProcessStart, FallbackSent, FallbackFailed
  <2> QED  BY <1>13, <1>14, <2>1, <2>2, <2>3, NoCall
<1>15. ASSUME NEW i \in syncing, SyncDone(i) \/ SyncFailed(i)  PROVE Phases'
  <2>1. Told'  BY <1>4, <1>15, NoCall DEF SyncDone, SyncFailed
  <2> QED  BY <1>0, <1>15, <2>1 DEF Phases, SyncDone, SyncFailed, wvars, given
<1> QED
  BY <1>1, <1>2, <1>3, <1>5, <1>6, <1>7, <1>8, <1>9, <1>10, <1>11, <1>12, <1>14, <1>15, Steps
-------------------------------------------------------------------------------
(* Kinds                                                                    *)

LEMMA InSeq ==
  ASSUME NEW S, NEW q \in Seq(S)
  PROVE  /\ ToSet(q) \subseteq S /\ \A n \in 1 .. Len(q) : q[n] \in ToSet(q)
         /\ \A x \in ToSet(q) : \E n \in 1 .. Len(q) : q[n] = x
<1>1. DOMAIN q = 1 .. Len(q) /\ \A n \in 1 .. Len(q) : q[n] \in S  OBVIOUS
<1> QED  BY <1>1 DEF ToSet

(* What waits anywhere is a call that was made.                             *)
LEMMA Located ==
  ASSUME TTypeOK
  PROVE  /\ ToSet(queue) \subseteq Ids /\ ToSet(inbox) \subseteq Ids
         /\ ToSet(outbox) \subseteq Answers /\ ToSet(file) \subseteq Ids
         /\ \A n \in 1 .. Len(waiters) : waiters[n].id \in Ids
         /\ active \in Ids \union {0} /\ 0 \notin Ids
         /\ \A a \in finished \union ToSet(outbox) : a.id \in Ids /\ a \in Answers
         /\ pending \subseteq Ids /\ running \subseteq Ids
         /\ syncing \subseteq Ids /\ shutdownOps \subseteq Ids
<1>0. TypeParts  BY TypeInParts
<1>1. /\ ToSet(queue) \subseteq Ids /\ ToSet(inbox) \subseteq Ids
      /\ ToSet(outbox) \subseteq Answers /\ ToSet(file) \subseteq Ids
  BY <1>0, InSeq DEF TypeParts
<1>2. \A n \in 1 .. Len(waiters) : waiters[n].id \in Ids
  <2>1. \A n \in 1 .. Len(waiters) : waiters[n] \in Waiter  BY <1>0 DEF TypeParts
  <2> QED  BY <2>1 DEF Waiter
<1>3. 0 \notin Ids  BY CallParts DEF Ids
<1>4. \A a \in finished \union ToSet(outbox) : a.id \in Ids /\ a \in Answers
  BY <1>0, <1>1 DEF TypeParts, Answers
<1> QED  BY <1>0, <1>1, <1>2, <1>3, <1>4 DEF TypeParts

(* The first of the queue, or nothing, is next.                             *)
LEMMA NextFromQueue ==
  ASSUME TTypeOK, NEW S, NEW state, NextItem(S, state)
  PROVE  /\ queue # <<>> => /\ active' = Head(queue) /\ active' \in ToSet(queue)
                            /\ ToSet(queue) = ToSet(queue') \union {active'}
                            /\ Once(queue) => Once(queue') /\ active' \notin ToSet(queue')
                            /\ UNCHANGED <<waiters, syncing>>
         /\ queue = <<>> => /\ active' = 0 /\ queue' = <<>> /\ waiters' = <<>>
                            /\ syncing' = syncing \union OtherWaiters
<1>1. CASE queue # <<>>
  <2>1. queue \in Seq(Ids) /\ queue' = Tail(queue) /\ active' = Head(queue)
    BY <1>1 DEF TTypeOK, NextItem, Rest
  <2>2. ToSet(queue) = ToSet(queue') \union {active'}
        /\ (Once(queue) => Once(queue') /\ active' \notin ToSet(queue'))
    BY <1>1, <2>1, Taken
  <2> QED  BY <1>1, <2>1, <2>2 DEF NextItem
<1>2. CASE queue = <<>>
  BY <1>2 DEF NextItem
<1> QED  BY <1>1, <1>2

(* A send joins the queue, and an evicted one leaves it.                    *)
LEMMA SendQueue ==
  ASSUME TTypeOK, SendFallback
  PROVE  /\ Once(queue) => Once(queue')
         /\ \/ /\ ToSet(queue') = ToSet(queue) \union {NewId}
               /\ \A i \in Ids : ops'[i] = ops[i]
            \/ \E old \in ToSet(queue) :
                 /\ ops'[old].state = "rejected"
                 /\ \A i \in Ids \ {old} : ops'[i] = ops[i]
                 /\ ToSet(queue) \ {old} \subseteq ToSet(queue')
                 /\ ToSet(queue') \subseteq ToSet(queue) \union {NewId}
                 /\ NewId \in ToSet(queue')
                 /\ Once(queue) => old \notin ToSet(queue')
<1> DEFINE T == Ids \union {NewId}
<1>1. queue \in Seq(T) /\ NewId \in T /\ NewId \notin ToSet(queue) /\ NewId \notin Ids
  <2>1. queue \in Seq(Ids)  BY DEF TTypeOK
  <2>2. NewId \notin Ids  BY SendFallbackSound
  <2> QED  BY <2>1, <2>2, SeqWiden, Located
<1> HIDE DEF T
<1>2. CASE /\ \A i \in Ids : ops'[i] = ops[i]
           /\ queue' = Append(queue, NewId)
  <2>1. ToSet(queue') = ToSet(queue) \union {NewId} /\ (Once(queue) => Once(queue'))
    BY <1>1, <1>2, Appended
  <2> QED  BY <1>2, <2>1
<1>3. CASE /\ queue # <<>> /\ Head(queue) \in Ids
           /\ ops'[Head(queue)].state = "rejected"
           /\ \A i \in Ids \ {Head(queue)} : ops'[i] = ops[i]
           /\ queue' = Append(Tail(queue), NewId)
  <2> DEFINE t == Tail(queue)
             old == Head(queue)
  <2>1. /\ t \in Seq(T) /\ ToSet(queue) = ToSet(t) \union {old}
        /\ Once(queue) => Once(t) /\ old \notin ToSet(t)
    BY <1>1, <1>3, Taken
  <2>2. queue' = Append(t, NewId) /\ old \in Ids  BY <1>3
  <2> HIDE DEF t
  <2>3. ToSet(queue') = ToSet(t) \union {NewId}
        /\ (Once(t) /\ NewId \notin ToSet(t) => Once(queue'))
    BY <1>1, <2>1, <2>2, Appended
  <2>4. /\ ops'[old].state = "rejected" /\ \A i \in Ids \ {old} : ops'[i] = ops[i]
    BY <1>3
  <2> HIDE DEF old
  <2> QED  BY <1>1, <2>1, <2>2, <2>3, <2>4
<1> QED  BY <1>2, <1>3, SendFallbackSound

LEMMA KindsStep ==
  ASSUME TTypeOK, Phases, Kinds, TNext
  PROVE  Kinds'
<1>0. TypeParts  BY TypeInParts
<1> USE DEF IsSend
<1>1. ASSUME NEW type \in Types, DispatchStep(type)  PROVE Kinds'
  <2>1. ops' = Append(ops, NewOp(type, "pending")) /\ "pending" \in States
    BY <1>1 DEF DispatchStep, DispatchToWorker, States
  <2>2. \A i \in Ids : ops'[i] = ops[i]  BY <2>1, Called
  <2>3. UNCHANGED fvars  BY <1>1 DEF DispatchStep, DispatchToWorker
  <2> QED  BY <2>2, <2>3, Located DEF Kinds, fvars
<1>2. CASE SendFallback
  <2>1. ops'[NewId].type = "send" /\ \A i \in Ids : ops'[i].type = ops[i].type
    BY <1>2, SendFallbackSound, NewOpParts
  <2>2. ToSet(queue') \subseteq ToSet(queue) \union {NewId}  BY <1>2, SendQueue
  <2>3. UNCHANGED <<active, waiters, syncing, shutdownOps>>  BY <1>2 DEF SendFallback
  <2> QED  BY <2>1, <2>2, <2>3, Located DEF Kinds
<1>3. ASSUME NEW type \in Types, NEW state \in States, QuietStep(type, state)  PROVE Kinds'
  <2>1. ops' = Append(ops, NewOp(type, state))  BY <1>3 DEF QuietStep
  <2>2. ops'[NewId].type = type /\ \A i \in Ids : ops'[i] = ops[i]
    BY <2>1, Called
  <2>3. \A n \in 1 .. Len(waiters') : ops'[waiters'[n].id].type # "send"
    <3> DEFINE w == [id |-> NewId, direct |-> FALSE]
    <3>1. waiters \in Seq(Waiter \union {w}) /\ w \in Waiter \union {w} /\ w.id = NewId
      BY <1>0, SeqWiden DEF TypeParts
    <3>2. CASE UNCHANGED waiters  BY <3>2, <2>2, Located DEF Kinds
    <3>3. CASE type # "send" /\ waiters' = Append(waiters, w)
      <4> HIDE DEF w
      <4>1. Len(waiters') = Len(waiters) + 1 /\ waiters'[Len(waiters) + 1] = w
            /\ \A n \in 1 .. Len(waiters) : waiters'[n] = waiters[n]
        BY <3>1, <3>3, Appended
      <4>2. Len(waiters) \in Nat  BY <1>0 DEF TypeParts
      <4> QED  BY <3>1, <3>3, <4>1, <4>2, <2>2, Located DEF Kinds
    <3> QED  BY <1>3, <3>2, <3>3 DEF QuietStep
  <2> QED  BY <1>3, <2>2, <2>3, Located DEF Kinds, QuietStep
<1>4. ASSUME Restated, UNCHANGED <<queue, active, waiters, shutdownOps>>, syncing' \subseteq syncing
      PROVE  Kinds'
  BY <1>4, Located DEF Kinds, Restated
<1>5. CASE \/ WorkerStart \/ WorkerShutdown \/ WorkerCrash
           \/ \E i \in running : WorkerWrite(i) \/ WorkerSync(i) \/ WorkerFail(i)
           \/ \E a \in finished : WorkerAnswer(a)
           \/ \E i \in pending : ShutdownTimeout(i)
           \/ ReceiveAnswer
  <2>1. UNCHANGED fvars
    BY <1>5 DEF WorkerStart, WorkerShutdown, WorkerCrash, WorkerWrite, WorkerSync,
                WorkerFail, WorkerDone, WorkerAnswer, ShutdownTimeout, ReceiveAnswer
  <2>2. Restated  BY <1>5, NoCall
  <2> QED  BY <1>4, <2>1, <2>2 DEF fvars
<1>6. CASE FallbackToMainThread
  <2>1. waiters = <<>> /\ syncing = {} /\ active = 0 /\ UNCHANGED active
    BY <1>6 DEF FallbackToMainThread, Phases
  <2>2. /\ Restated /\ ToSet(queue') = PendingOf("send")
        /\ \A n \in 1 .. Len(waiters') : ~IsSend(waiters'[n].id)
        /\ waiters' \in Seq(Waiter)
        /\ syncing' \subseteq PendingOf("shutdown") /\ shutdownOps' = PendingOf("shutdown")
    BY <1>6, <2>1, FallbackSound
  <2>3. \A n \in 1 .. Len(waiters') : waiters'[n].id \in Ids
    <3>1. \A n \in 1 .. Len(waiters') : waiters'[n] \in Waiter  BY <2>2
    <3> QED  BY <3>1 DEF Waiter
  <2>4. \A i \in Ids : ops'[i].type = ops[i].type  BY <2>2 DEF Restated
  <2> QED  BY <2>1, <2>2, <2>3, <2>4, Located DEF Kinds, PendingOf
<1>7. CASE ProcessStart \/ FallbackSent \/ FallbackFailed
  <2>1. PICK S \in {{}, {active}}, state \in States : NextItem(S, state)
    BY <1>7 DEF ProcessStart, FallbackSent, FallbackFailed, States
  <2>2. Restated /\ UNCHANGED shutdownOps
    BY <1>7, NoCall DEF ProcessStart, FallbackSent, FallbackFailed
  <2>3. \A i \in Ids : ops'[i].type = ops[i].type  BY <2>2 DEF Restated
  <2>4. CASE queue # <<>>
    <3>1. /\ active' \in ToSet(queue) /\ ToSet(queue') \subseteq ToSet(queue)
          /\ UNCHANGED <<waiters, syncing>>
      BY <2>1, <2>4, NextFromQueue
    <3> QED  BY <2>2, <2>3, <3>1, Located DEF Kinds
  <2>5. CASE queue = <<>>
    <3>1. /\ active' = 0 /\ queue' = <<>> /\ waiters' = <<>>
          /\ syncing' = syncing \union OtherWaiters
      BY <2>1, <2>5, NextFromQueue
    <3>2. \A i \in OtherWaiters : i \in Ids /\ ~IsSend(i)
      BY Located DEF Kinds, OtherWaiters
    <3>3. ToSet(queue') = {} /\ Len(waiters') = 0  BY <3>1, NothingIn
    <3> QED  BY <2>2, <2>3, <3>1, <3>2, <3>3, Located DEF Kinds
  <2> QED  BY <2>4, <2>5
<1>8. ASSUME NEW i \in syncing, SyncDone(i) \/ SyncFailed(i)  PROVE Kinds'
  <2>1. Restated  BY <1>8, NoCall
  <2> QED  BY <1>4, <1>8, <2>1 DEF SyncDone, SyncFailed
<1> QED  BY <1>1, <1>2, <1>3, <1>5, <1>6, <1>7, <1>8, Steps
-------------------------------------------------------------------------------
(* Awaited, and NoOrphan                                                    *)

(* Where a send that has not settled can still settle from.                 *)
Traced(i) ==
  \/ i = active \/ i \in ToSet(queue)
  \/ i \in pending /\ errorDue
  \/ i \in pending /\ thread = "running"
       /\ i \in ToSet(inbox) \union running \union {a.id : a \in finished}
  \/ i \in pending /\ i \in {a.id : a \in ToSet(outbox)}
  \/ worker /\ shuttingDown

LEMMA AnswerTaken ==
  ASSUME TTypeOK, ReceiveAnswer
  PROVE  LET a == Head(outbox)
         IN  /\ a \in Answers /\ a.id \in Ids /\ a \in ToSet(outbox)
             /\ ToSet(outbox) = ToSet(outbox') \union {a}
             /\ pending' = pending \ {a.id}
             /\ \A i \in Ids \ {a.id} : ops'[i] = ops[i]
             /\ IF a.id \in pending /\ ops[a.id].state = "pending"
                THEN ops'[a.id].state = IF a.ok THEN "resolved" ELSE "rejected"
                ELSE ops'[a.id] = ops[a.id]
<1> DEFINE a == Head(outbox)
<1>1. outbox \in Seq(Answers) /\ outbox # <<>> /\ outbox' = Tail(outbox)
  BY DEF TTypeOK, ReceiveAnswer
<1>2. a \in Answers /\ a.id \in Ids /\ a.ok \in BOOLEAN
  <2>1. a \in Answers  BY <1>1
  <2> QED  BY <2>1 DEF Answers
<1>3. ToSet(outbox) = ToSet(outbox') \union {a}  BY <1>1, Taken
<1>4. pending' = pending \ {a.id}  BY DEF ReceiveAnswer
<1>5. CASE a.id \in pending /\ ops[a.id].state = "pending"
  <2> DEFINE state == IF a.ok THEN "resolved" ELSE "rejected"
  <2>1. Settle(a.id, state) /\ state \in States  BY <1>5 DEF ReceiveAnswer, States
  <2> HIDE DEF state, a
  <2>2. ops'[a.id].state = state /\ \A i \in Ids \ {a.id} : ops'[i] = ops[i]
    BY <1>2, <2>1, SettleSound
  <2> QED  BY <1>2, <1>3, <1>4, <1>5, <2>2 DEF state, a
<1>6. CASE ~(a.id \in pending /\ ops[a.id].state = "pending")
  <2>1. UNCHANGED ops  BY <1>6 DEF ReceiveAnswer
  <2> QED  BY <1>2, <1>3, <1>4, <1>6, <2>1
<1> QED  BY <1>5, <1>6

(* The head of the worker's inbox is taken.                                 *)
LEMMA MessageTaken ==
  ASSUME TTypeOK, WorkerStart
  PROVE  /\ Head(inbox) \in Ids /\ ToSet(inbox) = ToSet(inbox') \union {Head(inbox)}
         /\ Once(inbox) => Once(inbox') /\ Head(inbox) \notin ToSet(inbox')
<1>1. inbox \in Seq(Ids) /\ inbox # <<>> /\ inbox' = Tail(inbox)
  BY DEF TTypeOK, WorkerStart
<1> QED  BY <1>1, Taken

LEMMA AwaitedStep ==
  ASSUME TTypeOK, Phases, Kinds, Awaited, NoOrphan, TNext
  PROVE  Awaited' /\ NoOrphan'
<1>0. TypeParts  BY TypeInParts
<1> USE DEF IsSend
<1>1. ASSUME NEW type \in Types, DispatchStep(type)  PROVE Awaited' /\ NoOrphan'
  <2>1. ops' = Append(ops, NewOp(type, "pending")) /\ "pending" \in States
    BY <1>1 DEF DispatchStep, DispatchToWorker, States
  <2>2. /\ Ids' = Ids \union {NewId} /\ NewId \notin Ids
        /\ \A i \in Ids : ops'[i] = ops[i]
        /\ ops'[NewId].state = "pending"
    BY <2>1, Called
  <2>3. worker /\ UNCHANGED <<worker, fvars>> /\ pending' = pending \union {NewId}
        /\ UNCHANGED <<thread, running, finished, outbox, errorDue>>
    BY <1>1 DEF DispatchStep, DispatchToWorker
  <2>4. queue = <<>> /\ active = 0  BY <2>3 DEF Phases
  <2>5. Awaited'
    BY <2>2, <2>3, <2>4, NothingIn, Located DEF Awaited, fvars
  <2>6. inbox \in Seq(Ids \union {NewId}) /\ NewId \in Ids \union {NewId}
    BY <1>0, SeqWiden DEF TypeParts
  <2>7. ToSet(inbox) \subseteq ToSet(inbox') /\ (thread = "running" => NewId \in ToSet(inbox'))
    <3>1. CASE thread = "running"
      <4>1. inbox' = Append(inbox, NewId)
        BY <1>1, <3>1 DEF DispatchStep, DispatchToWorker
      <4>2. ToSet(inbox') = ToSet(inbox) \union {NewId}  BY <2>6, <4>1, Appended
      <4> QED  BY <4>2
    <3>2. CASE thread # "running"
      BY <1>1, <3>2 DEF DispatchStep, DispatchToWorker
    <3> QED  BY <3>1, <3>2
  <2>8. shuttingDown => shuttingDown'  BY <1>1 DEF DispatchStep
  <2>9. thread # "running" => errorDue \/ shuttingDown
    BY <1>0, <2>3 DEF Phases, TypeParts
  <2>10. NoOrphan'
    <3> SUFFICES ASSUME NEW i \in Ids', ops'[i].type = "send", ops'[i].state = "pending"
                 PROVE  Traced(i)'
      BY DEF NoOrphan, Traced
    <3> QED  BY <2>2, <2>3, <2>7, <2>8, <2>9 DEF NoOrphan, Traced, fvars
  <2> QED  BY <2>5, <2>10
<1>2. CASE SendFallback
  <2>1. ~worker /\ pending = {} /\ UNCHANGED <<wvars, active, shuttingDown>>
    BY <1>2 DEF SendFallback, Phases
  <2>2. /\ Ids' = Ids \union {NewId} /\ NewId \notin Ids
        /\ ops'[NewId].state = "pending"
        /\ \A i \in Ids : ops'[i].type = ops[i].type
    BY <1>2, SendFallbackSound, NewOpParts
  <2>3. Once(queue')  BY <1>2, SendQueue DEF Awaited
  <2>4. /\ \A i \in ToSet(queue') : ops'[i].state = "pending"
        /\ active \notin ToSet(queue') /\ (active # 0 => ops'[active].state = "pending")
        /\ NewId \in ToSet(queue')
        /\ \A i \in Ids : ops'[i].state = "pending" =>
             ops[i].state = "pending" /\ (i \in ToSet(queue) => i \in ToSet(queue'))
    <3>1. NewId # active /\ NewId # 0  BY <2>2, Located, CallParts DEF NewId
    <3>2. CASE ToSet(queue') = ToSet(queue) \union {NewId} /\ \A i \in Ids : ops'[i] = ops[i]
      BY <2>2, <3>1, <3>2, Located DEF Awaited
    <3>3. CASE \E old \in ToSet(queue) :
                 /\ ops'[old].state = "rejected"
                 /\ \A i \in Ids \ {old} : ops'[i] = ops[i]
                 /\ ToSet(queue) \ {old} \subseteq ToSet(queue')
                 /\ ToSet(queue') \subseteq ToSet(queue) \union {NewId}
                 /\ NewId \in ToSet(queue')
                 /\ Once(queue) => old \notin ToSet(queue')
      BY <2>2, <3>1, <3>3, Located DEF Awaited
    <3> QED  BY <1>2, <3>2, <3>3, SendQueue
  <2>5. scheduled' => active = 0  BY <1>0, <1>2 DEF SendFallback, Awaited, TypeParts
  <2>6. Awaited'  BY <2>1, <2>3, <2>4, <2>5 DEF Awaited, wvars
  <2>7. NoOrphan'
    <3> SUFFICES ASSUME NEW i \in Ids', ops'[i].type = "send", ops'[i].state = "pending"
                 PROVE  Traced(i)'
      BY DEF NoOrphan, Traced
    <3>1. CASE i = NewId  BY <3>1, <2>4 DEF Traced
    <3>2. CASE i \in Ids
      <4>1. i = active \/ i \in ToSet(queue)
        BY <2>1, <2>2, <2>4, <3>2 DEF NoOrphan
      <4> QED  BY <4>1, <3>2, <2>1, <2>4 DEF Traced
    <3> QED  BY <2>2, <3>1, <3>2
  <2> QED  BY <2>6, <2>7
<1>3. ASSUME NEW type \in Types, NEW state \in States, QuietStep(type, state)
      PROVE  Awaited' /\ NoOrphan'
  <2>1. ops' = Append(ops, NewOp(type, state))  BY <1>3 DEF QuietStep
  <2>2. /\ Ids' = Ids \union {NewId} /\ NewId \notin Ids
        /\ \A i \in Ids : ops'[i] = ops[i]
        /\ ops'[NewId].type = type /\ ops'[NewId].state = state
    BY <2>1, Called
  <2>3. ~worker /\ UNCHANGED <<wvars, queue, active, scheduled>> /\ (type = "send" => state = "rejected")
    BY <1>3 DEF QuietStep
  <2>4. Awaited'  BY <2>2, <2>3, Located DEF Awaited, wvars
  <2>5. NoOrphan'
    <3> SUFFICES ASSUME NEW i \in Ids', ops'[i].type = "send", ops'[i].state = "pending"
                 PROVE  Traced(i)'
      BY DEF NoOrphan, Traced
    <3>1. i \in Ids  BY <2>2, <2>3
    <3> QED  BY <2>2, <2>3, <3>1 DEF NoOrphan, Traced, wvars
  <2> QED  BY <2>4, <2>5
<1>4. ASSUME UNCHANGED ops, UNCHANGED <<worker, pending, fvars, shuttingDown>>,
             \A i \in pending : IsSend(i) /\ ops[i].state = "pending" /\ Traced(i) => Traced(i)'
      PROVE  Awaited' /\ NoOrphan'
  <2>1. Ids' = Ids  BY <1>4, OpsUnchanged DEF Restated
  <2>2. Awaited'  BY <1>4, <2>1 DEF Awaited, fvars
  <2>3. NoOrphan'
    <3> SUFFICES ASSUME NEW i \in Ids', ops'[i].type = "send", ops'[i].state = "pending"
                 PROVE  Traced(i)'
      BY DEF NoOrphan, Traced
    <3>1. Traced(i)  BY <1>4, <2>1 DEF NoOrphan, Traced
    <3>2. CASE i \in pending  BY <1>4, <2>1, <3>1, <3>2
    <3>3. CASE i \notin pending  BY <1>4, <3>1, <3>3 DEF Traced, fvars
    <3> QED  BY <3>2, <3>3
  <2> QED  BY <2>2, <2>3
<1>5. CASE WorkerStart
  <2>1. ToSet(inbox) = ToSet(inbox') \union {Head(inbox)}  BY <1>5, MessageTaken
  <2>2. \A i : Traced(i) => Traced(i)'  BY <1>5, <2>1 DEF WorkerStart, Traced, fvars
  <2> QED  BY <1>4, <1>5, <2>2 DEF WorkerStart, cvars
<1>6. CASE WorkerShutdown
  <2>1. shuttingDown /\ worker
    <3>1. inbox \in Seq(Ids) /\ inbox # <<>>  BY <1>0, <1>6 DEF WorkerShutdown, TypeParts
    <3>2. Head(inbox) \in Ids  BY <3>1
    <3> QED  BY <1>6, <3>2 DEF Phases, WorkerShutdown
  <2>2. \A i : Traced(i)'  BY <1>6, <2>1 DEF WorkerShutdown, Traced
  <2> QED  BY <1>4, <1>6, <2>2 DEF WorkerShutdown, cvars
<1>7. CASE WorkerCrash
  <2>1. \A i \in pending : Traced(i)'  BY <1>7 DEF WorkerCrash, Traced
  <2> QED  BY <1>4, <1>7, <2>1 DEF WorkerCrash, cvars
<1>8. ASSUME NEW i \in running, WorkerWrite(i) \/ WorkerSync(i) \/ WorkerFail(i)
      PROVE  Awaited' /\ NoOrphan'
  <2>1. PICK ok \in BOOLEAN : WorkerDone(i, ok)
    BY <1>8 DEF WorkerWrite, WorkerSync, WorkerFail
  <2>2. /\ running' = running \ {i} /\ finished \subseteq finished'
        /\ \E a \in finished' : a.id = i
    <3> DEFINE b == [id |-> i, ok |-> ok]
    <3>1. b.id = i  OBVIOUS
    <3>2. finished' = finished \union {b} /\ running' = running \ {i}
      BY <2>1 DEF WorkerDone
    <3> HIDE DEF b
    <3> QED  BY <3>1, <3>2
  <2>3. \A j : Traced(j) => Traced(j)'  BY <2>1, <2>2 DEF WorkerDone, Traced, fvars
  <2> QED  BY <1>4, <2>1, <2>3 DEF WorkerDone
<1>9. ASSUME NEW a \in finished, WorkerAnswer(a)  PROVE Awaited' /\ NoOrphan'
  <2>1. a \in Answers /\ outbox \in Seq(Answers)  BY <1>0 DEF TypeParts
  <2>2. thread = "running" => ToSet(outbox') = ToSet(outbox) \union {a}
    BY <1>9, <2>1, Appended DEF WorkerAnswer
  <2>3. thread # "running" => UNCHANGED outbox  BY <1>9 DEF WorkerAnswer
  <2>4. finished' = finished \ {a} /\ UNCHANGED <<worker, thread, pending, inbox, running,
                                                  errorDue, queue, active, shuttingDown>>
    BY <1>9 DEF WorkerAnswer, fvars
  <2>5. ASSUME NEW j, Traced(j)  PROVE Traced(j)'
    BY <2>2, <2>3, <2>4, <2>5 DEF Traced
  <2> QED  BY <1>4, <1>9, <2>5 DEF WorkerAnswer, cvars
<1>10. ASSUME NEW i \in pending, ShutdownTimeout(i)  PROVE Awaited' /\ NoOrphan'
  <2>1. i \in Ids /\ Settle(i, "resolved") /\ "resolved" \in States
    BY <1>10, Located DEF ShutdownTimeout, States
  <2>2. Restated /\ \A j \in Ids \ {i} : ops'[j] = ops[j]  BY <2>1, SettleSound
  <2>3. /\ worker /\ UNCHANGED <<worker, pending, fvars, shuttingDown>> /\ shuttingDown
        /\ ops[i].type = "shutdown" /\ ops'[i].type = "shutdown" /\ ops'[i].state = "resolved"
    BY <1>10, <2>1, <2>2, SettleSound DEF ShutdownTimeout, Phases, Restated
  <2>4. queue = <<>> /\ active = 0  BY <2>3 DEF Phases
  <2>5. Awaited'
    BY <2>2, <2>3, <2>4, NothingIn, Located DEF Awaited, fvars, Restated
  <2>6. NoOrphan'  BY <2>3 DEF NoOrphan
  <2> QED  BY <2>5, <2>6
<1>11. CASE ReceiveAnswer
  <2> DEFINE b == Head(outbox)
  <2>1. /\ b.id \in Ids /\ ToSet(outbox) = ToSet(outbox') \union {b}
        /\ pending' = pending \ {b.id}
        /\ \A i \in Ids \ {b.id} : ops'[i] = ops[i]
        /\ \/ b.id \in pending /\ ops'[b.id].state # "pending"
           \/ ops[b.id].state # "pending" /\ ops'[b.id] = ops[b.id]
           \/ b.id \notin pending /\ ops'[b.id] = ops[b.id]
    BY <1>11, AnswerTaken
  <2>2. Restated  BY <1>11, NoCall
  <2>3. UNCHANGED <<worker, thread, inbox, running, finished, errorDue, fvars, shuttingDown>>
    BY <1>11 DEF ReceiveAnswer
  <2> HIDE DEF b
  <2>4. \A i \in Ids : ops'[i].state = "pending" => ops[i].state = "pending"
    BY <2>1
  <2>5. CASE worker
    <3>1. queue = <<>> /\ active = 0  BY <2>5 DEF Phases
    <3>2. \A i \in Ids : ops'[i].state = "pending" => i # b.id
      BY <2>1, <2>5 DEF Awaited
    <3>3. Awaited'
      BY <2>1, <2>2, <2>3, <2>4, <3>1, <3>2, NothingIn, Located DEF Awaited, fvars, Restated
    <3>4. NoOrphan'
      <4> SUFFICES ASSUME NEW i \in Ids', ops'[i].type = "send", ops'[i].state = "pending"
                   PROVE  Traced(i)'
        BY DEF NoOrphan, Traced
      <4>1. i \in Ids /\ i # b.id /\ Traced(i)
        BY <2>1, <2>2, <3>2 DEF Restated, NoOrphan, Traced
      <4> QED  BY <2>1, <2>3, <4>1 DEF Traced, fvars
    <3> QED  BY <3>3, <3>4
  <2>6. CASE ~worker
    <3>1. pending = {}  BY <2>6 DEF Phases
    <3>2. \A i \in Ids : ops'[i] = ops[i]  BY <2>1, <3>1
    <3>3. Awaited'
      BY <2>1, <2>3, <2>6, <3>1, <3>2, Located DEF Awaited, fvars
    <3>4. NoOrphan'
      <4> SUFFICES ASSUME NEW i \in Ids', ops'[i].type = "send", ops'[i].state = "pending"
                   PROVE  Traced(i)'
        BY DEF NoOrphan, Traced
      <4>1. i \in Ids /\ Traced(i)  BY <2>2, <3>2 DEF Restated, NoOrphan, Traced
      <4> QED  BY <2>1, <2>3, <3>1, <4>1 DEF Traced, fvars
    <3> QED  BY <3>3, <3>4
  <2> QED  BY <2>5, <2>6
<1>12. CASE FallbackToMainThread
  <2>1. /\ waiters = <<>> /\ syncing = {} /\ active = 0 /\ active' = 0
        /\ worker /\ ~worker' /\ pending' = {}
    BY <1>12 DEF FallbackToMainThread, Phases
  <2>2. /\ Restated /\ Once(queue') /\ ToSet(queue') = PendingOf("send")
        /\ \A i \in Ids : IsSend(i) => ops'[i].state = ops[i].state
    BY <1>12, <2>1, FallbackSound
  <2>3. \A i \in ToSet(queue') : i \in Ids /\ IsSend(i) /\ i \in pending
    BY <2>2, Located DEF PendingOf
  <2>4. Awaited'  BY <2>1, <2>2, <2>3, Located DEF Awaited
  <2>5. NoOrphan'
    <3> SUFFICES ASSUME NEW i \in Ids', ops'[i].type = "send", ops'[i].state = "pending"
                 PROVE  i \in ToSet(queue')
      BY DEF NoOrphan
    <3>1. i \in Ids /\ IsSend(i) /\ ops[i].state = "pending"  BY <2>2 DEF Restated
    <3> QED  BY <2>1, <2>2, <3>1 DEF Awaited, PendingOf
  <2> QED  BY <2>4, <2>5
<1>13. CASE ProcessStart \/ FallbackSent \/ FallbackFailed
  <2>1. ~worker /\ pending = {} /\ UNCHANGED <<wvars, shuttingDown>>
    BY <1>13 DEF Phases, ProcessStart, FallbackSent, FallbackFailed
  <2>2. PICK state \in {"resolved", "rejected"} :
          NextItem({active} \ {0}, state) /\ ~scheduled'
    <3>1. CASE ProcessStart
      <4>1. active = 0 /\ NextItem({}, "resolved") /\ ~scheduled'
        BY <3>1 DEF ProcessStart, Awaited
      <4>2. {active} \ {0} = {}  BY <4>1
      <4> QED  BY <4>1, <4>2
    <3>2. CASE FallbackSent \/ FallbackFailed
      <4>1. active # 0 /\ UNCHANGED scheduled
            /\ (NextItem({active}, "resolved") \/ NextItem({active}, "rejected"))
        BY <3>2 DEF FallbackSent, FallbackFailed
      <4>2. ~scheduled' /\ {active} \ {0} = {active}  BY <4>1 DEF Awaited
      <4> QED  BY <4>1, <4>2
    <3> QED  BY <1>13, <3>1, <3>2
  <2> DEFINE S == {active} \ {0}
  <2>3. Restated  BY <1>13, NoCall
  <2>4. CASE queue # <<>>
    <3>1. /\ active' \in ToSet(queue) /\ ToSet(queue) = ToSet(queue') \union {active'}
          /\ Once(queue') /\ active' \notin ToSet(queue')
      BY <2>2, <2>4, NextFromQueue DEF Awaited
    <3>2. \A i \in Ids : ops'[i].state = IF i \in S /\ ops[i].state = "pending"
                                          THEN state ELSE ops[i].state
      BY <2>2, <2>4, NextItemSound DEF States
    <3>3. Awaited'
      BY <2>1, <2>2, <3>1, <3>2, Located DEF Awaited, wvars
    <3>4. NoOrphan'
      <4> SUFFICES ASSUME NEW i \in Ids', ops'[i].type = "send", ops'[i].state = "pending"
                   PROVE  i = active' \/ i \in ToSet(queue')
        BY DEF NoOrphan
      <4>1. i \in Ids /\ IsSend(i) /\ ops[i].state = "pending" /\ i \notin S
        BY <2>2, <2>3, <3>2 DEF Restated
      <4>2. i \in ToSet(queue)
        BY <2>1, <4>1, Located DEF NoOrphan
      <4> QED  BY <3>1, <4>2
    <3> QED  BY <3>3, <3>4
  <2>5. CASE queue = <<>>
    <3>1. active' = 0 /\ queue' = <<>>  BY <2>2, <2>5, NextFromQueue
    <3>2. \A i \in Ids : ops'[i].state = IF i \in S THEN state
                                          ELSE IF i \in DirectWaiters THEN "resolved"
                                          ELSE ops[i].state
      BY <2>2, <2>5, NextItemSound DEF States
    <3>3. Awaited'
      BY <2>1, <2>2, <3>1, NothingIn DEF Awaited, wvars
    <3>4. NoOrphan'
      <4> SUFFICES ASSUME NEW i \in Ids', ops'[i].type = "send", ops'[i].state = "pending"
                   PROVE  FALSE
        BY DEF NoOrphan
      <4>1. i \in Ids /\ IsSend(i) /\ ops[i].state = "pending" /\ i \notin S
        BY <2>2, <2>3, <3>2 DEF Restated
      <4>2. i \in ToSet(queue)
        BY <2>1, <4>1, Located DEF NoOrphan
      <4> QED  BY <2>5, <4>2, NothingIn
    <3> QED  BY <3>3, <3>4
  <2> QED  BY <2>4, <2>5
<1>14. ASSUME NEW i \in syncing, SyncDone(i) \/ SyncFailed(i)
       PROVE  Awaited' /\ NoOrphan'
  <2>1. ~worker /\ pending = {}
    BY <1>14 DEF Phases
  <2>2. UNCHANGED <<wvars, queue, active, scheduled>>
        /\ \E state \in States : SetState(Sharers(i), state)
    BY <1>14 DEF SyncDone, SyncFailed, States
  <2>3. /\ Restated
        /\ \A j \in Ids : ops'[j].state = ops[j].state \/ j \in Sharers(i)
    BY <2>2, SetStateSound
  <2>4. \A j \in Sharers(i) : ~IsSend(j)  BY Located DEF Sharers, Kinds
  <2>5. \A j \in Ids : IsSend(j) => ops'[j].state = ops[j].state  BY <2>3, <2>4
  <2>6. Awaited'  BY <2>1, <2>2, <2>5, Located DEF Awaited, Kinds, wvars
  <2>7. NoOrphan'
    <3> SUFFICES ASSUME NEW j \in Ids', ops'[j].type = "send", ops'[j].state = "pending"
                 PROVE  j = active' \/ j \in ToSet(queue')
      BY DEF NoOrphan
    <3>1. j \in Ids /\ IsSend(j) /\ ops[j].state = "pending"
      BY <2>3, <2>5 DEF Restated
    <3> QED  BY <2>1, <2>2, <3>1 DEF NoOrphan
  <2> QED  BY <2>6, <2>7
<1> QED
  BY <1>1, <1>2, <1>3, <1>5, <1>6, <1>7, <1>8, <1>9, <1>10, <1>11, <1>12, <1>13, <1>14, Steps
-------------------------------------------------------------------------------
(* Writes, and DuplicateNeedsCrash                                          *)

LEMMA CopiesKnown ==
  ASSUME TTypeOK
  PROVE  \A i : Copies(i) \in Nat /\ (i \notin Ids => Copies(i) = 0)
<1> TAKE i
<1> DEFINE P == {n \in 1 .. Len(file) : file[n] = i}
<1>1. Len(file) \in Nat /\ \A n \in 1 .. Len(file) : file[n] \in Ids  BY DEF TTypeOK
<1>2. IsFiniteSet(P)
  <2>1. IsFiniteSet(1 .. Len(file))  BY <1>1, FS_Interval
  <2> QED  BY <2>1, FS_Subset
<1>3. i \notin Ids => P = {}  BY <1>1
<1> HIDE DEF P
<1>4. Cardinality(P) \in Nat /\ (i \notin Ids => Cardinality(P) = 0)
  BY <1>2, <1>3, FS_CardinalityType, FS_EmptySet
<1> QED  BY <1>4 DEF Copies, P

LEMMA CopiesAppended ==
  ASSUME TTypeOK, NEW x \in Ids, file' = Append(file, x)
  PROVE  \A i : Copies(i)' = IF i = x THEN Copies(i) + 1 ELSE Copies(i)
<1> TAKE i
<1>1. /\ file \in Seq(Ids) /\ Len(file) \in Nat /\ Len(file') = Len(file) + 1
      /\ file'[Len(file) + 1] = x /\ \A n \in 1 .. Len(file) : file'[n] = file[n]
  BY DEF TTypeOK
<1> DEFINE P == {n \in 1 .. Len(file) : file[n] = i}
           Q == {n \in 1 .. Len(file') : file'[n] = i}
<1>2. IsFiniteSet(P) /\ Len(file) + 1 \notin P
  <2>1. IsFiniteSet(1 .. Len(file))  BY <1>1, FS_Interval
  <2> QED  BY <1>1, <2>1, FS_Subset
<1>3. Q = IF i = x THEN P \union {Len(file) + 1} ELSE P  BY <1>1
<1> HIDE DEF P, Q
<1>4. Cardinality(Q) = IF i = x THEN Cardinality(P) + 1 ELSE Cardinality(P)
  BY <1>2, <1>3, FS_AddElement
<1> QED  BY <1>4 DEF Copies, P, Q

LEMMA WritesKept ==
  ASSUME TTypeOK, TTypeOK', Writes, DuplicateNeedsCrash, Ids \subseteq Ids',
         UNCHANGED <<file, worker, given>>,
         ToSet(queue') \union {active'} \subseteq ToSet(queue) \union {active, 0} \union (Ids' \ Ids)
  PROVE  /\ DuplicateNeedsCrash'
         /\ \A i : Copies(i)' = Copies(i)
         /\ \A i \in ToSet(queue') \union {active'} :
              Copies(i)' <= IF threaded' THEN 1 ELSE 0
<1>1. \A i : Copies(i)' = Copies(i)  BY DEF Copies
<1>2. \A i : Copies(i) \in Nat /\ (i \notin Ids => Copies(i) = 0)  BY CopiesKnown
<1>3. DuplicateNeedsCrash'
  <2> SUFFICES ASSUME NEW i \in Ids'
               PROVE  Copies(i)' <= IF threaded' /\ ~worker' THEN 2 ELSE 1
    BY DEF DuplicateNeedsCrash, Copies
  <2>1. i \in Ids => Copies(i) <= IF threaded /\ ~worker THEN 2 ELSE 1
    BY DEF DuplicateNeedsCrash, Copies
  <2> QED  BY <1>1, <1>2, <2>1 DEF given
<1>4. ASSUME NEW i \in ToSet(queue') \union {active'}
      PROVE  Copies(i)' <= IF threaded' THEN 1 ELSE 0
  <2>1. i \in ToSet(queue) \union {active} => Copies(i) <= IF threaded THEN 1 ELSE 0
    BY DEF Writes
  <2>2. i \notin ToSet(queue) \union {active} => i \notin Ids  BY <1>4, Located
  <2> QED  BY <1>1, <1>2, <2>1, <2>2 DEF given
<1> QED  BY <1>1, <1>3, <1>4

LEMMA WritesStep ==
  ASSUME TTypeOK, TTypeOK', Phases, Kinds, Awaited, Writes, DuplicateNeedsCrash, TNext
  PROVE  Writes' /\ DuplicateNeedsCrash'
<1>0. TypeParts /\ UNCHANGED given  BY TypeInParts, Steps
<1>a. \A i : Copies(i) \in Nat /\ (i \notin Ids => Copies(i) = 0)  BY CopiesKnown
<1>1. ASSUME NEW type \in Types, DispatchStep(type)  PROVE Writes' /\ DuplicateNeedsCrash'
  <2>1. Ids' = Ids \union {NewId} /\ NewId \notin Ids  BY <1>1, NewCall
  <2>2. UNCHANGED <<file, worker, running, fvars>>
    BY <1>1 DEF DispatchStep, DispatchToWorker
  <2>3. DuplicateNeedsCrash' /\ (\A i : Copies(i)' = Copies(i))
        /\ \A i \in ToSet(queue') \union {active'} : Copies(i)' <= IF threaded' THEN 1 ELSE 0
    BY <1>0, <2>1, <2>2, WritesKept DEF fvars
  <2>4. Once(inbox') /\ ToSet(inbox') \subseteq ToSet(inbox) \union {NewId}
    <3>1. inbox \in Seq(Ids \union {NewId}) /\ NewId \in Ids \union {NewId}
      BY <1>0, SeqWiden DEF TypeParts
    <3>2. NewId \notin ToSet(inbox)  BY <2>1, Located
    <3>3. inbox' = inbox \/ inbox' = Append(inbox, NewId)
      BY <1>1 DEF DispatchStep, DispatchToWorker
    <3>4. CASE inbox' = inbox  BY <3>4 DEF Writes
    <3>5. CASE inbox' = Append(inbox, NewId)  BY <3>1, <3>2, <3>5, Appended DEF Writes
    <3> QED  BY <3>3, <3>4, <3>5
  <2>5. NewId \notin running /\ Copies(NewId) = 0  BY <1>a, <2>1, Located
  <2> QED  BY <2>2, <2>3, <2>4, <2>5 DEF Writes
<1>2. CASE SendFallback
  <2>1. Ids' = Ids \union {NewId} /\ NewId \notin Ids  BY <1>2, NewCall
  <2>2. ToSet(queue') \subseteq ToSet(queue) \union {NewId}  BY <1>2, SendQueue
  <2>3. UNCHANGED <<file, worker, inbox, running, active>>  BY <1>2 DEF SendFallback, wvars
  <2>4. DuplicateNeedsCrash' /\ (\A i : Copies(i)' = Copies(i))
        /\ \A i \in ToSet(queue') \union {active'} : Copies(i)' <= IF threaded' THEN 1 ELSE 0
    BY <1>0, <2>1, <2>2, <2>3, WritesKept
  <2> QED  BY <2>3, <2>4 DEF Writes
<1>3. ASSUME NEW type \in Types, NEW state \in States, QuietStep(type, state)
      PROVE  Writes' /\ DuplicateNeedsCrash'
  <2>1. Ids' = Ids \union {NewId} /\ NewId \notin Ids  BY <1>3, NewCall
  <2>2. UNCHANGED <<file, worker, inbox, running, queue, active>>  BY <1>3 DEF QuietStep, wvars
  <2>3. DuplicateNeedsCrash' /\ (\A i : Copies(i)' = Copies(i))
        /\ \A i \in ToSet(queue') \union {active'} : Copies(i)' <= IF threaded' THEN 1 ELSE 0
    BY <1>0, <2>1, <2>2, WritesKept
  <2> QED  BY <2>2, <2>3 DEF Writes
<1>4. ASSUME Restated, UNCHANGED <<file, worker>>,
             ToSet(queue') \union {active'} \subseteq ToSet(queue) \union {active, 0},
             \/ inbox' = <<>> /\ running' \subseteq running
             \/ UNCHANGED inbox /\ running' \subseteq running
             \/ WorkerStart
      PROVE  Writes' /\ DuplicateNeedsCrash'
  <2>1. Ids' = Ids  BY <1>4 DEF Restated
  <2>2. DuplicateNeedsCrash' /\ (\A i : Copies(i)' = Copies(i))
        /\ \A i \in ToSet(queue') \union {active'} : Copies(i)' <= IF threaded' THEN 1 ELSE 0
    BY <1>0, <1>4, <2>1, WritesKept
  <2>3. CASE inbox' = <<>> /\ running' \subseteq running  BY <2>2, <2>3, NothingIn DEF Writes
  <2>4. CASE UNCHANGED inbox /\ running' \subseteq running  BY <2>2, <2>4 DEF Writes
  <2>5. CASE WorkerStart
    <3>1. ToSet(inbox) = ToSet(inbox') \union {Head(inbox)} /\ Once(inbox')
          /\ Head(inbox) \notin ToSet(inbox')
      BY <2>5, MessageTaken DEF Writes
    <3>2. running' = running \union {Head(inbox)}  BY <2>5 DEF WorkerStart
    <3> QED  BY <2>2, <3>1, <3>2 DEF Writes
  <2> QED  BY <1>4, <2>3, <2>4, <2>5
<1>5. CASE \/ WorkerStart \/ WorkerShutdown \/ WorkerCrash
           \/ \E a \in finished : WorkerAnswer(a)
           \/ \E i \in pending : ShutdownTimeout(i)
           \/ ReceiveAnswer
           \/ \E i \in syncing : SyncDone(i) \/ SyncFailed(i)
  <2>1. UNCHANGED <<file, worker, queue, active>>
    BY <1>5 DEF WorkerStart, WorkerShutdown, WorkerCrash, WorkerAnswer, ShutdownTimeout,
                ReceiveAnswer, SyncDone, SyncFailed, cvars, wvars, fvars
  <2>2. Restated  BY <1>5, NoCall
  <2>3. \/ inbox' = <<>> /\ running' \subseteq running
        \/ UNCHANGED inbox /\ running' \subseteq running
        \/ WorkerStart
    BY <1>5 DEF WorkerShutdown, WorkerCrash, WorkerAnswer, ShutdownTimeout,
                ReceiveAnswer, SyncDone, SyncFailed, wvars
  <2> QED  BY <1>4, <2>1, <2>2, <2>3
<1>6. ASSUME NEW i \in running, WorkerSync(i) \/ WorkerFail(i)
      PROVE  Writes' /\ DuplicateNeedsCrash'
  <2>1. Restated  BY <1>6, NoCall
  <2>2. UNCHANGED <<file, worker, queue, active, inbox>> /\ running' \subseteq running
    BY <1>6 DEF WorkerSync, WorkerFail, WorkerDone, fvars
  <2> QED  BY <1>4, <2>1, <2>2
<1>7. ASSUME NEW i \in running, WorkerWrite(i)  PROVE Writes' /\ DuplicateNeedsCrash'
  <2>1. i \in Ids /\ file' = Append(file, i) /\ Copies(i) = 0
    BY <1>7, Located DEF WorkerWrite, Writes
  <2>2. \A j : Copies(j)' = IF j = i THEN 1 ELSE Copies(j)  BY <2>1, CopiesAppended
  <2>3. /\ UNCHANGED <<ops, worker, thread, inbox, queue, active>>
        /\ running' = running \ {i} /\ i \notin ToSet(inbox)
    BY <1>7 DEF WorkerWrite, WorkerDone, Writes, fvars
  <2>4. worker /\ threaded /\ queue = <<>> /\ active = 0
    BY <1>7 DEF Phases
  <2>5. Writes'
    BY <1>0, <1>a, <2>1, <2>2, <2>3, <2>4, NothingIn, Located DEF Writes, given
  <2>6. DuplicateNeedsCrash'
    <3> SUFFICES ASSUME NEW j \in Ids'
                 PROVE  Copies(j)' <= IF threaded' /\ ~worker' THEN 2 ELSE 1
      BY DEF DuplicateNeedsCrash, Copies
    <3>1. j \in Ids  BY <2>3 DEF Ids
    <3>2. Copies(j) <= 1  BY <2>4, <3>1 DEF DuplicateNeedsCrash, Copies
    <3> QED  BY <1>a, <2>2, <2>3, <2>4, <3>2
  <2> QED  BY <2>5, <2>6
<1>8. CASE FallbackToMainThread
  <2>1. /\ waiters = <<>> /\ syncing = {} /\ active = 0 /\ active' = 0 /\ threaded
        /\ worker /\ UNCHANGED <<file, inbox, running>>
    BY <1>8 DEF FallbackToMainThread, Phases
  <2>2. Restated /\ ToSet(queue') \subseteq Ids
    BY <1>8, <2>1, FallbackSound DEF PendingOf, TTypeOK
  <2>3. \A j : Copies(j)' = Copies(j)  BY <2>1 DEF Copies
  <2>4. \A j \in Ids : Copies(j) <= 1  BY <2>1 DEF DuplicateNeedsCrash, Copies
  <2>5. Writes'
    BY <1>0, <1>a, <2>1, <2>2, <2>3, <2>4, Located DEF Writes, given
  <2>6. DuplicateNeedsCrash'
    <3> SUFFICES ASSUME NEW j \in Ids'
                 PROVE  Copies(j)' <= IF threaded' /\ ~worker' THEN 2 ELSE 1
      BY DEF DuplicateNeedsCrash, Copies
    <3> QED  BY <1>a, <2>2, <2>3, <2>4 DEF Restated
  <2> QED  BY <2>5, <2>6
<1>9. CASE ProcessStart \/ FallbackFailed \/ FallbackSent
  <2>1. PICK S \in {{}, {active}}, state \in States : NextItem(S, state)
    BY <1>9 DEF ProcessStart, FallbackSent, FallbackFailed, States
  <2>2. /\ ToSet(queue') \union {active'} \subseteq ToSet(queue) \union {0}
        /\ UNCHANGED <<worker, inbox, running>>
    BY <1>9, <2>1, NextFromQueue, NothingIn
    DEF ProcessStart, FallbackSent, FallbackFailed, wvars
  <2>3. Restated  BY <1>9, NoCall
  <2>4. CASE UNCHANGED file  BY <1>4, <2>2, <2>3, <2>4
  <2>5. CASE FallbackSent
    <3>1. active \in Ids /\ file' = Append(file, active) /\ active \notin ToSet(queue)
          /\ active # 0
      BY <2>5, Located DEF FallbackSent, Awaited
    <3>2. \A j : Copies(j)' = IF j = active THEN Copies(j) + 1 ELSE Copies(j)
      BY <3>1, CopiesAppended
    <3>3. Copies(active) <= IF threaded THEN 1 ELSE 0  BY DEF Writes
    <3>4. ~worker /\ running = {} /\ inbox = <<>>  BY <3>1 DEF Phases
    <3>5. \A j \in ToSet(queue') \union {active'} : Copies(j)' = Copies(j)
      BY <2>2, <3>1, <3>2
    <3>6. Writes'
      <4>1. \A j \in ToSet(queue') \union {active'} :
               Copies(j)' <= IF threaded' THEN 1 ELSE 0
        BY <1>0, <1>a, <2>2, <3>5, Located DEF Writes, given
      <4> QED  BY <2>2, <3>4, <4>1, NothingIn DEF Writes
    <3>7. DuplicateNeedsCrash'
      <4> SUFFICES ASSUME NEW j \in Ids'
                   PROVE  Copies(j)' <= IF threaded' /\ ~worker' THEN 2 ELSE 1
        BY DEF DuplicateNeedsCrash, Copies
      <4>1. j \in Ids /\ Copies(j) <= IF threaded /\ ~worker THEN 2 ELSE 1
        BY <2>3 DEF Restated, DuplicateNeedsCrash, Copies
      <4> QED  BY <1>0, <1>a, <2>2, <3>2, <3>3, <3>4, <4>1 DEF given
    <3> QED  BY <3>6, <3>7
  <2> QED  BY <1>9, <2>4, <2>5 DEF ProcessStart, FallbackFailed
<1> QED
  BY <1>1, <1>2, <1>3, <1>5, <1>6, <1>7, <1>8, <1>9, Steps
-------------------------------------------------------------------------------
(* Answered, AcceptedIsWritten and FlushCoversWhileAlive                    *)

(* What is written stays written, and what is durable stays durable.        *)
LEMMA FileKept ==
  ASSUME TTypeOK, TNext
  PROVE  Written \subseteq Written' /\ Durable \subseteq Durable'
<1>1. \/ UNCHANGED file /\ durable' \in {durable, Len(file)}
      \/ UNCHANGED durable /\ \E i \in Ids : file' = Append(file, i)
  <2>1. ASSUME NEW i \in running, WorkerWrite(i) \/ WorkerSync(i) \/ WorkerFail(i)
        PROVE  <1>1!:
    BY <2>1, Located DEF WorkerWrite, WorkerSync, WorkerFail
  <2>2. ASSUME FallbackSent  PROVE <1>1!:
    BY <2>2, Located DEF FallbackSent
  <2>3. ASSUME NEW i \in syncing, SyncDone(i) \/ SyncFailed(i)  PROVE <1>1!:
    BY <2>3 DEF SyncDone, SyncFailed
  <2>4. ASSUME \/ \E type \in Types : DispatchStep(type)
               \/ SendFallback
               \/ \E type \in Types, state \in States : QuietStep(type, state)
               \/ WorkerStart \/ WorkerShutdown \/ WorkerCrash
               \/ \E a \in finished : WorkerAnswer(a)
               \/ \E i \in pending : ShutdownTimeout(i)
               \/ ReceiveAnswer \/ FallbackToMainThread
               \/ ProcessStart \/ FallbackFailed
        PROVE  UNCHANGED <<file, durable>>
    BY <2>4 DEF DispatchStep, DispatchToWorker, SendFallback, QuietStep, WorkerStart,
                WorkerShutdown, WorkerCrash, WorkerAnswer, ShutdownTimeout, ReceiveAnswer,
                FallbackToMainThread, ProcessStart, FallbackFailed, cvars
  <2> QED  BY <2>1, <2>2, <2>3, <2>4, Steps
<1> QED  BY <1>1, FileType

LEMMA WrittenAppended ==
  ASSUME TTypeOK, NEW x \in Ids, file' = Append(file, x)
  PROVE  x \in Written'
<1>1. Len(file) \in Nat /\ Len(file') = Len(file) + 1 /\ file'[Len(file) + 1] = x
  BY DEF TTypeOK
<1> QED  BY <1>1 DEF Written

(* The calls that a step resolves: sends that are in the file, and, while   *)
(* the worker lives, flushes that it has answered.                          *)
LEMMA AcceptedStep ==
  ASSUME TTypeOK, Phases, Kinds, Awaited, Answered, AcceptedIsWritten, TNext
  PROVE  AcceptedIsWritten'
<1> USE DEF IsSend
<1>0. Written \subseteq Written'  BY FileKept
<1> SUFFICES ASSUME NEW i \in Ids', ops'[i].type = "send", ops'[i].state = "resolved"
             PROVE  (i \in Ids /\ ops[i].type = "send" /\ ops[i].state = "resolved") \/ i \in Written'
  BY <1>0 DEF AcceptedIsWritten, Accepted
<1>1. ASSUME NEW type \in Types, DispatchStep(type)
      PROVE  i \in Ids /\ ops[i].type = "send" /\ ops[i].state = "resolved"
  <2>1. ops' = Append(ops, NewOp(type, "pending")) /\ "pending" \in States
    BY <1>1 DEF DispatchStep, DispatchToWorker, States
  <2>2. Ids' = Ids \union {NewId} /\ ops'[NewId].state = "pending"
        /\ \A j \in Ids : ops'[j] = ops[j]
    BY <2>1, Called
  <2> QED  BY <2>2
<1>2. CASE SendFallback
  <2>1. Ids' = Ids \union {NewId} /\ ops'[NewId].state = "pending"
        /\ \A j \in Ids : ops'[j].type = ops[j].type
    BY <1>2, SendFallbackSound, NewOpParts
  <2>2. i \in Ids  BY <2>1
  <2>3. ops'[i] = ops[i] \/ ops'[i].state = "rejected"  BY <1>2, <2>2, SendQueue, Located
  <2> QED  BY <2>1, <2>2, <2>3
<1>3. ASSUME NEW type \in Types, NEW state \in States, QuietStep(type, state)
      PROVE  i \in Ids /\ ops[i].type = "send" /\ ops[i].state = "resolved"
  <2>1. ops' = Append(ops, NewOp(type, state)) /\ (type = "send" => state = "rejected")
    BY <1>3 DEF QuietStep
  <2>2. Ids' = Ids \union {NewId} /\ ops'[NewId].state = state /\ ops'[NewId].type = type
        /\ \A j \in Ids : ops'[j] = ops[j]
    BY <2>1, Called
  <2> QED  BY <2>1, <2>2
<1>4. CASE \/ WorkerStart \/ WorkerShutdown \/ WorkerCrash
           \/ \E j \in running : WorkerWrite(j) \/ WorkerSync(j) \/ WorkerFail(j)
           \/ \E a \in finished : WorkerAnswer(a)
  <2>1. UNCHANGED ops
    BY <1>4 DEF WorkerStart, WorkerShutdown, WorkerCrash, WorkerWrite, WorkerSync,
                WorkerFail, WorkerDone, WorkerAnswer, cvars
  <2> QED  BY <2>1, OpsUnchanged DEF Restated
<1>5. ASSUME NEW j \in pending, ShutdownTimeout(j)
      PROVE  i \in Ids /\ ops[i].type = "send" /\ ops[i].state = "resolved"
  <2>1. j \in Ids /\ Settle(j, "resolved") /\ "resolved" \in States /\ ops[j].type = "shutdown"
    BY <1>5, Located DEF ShutdownTimeout, States
  <2>2. Restated /\ \A k \in Ids \ {j} : ops'[k] = ops[k]  BY <2>1, SettleSound
  <2> QED  BY <2>1, <2>2 DEF Restated
<1>6. CASE ReceiveAnswer
  <2> DEFINE b == Head(outbox)
  <2>1. /\ b \in ToSet(outbox) /\ b.id \in Ids
        /\ \A k \in Ids \ {b.id} : ops'[k] = ops[k]
        /\ ops'[b.id] = ops[b.id] \/ ops'[b.id].state = IF b.ok THEN "resolved" ELSE "rejected"
    BY <1>6, AnswerTaken
  <2>2. Restated  BY <1>6, NoCall
  <2> HIDE DEF b
  <2>3. i \in Ids /\ ops[i].type = "send"  BY <2>2 DEF Restated
  <2>4. CASE ops'[i] = ops[i]  BY <2>3, <2>4
  <2>5. CASE i = b.id /\ b.ok
    <3>1. i \in Written  BY <2>1, <2>3, <2>5 DEF Answered
    <3> QED  BY <1>0, <3>1
  <2> QED  BY <2>1, <2>3, <2>4, <2>5
<1>7. CASE FallbackToMainThread
  <2>1. waiters = <<>> /\ syncing = {}  BY <1>7 DEF FallbackToMainThread, Phases
  <2>2. Restated /\ \A k \in Ids : IsSend(k) => ops'[k].state = ops[k].state
    BY <1>7, <2>1, FallbackSound
  <2> QED  BY <2>2 DEF Restated
<1>8. CASE ProcessStart \/ FallbackSent \/ FallbackFailed
  <2>1. PICK S \in {{}, {active}}, state \in States :
          /\ NextItem(S, state)
          /\ S = {active} => active \in Ids
          /\ S = {active} /\ state = "resolved" => active \in Written'
    <3>1. ProcessStart => NextItem({}, "resolved") /\ {} # {active}
      BY DEF ProcessStart
    <3>2. FallbackSent => /\ NextItem({active}, "resolved") /\ active \in Ids
                          /\ active \in Written'
      BY Located, WrittenAppended DEF FallbackSent
    <3>3. FallbackFailed => NextItem({active}, "rejected") /\ active \in Ids
      BY Located DEF FallbackFailed
    <3>4. "resolved" \in States /\ "rejected" \in States /\ "resolved" # "rejected"
      BY DEF States
    <3> QED  BY <1>8, <3>1, <3>2, <3>3, <3>4
  <2>2. Restated  BY <1>8, NoCall
  <2>3. i \in Ids /\ ops[i].type = "send"  BY <2>2 DEF Restated
  <2>4. i \in S /\ state = "resolved" => i \in Written'  BY <2>1
  <2>5. i \notin DirectWaiters  BY <2>3, Located DEF DirectWaiters, Kinds
  <2>6. \/ ops'[i].state = ops[i].state
        \/ i \in S /\ ops'[i].state = state
    BY <2>1, <2>3, <2>5, NextItemSound
  <2> QED  BY <2>3, <2>4, <2>6
<1>9. ASSUME NEW j \in syncing, SyncDone(j) \/ SyncFailed(j)
      PROVE  i \in Ids /\ ops[i].type = "send" /\ ops[i].state = "resolved"
  <2>1. PICK state \in States : SetState(Sharers(j), state)
    BY <1>9 DEF SyncDone, SyncFailed, States
  <2>2. Restated /\ \A k \in Ids : ops'[k].state = ops[k].state \/ k \in Sharers(j)
    BY <2>1, SetStateSound
  <2>3. \A k \in Sharers(j) : ~IsSend(k)  BY Located DEF Sharers, Kinds
  <2> QED  BY <2>2, <2>3 DEF Restated
<1> QED
  BY <1>1, <1>2, <1>3, <1>4, <1>5, <1>6, <1>7, <1>8, <1>9, Steps
Honest(a) ==
  a.ok => /\ IsSend(a.id) => a.id \in Written
          /\ ops[a.id].type = "flush" => ops[a.id].before \subseteq Durable

LEMMA HonestKept ==
  ASSUME TTypeOK, TNext, NEW a, a.id \in Ids, Honest(a),
         ops'[a.id].type = ops[a.id].type, ops'[a.id].before = ops[a.id].before
  PROVE  Honest(a)'
BY FileKept DEF Honest, IsSend

LEMMA AnsweredStep ==
  ASSUME TTypeOK, Phases, Answered, AcceptedIsWritten, TNext
  PROVE  Answered'
<1>0. /\ Written \subseteq Written' /\ Durable \subseteq Durable'
      /\ \A i \in Ids : ops[i].before \subseteq Written
      /\ \A a \in finished \union ToSet(outbox) : Honest(a)
  BY FileKept DEF Answered, Honest
<1>1. \A i \in Ids' : ops'[i].before \subseteq Written'
  <2>1. CASE \/ \E type \in Types : DispatchStep(type)
             \/ SendFallback
             \/ \E type \in Types, state \in States : QuietStep(type, state)
    <3>1. /\ Ids' = Ids \union {NewId} /\ ops'[NewId].before = Accepted
          /\ \A i \in Ids : ops'[i].before = ops[i].before
      BY <2>1, NewCall
    <3> QED  BY <1>0, <3>1 DEF AcceptedIsWritten
  <2>2. CASE Restated  BY <1>0, <2>2 DEF Restated
  <2> QED  BY <2>1, <2>2, NoCall, Steps
<1>2. \A i \in Ids : i \in Ids' /\ ops'[i].type = ops[i].type /\ ops'[i].before = ops[i].before
  <2>1. CASE \/ \E type \in Types : DispatchStep(type)
             \/ SendFallback
             \/ \E type \in Types, state \in States : QuietStep(type, state)
    BY <2>1, NewCall
  <2>2. CASE Restated  BY <2>2 DEF Restated
  <2> QED  BY <2>1, <2>2, NoCall, Steps
<1>3. \A a \in finished \union ToSet(outbox) : Honest(a)'
  BY <1>0, <1>2, HonestKept, Located
<1>4. SUFFICES \A a \in finished' \union ToSet(outbox') : Honest(a)'
  BY <1>1 DEF Answered, Honest
<1>5. CASE finished' \subseteq finished /\ ToSet(outbox') \subseteq ToSet(outbox)
  BY <1>3, <1>5
<1>6. CASE \/ \E type \in Types : DispatchStep(type)
           \/ SendFallback
           \/ \E type \in Types, state \in States : QuietStep(type, state)
           \/ WorkerStart \/ WorkerCrash
           \/ \E i \in pending : ShutdownTimeout(i)
           \/ FallbackToMainThread
           \/ ProcessStart \/ FallbackSent \/ FallbackFailed
           \/ \E i \in syncing : SyncDone(i) \/ SyncFailed(i)
  <2>1. (UNCHANGED finished \/ finished' = {}) /\ UNCHANGED outbox
    BY <1>6 DEF DispatchStep, DispatchToWorker, SendFallback, QuietStep, WorkerStart,
                WorkerCrash, ShutdownTimeout, FallbackToMainThread, ProcessStart,
                FallbackSent, FallbackFailed, SyncDone, SyncFailed, wvars
  <2> QED  BY <1>5, <2>1
<1>7. CASE ReceiveAnswer
  <2>1. ToSet(outbox') \subseteq ToSet(outbox) /\ UNCHANGED finished
    BY <1>7, AnswerTaken DEF ReceiveAnswer
  <2> QED  BY <1>5, <2>1
<1>8. CASE WorkerShutdown
  <2>1. inbox \in Seq(Ids) /\ inbox # <<>>  BY <1>8 DEF WorkerShutdown, TTypeOK
  <2>2. PICK a \in Answers : a = [id |-> Head(inbox), ok |-> TRUE]
    <3>1. Head(inbox) \in Ids  BY <2>1
    <3>2. [id |-> Head(inbox), ok |-> TRUE] \in Answers  BY <3>1 DEF Answers
    <3> QED  BY <3>2
  <2>3. outbox' = Append(outbox, a) /\ UNCHANGED <<ops, finished>> /\ ops[a.id].type = "shutdown"
    BY <1>8, <2>2 DEF WorkerShutdown, cvars
  <2>4. outbox \in Seq(Answers)  BY DEF TTypeOK
  <2>5. ToSet(outbox') = ToSet(outbox) \union {a}
    <3>1. ToSet(Append(outbox, a)) = ToSet(outbox) \union {a}  BY <2>4, Appended
    <3> QED  BY <2>3, <3>1
  <2>6. Honest(a)'  BY <2>3 DEF Honest, IsSend
  <2> QED  BY <1>3, <2>3, <2>5, <2>6
<1>9. ASSUME NEW a \in finished, WorkerAnswer(a)
      PROVE  \A b \in finished' \union ToSet(outbox') : Honest(b)'
  <2>1. a \in Answers /\ outbox \in Seq(Answers)  BY DEF TTypeOK
  <2>2. outbox' = outbox \/ outbox' = Append(outbox, a)  BY <1>9 DEF WorkerAnswer
  <2>3. ToSet(outbox') \subseteq ToSet(outbox) \union {a}
    <3>1. ToSet(Append(outbox, a)) = ToSet(outbox) \union {a}  BY <2>1, Appended
    <3> QED  BY <2>2, <3>1
  <2>4. finished' \subseteq finished  BY <1>9 DEF WorkerAnswer
  <2> QED  BY <1>3, <2>3, <2>4
<1>10. ASSUME NEW i \in running, WorkerWrite(i) \/ WorkerSync(i) \/ WorkerFail(i)
       PROVE  \A b \in finished' \union ToSet(outbox') : Honest(b)'
  <2>1. PICK ok \in BOOLEAN : /\ WorkerDone(i, ok)
                              /\ ok => WorkerWrite(i) \/ WorkerSync(i)
    BY <1>10 DEF WorkerWrite, WorkerSync, WorkerFail
  <2> DEFINE a == [id |-> i, ok |-> ok]
  <2>2. finished' = finished \union {a} /\ UNCHANGED <<ops, outbox>> /\ i \in Ids
    BY <2>1, Located DEF WorkerDone
  <2>3. a.id = i /\ a.ok = ok  OBVIOUS
  <2> HIDE DEF a
  <2>4. CASE WorkerWrite(i)
    <3>1. ops[i].type = "send" /\ file' = Append(file, i)
      BY <2>4 DEF WorkerWrite, IsSend
    <3>2. i \in Written'  BY <2>2, <3>1, WrittenAppended
    <3>3. Honest(a)'  BY <2>2, <2>3, <3>1, <3>2 DEF Honest
    <3> QED  BY <1>3, <2>2, <3>3
  <2>5. CASE WorkerSync(i)
    <3>1. ops[i].type = "flush" /\ durable' = Len(file) /\ UNCHANGED file
      BY <2>5 DEF WorkerSync
    <3>2. Durable' = Written  BY <3>1 DEF Durable, Written
    <3>3. Honest(a)'  BY <1>0, <2>2, <2>3, <3>1, <3>2 DEF Honest, IsSend
    <3> QED  BY <1>3, <2>2, <3>3
  <2>6. CASE ~ok
    <3>1. Honest(a)'  BY <2>3, <2>6 DEF Honest
    <3> QED  BY <1>3, <2>2, <3>1
  <2> QED  BY <2>1, <2>4, <2>5, <2>6
<1> QED  BY <1>6, <1>7, <1>8, <1>9, <1>10, Steps

LEMMA FlushStep ==
  ASSUME TTypeOK, Phases, Phases', Answered, FlushCoversWhileAlive, TNext
  PROVE  FlushCoversWhileAlive'
<1>0. TypeParts /\ UNCHANGED given /\ Durable \subseteq Durable'
  BY TypeInParts, Steps, FileKept
<1> SUFFICES ASSUME threaded', thread' # "dead",
                    NEW f \in Ids', ops'[f].type = "flush", ops'[f].state = "resolved"
             PROVE  ops'[f].before \subseteq Durable'
  BY DEF FlushCoversWhileAlive, FlushCoversAccepted
<1>1. worker'  BY DEF Phases
<1>2. worker /\ thread # "dead"
  <2>2. WorkerShutdown => thread = "running"  BY DEF WorkerShutdown
  <2>3. UNCHANGED thread \/ WorkerShutdown \/ thread' = "dead"
    BY Steps
    DEF DispatchStep, DispatchToWorker, SendFallback, QuietStep, WorkerStart, WorkerShutdown,
        WorkerCrash, WorkerWrite, WorkerSync, WorkerFail, WorkerDone, WorkerAnswer,
        ShutdownTimeout, ReceiveAnswer, FallbackToMainThread, ProcessStart, FallbackSent,
        FallbackFailed, SyncDone, SyncFailed, wvars
  <2>4. thread # "dead"  BY <2>2, <2>3
  <2> QED  BY <2>4 DEF Phases
<1>3. FlushCoversAccepted  BY <1>0, <1>2 DEF FlushCoversWhileAlive, Phases
<1>4. SUFFICES ASSUME ~(f \in Ids /\ ops[f].type = "flush" /\ ops[f].state = "resolved"
                          /\ ops'[f].before = ops[f].before)
               PROVE  ops'[f].before \subseteq Durable'
  BY <1>0, <1>3 DEF FlushCoversAccepted
<1>5. CASE \E type \in Types : DispatchStep(type)
  <2>1. PICK type \in Types : ops' = Append(ops, NewOp(type, "pending")) /\ "pending" \in States
    BY <1>5 DEF DispatchStep, DispatchToWorker, States
  <2>2. Ids' = Ids \union {NewId} /\ ops'[NewId].state = "pending"
        /\ \A j \in Ids : ops'[j] = ops[j]
    BY <2>1, Called
  <2> QED  BY <1>4, <2>2
<1>6. CASE UNCHANGED ops
  BY <1>4, <1>6, OpsUnchanged DEF Restated
<1>7. CASE \/ WorkerStart \/ WorkerShutdown \/ WorkerCrash
           \/ \E j \in running : WorkerWrite(j) \/ WorkerSync(j) \/ WorkerFail(j)
           \/ \E a \in finished : WorkerAnswer(a)
  BY <1>6, <1>7 DEF WorkerStart, WorkerShutdown, WorkerCrash, WorkerWrite, WorkerSync,
                    WorkerFail, WorkerDone, WorkerAnswer, cvars
<1>8. CASE ReceiveAnswer
  <2> DEFINE b == Head(outbox)
  <2>1. /\ b \in ToSet(outbox) /\ b.id \in Ids
        /\ \A k \in Ids \ {b.id} : ops'[k] = ops[k]
        /\ ops'[b.id] = ops[b.id] \/ ops'[b.id].state = IF b.ok THEN "resolved" ELSE "rejected"
    BY <1>8, AnswerTaken
  <2>2. Restated  BY <1>8, NoCall
  <2> HIDE DEF b
  <2>3. f \in Ids /\ ops[f].type = "flush" /\ ops'[f].before = ops[f].before
    BY <2>2 DEF Restated
  <2>4. f = b.id /\ b.ok  BY <1>4, <2>1, <2>3
  <2>5. ops[f].before \subseteq Durable  BY <2>1, <2>3, <2>4 DEF Answered
  <2> QED  BY <1>0, <2>3, <2>5
<1>9. ~(\/ SendFallback \/ FallbackToMainThread
        \/ \E type \in Types, state \in States : QuietStep(type, state)
        \/ \E i \in pending : ShutdownTimeout(i)
        \/ ProcessStart \/ FallbackSent \/ FallbackFailed
        \/ \E i \in syncing : SyncDone(i) \/ SyncFailed(i))
  BY <1>1, <1>2 DEF Phases, SendFallback, FallbackToMainThread, QuietStep, ShutdownTimeout,
                    ProcessStart, FallbackSent, FallbackFailed
<1> QED  BY <1>5, <1>7, <1>8, <1>9, Steps
-------------------------------------------------------------------------------
(* Shared                                                                   *)

(* A dispatcher that never had a worker takes the steps of the main thread. *)
LEMMA LocalSteps ==
  ASSUME TTypeOK, Phases, ~threaded, TNext
  PROVE  /\ ~worker /\ pending = {} /\ UNCHANGED wvars /\ UNCHANGED given
         /\ \/ SendFallback
            \/ \E type \in Types, state \in States : QuietStep(type, state)
            \/ ProcessStart \/ FallbackSent \/ FallbackFailed
            \/ \E i \in syncing : SyncDone(i) \/ SyncFailed(i)
<1>1. /\ ~worker /\ pending = {} /\ inbox = <<>> /\ running = {} /\ finished = {}
      /\ outbox = <<>> /\ ~errorDue /\ thread = "dead"
  BY DEF Phases
<1>2. ~(\/ \E type \in Types : DispatchStep(type)
        \/ WorkerStart \/ WorkerShutdown \/ WorkerCrash
        \/ \E i \in running : WorkerWrite(i) \/ WorkerSync(i) \/ WorkerFail(i)
        \/ \E a \in finished : WorkerAnswer(a)
        \/ \E i \in pending : ShutdownTimeout(i)
        \/ ReceiveAnswer \/ FallbackToMainThread)
  BY <1>1 DEF DispatchStep, DispatchToWorker, WorkerStart, WorkerShutdown, WorkerCrash,
              ReceiveAnswer, FallbackToMainThread
<1>3. SendFallback \/ ProcessStart \/ FallbackSent \/ FallbackFailed => UNCHANGED wvars
  BY DEF SendFallback, ProcessStart, FallbackSent, FallbackFailed
<1>4. /\ \A type \in Types, state \in States : QuietStep(type, state) => UNCHANGED wvars
      /\ \A i \in syncing : SyncDone(i) \/ SyncFailed(i) => UNCHANGED wvars
  BY DEF QuietStep, SyncDone, SyncFailed
<1> QED  BY <1>1, <1>2, <1>3, <1>4, Steps

(* Nothing waits in the queue and nothing is being sent: no send is pending.*)
NothingToSend == \A j \in Ids : IsSend(j) => ops[j].state # "pending"

LEMMA SharedStep ==
  ASSUME TTypeOK, Phases, Kinds, NoOrphan, NoOrphan', Shared, TNext
  PROVE  Shared'
<1> SUFFICES ASSUME ~threaded'  PROVE Shared'  BY DEF Shared
<1>0. /\ TypeParts /\ ~threaded /\ UNCHANGED given /\ ~worker /\ pending = {} /\ UNCHANGED wvars
  BY TypeInParts, Steps, LocalSteps DEF given
<1> USE DEF IsSend
<1> DEFINE Waits(i) == \A j \in 1 .. i - 1 : IsSend(j) => ops[j].state # "pending"
<1>1. /\ \A i \in syncing : Waits(i)
      /\ \A n \in 1 .. Len(waiters) : ~waiters[n].direct
      /\ creatable => shutdownOps = {i \in Ids : ops[i].type = "shutdown"}
  BY <1>0 DEF Shared
<1>2. \A i \in Ids : \A j \in 1 .. i - 1 : j \in Ids  BY CallParts DEF Ids
<1>3. ASSUME \A j \in Ids : ops'[j].type = ops[j].type,
             \A j \in Ids : IsSend(j) /\ ops'[j].state = "pending" => ops[j].state = "pending"
      PROVE  \A i \in syncing : Waits(i)'
  BY <1>1, <1>2, <1>3, Located
<1>4. CASE SendFallback
  <2>1. Ids' = Ids \union {NewId} /\ ops'[NewId].type = "send"
        /\ \A j \in Ids : ops'[j].type = ops[j].type
    BY <1>4, SendFallbackSound, NewOpParts
  <2>2. \A j \in Ids : ops'[j].state = "pending" => ops[j].state = "pending"
    BY <1>4, SendQueue, Located
  <2>3. \A i \in syncing : Waits(i)'  BY <1>3, <2>1, <2>2
  <2>4. UNCHANGED <<waiters, syncing, shutdownOps>>  BY <1>4 DEF SendFallback
  <2> QED  BY <1>0, <1>1, <2>1, <2>3, <2>4 DEF Shared, given
<1>5. ASSUME NEW type \in Types, NEW state \in States, QuietStep(type, state)
      PROVE  Shared'
  <2>1. ops' = Append(ops, NewOp(type, state))  BY <1>5 DEF QuietStep
  <2>2. /\ Ids' = Ids \union {NewId} /\ NewId \notin Ids /\ ops'[NewId].type = type
        /\ \A j \in Ids : ops'[j] = ops[j]
    BY <2>1, Called
  <2>3. \A i \in syncing : Waits(i)'  BY <1>3, <2>2
  <2>4. PICK new \in Nat : new = NewId /\ \A j \in 1 .. new - 1 : j \in Ids
    BY CallParts DEF NewId, Ids
  <2>5. \A i \in syncing' : Waits(i)'
    <3>1. CASE UNCHANGED syncing  BY <2>3, <3>1
    <3>2. CASE Idle /\ syncing' = syncing \union {new}
      <4>1. NothingToSend
        BY <1>0, <3>2, NothingIn, Located DEF Idle, NoOrphan, NothingToSend
      <4>2. Waits(new)'  BY <2>2, <2>4, <4>1 DEF NothingToSend
      <4> QED  BY <2>3, <3>2, <4>2
    <3> QED  BY <1>5, <2>4, <3>1, <3>2 DEF QuietStep
  <2>6. \A n \in 1 .. Len(waiters') : ~waiters'[n].direct
    <3>1. CASE UNCHANGED waiters  BY <1>1, <3>1
    <3>2. CASE waiters' = Append(waiters, [id |-> NewId, direct |-> FALSE])
      <4>1. PICK w : w = [id |-> NewId, direct |-> FALSE]  OBVIOUS
      <4>2. waiters \in Seq(Waiter \union {w}) /\ w \in Waiter \union {w}
        BY <1>0, SeqWiden DEF TypeParts
      <4>3. waiters' = Append(waiters, w) /\ ~w.direct  BY <3>2, <4>1
      <4>4. Len(waiters') = Len(waiters) + 1 /\ waiters'[Len(waiters) + 1] = w
            /\ \A n \in 1 .. Len(waiters) : waiters'[n] = waiters[n]
        BY <4>2, <4>3, Appended
      <4>5. Len(waiters) \in Nat  BY <1>0 DEF TypeParts
      <4> QED  BY <1>1, <4>3, <4>4, <4>5
    <3> QED  BY <1>5, <3>1, <3>2 DEF QuietStep
  <2>7. creatable => shutdownOps' = {i \in Ids' : ops'[i].type = "shutdown"}
    <3>1. CASE type = "shutdown"  BY <1>1, <1>5, <2>2, <3>1 DEF QuietStep
    <3>2. CASE type # "shutdown"  BY <1>1, <1>5, <2>2, <3>2 DEF QuietStep
    <3> QED  BY <3>1, <3>2
  <2> QED  BY <1>0, <2>5, <2>6, <2>7 DEF Shared, given
<1>6. CASE ProcessStart \/ FallbackSent \/ FallbackFailed
  <2>1. PICK S \in {{}, {active}}, state \in States : NextItem(S, state) /\ state # "pending"
    <3>1. "resolved" \in States /\ "rejected" \in States  BY DEF States
    <3> QED  BY <1>6, <3>1 DEF ProcessStart, FallbackSent, FallbackFailed
  <2>2. Restated  BY <1>6, NoCall
  <2>3. \A j \in Ids : ops'[j].state = "pending" => ops[j].state = "pending"
    BY <2>1, NextItemSound
  <2>4. \A j \in Ids : ops'[j].type = ops[j].type  BY <2>2 DEF Restated
  <2>5. \A i \in syncing : Waits(i)'  BY <1>3, <2>3, <2>4
  <2>6. UNCHANGED shutdownOps  BY <1>6 DEF ProcessStart, FallbackSent, FallbackFailed
  <2>7. creatable => shutdownOps' = {i \in Ids' : ops'[i].type = "shutdown"}
    BY <1>1, <2>2, <2>6 DEF Restated
  <2>8. CASE queue # <<>>
    <3>1. UNCHANGED <<waiters, syncing>>  BY <2>1, <2>8, NextFromQueue
    <3> QED  BY <1>0, <1>1, <2>5, <2>7, <3>1 DEF Shared, given
  <2>9. CASE queue = <<>>
    <3>1. active' = 0 /\ queue' = <<>> /\ waiters' = <<>>  BY <2>1, <2>9, NextFromQueue
    <3>2. NothingToSend'
      BY <1>0, <2>2, <3>1, NothingIn, Located DEF NoOrphan, NothingToSend, wvars, Restated
    <3>3. \A i \in syncing' : Waits(i)'
      <4> SUFFICES ASSUME NEW i \in syncing', NEW j \in 1 .. i - 1, ops'[j].type = "send"
                   PROVE  ops'[j].state # "pending"
        OBVIOUS
      <4>1. syncing' = syncing \union OtherWaiters  BY <2>1, <2>9, NextFromQueue
      <4>2. i \in Ids  BY <4>1, Located DEF OtherWaiters
      <4>3. j \in Ids'  BY <1>2, <2>2, <4>2 DEF Restated
      <4> QED  BY <3>2, <4>3 DEF NothingToSend
    <3>4. Len(waiters') = 0  BY <3>1
    <3> QED  BY <1>0, <2>7, <3>3, <3>4 DEF Shared, given
  <2> QED  BY <2>8, <2>9
<1>7. ASSUME NEW i \in syncing, SyncDone(i) \/ SyncFailed(i)  PROVE Shared'
  <2>1. PICK state \in States : SetState(Sharers(i), state) /\ state # "pending"
    BY <1>7 DEF SyncDone, SyncFailed, States
  <2>2. Restated /\ \A j \in Ids : ops'[j].state = "pending" => ops[j].state = "pending"
    BY <2>1, SetStateSound
  <2>3. \A j \in Ids : ops'[j].type = ops[j].type  BY <2>2 DEF Restated
  <2>4. \A j \in syncing : Waits(j)'  BY <1>3, <2>2, <2>3
  <2>5. UNCHANGED <<waiters, shutdownOps>> /\ syncing' \subseteq syncing
    BY <1>7 DEF SyncDone, SyncFailed
  <2> QED  BY <1>0, <1>1, <2>2, <2>4, <2>5 DEF Shared, given, Restated
<1> QED  BY <1>0, <1>4, <1>5, <1>6, <1>7, LocalSteps

-------------------------------------------------------------------------------
(* The invariant                                                            *)

LEMMA TIInit == TInit => TIInv
<1> SUFFICES ASSUME TInit PROVE TIInv  OBVIOUS
<1> USE DEF TInit, CInit
<1>1. Ids = {} /\ Len(file) = 0 /\ Len(waiters) = 0 /\ Len(ops) = 0  BY DEF Ids
<1>2. ToSet(<<>>) = {} /\ Once(<<>>)  BY NothingIn
<1>3. creatable \in BOOLEAN /\ (threaded => creatable)  OBVIOUS
<1>4. TTypeOK
  <2>1. ops \in Seq(CallRecords) /\ file \in Seq(Ids) /\ inbox \in Seq(Ids)
        /\ outbox \in Seq(Answers) /\ queue \in Seq(Ids) /\ waiters \in Seq(Waiter)
    OBVIOUS
  <2>2. {threaded, worker, errorDue, shuttingDown, scheduled, creatable} \subseteq BOOLEAN
    <3>1. threaded \in BOOLEAN /\ worker \in BOOLEAN  BY Zenon
    <3> QED  BY <1>3, <3>1
  <2>3. \A i \in Ids : ops[i].before \subseteq Ids  BY <1>1
  <2>4. durable \in 0 .. Len(file) /\ active \in Ids \union {0}
        /\ thread \in {"running", "closed", "dead"}
    BY <1>1
  <2>5. TypeParts  BY <2>1, <2>2, <2>3, <2>4 DEF TypeParts
  <2> QED  BY <2>5, TypeInParts
<1>5. Phases  BY <1>1, <1>3 DEF Phases
<1>6. Kinds /\ Awaited  BY <1>1, <1>2 DEF Kinds, Awaited
<1>7. Writes  BY <1>1, <1>2, <1>4, CopiesKnown DEF Writes
<1>8. NoOrphan /\ DuplicateNeedsCrash /\ AcceptedIsWritten /\ FlushCoversWhileAlive
  BY <1>1 DEF NoOrphan, DuplicateNeedsCrash, AcceptedIsWritten, Accepted,
              FlushCoversWhileAlive, FlushCoversAccepted
<1>9. Answered /\ Shared  BY <1>1, <1>2 DEF Answered, Shared
<1> QED  BY <1>4, <1>5, <1>6, <1>7, <1>8, <1>9 DEF TIInv

LEMMA TIStutter ==
  ASSUME TIInv, UNCHANGED tvars
  PROVE  TIInv'
<1> USE DEF tvars, cvars, wvars, fvars, given, Ids, IsSend, Written, Durable, Copies
<1>1. TTypeOK' /\ Phases'
  BY DEF TIInv, TTypeOK, Answers, Phases
<1>2. Kinds' /\ Awaited'  BY DEF TIInv, Kinds, Awaited
<1>3. NoOrphan'  BY DEF TIInv, NoOrphan
<1>4. Writes'  BY DEF TIInv, Writes
<1>5. DuplicateNeedsCrash'  BY DEF TIInv, DuplicateNeedsCrash
<1>6. Answered'  BY DEF TIInv, Answered
<1>7. AcceptedIsWritten'  BY DEF TIInv, AcceptedIsWritten, Accepted
<1>8. FlushCoversWhileAlive'  BY DEF TIInv, FlushCoversWhileAlive, FlushCoversAccepted
<1>9. Shared'  BY DEF TIInv, Shared
<1> QED  BY <1>1, <1>2, <1>3, <1>4, <1>5, <1>6, <1>7, <1>8, <1>9 DEF TIInv

LEMMA TIStep == TIInv /\ [TNext]_tvars => TIInv'
<1> SUFFICES ASSUME TIInv, TNext  PROVE TIInv'  BY TIStutter
<1>0. /\ TTypeOK /\ Phases /\ Kinds /\ Awaited /\ NoOrphan
      /\ Writes /\ DuplicateNeedsCrash /\ Answered /\ AcceptedIsWritten
      /\ FlushCoversWhileAlive /\ Shared
  BY DEF TIInv
<1>1. TTypeOK'
  <2>1. CASE Calls /\ UNCHANGED given  BY <1>0, <2>1, TypeCall
  <2>2. CASE Main  BY <1>0, <2>2, TypeMain
  <2>3. CASE Worker \/ ((WorkerCrash \/ Timer) /\ UNCHANGED given)
    BY <1>0, <2>3, TypeWorker
  <2>4. Timer => UNCHANGED given  BY DEF Timer
  <2> QED  BY <2>1, <2>2, <2>3, <2>4 DEF TNext
<1>2. Phases'  BY <1>0, <1>1, PhasesStep
<1>3. Kinds'  BY <1>0, KindsStep
<1>4. Awaited' /\ NoOrphan'  BY <1>0, AwaitedStep
<1>5. Writes' /\ DuplicateNeedsCrash'  BY <1>0, <1>1, WritesStep
<1>6. Answered' /\ AcceptedIsWritten'  BY <1>0, AnsweredStep, AcceptedStep
<1>7. FlushCoversWhileAlive'  BY <1>0, <1>2, FlushStep
<1>8. Shared'  BY <1>0, <1>4, SharedStep
<1> QED  BY <1>1, <1>2, <1>3, <1>4, <1>5, <1>6, <1>7, <1>8 DEF TIInv

(* Every reachable state satisfies the inductive invariant.                 *)
THEOREM Inductive == TSpec => []TIInv
  BY TIInit, TIStep, PTL DEF TSpec

(* send(): what is accepted is in the file, what is pending can still       *)
(* settle, and nothing is written twice unless the worker died.             *)
THEOREM DispatcherIsSound == TSpec => []DispatcherSound
<1>1. TIInv => DispatcherSound  BY DEF TIInv, DispatcherSound
<1> QED  BY <1>1, Inductive, PTL

(* As long as the worker lives, a flush that has resolved covers every send *)
(* that had been accepted when it was called.                               *)
THEOREM FlushIsCovered == TSpec => []FlushCoversWhileAlive
<1>1. TIInv => FlushCoversWhileAlive  BY DEF TIInv
<1> QED  BY <1>1, Inductive, PTL
-------------------------------------------------------------------------------
(* A dispatcher without a worker implements the contract of Transport       *)

LEMMA SeqIsFunction ==
  ASSUME NEW S, NEW q \in Seq(S)
  PROVE  q = [n \in 1 .. Len(q) |-> q[n]]
OBVIOUS

LEMMA OpsAreFunction ==
  ASSUME TTypeOK
  PROVE  /\ ops = [i \in Ids |-> ops[i]]
         /\ \A T, state : ops' = [i \in Ids |-> IF i \in T THEN [ops[i] EXCEPT !.state = state]
                                                          ELSE ops[i]]
              /\ T = {} => UNCHANGED ops
<1>1. ops \in Seq(CallRecords)  BY CallParts
<1>2. ops = [i \in Ids |-> ops[i]]  BY <1>1 DEF Ids
<1> QED  BY <1>2

(* A call that is refused at once.                                          *)
LEMMA RefusedCall ==
  ASSUME TTypeOK, NEW type \in Types, Len(ops) < MaxOps,
         ops' = Append(ops, NewOp(type, "rejected")), UNCHANGED <<file, durable>>
  PROVE  CNext
<1> DEFINE new == [type |-> type, state |-> "pending", before |-> Accepted]
           all == Append(ops, new)
           refused == {Len(ops) + 1}
<1>1. ops \in Seq(CallRecords) /\ Len(ops) \in Nat /\ "pending" \in States
      /\ new = NewOp(type, "pending")
  BY CallParts DEF States, NewOp
<1>2. [new EXCEPT !.state = "rejected"] = NewOp(type, "rejected")  BY DEF NewOp
<1>3. new \in CallRecords  BY <1>1 DEF CallRecords, NewOp, Accepted, Ids
<1> HIDE DEF new
<1>4. /\ all \in Seq(CallRecords) /\ Len(all) = Len(ops) + 1 /\ all[Len(ops) + 1] = new
      /\ \A i \in 1 .. Len(ops) : all[i] = ops[i]
  BY <1>1, <1>3, Appended
<1> DEFINE both == [i \in 1 .. Len(all) |-> IF i \in refused THEN [all[i] EXCEPT !.state = "rejected"]
                                                            ELSE all[i]]
<1> HIDE DEF all
<1>5. \A i \in 1 .. Len(ops) : both[i] = ops[i]  BY <1>1, <1>4
<1>6. both[Len(ops) + 1] = NewOp(type, "rejected")  BY <1>1, <1>2, <1>4
<1>7. DOMAIN both = 1 .. Len(ops) + 1 /\ both = [i \in 1 .. Len(ops) + 1 |-> both[i]]
  BY <1>4
<1> HIDE DEF both
<1>8. ops' = both
  <2> PICK c : c = NewOp(type, "rejected")  OBVIOUS
  <2>1. c \in CallRecords  BY DEF CallRecords, NewOp, Accepted, Ids, States
  <2>2. /\ Append(ops, c) \in Seq(CallRecords) /\ Len(Append(ops, c)) = Len(ops) + 1
        /\ Append(ops, c)[Len(ops) + 1] = c
        /\ \A i \in 1 .. Len(ops) : Append(ops, c)[i] = ops[i]
    BY <1>1, <2>1, Appended
  <2>3. Append(ops, c) = [i \in 1 .. Len(ops) + 1 |-> Append(ops, c)[i]]
    BY <2>2, SeqIsFunction
  <2>4. \A i \in 1 .. Len(ops) + 1 : Append(ops, c)[i] = both[i]
    BY <1>1, <1>5, <1>6, <2>2
  <2> QED  BY <1>7, <2>3, <2>4
<1>9. CallRefusing(type, refused)  BY <1>8 DEF CallRefusing, both, all, new
<1>10. refused \in SUBSET (1 .. Len(ops) + 1)  BY <1>1
<1> HIDE DEF refused
<1> QED  BY <1>9, <1>10 DEF CNext
(* A send that the queue has room for, or that evicts the oldest one.       *)
LEMMA SendRefines ==
  ASSUME TTypeOK, Awaited, SendFallback, Len(ops) < MaxOps
  PROVE  CNext
<1>1. "send" \in Types /\ UNCHANGED <<file, durable>>  BY DEF Types, SendFallback
<1>2. CASE ops' = Append(ops, NewOp("send", "pending"))
  <2>1. Call("send")  BY <1>1, <1>2 DEF Call, NewOp
  <2> QED  BY <1>1, <2>1 DEF CNext
<1>3. ASSUME queue # <<>>, Head(queue) \in Ids,
             ops' = [Append(ops, NewOp("send", "pending")) EXCEPT ![Head(queue)].state = "rejected"]
      PROVE  CNext
  <2> PICK h : h = Head(queue)  OBVIOUS
  <2>1. h \in Ids /\ h \in ToSet(queue)
    <3>1. queue \in Seq(Ids)  BY DEF TTypeOK
    <3>2. ToSet(queue) = ToSet(Tail(queue)) \union {Head(queue)}  BY <1>3, <3>1, Taken
    <3> QED  BY <1>3, <3>2
  <2>2. ops[h].state = "pending"  BY <2>1 DEF Awaited
  <2> DEFINE all == Append(ops, [type |-> "send", state |-> "pending", before |-> Accepted])
  <2>3. all = Append(ops, NewOp("send", "pending"))  BY DEF NewOp
  <2>4. all \in Seq(CallRecords)
    <3>1. NewOp("send", "pending") \in CallRecords
      BY <1>1 DEF CallRecords, NewOp, Accepted, Ids, States
    <3>2. ops \in Seq(CallRecords)  BY CallParts
    <3> HIDE DEF all
    <3> QED  BY <2>3, <3>1, <3>2, Appended
  <2>5. ops' = [all EXCEPT ![h].state = "rejected"]  BY <1>3, <2>3
  <2> HIDE DEF all
  <2>6. all = [i \in 1 .. Len(all) |-> all[i]]  BY <2>4, SeqIsFunction
  <2>7. ops' = [i \in 1 .. Len(all) |-> IF i \in {h} THEN [all[i] EXCEPT !.state = "rejected"]
                                                     ELSE all[i]]
    BY <2>5, <2>6
  <2>8. CallRefusing("send", {h})
    BY <1>1, <2>2, <2>7 DEF CallRefusing, all
  <2>9. {h} \in SUBSET (1 .. Len(ops) + 1)  BY <2>1, CallParts DEF Ids
  <2> QED  BY <1>1, <2>8, <2>9 DEF CNext
<1> QED  BY <1>2, <1>3, SendFallbackSound

LEMMA FlushRefines ==
  ASSUME TTypeOK, NEW type \in Types, Len(ops) < MaxOps, FlushFallback(type),
         UNCHANGED <<file, durable>>
  PROVE  CNext
<1>1. CASE ops' = Append(ops, NewOp(type, "pending"))
  <2>1. Call(type)  BY <1>1 DEF Call, NewOp
  <2> QED  BY <2>1 DEF CNext
<1>2. CASE ops' = Append(ops, NewOp(type, "rejected"))
  BY <1>2, RefusedCall
<1> QED  BY <1>1, <1>2 DEF FlushFallback

(* The second and every later shutdown() is a copy of the first.            *)
LEMMA ShutdownRefines ==
  ASSUME TTypeOK, Shared, ~threaded, ShutdownCall, Len(ops) < MaxOps
  PROVE  CNext
<1>1. UNCHANGED <<file, durable>> /\ "shutdown" \in Types /\ creatable
  BY DEF ShutdownCall, Types
<1>2. CASE shutdownOps = {}
  BY <1>1, <1>2, FlushRefines DEF ShutdownCall
<1>3. CASE shutdownOps # {}
  <2> PICK first : first = LeastShutdown  OBVIOUS
  <2>1. first \in shutdownOps /\ \A j \in shutdownOps : first <= j
    BY <1>3, LeastShutdownSound
  <2>2. first \in Ids /\ ops[first].type = "shutdown"  BY <1>1, <2>1 DEF Shared
  <2>3. \A g \in 1 .. first - 1 : g \in Ids /\ ~(first <= g)
    BY <2>2, CallParts DEF Ids
  <2>4. \A g \in 1 .. first - 1 : ops[g].type # "shutdown"
    BY <1>1, <2>1, <2>3 DEF Shared
  <2>5. ops' = Append(ops, NewOp("shutdown", ops[first].state))
    BY <1>3 DEF ShutdownCall, LeastShutdown
  <2>6. CallShutdownAgain(first)  BY <1>1, <2>2, <2>4, <2>5 DEF CallShutdownAgain, NewOp
  <2> QED  BY <2>2, <2>6 DEF CNext
<1> QED  BY <1>2, <1>3

(* One item of the queue settles, if any is being sent.                     *)
LEMMA NextItemRefines ==
  ASSUME TTypeOK, Phases, Kinds, Awaited, Shared, ~threaded,
         ProcessStart \/ FallbackSent \/ FallbackFailed
  PROVE  CNext \/ UNCHANGED cvars
<1>1. ~worker /\ \A n \in 1 .. Len(waiters) : ~waiters[n].direct  BY DEF Phases, Shared
<1>2. DirectWaiters = {}  BY <1>1 DEF DirectWaiters
<1>3. ASSUME NEW S, NEW state \in States, NextItem(S, state),
             \A i \in S : i \in Ids /\ ops[i].state = "pending"
      PROVE  ops' = [i \in Ids |-> IF i \in S THEN [ops[i] EXCEPT !.state = state] ELSE ops[i]]
  <2>1. CASE queue # <<>>  BY <1>3, <2>1 DEF NextItem, SetState
  <2>2. CASE queue = <<>>  BY <1>2, <1>3, <2>2 DEF NextItem
  <2> QED  BY <2>1, <2>2
<1>4. "resolved" \in States /\ "rejected" \in States  BY DEF States
<1>5. CASE ProcessStart
  <2>1. NextItem({}, "resolved") /\ UNCHANGED <<file, durable>>  BY <1>5 DEF ProcessStart
  <2>2. UNCHANGED ops
    <3>1. ops' = [i \in Ids |-> IF i \in {} THEN [ops[i] EXCEPT !.state = "resolved"] ELSE ops[i]]
      BY <1>3, <1>4, <2>1
    <3> QED  BY <3>1, OpsAreFunction
  <2> QED  BY <2>1, <2>2 DEF cvars
<1>6. ASSUME active # 0
      PROVE  active \in Ids /\ IsSend(active) /\ ops[active].state = "pending"
  BY <1>6, Located DEF Kinds, Awaited
<1>7. CASE FallbackSent
  <2>1. active # 0 /\ NextItem({active}, "resolved") /\ file' = Append(file, active)
        /\ UNCHANGED durable
    BY <1>7 DEF FallbackSent
  <2>2. ops' = [i \in Ids |-> IF i \in {active} THEN [ops[i] EXCEPT !.state = "resolved"] ELSE ops[i]]
    BY <1>3, <1>4, <1>6, <2>1
  <2>3. Settle(active, "resolved")
    <3> PICK f : f = ops  OBVIOUS
    <3>1. f = [i \in Ids |-> f[i]]  BY OpsAreFunction
    <3> QED  BY <1>6, <2>1, <2>2, <3>1 DEF Settle
  <2>4. Write(active)  BY <1>6, <2>1, <2>3 DEF Write
  <2> QED  BY <1>6, <2>1, <2>4 DEF CNext
<1>8. CASE FallbackFailed
  <2>1. active # 0 /\ NextItem({active}, "rejected") /\ UNCHANGED <<file, durable>>
    BY <1>8 DEF FallbackFailed
  <2>2. ops' = [i \in Ids |-> IF i \in {active} THEN [ops[i] EXCEPT !.state = "rejected"] ELSE ops[i]]
    BY <1>3, <1>4, <1>6, <2>1
  <2>3. Refuse({active}) /\ {active} \in SUBSET Ids  BY <1>6, <2>1, <2>2 DEF Refuse
  <2> QED  BY <2>3 DEF CNext
<1> QED  BY <1>5, <1>7, <1>8

LEMMA FlushPointSound ==
  ASSUME TTypeOK, NEW i \in Ids, ~IsSend(i)
  PROVE  /\ FlushPoint(i) \in 1 .. i
         /\ ops[i].type = "shutdown" =>
              /\ ops[FlushPoint(i)].type = "shutdown"
              /\ \A g \in 1 .. FlushPoint(i) - 1 : ops[g].type # "shutdown"
<1> DEFINE P(f) == /\ ops[f].type = ops[i].type
                   /\ \/ f = i /\ ops[i].type = "flush"
                      \/ /\ ops[i].type = "shutdown"
                         /\ \A g \in 1 .. f - 1 : ops[g].type # "shutdown"
<1>1. i \in 1 .. i /\ ops[i].type \in {"flush", "shutdown"} /\ i \in Nat
  BY CallParts DEF Ids, IsSend, Types
<1>2. \E f \in 1 .. i : P(f)
  <2>1. CASE ops[i].type = "flush"  BY <1>1, <2>1
  <2>2. CASE ops[i].type = "shutdown"
    <3> DEFINE T == {f \in 1 .. i : ops[f].type = "shutdown"}
    <3>1. T # {} /\ T \subseteq Nat  BY <1>1, <2>2
    <3>2. PICK f \in T : \A g \in T : f <= g
      <4> HIDE DEF T
      <4> QED  BY <3>1, LeastElement
    <3>3. \A g \in 1 .. f - 1 : g \in 1 .. i /\ ~(f <= g)  BY <1>1, <3>2
    <3>4. \A g \in 1 .. f - 1 : ops[g].type # "shutdown"  BY <3>2, <3>3
    <3> QED  BY <2>2, <3>2, <3>4
  <2> QED  BY <1>1, <2>1, <2>2
<1>3. FlushPoint(i) = CHOOSE f \in 1 .. i : P(f)  BY DEF FlushPoint
<1>4. FlushPoint(i) \in 1 .. i /\ P(FlushPoint(i))
  <2> HIDE DEF P
  <2> QED  BY <1>2, <1>3
<1> QED  BY <1>4

LEMMA SyncRefines ==
  ASSUME TTypeOK, Kinds, Shared, AcceptedIsWritten, ~threaded, NEW i \in syncing,
         SyncDone(i) \/ SyncFailed(i)
  PROVE  CNext
<1> DEFINE S == {j \in Sharers(i) : ops[j].state = "pending"}
<1>1. i \in Ids /\ ~IsSend(i) /\ Sharers(i) \subseteq Ids /\ \A j \in Sharers(i) : ~IsSend(j)
  BY Located DEF Kinds, Sharers, IsSend
<1>2. S \in SUBSET Ids  BY <1>1
<1>3. ASSUME NEW state, SetState(Sharers(i), state)
      PROVE  ops' = [j \in Ids |-> IF j \in S THEN [ops[j] EXCEPT !.state = state] ELSE ops[j]]
  BY <1>3 DEF SetState
<1>4. CASE SyncDone(i)
  <2>1. durable' = Len(file) /\ UNCHANGED file /\ SetState(Sharers(i), "resolved")
    BY <1>4 DEF SyncDone
  <2>2. ASSUME NEW j \in S  PROVE Earlier(j) \subseteq Written
    <3>1. j \in Ids /\ ~IsSend(j)  BY <1>1
    <3>2. FlushPoint(j) \in 1 .. j  BY <3>1, FlushPointSound
    <3>3. \A k \in 1 .. FlushPoint(j) - 1 : k \in 1 .. i - 1
      <4>1. CASE j = i  BY <3>1, <3>2, <4>1, CallParts DEF Ids
      <4>2. CASE j # i
        <5>1. ops[i].type = "shutdown" /\ ops[j].type = "shutdown"
          BY <4>2 DEF Sharers, Kinds
        <5>2. \A g \in 1 .. FlushPoint(j) - 1 : ops[g].type # "shutdown"
          BY <3>1, <5>1, FlushPointSound
        <5>3. ~(i \in 1 .. FlushPoint(j) - 1)  BY <5>1, <5>2
        <5> QED  BY <1>1, <3>1, <3>2, <5>3, CallParts DEF Ids
      <4> QED  BY <4>1, <4>2
    <3>4. ASSUME NEW k \in Earlier(j)  PROVE k \in Written
      <4>1. k \in 1 .. FlushPoint(j) - 1 /\ IsSend(k) /\ ops[k].state # "rejected"
        BY DEF Earlier
      <4>2. k \in 1 .. i - 1  BY <3>3, <4>1
      <4>3. ops[k].state # "pending"  BY <4>1, <4>2 DEF Shared
      <4>4. k \in Ids  BY <1>1, <4>2, CallParts DEF Ids
      <4>5. ops[k].state = "resolved"  BY <4>1, <4>3, <4>4, CallParts DEF States
      <4> QED  BY <4>1, <4>4, <4>5 DEF AcceptedIsWritten, Accepted
    <3> QED  BY <3>4
  <2>3. \A j \in S : /\ ~IsSend(j) /\ ops[j].state = "pending"
                     /\ \A k \in Earlier(j) : \E n \in 1 .. durable' : file[n] = k
    BY <1>1, <2>1, <2>2 DEF Written
  <2>4. durable' \in durable .. Len(file)  BY <2>1 DEF TTypeOK
  <2>5. ops' = [j \in Ids |-> IF j \in S THEN [ops[j] EXCEPT !.state = "resolved"] ELSE ops[j]]
    BY <1>3, <2>1
  <2> HIDE DEF S
  <2>6. SyncAndResolve(S)  BY <2>1, <2>3, <2>4, <2>5 DEF SyncAndResolve
  <2> QED  BY <1>2, <2>6 DEF CNext
<1>5. CASE SyncFailed(i)
  <2>1. UNCHANGED <<file, durable>> /\ SetState(Sharers(i), "rejected")
    BY <1>5 DEF SyncFailed
  <2>2. ops' = [j \in Ids |-> IF j \in S THEN [ops[j] EXCEPT !.state = "rejected"] ELSE ops[j]]
    BY <1>3, <2>1
  <2>3. \A j \in S : ops[j].state = "pending"  OBVIOUS
  <2> HIDE DEF S
  <2>4. Refuse(S)  BY <2>1, <2>2, <2>3 DEF Refuse
  <2> QED  BY <1>2, <2>4 DEF CNext
<1> QED  BY <1>4, <1>5
LEMMA StepRefines ==
  ASSUME TIInv, TNext, ~threaded
  PROVE  CNext \/ UNCHANGED cvars
<1>0. /\ TTypeOK /\ Phases /\ Kinds /\ Awaited /\ AcceptedIsWritten /\ Shared
      /\ ~worker
  BY DEF TIInv, Phases
<1>1. CASE Calls
  <2>1. MayCall => Len(ops) < MaxOps  BY DEF MayCall
  <2>2. CASE SendFallback  BY <1>0, <2>1, <2>2, SendRefines DEF SendFallback
  <2>3. CASE FlushCall
    <3>1. MayCall /\ FlushFallback("flush") /\ UNCHANGED <<file, durable>> /\ "flush" \in Types
      BY <2>3 DEF FlushCall, Types
    <3> QED  BY <1>0, <2>1, <3>1, FlushRefines
  <2>4. CASE ShutdownCall  BY <1>0, <2>1, <2>4, ShutdownRefines DEF ShutdownCall
  <2>5. ASSUME NEW type \in Types, Uncreatable(type)  PROVE CNext
    BY <1>0, <2>1, <2>5, RefusedCall DEF Uncreatable
  <2>6. ~(SendToWorker \/ FlushToWorker \/ ShutdownToWorker)
    BY <1>0 DEF SendToWorker, FlushToWorker, ShutdownToWorker, DispatchToWorker
  <2> QED  BY <1>1, <2>2, <2>3, <2>4, <2>5, <2>6 DEF Calls
<1>2. CASE ~Calls
  <2>1. ~Worker /\ ~Timer /\ ~WorkerCrash /\ ~ReceiveAnswer /\ ~FallbackToMainThread
    BY <1>0 DEF Phases, Worker, Timer, WorkerStart, WorkerShutdown, WorkerCrash,
                ReceiveAnswer, FallbackToMainThread
  <2>2. \/ ProcessStart \/ FallbackSent \/ FallbackFailed
        \/ \E i \in syncing : SyncDone(i) \/ SyncFailed(i)
    BY <1>2, <2>1 DEF TNext, Main
  <2> QED  BY <1>0, <2>2, NextItemRefines, SyncRefines
<1> QED  BY <1>1, <1>2

(* For a dispatcher without a worker the mapping is the identity.           *)
LEMMA SameContract ==
  ASSUME ~threaded, ~threaded', CNext \/ UNCHANGED cvars
  PROVE  [Contract!CNext]_(Contract!cvars)
<1>1. UNCHANGED cvars => UNCHANGED Contract!cvars  BY DEF cvars, Contract!cvars
<1> USE DEF Types, Contract!Types
<1>2. Contract!Ids = Ids  BY DEF Contract!Ids, Ids
<1>3. \A i : Contract!IsSend(i) = IsSend(i)  BY DEF Contract!IsSend, IsSend
<1>4. Contract!Accepted = Accepted  BY <1>2, <1>3 DEF Contract!Accepted, Accepted
<1>5. Contract!Written = Written  BY DEF Contract!Written, Written
<1>6. \A i : Contract!FlushPoint(i) = FlushPoint(i)
  BY DEF Contract!FlushPoint, FlushPoint
<1>7. \A i : Contract!Earlier(i) = Earlier(i)
  BY <1>3, <1>6 DEF Contract!Earlier, Earlier
<1>8. \A i, state : Settle(i, state) => Contract!Settle(i, state)
  BY DEF Contract!Settle, Settle
<1>9. \A type : Call(type) => Contract!Call(type)
  BY <1>4 DEF Contract!Call, Call
<1>10. \A type, S : CallRefusing(type, S) => Contract!CallRefusing(type, S)
  BY <1>4 DEF Contract!CallRefusing, CallRefusing
<1>11. \A i : Write(i) => Contract!Write(i)
  BY <1>3, <1>8 DEF Contract!Write, Write
<1>12. \A i : AcceptSend(i) => Contract!AcceptSend(i)
  BY <1>3, <1>5, <1>8 DEF Contract!AcceptSend, AcceptSend
<1>13. \A i : CallShutdownAgain(i) => Contract!CallShutdownAgain(i)
  BY <1>4 DEF Contract!CallShutdownAgain, CallShutdownAgain
<1>14. \A S : Refuse(S) => Contract!Refuse(S)
  BY <1>2 DEF Contract!Refuse, Refuse
<1>15. \A S : SyncAndResolve(S) => Contract!SyncAndResolve(S)
  BY <1>2, <1>3, <1>7 DEF Contract!SyncAndResolve, SyncAndResolve
<1>16. (\E type \in Types, S \in SUBSET (1 .. Len(ops) + 1) : CallRefusing(type, S))
         => Contract!CNext
  <2> SUFFICES ASSUME NEW type \in Types, NEW S \in SUBSET (1 .. Len(ops) + 1),
                      CallRefusing(type, S)
               PROVE  Contract!CNext
    OBVIOUS
  <2>1. Contract!CallRefusing(type, S)  BY <1>10
  <2>2. S \in SUBSET (1 .. Len(IF threaded THEN <<>> ELSE ops) + 1)  OBVIOUS
  <2> QED  BY <2>1, <2>2 DEF Contract!CNext
<1>17. CNext => Contract!CNext
  BY <1>2, <1>9, <1>11, <1>12, <1>13, <1>14, <1>15, <1>16, Zenon
     DEF CNext, Contract!CNext
<1> QED  BY <1>1, <1>17

(* The dispatcher without a worker implements the contract of Transport:    *)
(* every step is a step of the contract or leaves the caller's view alone.  *)
THEOREM RefinesContract == TSpec => ImplementsContract
<1>1. TInit => Contract!CInit  BY DEF TInit, CInit, Contract!CInit
<1>2. TIInv /\ [TNext]_tvars => [Contract!CNext]_(Contract!cvars)
  <2> SUFFICES ASSUME TIInv, [TNext]_tvars  PROVE [Contract!CNext]_(Contract!cvars)
    OBVIOUS
  <2>1. UNCHANGED threaded
    <3>1. TIInv => TTypeOK  BY DEF TIInv
    <3> QED  BY <3>1, Steps DEF tvars, given
  <2>2. CASE threaded
    <3>1. threaded'  BY <2>1, <2>2
    <3> QED  BY <2>2, <3>1 DEF Contract!cvars
  <2>3. CASE ~threaded
    <3>1. ~threaded'  BY <2>1, <2>3
    <3>2. CNext \/ UNCHANGED cvars  BY <2>3, StepRefines DEF tvars
    <3> QED  BY <2>3, <3>1, <3>2, SameContract
  <2> QED  BY <2>2, <2>3
<1> QED  BY <1>1, <1>2, Inductive, PTL DEF TSpec, ImplementsContract, Contract!CSpec
================================================================================
