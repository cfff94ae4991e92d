-------------------------- MODULE IOEventBufferProofs --------------------------
(***************************************************************************)
(* Proofs about IOEventBuffer, for every capacity, budget and set of       *)
(* requests.  slotCount counts the slots that are there and every one of   *)
(* them lies in the window readHead..writeHead - 1 (RingSound), on which   *)
(* the end of enforceByteBudget and the completeness of drain() rest.      *)
(* payloadBytes is what the slots weigh (BytesAccurate); reads find what   *)
(* is there, in order (ReadsSound); no eviction is silent (LossIsRecorded).*)
(***************************************************************************)
EXTENDS IOEventBuffer, DataLemmas

(* A ring whose count and window are right.                                 *)
Shape(r) ==
  r = [slots |-> r.slots, readHead |-> r.readHead, writeHead |-> r.writeHead,
       slotCount |-> r.slotCount, payloadBytes |-> r.payloadBytes]

RingOK(r) ==
  /\ Shape(r)
  /\ r.slots \in [Indexes -> Seqs \union {Empty}]
  /\ r.readHead \in Nat /\ r.writeHead \in Nat /\ r.readHead <= r.writeHead
  /\ \A i, j \in Indexes : r.slots[i] = r.slots[j] /\ r.slots[i] # Empty => i = j
  /\ r.slotCount = Cardinality(LiveIn(r))
  /\ LiveIn(r) \subseteq SeenBefore(r, r.writeHead)

(* No slot but those of gone lies only before head.                         *)
AllAhead(r, gone, head) ==
  \A s \in LiveIn(r) \ gone :
    \E c \in head .. r.writeHead - 1 : r.slots[c % Capacity] = s

(* w is r without the slots of gone, and right.                             *)
TakenOut(r, gone, w) ==
  /\ RingOK(w)
  /\ LiveIn(w) = LiveIn(r) \ gone
  /\ w.writeHead = r.writeHead
  /\ \A i \in Indexes : r.slots[i] = Empty \/ r.slots[i] \in gone => w.slots[i] = Empty

(* A set of naturals that is not empty has a least element.                 *)
LEMMA LeastNatural ==
  ASSUME NEW T, T \subseteq Nat, T # {}
  PROVE  \E m \in T : \A n \in T : m <= n
<1>1. PICK m \in T : \A n \in T : ~(<<n, m>> \in OpToRel(<, Nat))
  BY NatLessThanWellFounded, WFMin
<1>2. ASSUME NEW n \in T PROVE m <= n
  <2>1. CASE n < m
    <3>1. <<n, m>> \in Nat \X Nat
      OBVIOUS
    <3>2. <<n, m>>[1] < <<n, m>>[2]
      BY <2>1
    <3>3. <<n, m>> \in OpToRel(<, Nat)
      BY <3>1, <3>2 DEF OpToRel
    <3> QED BY <3>3, <1>1
  <2> QED BY <2>1
<1> QED BY <1>2

LEMMA ModIndex ==
  ASSUME NEW c \in Nat
  PROVE  c % Capacity \in Indexes
BY CapacityAssumption DEF Indexes

(* The slots of a ring form a finite set, of at most Capacity elements.     *)
LEMMA LiveFinite ==
  ASSUME NEW r, r.slots \in [Indexes -> Seqs \union {Empty}]
  PROVE  /\ IsFiniteSet(LiveIn(r))
         /\ LiveIn(r) \subseteq Seqs
         /\ Cardinality(LiveIn(r)) \in 0 .. Capacity
<1> DEFINE image == {r.slots[i] : i \in Indexes}
<1>1. IsFiniteSet(Indexes) /\ Cardinality(Indexes) = Capacity
  BY FS_Interval, CapacityAssumption DEF Indexes
<1>2. IsFiniteSet(image) /\ Cardinality(image) <= Cardinality(Indexes)
  <2>1. r.slots \in Surjection(Indexes, image)
    BY DEF Surjection
  <2> QED BY <2>1, <1>1, FS_Surjection
<1>3. IsFiniteSet(LiveIn(r)) /\ Cardinality(LiveIn(r)) <= Cardinality(image)
  BY <1>2, FS_Subset DEF LiveIn
<1> QED
  BY <1>1, <1>2, <1>3, FS_CardinalityType, CapacityAssumption DEF LiveIn, Seqs

(* The cursors from readHead to k - 1 meet only slots of the ring, and all  *)
(* of them when k is writeHead.                                             *)
LEMMA SeenIsLive ==
  ASSUME NEW r, RingOK(r), NEW k \in r.readHead .. r.writeHead
  PROVE  /\ SeenBefore(r, k) \subseteq LiveIn(r)
         /\ SeenBefore(r, r.writeHead) = LiveIn(r)
         /\ \A s \in LiveIn(r) \ SeenBefore(r, k) :
              \E c \in k .. r.writeHead - 1 : r.slots[c % Capacity] = s
<1>1. \A c \in r.readHead .. r.writeHead - 1 : c \in Nat /\ c % Capacity \in Indexes
  BY ModIndex DEF RingOK
<1>2. \A j \in r.readHead .. r.writeHead : SeenBefore(r, j) \subseteq LiveIn(r)
  <2> SUFFICES ASSUME NEW j \in r.readHead .. r.writeHead,
                      NEW c \in r.readHead .. j - 1, r.slots[c % Capacity] # Empty
               PROVE  r.slots[c % Capacity] \in LiveIn(r)
    BY DEF SeenBefore
  <2>1. c \in r.readHead .. r.writeHead - 1
    BY DEF RingOK
  <2> QED BY <2>1, <1>1 DEF LiveIn
<1>3. SeenBefore(r, r.writeHead) = LiveIn(r)
  <2>1. r.writeHead \in r.readHead .. r.writeHead
    BY DEF RingOK
  <2> QED BY <2>1, <1>2 DEF RingOK
<1>4. ASSUME NEW s \in LiveIn(r) \ SeenBefore(r, k)
      PROVE  \E c \in k .. r.writeHead - 1 : r.slots[c % Capacity] = s
  <2>1. PICK c \in r.readHead .. r.writeHead - 1 : r.slots[c % Capacity] = s
    BY <1>3 DEF SeenBefore
  <2>2. ~(c \in r.readHead .. k - 1)
    BY <2>1 DEF SeenBefore, LiveIn
  <2>3. c \in k .. r.writeHead - 1
    BY <2>1, <2>2 DEF RingOK
  <2> QED BY <2>1, <2>3
<1> QED BY <1>2, <1>3, <1>4

(* Taking slots out keeps the ring right, provided the new readHead leaves  *)
(* none of the others behind.                                               *)
LEMMA WithoutOK ==
  ASSUME NEW r, RingOK(r), NEW h, NEW gone, gone \subseteq LiveIn(r),
         NEW head \in r.readHead .. r.writeHead, AllAhead(r, gone, head)
  PROVE  TakenOut(r, gone, Without(h, r, gone, head))
<1> DEFINE w == Without(h, r, gone, head)
<1>1. /\ w.slots = [i \in Indexes |-> IF r.slots[i] \in gone THEN Empty ELSE r.slots[i]]
      /\ w.writeHead = r.writeHead
      /\ w.slotCount = r.slotCount - Cardinality(gone)
      /\ w.readHead = IF gone # {} /\ Cardinality(gone) = r.slotCount
                      THEN r.writeHead ELSE head
      /\ Shape(w)
  BY DEF Without, Shape
<1> HIDE DEF w
<1>2. /\ r.slots \in [Indexes -> Seqs \union {Empty}]
      /\ r.readHead \in Nat /\ r.writeHead \in Nat
      /\ r.slotCount = Cardinality(LiveIn(r))
      /\ \A i, j \in Indexes : r.slots[i] = r.slots[j] /\ r.slots[i] # Empty => i = j
  BY DEF RingOK
<1>3. w.slots \in [Indexes -> Seqs \union {Empty}]
  BY <1>1, <1>2
<1>4. LiveIn(w) = LiveIn(r) \ gone
  BY <1>1 DEF LiveIn
<1>5. /\ IsFiniteSet(LiveIn(r)) /\ IsFiniteSet(gone) /\ gone \intersect LiveIn(r) = gone
      /\ Cardinality(gone) \in Nat /\ Cardinality(LiveIn(r)) \in Nat
      /\ Cardinality(LiveIn(r) \ gone) = Cardinality(LiveIn(r)) - Cardinality(gone)
  <2>1. IsFiniteSet(LiveIn(r))
    BY <1>2, LiveFinite
  <2>2. IsFiniteSet(gone) /\ gone \intersect LiveIn(r) = gone
    BY <2>1, FS_Subset
  <2>3. LiveIn(r) \intersect gone = gone
    OBVIOUS
  <2>4. Cardinality(LiveIn(r) \ gone)
          = Cardinality(LiveIn(r)) - Cardinality(LiveIn(r) \intersect gone)
    BY <2>1, FS_Difference
  <2> QED BY <2>1, <2>2, <2>3, <2>4, FS_CardinalityType
<1>6. w.slotCount = Cardinality(LiveIn(w))
  BY <1>1, <1>2, <1>4, <1>5
<1>7. \A i, j \in Indexes : w.slots[i] = w.slots[j] /\ w.slots[i] # Empty => i = j
  BY <1>1, <1>2
<1>8. w.readHead \in Nat /\ w.writeHead \in Nat /\ w.readHead <= w.writeHead
  BY <1>1, <1>2
<1>9. LiveIn(w) \subseteq SeenBefore(w, w.writeHead)
  <2> SUFFICES ASSUME NEW s \in LiveIn(r) \ gone
               PROVE  s \in SeenBefore(w, w.writeHead)
    BY <1>4
  <2>1. PICK c \in head .. r.writeHead - 1 : r.slots[c % Capacity] = s
    BY DEF AllAhead
  <2>2. c \in Nat /\ c % Capacity \in Indexes
    BY <1>2, ModIndex
  <2>3. w.slots[c % Capacity] = s /\ s # Empty
    BY <1>1, <2>1, <2>2 DEF LiveIn
  <2>4. w.readHead = head
    <3>1. Cardinality(LiveIn(r) \ gone) # 0
      BY <1>5, FS_Difference, FS_EmptySet
    <3> QED BY <3>1, <1>1, <1>2, <1>5
  <2> QED BY <2>1, <2>3, <2>4, <1>1 DEF SeenBefore
<1>10. \A i \in Indexes : r.slots[i] = Empty \/ r.slots[i] \in gone => w.slots[i] = Empty
  BY <1>1
<1>11. RingOK(w)
  BY <1>1, <1>3, <1>6, <1>7, <1>8, <1>9 DEF RingOK
<1> QED BY <1>1, <1>4, <1>10, <1>11 DEF w, TakenOut

(* evictIndex keeps the ring right.                                         *)
LEMMA EvictIndexOK ==
  ASSUME NEW r, RingOK(r), NEW h, NEW i \in Indexes
  PROVE  /\ RingOK(EvictIndex(h, r, i))
         /\ LiveIn(EvictIndex(h, r, i)) = LiveIn(r) \ {r.slots[i]}
         /\ EvictIndex(h, r, i).writeHead = r.writeHead
         /\ EvictIndex(h, r, i).slots[i] = Empty
<1> DEFINE gone == {r.slots[i]} \ {Empty}
           head == IF r.slots[i] # Empty /\ i = r.readHead % Capacity
                   THEN r.readHead + 1 ELSE r.readHead
<1>1. gone \subseteq LiveIn(r)
  BY DEF LiveIn
<1>2. \A s \in LiveIn(r) :
        \E c \in r.readHead .. r.writeHead - 1 : r.slots[c % Capacity] = s
  BY DEF RingOK, SeenBefore
<1>3. head \in r.readHead .. r.writeHead
  <2>1. CASE r.slots[i] = Empty
    BY <2>1 DEF RingOK
  <2>2. CASE r.slots[i] # Empty
    <3>1. PICK c \in r.readHead .. r.writeHead - 1 : TRUE
      BY <1>1, <1>2, <2>2
    <3> QED BY <3>1 DEF RingOK
  <2> QED BY <2>1, <2>2
<1>4. AllAhead(r, gone, head)
  <2> SUFFICES ASSUME NEW s \in LiveIn(r) \ gone
               PROVE  \E c \in head .. r.writeHead - 1 : r.slots[c % Capacity] = s
    BY DEF AllAhead
  <2>1. PICK c \in r.readHead .. r.writeHead - 1 : r.slots[c % Capacity] = s
    BY <1>2
  <2>2. s # Empty /\ s # r.slots[i]
    BY DEF LiveIn
  <2>3. c \in head .. r.writeHead - 1
    BY <2>1, <2>2 DEF RingOK
  <2> QED BY <2>1, <2>3
<1>5. EvictIndex(h, r, i) = Without(h, r, gone, head)
  BY DEF EvictIndex
<1>6. r.slots[i] = Empty \/ r.slots[i] \in gone
  OBVIOUS
<1>7. LiveIn(r) \ gone = LiveIn(r) \ {r.slots[i]}
  BY DEF LiveIn
<1> DEFINE w == Without(h, r, gone, head)
<1> HIDE DEF gone, head
<1>8. TakenOut(r, gone, w)
  BY <1>1, <1>3, <1>4, WithoutOK
<1> HIDE DEF w
<1>9. EvictIndex(h, r, i) = w
  BY <1>5 DEF w
<1> QED BY <1>6, <1>7, <1>8, <1>9 DEF TakenOut

(* The loop of enforceByteBudget ends: among the cursors of the window      *)
(* there is one at which the budget holds or nothing is left, because the   *)
(* window covers the ring.                                                  *)
LEMMA BudgetCursorExists ==
  ASSUME NEW r, RingOK(r), NEW h, NEW incoming
  PROVE  BudgetCursor(h, r, incoming) \in r.readHead .. r.writeHead
<1> DEFINE T == {k \in r.readHead .. r.writeHead : WithinBudget(h, r, k, incoming)}
<1>1. r.writeHead \in T
  <2>1. r.writeHead \in r.readHead .. r.writeHead
    BY DEF RingOK
  <2>2. Cardinality(SeenBefore(r, r.writeHead)) = r.slotCount
    BY <2>1, SeenIsLive DEF RingOK
  <2> QED BY <2>1, <2>2 DEF WithinBudget
<1>2. T \subseteq Nat
  BY DEF RingOK
<1>3. PICK m \in T : \A n \in T : m <= n
  BY <1>1, <1>2, LeastNatural
<1>4. \A j \in r.readHead .. m - 1 : ~WithinBudget(h, r, j, incoming)
  <2> SUFFICES ASSUME NEW j \in r.readHead .. m - 1, j \in T PROVE FALSE
    BY <1>3 DEF RingOK
  <2> QED BY <1>3 DEF RingOK
<1>5. m \in r.readHead .. r.writeHead /\ WithinBudget(h, r, m, incoming)
  BY <1>3
<1> QED BY <1>4, <1>5 DEF BudgetCursor

LEMMA EnforceOK ==
  ASSUME NEW r, RingOK(r), NEW h, NEW incoming
  PROVE  /\ RingOK(EnforceByteBudget(h, r, incoming))
         /\ LiveIn(EnforceByteBudget(h, r, incoming)) \subseteq LiveIn(r)
         /\ EnforceByteBudget(h, r, incoming).writeHead = r.writeHead
         /\ \A i \in Indexes : r.slots[i] = Empty
              => EnforceByteBudget(h, r, incoming).slots[i] = Empty
<1> DEFINE k == BudgetCursor(h, r, incoming)
<1>1. k \in r.readHead .. r.writeHead
  BY BudgetCursorExists
<1>2. EnforceByteBudget(h, r, incoming) = Without(h, r, SeenBefore(r, k), k)
  BY DEF EnforceByteBudget
<1> DEFINE gone == SeenBefore(r, k)
           w == Without(h, r, gone, k)
<1> HIDE DEF k
<1>3. gone \subseteq LiveIn(r) /\ AllAhead(r, gone, k)
  BY <1>1, SeenIsLive DEF AllAhead
<1> HIDE DEF gone
<1>4. TakenOut(r, gone, w)
  BY <1>1, <1>3, WithoutOK
<1>5. EnforceByteBudget(h, r, incoming) = w
  BY <1>2 DEF w, gone, k
<1> HIDE DEF w
<1> QED BY <1>4, <1>5 DEF TakenOut

(* Storing a new slot at an empty index, under the write head, keeps the    *)
(* ring right.                                                              *)
LEMMA InsertOK ==
  ASSUME NEW r, RingOK(r), NEW seq \in Seqs, seq \notin LiveIn(r),
         r.slots[r.writeHead % Capacity] = Empty, NEW bytes, NEW new,
         new = [r EXCEPT !.slots[r.writeHead % Capacity] = seq,
                         !.payloadBytes = @ + bytes,
                         !.slotCount = @ + 1,
                         !.writeHead = @ + 1]
  PROVE  RingOK(new) /\ LiveIn(new) = LiveIn(r) \union {seq}
<1> DEFINE i == r.writeHead % Capacity
<1>1. i \in Indexes /\ r.writeHead \in Nat /\ r.readHead \in Nat
      /\ r.readHead <= r.writeHead
  BY ModIndex DEF RingOK
<1>2. /\ r.slots \in [Indexes -> Seqs \union {Empty}]
      /\ \A a, b \in Indexes : r.slots[a] = r.slots[b] /\ r.slots[a] # Empty => a = b
      /\ r.slotCount = Cardinality(LiveIn(r))
  BY DEF RingOK
<1>3. /\ new.slots = [r.slots EXCEPT ![i] = seq]
      /\ new.readHead = r.readHead /\ new.writeHead = r.writeHead + 1
      /\ new.slotCount = r.slotCount + 1
      /\ Shape(new)
  <2>1. r = [slots |-> r.slots, readHead |-> r.readHead, writeHead |-> r.writeHead,
             slotCount |-> r.slotCount, payloadBytes |-> r.payloadBytes]
    BY DEF RingOK, Shape
  <2>2. new = [slots |-> [r.slots EXCEPT ![i] = seq], readHead |-> r.readHead,
               writeHead |-> r.writeHead + 1, slotCount |-> r.slotCount + 1,
               payloadBytes |-> r.payloadBytes + bytes]
    BY <2>1
  <2> QED BY <2>2 DEF Shape
<1>4. seq # Empty
  BY NullAssumption, BoundAssumption DEF Seqs
<1>5. LiveIn(new) = LiveIn(r) \union {seq}
  <2>1. \A a \in Indexes : new.slots[a] = IF a = i THEN seq ELSE r.slots[a]
    BY <1>1, <1>2, <1>3
  <2> HIDE DEF i
  <2>2. r.slots[i] = Empty
    BY DEF i
  <2> QED BY <1>1, <1>4, <2>1, <2>2 DEF LiveIn
<1>6. new.slots \in [Indexes -> Seqs \union {Empty}]
  BY <1>1, <1>2, <1>3
<1>7. new.slotCount = Cardinality(LiveIn(new))
  BY <1>2, <1>3, <1>5, LiveFinite, FS_AddElement
<1>8. \A a, b \in Indexes : new.slots[a] = new.slots[b] /\ new.slots[a] # Empty => a = b
  <2>1. \A a \in Indexes : r.slots[a] # seq
    BY <1>4 DEF LiveIn
  <2> QED BY <1>1, <1>2, <1>3, <2>1
<1>9. LiveIn(new) \subseteq SeenBefore(new, new.writeHead)
  <2>1. r.writeHead \in new.readHead .. new.writeHead - 1
        /\ new.slots[r.writeHead % Capacity] = seq
    BY <1>1, <1>2, <1>3
  <2>2. ASSUME NEW s \in LiveIn(r)
        PROVE  \E c \in new.readHead .. new.writeHead - 1 : new.slots[c % Capacity] = s
    <3>1. PICK c \in r.readHead .. r.writeHead - 1 : r.slots[c % Capacity] = s
      BY DEF RingOK, SeenBefore
    <3>2. c \in Nat /\ c % Capacity \in Indexes /\ s # Empty
      BY <1>1, ModIndex DEF LiveIn
    <3>3. c % Capacity # i
      BY <3>1, <3>2
    <3>4. new.slots[c % Capacity] = s
      BY <1>1, <1>2, <1>3, <3>1, <3>2, <3>3
    <3>5. c \in new.readHead .. new.writeHead - 1
      BY <1>1, <1>3
    <3> QED BY <3>4, <3>5
  <2>3. \A s \in LiveIn(new) : s # Empty
    BY DEF LiveIn
  <2> QED BY <1>5, <2>1, <2>2, <2>3 DEF SeenBefore
<1> QED BY <1>1, <1>3, <1>5, <1>6, <1>7, <1>8, <1>9 DEF RingOK

(* The readHead a release leaves: the first cursor whose slot is not        *)
(* released.                                                                *)
LEMMA ReleaseHeadOK ==
  ASSUME NEW r, RingOK(r), NEW out, out \subseteq LiveIn(r)
  PROVE  /\ ReleaseHead(r, out) \in r.readHead .. r.writeHead
         /\ AllAhead(r, out, ReleaseHead(r, out))
<1> DEFINE head == ReleaseHead(r, out)
<1> DEFINE T == {k \in r.readHead .. r.writeHead :
                   k = r.writeHead \/ r.slots[k % Capacity] \notin out}
<1>0. r.readHead \in Nat /\ r.writeHead \in Nat /\ r.readHead <= r.writeHead
  BY DEF RingOK
<1>1. r.writeHead \in T /\ T \subseteq Nat
  BY <1>0
<1>2. PICK m \in T : \A n \in T : m <= n
  BY <1>1, LeastNatural
<1>3. \A j \in r.readHead .. m - 1 : r.slots[j % Capacity] \in out
  <2> SUFFICES ASSUME NEW j \in r.readHead .. m - 1, j \in T PROVE FALSE
    BY <1>0, <1>2
  <2> QED BY <1>0, <1>2
<1>4. /\ head \in r.readHead .. r.writeHead
      /\ \A j \in r.readHead .. head - 1 : r.slots[j % Capacity] \in out
  <2>1. m \in r.readHead .. r.writeHead
        /\ (m = r.writeHead \/ r.slots[m % Capacity] \notin out)
    BY <1>2
  <2> QED BY <2>1, <1>3 DEF ReleaseHead
<1> HIDE DEF head
<1>5. ASSUME NEW s \in LiveIn(r) \ out
      PROVE  \E c \in head .. r.writeHead - 1 : r.slots[c % Capacity] = s
  <2>1. PICK c \in r.readHead .. r.writeHead - 1 : r.slots[c % Capacity] = s
    BY DEF RingOK, SeenBefore
  <2>2. ~(c \in r.readHead .. head - 1)
    BY <1>4, <2>1
  <2>3. c \in head .. r.writeHead - 1
    BY <1>0, <1>4, <2>1, <2>2
  <2> QED BY <2>1, <2>3
<1> QED BY <1>4, <1>5 DEF AllAhead, head

--------------------------------------------------------------------------------
(* The inductive invariant.  TypeOK and the two facts about the ring are    *)
(* preserved only together with: no slot of the ring is younger than the    *)
(* clock, so the next event is not among them.                              *)
IInv ==
  /\ TypeOK
  /\ RingOK(ring)
  /\ Pushed \subseteq 1 .. clock
  /\ Live \subseteq Pushed

LEMMA InitIInv == Init => IInv
<1> SUFFICES ASSUME Init PROVE IInv
  OBVIOUS
<1> USE DEF Init
<1>1. ring.slots = [i \in Indexes |-> Empty] /\ Live = {} /\ Pushed = {}
  BY DEF Live, LiveIn, Pushed
<1>2. Cardinality({}) = 0
  BY FS_EmptySet
<1>3. RingOK(ring)
  <2>1. Shape(ring)
    BY DEF Shape
  <2>2. LiveIn(ring) = {} /\ ring.slotCount = Cardinality(LiveIn(ring))
    BY <1>1, <1>2 DEF Live
  <2>3. /\ ring.slots \in [Indexes -> Seqs \union {Empty}]
        /\ \A i \in Indexes : ring.slots[i] = Empty
        /\ ring.readHead = 0 /\ ring.writeHead = 0
    OBVIOUS
  <2> QED BY <2>1, <2>2, <2>3 DEF RingOK
<1>4. TypeOK
  BY <1>1, CapacityAssumption, BoundAssumption DEF TypeOK, Seqs
<1> QED BY <1>1, <1>3, <1>4 DEF IInv

(* A ring that is right has at most Capacity slots.                         *)
LEMMA RingTyped ==
  ASSUME NEW r, RingOK(r)
  PROVE  /\ r.slots \in [Indexes -> Seqs \union {Empty}]
         /\ r.readHead \in Nat /\ r.writeHead \in Nat
         /\ r.slotCount \in 0 .. Capacity
         /\ LiveIn(r) \subseteq Seqs
BY LiveFinite DEF RingOK

(* The three states of the ring that a push goes through.                     *)
Over == {ring.slots[ring.writeHead % Capacity]} \ {Empty}
Freed == EvictIndex(heap, ring, ring.writeHead % Capacity)
Room == EnforceByteBudget(heap, Freed, MetadataOverhead)
Next1 == clock + 1

LEMMA PushStoredParts ==
  ASSUME IInv, NEW req \in Requests \union {NoRequest}, PushStored(req)
  PROVE  /\ RingOK(ring) /\ Over \subseteq Live /\ ring.writeHead % Capacity \in Indexes
         /\ RingOK(Freed) /\ LiveIn(Freed) = Live \ Over
         /\ Freed.writeHead = ring.writeHead
         /\ RingOK(Room) /\ LiveIn(Room) \subseteq LiveIn(Freed)
         /\ Room.writeHead = ring.writeHead /\ Room.slots[ring.writeHead % Capacity] = Empty
         /\ Next1 \in Seqs /\ Next1 \notin Live /\ clock' = Next1 /\ clock \in Nat
         /\ ring' = [Room EXCEPT !.slots[Room.writeHead % Capacity] = Next1,
                                 !.payloadBytes = @ + MetadataOverhead,
                                 !.slotCount = @ + 1,
                                 !.writeHead = @ + 1]
         /\ RingOK(ring') /\ Live' = LiveIn(Room) \union {Next1}
<1> DEFINE i == ring.writeHead % Capacity
<1>1. RingOK(ring) /\ i \in Indexes  BY ModIndex DEF IInv, RingOK
<1>2. Over \subseteq Live  BY <1>1 DEF Over, Live, LiveIn
<1>3. RingOK(Freed) /\ Freed.writeHead = ring.writeHead /\ Freed.slots[i] = Empty
  BY <1>1, EvictIndexOK DEF Freed
<1>4. LiveIn(Freed) = Live \ Over
  <2>1. LiveIn(Freed) = Live \ {ring.slots[i]}  BY <1>1, EvictIndexOK DEF Live, Freed
  <2> QED  BY <2>1 DEF Live, LiveIn, Over
<1>5. /\ RingOK(Room) /\ LiveIn(Room) \subseteq LiveIn(Freed)
      /\ Room.writeHead = ring.writeHead /\ Room.slots[i] = Empty
  BY <1>1, <1>3, EnforceOK DEF Room
<1>6. Next1 \in Seqs /\ Next1 \notin Live /\ clock' = Next1 /\ clock \in Nat
  BY BoundAssumption DEF IInv, TypeOK, PushStored, Seqs, InvalidateIndex, Next1
<1>7. ring' = [Room EXCEPT !.slots[Room.writeHead % Capacity] = Next1,
                           !.payloadBytes = @ + MetadataOverhead,
                           !.slotCount = @ + 1,
                           !.writeHead = @ + 1]
  BY <1>5 DEF PushStored, InvalidateIndex, Room, Freed, Next1
<1>8. RingOK(ring') /\ LiveIn(ring') = LiveIn(Room) \union {Next1}
  <2>1. Room.slots[Room.writeHead % Capacity] = Empty /\ Next1 \notin LiveIn(Room)
    BY <1>4, <1>5, <1>6
  <2> QED BY <1>5, <1>6, <1>7, <2>1, InsertOK
<1> QED BY <1>1, <1>2, <1>3, <1>4, <1>5, <1>6, <1>7, <1>8 DEF Live

LEMMA PushStoredIInv ==
  ASSUME IInv, NEW req \in Requests \union {NoRequest}, PushStored(req)
  PROVE  IInv'
<1> DEFINE gone == LiveIn(Freed) \ LiveIn(Room)
<1>1. /\ Over \union gone \subseteq Live /\ LiveIn(Room) \subseteq Live /\ RingOK(ring)
      /\ RingOK(ring') /\ Live' = LiveIn(Room) \union {Next1}
      /\ Next1 \in Seqs /\ clock' = Next1 /\ clock \in Nat
  BY PushStoredParts
<1>2. NewSlot(req) \in Slot /\ NewSlot(req) # Empty
  BY BytesAssumption, NullAssumption DEF NewSlot, Slot
<1>3. heap' = [heap EXCEPT ![Next1] = NewSlot(req)] /\ heap \in [Seqs -> Slot \union {Empty}]
  BY DEF PushStored, IInv, TypeOK, InvalidateIndex, Next1
<1>4. Pushed' = Pushed \union {Next1}
  BY <1>1, <1>2, <1>3 DEF Pushed
<1>5. Cardinality(Over \union gone) \in Nat
  BY <1>1, RingTyped, LiveFinite, FS_Subset, FS_CardinalityType DEF Live
<1>6. /\ overflowCount' \in Nat /\ released' \subseteq Seqs /\ happened' = happened
      /\ requestIdIndex' = Empty /\ storedSlots' \subseteq Seqs
  <2>1. /\ overflowCount' = overflowCount + Cardinality(Over \union gone)
        /\ UNCHANGED <<released, happened>> /\ requestIdIndex' = Empty
        /\ storedSlots' = (storedSlots \ (Over \union gone)) \union {Next1}
    BY DEF PushStored, RecordEvictions, InvalidateIndex, Over, Freed, Room, Next1
  <2> HIDE DEF gone
  <2> QED BY <1>1, <1>5, <2>1 DEF IInv, TypeOK
<1>7. TypeOK'
  <2>1. heap' \in [Seqs -> Slot \union {Empty}]
    BY <1>1, <1>2, <1>3
  <2>2. clock' \in 0 .. MaxClock
    BY <1>1 DEF Seqs
  <2> QED BY <1>1, <1>6, <2>1, <2>2, RingTyped DEF TypeOK, IInv
<1>8. Pushed' \subseteq 1 .. clock' /\ Live' \subseteq Pushed'
  <2>1. Pushed' \subseteq (1 .. clock) \union {clock + 1} /\ clock' = clock + 1
    BY <1>1, <1>4 DEF IInv, Next1
  <2>2. Live' \subseteq Pushed'
    BY <1>1, <1>4 DEF IInv
  <2> QED BY <1>1, <2>1, <2>2
<1> QED BY <1>1, <1>7, <1>8 DEF IInv

(* The steps that leave the ring and the clock alone.                       *)
LEMMA SameRing ==
  ASSUME IInv, UNCHANGED <<clock, ring>>, TypeOK', Pushed \subseteq Pushed',
         Pushed' \subseteq Pushed
  PROVE  IInv'
<1>1. Live' = Live /\ RingOK(ring')
  BY DEF IInv, Live
<1> QED BY <1>1 DEF IInv

LEMMA BackfillStoredIInv ==
  ASSUME IInv, NEW s \in Seqs, NEW b \in SlotBytes, BackfillStored(s, b)
  PROVE  IInv'
<1> DEFINE h     == WithBody(s, b)
           grown == [ring EXCEPT !.payloadBytes = @ + b - heap[s].bytes]
           room  == EnforceByteBudget(h, grown, 0)
           gone  == Live \ LiveIn(room)
<1>1. RingOK(grown) /\ LiveIn(grown) = Live
  <2>1. /\ grown.slots = ring.slots /\ grown.readHead = ring.readHead
        /\ grown.writeHead = ring.writeHead /\ grown.slotCount = ring.slotCount
        /\ Shape(grown)
    BY DEF IInv, RingOK, Shape
  <2> HIDE DEF grown
  <2>2. LiveIn(grown) = Live /\ SeenBefore(grown, grown.writeHead) = SeenBefore(ring, ring.writeHead)
    BY <2>1 DEF Live, LiveIn, SeenBefore
  <2> QED BY <2>1, <2>2 DEF IInv, RingOK, Live
<1>2. RingOK(room) /\ LiveIn(room) \subseteq Live
  <2> HIDE DEF grown, h
  <2> QED BY <1>1, EnforceOK
<1>3. ring' = room /\ Live' = LiveIn(room)
  BY DEF BackfillStored, Live, InvalidateIndex
<1>4. heap \in [Seqs -> Slot \union {Empty}] /\ heap[s] \in Slot
  BY DEF BackfillStored, CanBackfill, Pushed, IInv, TypeOK
<1>5. heap' \in [Seqs -> Slot \union {Empty}] /\ heap' = [heap EXCEPT ![s] = heap'[s]]
      /\ heap'[s] \in Slot
  BY <1>4 DEF BackfillStored, WithBody, Slot, InvalidateIndex
<1>6. Pushed' = Pushed
  BY <1>4, <1>5, NullAssumption DEF Pushed
<1>7. Cardinality(gone) \in Nat
  BY LiveFinite, FS_Subset, FS_CardinalityType DEF IInv, RingOK, Live
<1>8. TypeOK'
  <2>1. /\ clock' = clock /\ UNCHANGED <<released, happened>> /\ requestIdIndex' = Empty
        /\ storedSlots' = storedSlots \ gone
        /\ overflowCount' = overflowCount + Cardinality(gone)
    BY DEF BackfillStored, RecordEvictions, InvalidateIndex
  <2> HIDE DEF gone, room
  <2> QED BY <1>2, <1>3, <1>5, <1>7, <2>1, RingTyped DEF TypeOK, IInv
<1>9. clock' = clock
  BY DEF BackfillStored, InvalidateIndex
<1> QED BY <1>2, <1>3, <1>6, <1>8, <1>9 DEF IInv

(* Compacting slots that were pushed keeps the heap typed.                  *)
LEMMA CompactedTyped ==
  ASSUME IInv, NEW S, S \subseteq Pushed, heap' = Compacted(S)
  PROVE  heap' \in [Seqs -> Slot \union {Empty}] /\ Pushed' = Pushed
<1>1. \A s \in Seqs : heap[s] \in Slot \union {Empty}
  BY DEF IInv, TypeOK
<1>2. \A s \in S : s \in Seqs /\ heap[s] \in Slot
  BY <1>1 DEF Pushed
<1>3. \A s \in S : [heap[s] EXCEPT !.bytes = MetadataOverhead,
                      !.body = IF @ = "none" THEN "none" ELSE "fixed"] \in Slot
  BY <1>2, BytesAssumption DEF Slot
<1>4. \A s \in Seqs : /\ s \in S => heap'[s] \in Slot
                      /\ s \notin S => heap'[s] = heap[s]
  BY <1>3 DEF Compacted
<1>5. heap' \in [Seqs -> Slot \union {Empty}]
  BY <1>1, <1>4 DEF Compacted
<1>6. Pushed' = Pushed
  BY <1>2, <1>4, NullAssumption DEF Pushed
<1> QED BY <1>5, <1>6

LEMMA ReleaseIInv ==
  ASSUME IInv, NEW req \in Requests, ReleaseCompletedRequest(req)
  PROVE  IInv'
<1> DEFINE out  == Successful(Live, req)
           head == ReleaseHead(ring, out)
<1>1. out \subseteq Live /\ out \subseteq Pushed
  BY DEF Successful, IInv
<1>2. ring' = Without(heap, ring, out, head) /\ heap' = Compacted(out)
      /\ storedSlots' = storedSlots \ out /\ released' = released \union out
      /\ requestIdIndex' = Empty /\ UNCHANGED <<clock, overflowCount, happened>>
  BY DEF ReleaseCompletedRequest, InvalidateIndex
<1>3. head \in ring.readHead .. ring.writeHead /\ AllAhead(ring, out, head)
  BY <1>1, ReleaseHeadOK DEF IInv, Live
<1> HIDE DEF out, head
<1>4. TakenOut(ring, out, ring')
  BY <1>1, <1>2, <1>3, WithoutOK DEF IInv, Live
<1>5. heap' \in [Seqs -> Slot \union {Empty}] /\ Pushed' = Pushed
  BY <1>1, <1>2, CompactedTyped
<1>6. Live' \subseteq Live /\ RingOK(ring')
  BY <1>4 DEF TakenOut, Live
<1>7. TypeOK'
  <2>1. out \subseteq Seqs
    BY <1>1 DEF Pushed
  <2> QED BY <1>2, <1>5, <1>6, <2>1, RingTyped DEF TypeOK, IInv
<1> QED BY <1>2, <1>5, <1>6, <1>7 DEF IInv

LEMMA CompactIInv ==
  ASSUME IInv, NEW req \in Requests, CompactCompletedRequest(req)
  PROVE  IInv'
<1> DEFINE out == Successful(Live, req)
<1>1. out \subseteq Pushed
  BY DEF Successful, IInv
<1>2. heap' = Compacted(out)
      /\ UNCHANGED <<clock, storedSlots, requestIdIndex, overflowCount, released, happened>>
  BY DEF CompactCompletedRequest
<1>3. heap' \in [Seqs -> Slot \union {Empty}] /\ Pushed' = Pushed
  BY <1>1, <1>2, CompactedTyped
<1>4. /\ ring'.slots = ring.slots /\ ring'.readHead = ring.readHead
      /\ ring'.writeHead = ring.writeHead /\ ring'.slotCount = ring.slotCount
      /\ Shape(ring')
  BY DEF IInv, RingOK, Shape, CompactCompletedRequest
<1>5. LiveIn(ring') = Live
      /\ SeenBefore(ring', ring'.writeHead) = SeenBefore(ring, ring.writeHead)
  BY <1>4 DEF Live, LiveIn, SeenBefore
<1>6. RingOK(ring')
  BY <1>4, <1>5 DEF IInv, RingOK, Live
<1>7. TypeOK'
  BY <1>2, <1>3, <1>6, RingTyped DEF TypeOK, IInv
<1> QED BY <1>2, <1>3, <1>5, <1>6, <1>7 DEF IInv, Live

LEMMA ClearIInv ==
  ASSUME IInv, Clear
  PROVE  IInv'
<1>1. SeenBefore(ring, ring.writeHead) = Live
  BY SeenIsLive DEF IInv, RingOK, Live
<1>2. /\ ring' = [slots |-> [i \in Indexes |->
                              IF ring.slots[i] \in Live THEN Empty ELSE ring.slots[i]],
                  readHead |-> ring.writeHead, writeHead |-> ring.writeHead,
                  slotCount |-> 0, payloadBytes |-> 0]
      /\ happened' = happened \union {"clear"} /\ requestIdIndex' = Empty
      /\ UNCHANGED <<clock, heap, storedSlots, overflowCount, released>>
  BY <1>1 DEF Clear, InvalidateIndex
<1>3. \A i \in Indexes : ring'.slots[i] = Empty
  BY <1>2 DEF Live, LiveIn
<1>4. LiveIn(ring') = {} /\ Live' = {}
  BY <1>3 DEF LiveIn, Live
<1>5. RingOK(ring')
  <2>1. ring'.slots \in [Indexes -> Seqs \union {Empty}] /\ Shape(ring')
    BY <1>2, <1>3 DEF Shape, IInv, RingOK
  <2>2. ring'.slotCount = Cardinality(LiveIn(ring'))
    BY <1>2, <1>4, FS_EmptySet
  <2>3. ring'.readHead \in Nat /\ ring'.writeHead \in Nat /\ ring'.readHead <= ring'.writeHead
    BY <1>2 DEF IInv, RingOK
  <2> QED BY <1>3, <1>4, <2>1, <2>2, <2>3 DEF RingOK
<1>6. Live \subseteq Seqs
  BY DEF IInv, Pushed
<1>7. TypeOK'
  BY <1>2, <1>5, <1>6, RingTyped DEF TypeOK, IInv
<1>8. Pushed' = Pushed
  BY <1>2 DEF Pushed
<1> QED BY <1>2, <1>4, <1>5, <1>7, <1>8 DEF IInv

(* A step that changes one slot object only, to another typed object.       *)
LEMMA OneSlotIInv ==
  ASSUME IInv, NEW s \in Pushed, NEW new \in Slot, heap' = [heap EXCEPT ![s] = new],
         UNCHANGED <<clock, ring, storedSlots, requestIdIndex, overflowCount, released>>,
         happened' \subseteq {"clear", "materialize"}
  PROVE  IInv'
<1>1. heap \in [Seqs -> Slot \union {Empty}] /\ s \in Seqs
  BY DEF IInv, TypeOK, Pushed
<1>2. heap' \in [Seqs -> Slot \union {Empty}]
  BY <1>1
<1>3. Pushed' = Pushed
  BY <1>1, NullAssumption DEF Pushed
<1>4. TypeOK'
  BY <1>2 DEF IInv, TypeOK
<1> QED BY <1>3, <1>4, SameRing

LEMMA NextIInv ==
  ASSUME IInv, [Next]_vars
  PROVE  IInv'
<1>0. /\ \A s \in Pushed : s \in Seqs /\ heap[s] \in Slot
      /\ happened \subseteq {"clear", "materialize"}
  BY DEF IInv, TypeOK, Pushed
<1>1. ASSUME NEW req \in Requests \union {NoRequest}, PushDetached(req)
      PROVE  IInv'
  <2>1. /\ clock + 1 \in Seqs /\ clock' = clock + 1 /\ clock \in Nat
        /\ heap' = [heap EXCEPT ![clock + 1] = NewSlot(req)]
        /\ UNCHANGED <<ring, storedSlots, overflowCount, released, happened>>
        /\ requestIdIndex' = Empty
    BY <1>1, BoundAssumption DEF PushDetached, IInv, TypeOK, Seqs, InvalidateIndex
  <2>2. NewSlot(req) \in Slot /\ NewSlot(req) # Empty
    BY BytesAssumption, NullAssumption DEF NewSlot, Slot
  <2>3. heap' \in [Seqs -> Slot \union {Empty}] /\ Pushed' = Pushed \union {clock + 1}
    BY <2>1, <2>2 DEF Pushed, IInv, TypeOK
  <2>4. TypeOK'
    BY <2>1, <2>3 DEF TypeOK, IInv, Seqs
  <2>5. Live' = Live /\ RingOK(ring')
    BY <2>1 DEF Live, IInv
  <2>6. Pushed' \subseteq 1 .. clock' /\ Live' \subseteq Pushed'
    BY <2>1, <2>3, <2>5 DEF IInv
  <2> QED BY <2>4, <2>5, <2>6 DEF IInv
<1>2. ASSUME NEW req \in Requests \union {NoRequest}, PushStored(req)
      PROVE  IInv'
  BY <1>2, PushStoredIInv
<1>3. ASSUME NEW s \in Seqs, NEW b \in SlotBytes, BackfillStored(s, b)
      PROVE  IInv'
  BY <1>3, BackfillStoredIInv
<1>4. ASSUME NEW s \in Seqs, NEW b \in SlotBytes, BackfillGone(s, b)
      PROVE  IInv'
  <2>1. s \in Pushed /\ heap[s] \in Slot
    BY <1>0, <1>4 DEF BackfillGone, CanBackfill
  <2>2. [heap[s] EXCEPT !.body = "captured", !.bytes = b] \in Slot
    BY <2>1 DEF Slot
  <2> QED BY <1>0, <1>4, <2>1, <2>2, OneSlotIInv DEF BackfillGone, WithBody
<1>5. ASSUME NEW s \in Seqs, NEW b \in SlotBytes, Materialize(s, b)
      PROVE  IInv'
  <2>1. s \in Pushed /\ heap[s] \in Slot
    BY <1>0, <1>5 DEF Materialize
  <2>2. [heap[s] EXCEPT !.body = "fixed", !.bytes = b] \in Slot
    BY <2>1 DEF Slot
  <2> QED BY <1>0, <1>5, <2>1, <2>2, OneSlotIInv DEF Materialize
<1>6. ASSUME NEW s \in Seqs, NEW phase \in {"done", "failed"}, Finish(s, phase)
      PROVE  IInv'
  <2>1. s \in Pushed /\ heap[s] \in Slot
    BY <1>0, <1>6 DEF Finish
  <2>2. [heap[s] EXCEPT !.phase = phase] \in Slot
    BY <2>1 DEF Slot
  <2>3. heap' = [heap EXCEPT ![s] = [heap[s] EXCEPT !.phase = phase]]
    BY <1>6 DEF Finish
  <2> QED BY <1>0, <1>6, <2>1, <2>2, <2>3, OneSlotIInv DEF Finish
<1>7. ASSUME NEW s \in Seqs, NEW req \in Requests, AttachContext(s, req)
      PROVE  IInv'
  <2>1. s \in Pushed /\ heap[s] \in Slot
    BY <1>0, <1>7 DEF AttachContext
  <2>2. [heap[s] EXCEPT !.req = req] \in Slot
    BY <2>1 DEF Slot
  <2>3. heap' = [heap EXCEPT ![s] = [heap[s] EXCEPT !.req = req]]
    BY <1>7 DEF AttachContext
  <2> QED BY <1>0, <1>7, <2>1, <2>2, <2>3, OneSlotIInv DEF AttachContext
<1>8. CASE FilterByRequestId
  <2>1. requestIdIndex' \in [Requests -> SUBSET Seqs]
    <3>1. SeenBefore(ring, ring.writeHead) \subseteq Seqs
      BY SeenIsLive DEF IInv, RingOK, Live, Pushed
    <3> QED BY <1>8, <3>1 DEF FilterByRequestId
  <2>2. TypeOK' /\ Pushed' = Pushed
    BY <1>8, <2>1 DEF FilterByRequestId, IInv, TypeOK, Pushed
  <2> QED BY <1>8, <2>2, SameRing DEF FilterByRequestId
<1>9. ASSUME NEW req \in Requests, ReleaseCompletedRequest(req)
      PROVE  IInv'
  BY <1>9, ReleaseIInv
<1>10. ASSUME NEW req \in Requests, CompactCompletedRequest(req)
       PROVE  IInv'
  BY <1>10, CompactIInv
<1>11. ASSUME NEW s \in Seqs, CompactDetachedSlot(s)
       PROVE  IInv'
  <2>1. heap' \in [Seqs -> Slot \union {Empty}] /\ Pushed' = Pushed
    BY <1>11, CompactedTyped DEF CompactDetachedSlot
  <2>2. TypeOK'
    BY <1>11, <2>1 DEF CompactDetachedSlot, IInv, TypeOK
  <2> QED BY <1>11, <2>1, <2>2, SameRing DEF CompactDetachedSlot
<1>12. CASE Clear
  BY <1>12, ClearIInv
<1>13. CASE UNCHANGED vars
  BY <1>13 DEF vars, IInv, TypeOK, Live, Pushed
<1> QED
  BY <1>1, <1>2, <1>3, <1>4, <1>5, <1>6, <1>7, <1>8, <1>9, <1>10, <1>11, <1>12,
     <1>13 DEF Next

--------------------------------------------------------------------------------
(* What the ring keeps by every write, update, eviction and read: types, bytes,   *)
(* index, order and the log of losses.                                           *)
THEOREM InductiveInvariant == Spec => []IInv
BY InitIInv, NextIInv, PTL DEF Spec

(* Types: src/buffer/io-event-buffer.ts never indexes outside slots, and    *)
(* slotCount stays between 0 and the capacity.                              *)
THEOREM TypeCorrect == Spec => []TypeOK
<1>1. IInv => TypeOK
  BY DEF IInv
<1> QED BY <1>1, InductiveInvariant, PTL

(* slotCount, the loop condition of enforceByteBudget, is the number of     *)
(* slots in the ring, after any sequence of operations.                     *)
THEOREM CountCorrect == Spec => []CountIsLive
<1>1. IInv => CountIsLive
  BY DEF IInv, RingOK, CountIsLive, Live
<1> QED BY <1>1, InductiveInvariant, PTL

(* Every slot in the ring is in the cursor window, so the loop of           *)
(* enforceByteBudget finds a slot to evict whenever slotCount > 0.          *)
THEOREM WindowCorrect == Spec => []WindowCoversLive
<1>1. IInv => WindowCoversLive
  BY DEF IInv, RingOK, WindowCoversLive, Live
<1> QED BY <1>1, InductiveInvariant, PTL

(* Both together: the loop of enforceByteBudget runs only while there is a  *)
(* slot to evict, and then finds it, after any sequence of operations.      *)
THEOREM RingCorrect == Spec => []RingSound
<1>1. CountIsLive /\ WindowCoversLive => RingSound
  BY DEF RingSound
<1> QED BY <1>1, CountCorrect, WindowCorrect, PTL

--------------------------------------------------------------------------------
(* payloadBytes is right from the start until something is cleared or           *)
(* materialized: until then the WeakSet storedSlots is the ring.                 *)
Weighs(h, r) == r.payloadBytes = BytesOf(h, LiveIn(r))
Weighted(h, S) == \A s \in S : h[s].bytes \in Nat
BytesInv == happened = {} => storedSlots = Live /\ Weighs(heap, ring)

LEMMA BytesSum ==
  ASSUME NEW h, NEW S, NEW T \in SUBSET S, IsFiniteSet(S)
  PROVE  BytesOf(h, T) = SumOf([s \in S |-> h[s].bytes], T)
<1> DEFINE f == [s \in S |-> h[s].bytes]
           g == [s \in T |-> h[s].bytes]
<1>1. IsFiniteSet(T) /\ \A s \in T : g[s] = f[s]  BY FS_Subset
<1>2. BytesOf(h, T) = SumOf(g, T)  BY DEF BytesOf, SumOf
<1> HIDE DEF f, g
<1>3. SumOf(g, T) = SumOf(f, T)  BY <1>1, SumSame
<1> QED  BY <1>2, <1>3 DEF f

LEMMA BytesFacts ==
  ASSUME NEW h, NEW S, IsFiniteSet(S), Weighted(h, S)
  PROVE  /\ BytesOf(h, S) \in Nat /\ BytesOf(h, {}) = 0
         /\ \A T \in SUBSET S : /\ BytesOf(h, T) \in Nat
                                /\ BytesOf(h, S \ T) = BytesOf(h, S) - BytesOf(h, T)
         /\ \A s \in S : BytesOf(h, S) = h[s].bytes + BytesOf(h, S \ {s})
<1> DEFINE f == [s \in S |-> h[s].bytes]
<1>1. \A s \in S : f[s] \in Nat /\ f[s] = h[s].bytes  BY DEF Weighted
<1>2. \A T \in SUBSET S : IsFiniteSet(T) /\ BytesOf(h, T) = SumOf(f, T)  BY BytesSum, FS_Subset
<1> HIDE DEF f
<1>3. S \in SUBSET S /\ {} \in SUBSET S  OBVIOUS
<1>4. \A T \in SUBSET S : BytesOf(h, T) \in Nat  BY <1>1, <1>2, SumNat
<1>5. \A T \in SUBSET S : BytesOf(h, S) = BytesOf(h, T) + BytesOf(h, S \ T)
  <2> SUFFICES ASSUME NEW T \in SUBSET S  PROVE BytesOf(h, S) = BytesOf(h, T) + BytesOf(h, S \ T)
    OBVIOUS
  <2>1. SumOf(f, S) = SumOf(f, T) + SumOf(f, S \ T)  BY <1>1, SumSplit
  <2>2. S \ T \in SUBSET S  OBVIOUS
  <2> QED  BY <1>2, <1>3, <2>1, <2>2
<1>6. \A s \in S : BytesOf(h, S) = h[s].bytes + BytesOf(h, S \ {s})
  <2> SUFFICES ASSUME NEW s \in S  PROVE BytesOf(h, S) = h[s].bytes + BytesOf(h, S \ {s})
    OBVIOUS
  <2>1. SumOf(f, S) = f[s] + SumOf(f, S \ {s})  BY <1>1, SumWithout
  <2>2. S \ {s} \in SUBSET S  OBVIOUS
  <2> QED  BY <1>1, <1>2, <1>3, <2>1, <2>2
<1>7. BytesOf(h, {}) = 0  BY <1>2, <1>3, SumEmpty
<1>8. \A T \in SUBSET S : BytesOf(h, S \ T) = BytesOf(h, S) - BytesOf(h, T)
  <2> SUFFICES ASSUME NEW T \in SUBSET S
               PROVE  BytesOf(h, S \ T) = BytesOf(h, S) - BytesOf(h, T)
    OBVIOUS
  <2>1. S \ T \in SUBSET S  OBVIOUS
  <2> QED  BY <1>3, <1>4, <1>5, <2>1
<1> QED  BY <1>3, <1>4, <1>6, <1>7, <1>8

LEMMA BytesOne ==
  ASSUME NEW h, NEW S, IsFiniteSet(S), Weighted(h, S), NEW s \in S
  PROVE  BytesOf(h, S) = h[s].bytes + BytesOf(h, S \ {s})
BY BytesFacts

LEMMA BytesSame ==
  ASSUME NEW h, NEW k, NEW S, IsFiniteSet(S), \A s \in S : h[s].bytes = k[s].bytes
  PROVE  BytesOf(h, S) = BytesOf(k, S)
<1> DEFINE f == [s \in S |-> h[s].bytes]
           g == [s \in S |-> k[s].bytes]
<1>1. f = g  OBVIOUS
<1> QED  BY <1>1 DEF BytesOf

LEMMA WithoutWeighs ==
  ASSUME NEW h, NEW r, NEW gone \in SUBSET LiveIn(r), NEW head, IsFiniteSet(LiveIn(r)),
         Weighted(h, LiveIn(r)), Weighs(h, r), LiveIn(Without(h, r, gone, head)) = LiveIn(r) \ gone
  PROVE  Weighs(h, Without(h, r, gone, head))
<1>1. Without(h, r, gone, head).payloadBytes = r.payloadBytes - BytesOf(h, gone)  BY DEF Without
<1>2. BytesOf(h, LiveIn(r) \ gone) = BytesOf(h, LiveIn(r)) - BytesOf(h, gone)  BY BytesFacts
<1> QED  BY <1>1, <1>2 DEF Weighs

LEMMA EvictIndexWeighs ==
  ASSUME NEW r, RingOK(r), NEW h, Weighted(h, LiveIn(r)), Weighs(h, r), NEW i \in Indexes
  PROVE  Weighs(h, EvictIndex(h, r, i))
<1> DEFINE gone == {r.slots[i]} \ {Empty}
           head == IF r.slots[i] # Empty /\ i = r.readHead % Capacity
                   THEN r.readHead + 1 ELSE r.readHead
<1>1. gone \in SUBSET LiveIn(r)  BY DEF LiveIn
<1>2. EvictIndex(h, r, i) = Without(h, r, gone, head)  BY DEF EvictIndex
<1>3. LiveIn(EvictIndex(h, r, i)) = LiveIn(r) \ gone
  <2>1. LiveIn(EvictIndex(h, r, i)) = LiveIn(r) \ {r.slots[i]}  BY EvictIndexOK
  <2> QED  BY <2>1 DEF LiveIn
<1>4. IsFiniteSet(LiveIn(r))  BY LiveFinite DEF RingOK
<1> HIDE DEF gone, head
<1> QED  BY <1>1, <1>2, <1>3, <1>4, WithoutWeighs

LEMMA EnforceWeighs ==
  ASSUME NEW r, RingOK(r), NEW h, Weighted(h, LiveIn(r)), Weighs(h, r), NEW incoming
  PROVE  Weighs(h, EnforceByteBudget(h, r, incoming))
<1> DEFINE k == BudgetCursor(h, r, incoming)
           gone == SeenBefore(r, k)
<1>1. k \in r.readHead .. r.writeHead  BY BudgetCursorExists
<1>2. EnforceByteBudget(h, r, incoming) = Without(h, r, gone, k)  BY DEF EnforceByteBudget
<1>3. IsFiniteSet(LiveIn(r))  BY LiveFinite DEF RingOK
<1> HIDE DEF k
<1>4. gone \in SUBSET LiveIn(r) /\ AllAhead(r, gone, k)  BY <1>1, SeenIsLive DEF AllAhead
<1> HIDE DEF gone
<1>5. TakenOut(r, gone, Without(h, r, gone, k))  BY <1>1, <1>4, WithoutOK
<1>6. LiveIn(Without(h, r, gone, k)) = LiveIn(r) \ gone  BY <1>5 DEF TakenOut
<1> QED  BY <1>2, <1>3, <1>4, <1>6, WithoutWeighs

LEMMA LiveWeighted ==
  ASSUME IInv
  PROVE  /\ IsFiniteSet(Live) /\ Weighted(heap, Live) /\ RingOK(ring) /\ Live = LiveIn(ring)
         /\ \A s \in Live : s \in Seqs /\ heap[s] \in Slot
<1>1. RingOK(ring) /\ Live = LiveIn(ring)  BY DEF IInv, Live
<1>2. IsFiniteSet(Live)  BY <1>1, LiveFinite DEF RingOK
<1>3. \A s \in Live : s \in Seqs /\ heap[s] \in Slot  BY DEF IInv, TypeOK, Pushed
<1>4. \A s \in Live : heap[s].bytes \in Nat  BY <1>3, BytesAssumption DEF Slot
<1> QED  BY <1>1, <1>2, <1>3, <1>4 DEF Weighted

(* The steps that leave the ring, and the weight of its slots, alone.         *)
LEMMA SameWeight ==
  ASSUME IInv, BytesInv, UNCHANGED <<ring, storedSlots>>, happened' = {} => happened = {},
         \A s \in Live : heap'[s].bytes = heap[s].bytes
  PROVE  BytesInv'
<1> SUFFICES ASSUME happened' = {}  PROVE storedSlots' = Live' /\ Weighs(heap', ring')
  BY DEF BytesInv
<1>1. IsFiniteSet(Live) /\ Live = LiveIn(ring)  BY LiveWeighted
<1>2. Live' = Live  BY DEF Live
<1>3. BytesOf(heap', Live) = BytesOf(heap, Live)  BY <1>1, BytesSame
<1>4. storedSlots = Live /\ ring.payloadBytes = BytesOf(heap, Live)  BY <1>1 DEF BytesInv, Weighs
<1> QED  BY <1>1, <1>2, <1>3, <1>4 DEF Weighs

LEMMA PushStoredWeighs ==
  ASSUME IInv, BytesInv, NEW req \in Requests \union {NoRequest}, PushStored(req)
  PROVE  BytesInv'
<1> SUFFICES ASSUME happened = {}  PROVE storedSlots' = Live' /\ Weighs(heap', ring')
  BY DEF BytesInv, PushStored, InvalidateIndex
<1> DEFINE i == ring.writeHead % Capacity
<1>1. /\ RingOK(ring) /\ i \in Indexes /\ RingOK(Freed) /\ RingOK(Room) /\ RingOK(ring')
      /\ LiveIn(Freed) = Live \ Over /\ LiveIn(Room) \subseteq LiveIn(Freed)
      /\ Next1 \in Seqs /\ Next1 \notin Live /\ Live' = LiveIn(Room) \union {Next1}
  BY PushStoredParts
<1>2. Weighted(heap, Live) /\ IsFiniteSet(Live) /\ Live = LiveIn(ring) /\ Live \subseteq Seqs
  BY LiveWeighted
<1>3. storedSlots = Live /\ Weighs(heap, ring)  BY DEF BytesInv
<1>4. Weighs(heap, Freed) /\ Weighted(heap, LiveIn(Freed))
  BY <1>1, <1>2, <1>3, EvictIndexWeighs DEF Freed, Weighted
<1>5. Weighs(heap, Room)  BY <1>1, <1>4, EnforceWeighs DEF Room
<1>6. ring'.payloadBytes = Room.payloadBytes + MetadataOverhead
  <2>1. ring' = [Room EXCEPT !.slots[Room.writeHead % Capacity] = Next1,
                             !.payloadBytes = @ + MetadataOverhead,
                             !.slotCount = @ + 1,
                             !.writeHead = @ + 1]  BY PushStoredParts
  <2>2. Shape(Room)  BY <1>1 DEF RingOK
  <2> QED BY <2>1, <2>2 DEF Shape
<1>7. heap \in [Seqs -> Slot \union {Empty}] /\ heap' = [heap EXCEPT ![Next1] = NewSlot(req)]
  BY DEF IInv, TypeOK, PushStored, InvalidateIndex, Next1
<1>8. /\ heap'[Next1].bytes = MetadataOverhead
      /\ \A s \in LiveIn(Room) : heap'[s].bytes = heap[s].bytes
  BY <1>1, <1>2, <1>7 DEF NewSlot
<1>9. IsFiniteSet(LiveIn(Room)) /\ BytesOf(heap', LiveIn(Room)) = BytesOf(heap, LiveIn(Room))
  BY <1>1, <1>2, <1>8, BytesSame, FS_Subset
<1>10. IsFiniteSet(Live') /\ Weighted(heap', Live') /\ LiveIn(ring') = Live'
  <2>1. \A s \in LiveIn(Room) : heap[s].bytes \in Nat  BY <1>1, <1>2 DEF Weighted
  <2> QED  BY <1>1, <1>8, <1>9, <2>1, FS_AddElement, BytesAssumption DEF Weighted, Live
<1>11. BytesOf(heap', Live') = heap'[Next1].bytes + BytesOf(heap', Live' \ {Next1})
  <2>1. Next1 \in Live'  BY <1>1
  <2> QED  BY <1>10, <2>1, BytesOne
<1>12. Live' \ {Next1} = LiveIn(Room)  BY <1>1
<1>13. BytesOf(heap, LiveIn(Room)) \in Nat
  <2>1. Weighted(heap, LiveIn(Room))  BY <1>1, <1>2 DEF Weighted
  <2> QED  BY <1>9, <2>1, BytesFacts
<1>14. Weighs(heap', ring')
  <2>1. BytesOf(heap', Live') = MetadataOverhead + BytesOf(heap, LiveIn(Room))
    BY <1>8, <1>9, <1>11, <1>12
  <2>2. ring'.payloadBytes = BytesOf(heap, LiveIn(Room)) + MetadataOverhead
    BY <1>5, <1>6 DEF Weighs
  <2>3. MetadataOverhead \in Nat  BY BytesAssumption
  <2>4. ring'.payloadBytes = BytesOf(heap', Live')  BY <1>13, <2>1, <2>2, <2>3
  <2> QED  BY <1>10, <2>4 DEF Weighs
<1>15. storedSlots' = (storedSlots \ (Over \union (LiveIn(Freed) \ LiveIn(Room)))) \union {Next1}
  BY DEF PushStored, InvalidateIndex, Over, Freed, Room, Next1
<1> QED  BY <1>1, <1>3, <1>14, <1>15

(* What a backfill makes of the ring before it enforces the budget.           *)
Grown(s, b) == [ring EXCEPT !.payloadBytes = @ + b - heap[s].bytes]

LEMMA GrownOK ==
  ASSUME IInv, NEW s \in Seqs, NEW b
  PROVE  /\ RingOK(Grown(s, b)) /\ LiveIn(Grown(s, b)) = Live
         /\ Grown(s, b).payloadBytes = ring.payloadBytes + b - heap[s].bytes
         /\ Grown(s, b).slots = ring.slots /\ Grown(s, b).readHead = ring.readHead
         /\ Grown(s, b).writeHead = ring.writeHead
<1>1. /\ Grown(s, b).slots = ring.slots /\ Grown(s, b).readHead = ring.readHead
      /\ Grown(s, b).writeHead = ring.writeHead /\ Grown(s, b).slotCount = ring.slotCount
      /\ Grown(s, b).payloadBytes = ring.payloadBytes + b - heap[s].bytes
      /\ Shape(Grown(s, b))
  BY DEF IInv, RingOK, Shape, Grown
<1>2. /\ LiveIn(Grown(s, b)) = Live
      /\ SeenBefore(Grown(s, b), Grown(s, b).writeHead) = SeenBefore(ring, ring.writeHead)
  BY <1>1 DEF Live, LiveIn, SeenBefore
<1> QED BY <1>1, <1>2 DEF IInv, RingOK, Live

LEMMA BackfillStoredWeighs ==
  ASSUME IInv, BytesInv, NEW s \in Seqs, NEW b \in SlotBytes, BackfillStored(s, b)
  PROVE  BytesInv'
<1> SUFFICES ASSUME happened = {}  PROVE storedSlots' = Live' /\ Weighs(heap', ring')
  BY DEF BytesInv, BackfillStored, InvalidateIndex
<1> DEFINE h    == WithBody(s, b)
           room == EnforceByteBudget(h, Grown(s, b), 0)
<1>1. /\ heap' = h /\ ring' = room /\ Live' = LiveIn(room) /\ s \in storedSlots
      /\ storedSlots' = storedSlots \ (Live \ LiveIn(room))
  BY DEF BackfillStored, Live, InvalidateIndex, Grown
<1>2. /\ Weighted(heap, Live) /\ IsFiniteSet(Live) /\ Live = LiveIn(ring)
      /\ \A t \in Live : t \in Seqs /\ heap[t] \in Slot
  BY LiveWeighted
<1>3. storedSlots = Live /\ ring.payloadBytes = BytesOf(heap, Live)  BY <1>2 DEF BytesInv, Weighs
<1>4. heap \in [Seqs -> Slot \union {Empty}]  BY DEF IInv, TypeOK
<1>5. h[s].bytes = b /\ \A t \in Live \ {s} : h[t].bytes = heap[t].bytes
  <2>1. heap[s] \in Slot /\ s \in Seqs  BY <1>1, <1>2, <1>3
  <2> QED  BY <1>2, <1>4, <2>1 DEF WithBody, Slot
<1>6. b \in Nat  BY BytesAssumption
<1>7. Weighted(h, Live)  BY <1>2, <1>5, <1>6 DEF Weighted
<1>8. IsFiniteSet(Live \ {s}) /\ s \in Live  BY <1>1, <1>2, <1>3, FS_Subset
<1> HIDE DEF h
<1>9. /\ BytesOf(h, Live) = b + BytesOf(h, Live \ {s})
      /\ BytesOf(heap, Live) = heap[s].bytes + BytesOf(heap, Live \ {s})
      /\ BytesOf(h, Live \ {s}) = BytesOf(heap, Live \ {s})
  <2>1. BytesOf(h, Live \ {s}) = BytesOf(heap, Live \ {s})  BY <1>5, <1>8, BytesSame
  <2>2. BytesOf(heap, Live) = heap[s].bytes + BytesOf(heap, Live \ {s})
    BY <1>2, <1>8, BytesOne
  <2>3. BytesOf(h, Live) = h[s].bytes + BytesOf(h, Live \ {s})
    BY <1>2, <1>7, <1>8, BytesOne
  <2> QED  BY <1>5, <2>1, <2>2, <2>3
<1>10. BytesOf(heap, Live \ {s}) \in Nat /\ heap[s].bytes \in Nat
  BY <1>2, <1>8, BytesFacts DEF Weighted
<1>11. /\ RingOK(Grown(s, b)) /\ LiveIn(Grown(s, b)) = Live
       /\ Grown(s, b).payloadBytes = ring.payloadBytes + b - heap[s].bytes
  BY GrownOK
<1>12. Weighs(h, Grown(s, b))
  BY <1>3, <1>6, <1>9, <1>10, <1>11 DEF Weighs
<1>13. Weighs(h, room)
  <2>1. Weighted(h, LiveIn(Grown(s, b)))  BY <1>7, <1>11
  <2> QED  BY <1>11, <1>12, <2>1, EnforceWeighs
<1>14. LiveIn(room) \subseteq Live  BY <1>11, EnforceOK
<1> HIDE DEF room
<1> QED  BY <1>1, <1>3, <1>13, <1>14

LEMMA ReleaseWeighs ==
  ASSUME IInv, BytesInv, NEW req \in Requests, ReleaseCompletedRequest(req)
  PROVE  BytesInv'
<1> SUFFICES ASSUME happened = {}  PROVE storedSlots' = Live' /\ Weighs(heap', ring')
  BY DEF BytesInv, ReleaseCompletedRequest, InvalidateIndex
<1> DEFINE out  == Successful(Live, req)
           head == ReleaseHead(ring, out)
<1>1. out \subseteq Live /\ Live = LiveIn(ring)  BY DEF Successful, Live
<1>2. /\ ring' = Without(heap, ring, out, head) /\ heap' = Compacted(out)
      /\ storedSlots' = storedSlots \ out
  BY DEF ReleaseCompletedRequest, InvalidateIndex
<1>3. head \in ring.readHead .. ring.writeHead /\ AllAhead(ring, out, head)
  BY <1>1, ReleaseHeadOK DEF IInv
<1>4. storedSlots = Live /\ Weighs(heap, ring)  BY DEF BytesInv
<1>5. Weighted(heap, Live) /\ IsFiniteSet(Live) /\ Live \subseteq Seqs  BY LiveWeighted
<1> HIDE DEF out, head
<1>6. TakenOut(ring, out, ring')  BY <1>1, <1>2, <1>3, WithoutOK DEF IInv
<1>7. Live' = Live \ out /\ LiveIn(ring') = Live'  BY <1>1, <1>6 DEF TakenOut, Live
<1>8. Weighs(heap, ring')  BY <1>1, <1>2, <1>4, <1>5, <1>7, WithoutWeighs
<1>9. \A s \in Live \ out : heap'[s].bytes = heap[s].bytes  BY <1>2, <1>5 DEF Compacted
<1>10. IsFiniteSet(Live \ out)  BY <1>5, FS_Subset
<1>11. BytesOf(heap', Live \ out) = BytesOf(heap, Live \ out)  BY <1>9, <1>10, BytesSame
<1> QED  BY <1>2, <1>4, <1>7, <1>8, <1>11 DEF Weighs

LEMMA CompactWeighs ==
  ASSUME IInv, BytesInv, NEW req \in Requests, CompactCompletedRequest(req)
  PROVE  BytesInv'
<1> SUFFICES ASSUME happened = {}  PROVE storedSlots' = Live' /\ Weighs(heap', ring')
  BY DEF BytesInv, CompactCompletedRequest
<1> DEFINE out == Successful(Live, req)
<1>1. out \subseteq Live /\ Live = LiveIn(ring)  BY DEF Successful, Live
<1>2. /\ heap' = Compacted(out) /\ storedSlots' = storedSlots
      /\ ring' = [ring EXCEPT !.payloadBytes =
                    @ - BytesOf(heap, out) + MetadataOverhead * Cardinality(out)]
  BY DEF CompactCompletedRequest
<1>3. storedSlots = Live /\ ring.payloadBytes = BytesOf(heap, Live)  BY <1>1 DEF BytesInv, Weighs
<1>4. /\ Weighted(heap, Live) /\ IsFiniteSet(Live) /\ Shape(ring)
      /\ \A s \in Live : s \in Seqs /\ heap[s] \in Slot
  BY LiveWeighted DEF RingOK
<1> HIDE DEF out
<1>5. /\ ring'.slots = ring.slots
      /\ ring'.payloadBytes = ring.payloadBytes - BytesOf(heap, out)
                                + MetadataOverhead * Cardinality(out)
  BY <1>2, <1>4 DEF Shape
<1>6. Live' = Live /\ LiveIn(ring') = Live  BY <1>5 DEF Live, LiveIn
<1>7. /\ \A s \in Live \ out : heap'[s].bytes = heap[s].bytes
      /\ \A s \in out : heap'[s].bytes = MetadataOverhead
  BY <1>1, <1>2, <1>4 DEF Compacted, Slot
<1>8. IsFiniteSet(out) /\ IsFiniteSet(Live \ out) /\ Cardinality(out) \in Nat
  BY <1>1, <1>4, FS_Subset, FS_CardinalityType
<1>9. Weighted(heap', Live)
  BY <1>4, <1>7, BytesAssumption DEF Weighted
<1>10. BytesOf(heap', out) = MetadataOverhead * Cardinality(out)
  <2> DEFINE f == [s \in out |-> heap'[s].bytes]
  <2>1. BytesOf(heap', out) = SumOf(f, out)  BY <1>8, BytesSum
  <2>2. \A s \in out : f[s] = MetadataOverhead  BY <1>7
  <2> HIDE DEF f
  <2> QED  BY <1>8, <2>1, <2>2, SumConstant, BytesAssumption
<1>11. BytesOf(heap', Live \ out) = BytesOf(heap, Live \ out)  BY <1>7, <1>8, BytesSame
<1>12. /\ BytesOf(heap', Live \ out) = BytesOf(heap', Live) - BytesOf(heap', out)
       /\ BytesOf(heap', Live) \in Nat /\ BytesOf(heap', out) \in Nat
  <2>1. IsFiniteSet(Live) /\ out \in SUBSET Live  BY <1>1, <1>4
  <2> QED  BY <1>9, <2>1, BytesFacts
<1>13. /\ BytesOf(heap, Live \ out) = BytesOf(heap, Live) - BytesOf(heap, out)
       /\ BytesOf(heap, Live) \in Nat /\ BytesOf(heap, out) \in Nat
  <2>1. IsFiniteSet(Live) /\ Weighted(heap, Live) /\ out \in SUBSET Live  BY <1>1, <1>4
  <2> QED  BY <2>1, BytesFacts
<1>14. ring'.payloadBytes = BytesOf(heap', Live)
  <2> DEFINE all == BytesOf(heap, Live)
             some == BytesOf(heap, out)
             now == BytesOf(heap', Live)
             small == BytesOf(heap', out)
  <2>1. all \in Nat /\ some \in Nat /\ now \in Nat /\ small \in Nat  BY <1>12, <1>13
  <2>2. now - small = all - some  BY <1>11, <1>12, <1>13
  <2>3. ring'.payloadBytes = all - some + small  BY <1>3, <1>5, <1>10
  <2> HIDE DEF all, some, now, small
  <2>4. ring'.payloadBytes = now  BY <2>1, <2>2, <2>3
  <2> QED  BY <2>4 DEF now
<1> QED  BY <1>2, <1>3, <1>6, <1>14 DEF Weighs

LEMMA NextWeighs ==
  ASSUME IInv, BytesInv, [Next]_vars
  PROVE  BytesInv'
<1>0. heap \in [Seqs -> Slot \union {Empty}] /\ Live \subseteq Pushed /\ Pushed \subseteq 1 .. clock
      /\ \A s \in Live : s \in Seqs /\ heap[s] \in Slot
  BY LiveWeighted DEF IInv, TypeOK
<1>1. ASSUME NEW req \in Requests \union {NoRequest}, PushDetached(req)  PROVE BytesInv'
  <2>1. /\ heap' = [heap EXCEPT ![clock + 1] = NewSlot(req)] /\ clock \in Nat
        /\ UNCHANGED <<ring, storedSlots, happened>>
    BY <1>1 DEF PushDetached, IInv, TypeOK
  <2>2. \A s \in Live : heap'[s] = heap[s]  BY <1>0, <2>1
  <2> QED  BY <2>1, <2>2, SameWeight
<1>2. ASSUME NEW req \in Requests \union {NoRequest}, PushStored(req)  PROVE BytesInv'
  BY <1>2, PushStoredWeighs
<1>3. ASSUME NEW s \in Seqs, NEW b \in SlotBytes, BackfillStored(s, b)  PROVE BytesInv'
  BY <1>3, BackfillStoredWeighs
<1>4. ASSUME NEW s \in Seqs, NEW b \in SlotBytes, BackfillGone(s, b)  PROVE BytesInv'
  <2> SUFFICES ASSUME happened = {}  PROVE BytesInv'
    BY <1>4 DEF BytesInv, BackfillGone
  <2>1. s \notin Live /\ UNCHANGED <<ring, storedSlots, happened>>
    BY <1>4 DEF BackfillGone, BytesInv
  <2>2. \A t \in Live : heap'[t] = heap[t]  BY <1>0, <1>4, <2>1 DEF BackfillGone, WithBody
  <2> QED  BY <2>1, <2>2, SameWeight
<1>5. ASSUME NEW s \in Seqs, NEW b \in SlotBytes, Materialize(s, b)  PROVE BytesInv'
  <2>1. "materialize" \in happened'  BY <1>5 DEF Materialize
  <2> QED  BY <2>1 DEF BytesInv
<1>6. ASSUME NEW s \in Seqs, NEW phase \in {"done", "failed"}, Finish(s, phase)  PROVE BytesInv'
  <2>1. \A t \in Live : heap'[t].bytes = heap[t].bytes  BY <1>0, <1>6 DEF Finish, Slot
  <2> QED  BY <1>6, <2>1, SameWeight DEF Finish
<1>7. ASSUME NEW s \in Seqs, NEW req \in Requests, AttachContext(s, req)  PROVE BytesInv'
  <2>1. \A t \in Live : heap'[t].bytes = heap[t].bytes  BY <1>0, <1>7 DEF AttachContext, Slot
  <2> QED  BY <1>7, <2>1, SameWeight DEF AttachContext
<1>8. CASE FilterByRequestId  BY <1>8, SameWeight DEF FilterByRequestId
<1>9. ASSUME NEW req \in Requests, ReleaseCompletedRequest(req)  PROVE BytesInv'
  BY <1>9, ReleaseWeighs
<1>10. ASSUME NEW req \in Requests, CompactCompletedRequest(req)  PROVE BytesInv'
  BY <1>10, CompactWeighs
<1>11. ASSUME NEW s \in Seqs, CompactDetachedSlot(s)  PROVE BytesInv'
  <2>1. \A t \in Live : heap'[t] = heap[t]  BY <1>0, <1>11 DEF CompactDetachedSlot, Compacted
  <2> QED  BY <1>11, <2>1, SameWeight DEF CompactDetachedSlot
<1>12. CASE Clear
  <2>1. "clear" \in happened'  BY <1>12 DEF Clear
  <2> QED  BY <2>1 DEF BytesInv
<1>13. CASE UNCHANGED vars  BY <1>13, SameWeight DEF vars
<1> QED
  BY <1>1, <1>2, <1>3, <1>4, <1>5, <1>6, <1>7, <1>8, <1>9, <1>10, <1>11, <1>12, <1>13 DEF Next

LEMMA InitWeighs == Init => BytesInv
<1> SUFFICES ASSUME Init PROVE BytesInv  OBVIOUS
<1>1. Live = {} /\ LiveIn(ring) = {} /\ storedSlots = {} /\ ring.payloadBytes = 0
  BY DEF Init, Live, LiveIn
<1>2. BytesOf(heap, {}) = 0
  <2>1. IsFiniteSet({}) /\ Weighted(heap, {})  BY FS_EmptySet DEF Weighted
  <2> QED  BY <2>1, BytesFacts
<1> QED  BY <1>1, <1>2 DEF BytesInv, Weighs

(* payloadBytes is the sum of what the slots in the ring are estimated to     *)
(* take, until something is materialized or cleared.                          *)
THEOREM BytesAreCounted == Spec => []BytesAccurate
<1>1. BytesInv => BytesAccurate  BY DEF BytesInv, BytesAccurate, Weighs, Live
<1>2. IInv /\ BytesInv /\ [Next]_vars => BytesInv'  BY NextWeighs
<1> QED BY <1>1, <1>2, InitWeighs, InductiveInvariant, PTL DEF Spec

--------------------------------------------------------------------------------
(* The cached index is only ever there while nothing it says has changed.     *)
LEMMA NextIndexSound ==
  ASSUME IInv, IndexSound, [Next]_vars
  PROVE  IndexSound'
<1>0. heap \in [Seqs -> Slot \union {Empty}] /\ Live \subseteq Pushed /\ Pushed \subseteq 1 .. clock
      /\ \A s \in Live : s \in Seqs /\ heap[s] \in Slot
  BY LiveWeighted DEF IInv, TypeOK
<1> DEFINE Keeps == /\ UNCHANGED <<ring, requestIdIndex>>
                    /\ \A s \in Live : heap[s].req \in Requests => heap'[s].req = heap[s].req
<1>a. ASSUME Keeps  PROVE IndexSound'
  <2>1. Live' = Live  BY <1>a DEF Live
  <2> QED  BY <1>a, <2>1 DEF IndexSound
<1>b. ASSUME requestIdIndex' = Empty  PROVE IndexSound'  BY <1>b DEF IndexSound
<1>1. ASSUME NEW req \in Requests \union {NoRequest}, PushDetached(req)  PROVE IndexSound'
  BY <1>1, <1>b DEF PushDetached, InvalidateIndex
<1>2. ASSUME NEW req \in Requests \union {NoRequest}, PushStored(req)  PROVE IndexSound'
  BY <1>2, <1>b DEF PushStored, InvalidateIndex
<1>3. ASSUME NEW s \in Seqs, NEW b \in SlotBytes, BackfillStored(s, b)  PROVE IndexSound'
  BY <1>3, <1>b DEF BackfillStored, InvalidateIndex
<1>4. ASSUME NEW s \in Seqs, NEW b \in SlotBytes, BackfillGone(s, b)  PROVE IndexSound'
  <2>1. \A t \in Live : heap'[t].req = heap[t].req
    BY <1>0, <1>4 DEF BackfillGone, WithBody, Slot
  <2> QED  BY <1>4, <1>a, <2>1 DEF BackfillGone
<1>5. ASSUME NEW s \in Seqs, NEW b \in SlotBytes, Materialize(s, b)  PROVE IndexSound'
  <2>1. \A t \in Live : heap'[t].req = heap[t].req  BY <1>0, <1>5 DEF Materialize, Slot
  <2> QED  BY <1>5, <1>a, <2>1 DEF Materialize
<1>6. ASSUME NEW s \in Seqs, NEW phase \in {"done", "failed"}, Finish(s, phase)  PROVE IndexSound'
  <2>1. \A t \in Live : heap'[t].req = heap[t].req  BY <1>0, <1>6 DEF Finish, Slot
  <2> QED  BY <1>6, <1>a, <2>1 DEF Finish
<1>7. ASSUME NEW s \in Seqs, NEW req \in Requests, AttachContext(s, req)  PROVE IndexSound'
  <2>1. \A t \in Live : heap[t].req \in Requests => heap'[t].req = heap[t].req
    BY <1>0, <1>7, NullAssumption DEF AttachContext, Slot
  <2> QED  BY <1>7, <1>a, <2>1 DEF AttachContext
<1>8. CASE FilterByRequestId
  <2>1. SeenBefore(ring, ring.writeHead) = Live  BY SeenIsLive DEF IInv, RingOK, Live
  <2>2. /\ requestIdIndex' = [r \in Requests |-> {s \in Live : heap[s].req = r}]
        /\ UNCHANGED <<heap, ring>>
    BY <1>8, <2>1 DEF FilterByRequestId
  <2>3. Live' = Live  BY <2>2 DEF Live
  <2> QED  BY <2>2, <2>3 DEF IndexSound
<1>9. ASSUME NEW req \in Requests, ReleaseCompletedRequest(req)  PROVE IndexSound'
  BY <1>9, <1>b DEF ReleaseCompletedRequest, InvalidateIndex
<1>10. ASSUME NEW req \in Requests, CompactCompletedRequest(req)  PROVE IndexSound'
  <2>1. \A t \in Live : heap'[t].req = heap[t].req
    BY <1>0, <1>10 DEF CompactCompletedRequest, Compacted, Slot
  <2>2. requestIdIndex' = requestIdIndex /\ ring'.slots = ring.slots
    BY <1>10 DEF CompactCompletedRequest, IInv, RingOK, Shape
  <2>3. Live' = Live  BY <2>2 DEF Live, LiveIn
  <2> QED  BY <2>1, <2>2, <2>3 DEF IndexSound
<1>11. ASSUME NEW s \in Seqs, CompactDetachedSlot(s)  PROVE IndexSound'
  <2>1. \A t \in Live : heap'[t] = heap[t]  BY <1>0, <1>11 DEF CompactDetachedSlot, Compacted
  <2> QED  BY <1>11, <1>a, <2>1 DEF CompactDetachedSlot
<1>12. CASE Clear  BY <1>12, <1>b DEF Clear, InvalidateIndex
<1>13. CASE UNCHANGED vars  BY <1>13, <1>a DEF vars
<1> QED
  BY <1>1, <1>2, <1>3, <1>4, <1>5, <1>6, <1>7, <1>8, <1>9, <1>10, <1>11, <1>12, <1>13 DEF Next

-------------------------------------------------------------------------------
(* A ring that no release has left a hole in: the window is no longer than    *)
(* the ring, there is a slot at every cursor, and they ascend.                *)
At(r, c) == r.slots[c % Capacity]
InOrder(r) ==
  /\ r.writeHead - r.readHead <= Capacity
  /\ \A c \in r.readHead .. r.writeHead - 1 : At(r, c) # Empty
  /\ \A c, d \in r.readHead .. r.writeHead - 1 : c < d => At(r, c) < At(r, d)

LEMMA ModOf ==
  ASSUME NEW C \in Nat \ {0}, NEW r \in 0 .. C - 1, NEW q \in Nat
  PROVE  (C * q + r) % C = r
OBVIOUS

LEMMA Quotient ==
  ASSUME NEW C \in Nat \ {0}, NEW x \in Nat
  PROVE  \E q \in Nat : x = C * q + (x % C)
<1> DEFINE Divides(n) == \E q \in Nat, r \in 0 .. C - 1 : n = C * q + r
           T == {n \in Nat : ~Divides(n)}
<1>1. ASSUME T # {}  PROVE FALSE
  <2>1. PICK n \in T : \A m \in T : n <= m  BY <1>1, LeastNatural
  <2>2. ~(n < C)
    <3> SUFFICES ASSUME n < C  PROVE FALSE  OBVIOUS
    <3>1. n = C * 0 + n /\ n \in 0 .. C - 1 /\ 0 \in Nat  OBVIOUS
    <3> QED  BY <3>1
  <2>3. n - C \in Nat /\ n - C < n  BY <2>2
  <2>4. n - C \notin T  BY <2>1, <2>3
  <2>5. PICK q \in Nat, r \in 0 .. C - 1 : n - C = C * q + r  BY <2>3, <2>4
  <2>6. C * (q + 1) = C * q + C /\ C * q \in Nat  OBVIOUS
  <2>7. n = C * (q + 1) + r /\ q + 1 \in Nat  BY <2>5, <2>6
  <2> QED  BY <2>7
<1>2. PICK q \in Nat, r \in 0 .. C - 1 : x = C * q + r  BY <1>1
<1> QED  BY <1>2, ModOf

LEMMA ModWraps ==
  ASSUME NEW C \in Nat \ {0}, NEW x \in Nat
  PROVE  (x + C) % C = x % C
<1>1. PICK q \in Nat : x = C * q + (x % C)  BY Quotient
<1>2. x % C \in 0 .. C - 1 /\ q + 1 \in Nat  OBVIOUS
<1>3. C * (q + 1) = C * q + C /\ C * q \in Nat  OBVIOUS
<1>4. x + C = C * (q + 1) + (x % C)  BY <1>1, <1>2, <1>3
<1>5. (C * (q + 1) + (x % C)) % C = x % C  BY <1>2, ModOf
<1> QED  BY <1>4, <1>5

LEMMA ModDiffers ==
  ASSUME NEW C \in Nat \ {0}, NEW c \in Nat, NEW d \in Nat, c < d, d - c < C
  PROVE  c % C # d % C
<1> SUFFICES ASSUME c % C = d % C  PROVE FALSE  OBVIOUS
<1>1. PICK p \in Nat : c = C * p + (c % C)  BY Quotient
<1>2. PICK q \in Nat : d = C * q + (d % C)  BY Quotient
<1>3. c % C \in Nat /\ C * q \in Nat /\ C * p \in Nat  OBVIOUS
<1>4. d - c = C * q - C * p  BY <1>1, <1>2, <1>3
<1>5. C * (q - p) = C * q - C * p  OBVIOUS
<1>6. CASE q - p >= 1
  <2>1. q - p \in Int /\ C * (q - p) >= C  BY <1>6
  <2> QED  BY <1>3, <1>4, <1>5, <2>1
<1>7. CASE q - p <= 0
  <2>1. q - p \in Int /\ C * (q - p) <= 0  BY <1>7
  <2> QED  BY <1>3, <1>4, <1>5, <2>1
<1> QED  BY <1>6, <1>7

(* Leaving out what is before a cursor keeps the ring in order.               *)
LEMMA TakesFront ==
  ASSUME NEW r, RingOK(r), InOrder(r), NEW h, NEW k \in r.readHead .. r.writeHead,
         NEW w, w = Without(h, r, SeenBefore(r, k), k)
  PROVE  /\ InOrder(w) /\ w.writeHead = r.writeHead
         /\ w.readHead = k \/ w.readHead = r.writeHead
         /\ \A c \in w.readHead .. w.writeHead - 1 : At(w, c) = At(r, c)
<1> DEFINE gone == SeenBefore(r, k)
<1>1. /\ w.slots = [i \in Indexes |-> IF r.slots[i] \in gone THEN Empty ELSE r.slots[i]]
      /\ w.writeHead = r.writeHead /\ (w.readHead = k \/ w.readHead = r.writeHead)
  BY DEF Without
<1>2. r.readHead \in Nat /\ r.writeHead \in Nat /\ r.readHead <= r.writeHead
      /\ r.slots \in [Indexes -> Seqs \union {Empty}] /\ k \in Nat
  BY DEF RingOK
<1>3. \A c \in w.readHead .. w.writeHead - 1 : c \in k .. r.writeHead - 1  BY <1>1, <1>2
<1>4. \A c \in k .. r.writeHead - 1 : At(r, c) \notin gone
  <2> SUFFICES ASSUME NEW c \in k .. r.writeHead - 1, NEW d \in r.readHead .. k - 1,
                      At(r, c) = At(r, d)
               PROVE  FALSE
    BY DEF SeenBefore, At
  <2>1. c \in r.readHead .. r.writeHead - 1 /\ d \in r.readHead .. r.writeHead - 1 /\ d < c
    BY <1>2
  <2>2. At(r, d) < At(r, c) /\ At(r, c) # Empty  BY <2>1 DEF InOrder
  <2>3. At(r, c) \in Seqs
    <3>1. c % Capacity \in Indexes  BY <1>2, <2>1, ModIndex
    <3> QED  BY <1>2, <2>2, <3>1 DEF At
  <2> QED  BY <2>2, <2>3 DEF Seqs
<1> HIDE DEF gone
<1>5. \A c \in k .. r.writeHead - 1 : At(w, c) = At(r, c)
  <2> SUFFICES ASSUME NEW c \in k .. r.writeHead - 1  PROVE At(w, c) = At(r, c)  OBVIOUS
  <2>1. c % Capacity \in Indexes  BY <1>2, ModIndex
  <2> QED  BY <1>1, <1>4, <2>1 DEF At
<1>6. InOrder(w)
  <2>1. w.writeHead - w.readHead <= Capacity
    BY <1>1, <1>2, CapacityAssumption DEF InOrder
  <2>2. \A c \in w.readHead .. w.writeHead - 1 :
          c \in r.readHead .. r.writeHead - 1 /\ At(w, c) = At(r, c)
    BY <1>2, <1>3, <1>5
  <2> QED  BY <2>1, <2>2 DEF InOrder
<1> QED  BY <1>1, <1>3, <1>5, <1>6

(* A push finds at its index the oldest slot of a full ring, or nothing.      *)
LEMMA EvictsFront ==
  ASSUME NEW r, RingOK(r), InOrder(r), NEW h
  PROVE  \E k \in r.readHead .. r.writeHead :
           /\ EvictIndex(h, r, r.writeHead % Capacity) = Without(h, r, SeenBefore(r, k), k)
           /\ r.writeHead - k < Capacity
<1> DEFINE i == r.writeHead % Capacity
<1>1. /\ r.readHead \in Nat /\ r.writeHead \in Nat /\ r.readHead <= r.writeHead
      /\ Capacity \in Nat \ {0} /\ r.writeHead - r.readHead <= Capacity
  BY CapacityAssumption DEF RingOK, InOrder
<1>2. \A c \in r.readHead .. r.writeHead - 1 : c % Capacity = i => c = r.readHead /\ r.writeHead = c + Capacity
  <2> SUFFICES ASSUME NEW c \in r.readHead .. r.writeHead - 1, c % Capacity = i
               PROVE  c = r.readHead /\ r.writeHead = c + Capacity
    OBVIOUS
  <2>1. c \in Nat /\ c < r.writeHead  BY <1>1
  <2>2. ~(r.writeHead - c < Capacity)  BY <1>1, <2>1, ModDiffers
  <2>3. r.writeHead - c = Capacity  BY <1>1, <2>1, <2>2
  <2> QED  BY <1>1, <2>1, <2>3
<1>3. CASE r.slots[i] = Empty
  <2>1. r.writeHead - r.readHead < Capacity
    <3> SUFFICES ASSUME r.writeHead = r.readHead + Capacity  PROVE FALSE  BY <1>1
    <3>1. r.readHead % Capacity = i  BY <1>1, ModWraps
    <3>2. r.readHead \in r.readHead .. r.writeHead - 1  BY <1>1
    <3> QED  BY <1>3, <3>1, <3>2 DEF InOrder, At
  <2>2. SeenBefore(r, r.readHead) = {}  BY <1>1 DEF SeenBefore
  <2>3. EvictIndex(h, r, i) = Without(h, r, {}, r.readHead)  BY <1>3 DEF EvictIndex
  <2> QED  BY <1>1, <2>1, <2>2, <2>3
<1>4. CASE r.slots[i] # Empty
  <2>1. i \in Indexes  BY <1>1, ModIndex
  <2>2. PICK c \in r.readHead .. r.writeHead - 1 : r.slots[c % Capacity] = r.slots[i]
    <3>1. r.slots[i] \in SeenBefore(r, r.writeHead)  BY <1>4, <2>1 DEF RingOK, LiveIn
    <3> QED  BY <3>1 DEF SeenBefore
  <2>3. c % Capacity = i
    <3>1. c % Capacity \in Indexes  BY <1>1, ModIndex
    <3> QED  BY <1>4, <2>1, <2>2, <3>1 DEF RingOK
  <2>4. r.readHead % Capacity = i /\ r.writeHead = r.readHead + Capacity  BY <1>2, <2>3
  <2>5. SeenBefore(r, r.readHead + 1) = {r.slots[i]} \ {Empty}
    <3>1. r.readHead .. (r.readHead + 1) - 1 = {r.readHead}  BY <1>1
    <3> QED  BY <2>4, <3>1 DEF SeenBefore
  <2>6. EvictIndex(h, r, i) = Without(h, r, {r.slots[i]} \ {Empty}, r.readHead + 1)
    BY <1>4, <2>4 DEF EvictIndex
  <2>7. r.readHead + 1 \in r.readHead .. r.writeHead /\ r.writeHead - (r.readHead + 1) < Capacity
    BY <1>1, <2>4
  <2> QED  BY <2>5, <2>6, <2>7
<1> QED  BY <1>3, <1>4

LEMMA EnforceInOrder ==
  ASSUME NEW r, RingOK(r), InOrder(r), NEW h, NEW incoming
  PROVE  /\ InOrder(EnforceByteBudget(h, r, incoming))
         /\ EnforceByteBudget(h, r, incoming).readHead \in r.readHead .. r.writeHead
         /\ EnforceByteBudget(h, r, incoming).writeHead = r.writeHead
<1> DEFINE k == BudgetCursor(h, r, incoming)
           w == EnforceByteBudget(h, r, incoming)
<1>1. k \in r.readHead .. r.writeHead  BY BudgetCursorExists
<1>2. w = Without(h, r, SeenBefore(r, k), k)  BY DEF EnforceByteBudget
<1> HIDE DEF k, w
<1>3. InOrder(w) /\ w.writeHead = r.writeHead /\ (w.readHead = k \/ w.readHead = r.writeHead)
  BY <1>1, <1>2, TakesFront
<1>4. r.writeHead \in r.readHead .. r.writeHead  BY DEF RingOK
<1> QED  BY <1>1, <1>3, <1>4 DEF w

(* The same slots in the same window.                                         *)
LEMMA SameWindow ==
  ASSUME NEW r, InOrder(r), NEW w, w.slots = r.slots, w.readHead = r.readHead,
         w.writeHead = r.writeHead
  PROVE  InOrder(w)
BY DEF InOrder, At

LEMMA PushStoredInOrder ==
  ASSUME IInv, InOrder(ring), NEW req \in Requests \union {NoRequest}, PushStored(req)
  PROVE  InOrder(ring')
<1>1. /\ RingOK(ring) /\ ring.writeHead % Capacity \in Indexes /\ RingOK(Freed)
      /\ LiveIn(Freed) \subseteq Live /\ Freed.writeHead = ring.writeHead
      /\ RingOK(Room) /\ LiveIn(Room) \subseteq Live
      /\ Room.writeHead = ring.writeHead /\ Next1 \in Seqs /\ clock \in Nat /\ Next1 = clock + 1
      /\ Live \subseteq 1 .. clock
  BY PushStoredParts DEF IInv, Next1
<1>2. PICK k \in ring.readHead .. ring.writeHead :
        /\ Freed = Without(heap, ring, SeenBefore(ring, k), k)
        /\ ring.writeHead - k < Capacity
  BY <1>1, EvictsFront DEF Freed
<1>3. InOrder(Freed) /\ (Freed.readHead = k \/ Freed.readHead = ring.writeHead)
  BY <1>1, <1>2, TakesFront
<1>4. InOrder(Room) /\ Room.readHead \in Freed.readHead .. Freed.writeHead
  BY <1>1, <1>3, EnforceInOrder DEF Room
<1>5. /\ Room.readHead \in Nat /\ Room.writeHead \in Nat /\ Room.readHead <= Room.writeHead
      /\ Room.writeHead - Room.readHead < Capacity
      /\ Room.slots \in [Indexes -> Seqs \union {Empty}] /\ Capacity \in Nat \ {0}
  BY <1>1, <1>2, <1>3, <1>4, CapacityAssumption DEF RingOK
<1>6. /\ ring'.slots = [Room.slots EXCEPT ![Room.writeHead % Capacity] = Next1]
      /\ ring'.readHead = Room.readHead /\ ring'.writeHead = Room.writeHead + 1
  <2>1. ring' = [Room EXCEPT !.slots[Room.writeHead % Capacity] = Next1,
                             !.payloadBytes = @ + MetadataOverhead,
                             !.slotCount = @ + 1,
                             !.writeHead = @ + 1]  BY PushStoredParts
  <2>2. Shape(Room)  BY <1>1 DEF RingOK
  <2> QED  BY <2>1, <2>2 DEF Shape
<1>7. At(ring', Room.writeHead) = Next1 /\ Next1 # Empty
  <2>1. Room.writeHead % Capacity \in Indexes  BY <1>1
  <2>2. Next1 # Empty  BY <1>1, NullAssumption
  <2> QED  BY <1>5, <1>6, <2>1, <2>2 DEF At
<1>8. \A c \in Room.readHead .. Room.writeHead - 1 : At(ring', c) = At(Room, c)
  <2> SUFFICES ASSUME NEW c \in Room.readHead .. Room.writeHead - 1
               PROVE  At(ring', c) = At(Room, c)
    OBVIOUS
  <2>1. c \in Nat /\ c < Room.writeHead /\ Room.writeHead - c < Capacity  BY <1>5
  <2>2. c % Capacity # Room.writeHead % Capacity  BY <1>5, <2>1, ModDiffers
  <2>3. c % Capacity \in Indexes  BY <2>1, ModIndex
  <2> QED  BY <1>5, <1>6, <2>2, <2>3 DEF At
<1>9. \A c \in Room.readHead .. Room.writeHead - 1 : At(Room, c) # Empty /\ At(Room, c) < Next1
  <2> SUFFICES ASSUME NEW c \in Room.readHead .. Room.writeHead - 1
               PROVE  At(Room, c) # Empty /\ At(Room, c) < Next1
    OBVIOUS
  <2>1. At(Room, c) # Empty  BY <1>4 DEF InOrder
  <2>2. c % Capacity \in Indexes  BY <1>5, ModIndex
  <2>3. At(Room, c) \in 1 .. clock  BY <1>1, <2>1, <2>2 DEF At, LiveIn
  <2> QED  BY <1>1, <2>1, <2>3
<1>10. \A c \in ring'.readHead .. ring'.writeHead - 1 :
         c \in Room.readHead .. Room.writeHead - 1 \/ c = Room.writeHead
  BY <1>5, <1>6
<1>11. ring'.writeHead - ring'.readHead <= Capacity  BY <1>5, <1>6
<1>12. \A c, d \in ring'.readHead .. ring'.writeHead - 1 : c < d => At(ring', c) < At(ring', d)
  <2> SUFFICES ASSUME NEW c \in ring'.readHead .. ring'.writeHead - 1,
                      NEW d \in ring'.readHead .. ring'.writeHead - 1, c < d
               PROVE  At(ring', c) < At(ring', d)
    OBVIOUS
  <2>1. c \in Room.readHead .. Room.writeHead - 1  BY <1>5, <1>6
  <2>2. CASE d = Room.writeHead  BY <1>7, <1>8, <1>9, <2>1, <2>2
  <2>3. CASE d \in Room.readHead .. Room.writeHead - 1
    BY <1>4, <1>8, <2>1, <2>3 DEF InOrder
  <2> QED  BY <1>10, <2>2, <2>3
<1> QED  BY <1>7, <1>8, <1>9, <1>10, <1>11, <1>12 DEF InOrder

OrderInv == released = {} => InOrder(ring)

LEMMA NextInOrder ==
  ASSUME IInv, OrderInv, [Next]_vars
  PROVE  OrderInv'
<1> SUFFICES ASSUME released' = {}  PROVE InOrder(ring')  BY DEF OrderInv
<1>0. RingOK(ring)  BY DEF IInv
<1>1. ASSUME NEW req \in Requests \union {NoRequest}, PushStored(req)  PROVE InOrder(ring')
  <2>1. InOrder(ring)  BY <1>1 DEF OrderInv, PushStored, InvalidateIndex
  <2> QED  BY <1>1, <2>1, PushStoredInOrder
<1>2. ASSUME NEW s \in Seqs, NEW b \in SlotBytes, BackfillStored(s, b)  PROVE InOrder(ring')
  <2>1. InOrder(ring)  BY <1>2 DEF OrderInv, BackfillStored, InvalidateIndex
  <2>2. RingOK(Grown(s, b)) /\ InOrder(Grown(s, b))  BY <2>1, GrownOK, SameWindow
  <2>3. ring' = EnforceByteBudget(WithBody(s, b), Grown(s, b), 0)
    BY <1>2 DEF BackfillStored, InvalidateIndex, Grown
  <2> QED  BY <2>2, <2>3, EnforceInOrder
<1>3. ASSUME NEW req \in Requests, ReleaseCompletedRequest(req)  PROVE InOrder(ring')
  <2> DEFINE out == Successful(Live, req)
  <2>1. out = {} /\ released = {} /\ ring' = Without(heap, ring, out, ReleaseHead(ring, out))
    BY <1>3 DEF ReleaseCompletedRequest, InvalidateIndex
  <2>2. /\ ring.readHead \in Nat /\ ring.writeHead \in Nat /\ ring.readHead <= ring.writeHead
        /\ ring.slots \in [Indexes -> Seqs \union {Empty}]
    BY <1>0 DEF RingOK
  <2>3. ReleaseHead(ring, {}) = ring.readHead
    <3> DEFINE P(k) == /\ k = ring.writeHead \/ ring.slots[k % Capacity] \notin {}
                       /\ \A j \in ring.readHead .. k - 1 : ring.slots[j % Capacity] \in {}
    <3>1. ring.readHead \in ring.readHead .. ring.writeHead /\ P(ring.readHead)  BY <2>2
    <3>2. \A k \in ring.readHead .. ring.writeHead : P(k) => k = ring.readHead
      <4> SUFFICES ASSUME NEW k \in ring.readHead .. ring.writeHead, P(k)
                   PROVE  k = ring.readHead
        OBVIOUS
      <4>1. ring.readHead \notin ring.readHead .. k - 1  OBVIOUS
      <4> QED  BY <2>2, <4>1
    <3> QED  BY <3>1, <3>2 DEF ReleaseHead
  <2>4. ring'.slots = ring.slots /\ ring'.readHead = ring.readHead /\ ring'.writeHead = ring.writeHead
    BY <2>1, <2>2, <2>3 DEF Without
  <2>5. InOrder(ring)  BY <2>1 DEF OrderInv
  <2> QED  BY <2>4, <2>5, SameWindow
<1>4. ASSUME NEW req \in Requests, CompactCompletedRequest(req)  PROVE InOrder(ring')
  <2>1. /\ ring'.slots = ring.slots /\ ring'.readHead = ring.readHead
        /\ ring'.writeHead = ring.writeHead /\ released = {}
    BY <1>0, <1>4 DEF CompactCompletedRequest, RingOK, Shape
  <2> QED  BY <2>1, SameWindow DEF OrderInv
<1>5. CASE Clear
  <2>1. ring'.readHead = ring.writeHead /\ ring'.writeHead = ring.writeHead /\ ring.writeHead \in Nat
    BY <1>0, <1>5 DEF Clear, RingOK
  <2>2. ring'.readHead .. ring'.writeHead - 1 = {}  BY <2>1
  <2> QED  BY <2>1, <2>2, CapacityAssumption DEF InOrder
<1>6. CASE UNCHANGED <<ring, released>>  BY <1>6 DEF OrderInv
<1>7. \/ UNCHANGED <<ring, released>>
      \/ \E req \in Requests \union {NoRequest} : PushStored(req)
      \/ \E s \in Seqs, b \in SlotBytes : BackfillStored(s, b)
      \/ \E req \in Requests : ReleaseCompletedRequest(req) \/ CompactCompletedRequest(req)
      \/ Clear
  BY DEF Next, vars, PushDetached, BackfillGone, Materialize, Finish, AttachContext,
         FilterByRequestId, CompactDetachedSlot, InvalidateIndex
<1> QED  BY <1>1, <1>2, <1>3, <1>4, <1>5, <1>6, <1>7

LEMMA KeptAscends ==
  ASSUME NEW T, NEW q \in Seq(T), NEW S, S \subseteq DOMAIN q, NEW r \in Kept(q, S)
  PROVE  \E o \in Ascending(S) :
           /\ DOMAIN o = DOMAIN r /\ DOMAIN r = 1 .. Len(r) /\ Len(r) \in Nat
           /\ \A k \in DOMAIN r : o[k] \in S /\ r[k] = q[o[k]]
           /\ \A m \in S : \E k \in DOMAIN r : o[k] = m
           /\ \A j, k \in DOMAIN r : j < k => o[j] < o[k]
<1>1. PICK o \in Ascending(S) :
           /\ DOMAIN r = 1 .. Cardinality(S) /\ DOMAIN o = DOMAIN r
           /\ Cardinality(S) \in Nat /\ Len(r) = Cardinality(S)
           /\ \A k \in DOMAIN r : o[k] \in S /\ r[k] = q[o[k]]
           /\ \A m \in S : \E k \in DOMAIN r : o[k] = m
  BY KeptLines
<1>2. \A j, k \in DOMAIN o : j < k => o[j] < o[k]  BY DEF Ascending
<1> QED  BY <1>1, <1>2

(* A loop over the window of such a ring reads every slot once, in order.     *)
LEMMA OrderIsRead ==
  ASSUME IInv, InOrder(ring)
  PROVE  ReadsInOrder
<1> DEFINE q == Cursors(ring)
           N == ring.writeHead - ring.readHead
           S == {n \in DOMAIN q : q[n] # Empty}
           seen == Visited(ring)
<1>1. /\ ring.readHead \in Nat /\ ring.writeHead \in Nat /\ ring.readHead <= ring.writeHead
      /\ ring.slots \in [Indexes -> Seqs \union {Empty}] /\ N \in Nat
      /\ SeenBefore(ring, ring.writeHead) = Live /\ RingOK(ring)
  BY SeenIsLive DEF IInv, RingOK, Live
<1>2. /\ DOMAIN q = 1 .. N
      /\ \A n \in 1 .. N : /\ ring.readHead + n - 1 \in ring.readHead .. ring.writeHead - 1
                           /\ q[n] = At(ring, ring.readHead + n - 1)
  BY <1>1 DEF Cursors, At
<1>3. \A n \in 1 .. N : q[n] \in Seqs /\ q[n] # Empty
  <2> SUFFICES ASSUME NEW n \in 1 .. N  PROVE q[n] \in Seqs /\ q[n] # Empty  OBVIOUS
  <2>1. q[n] # Empty  BY <1>2 DEF InOrder
  <2>2. (ring.readHead + n - 1) % Capacity \in Indexes  BY <1>1, ModIndex
  <2> QED  BY <1>1, <1>2, <2>1, <2>2 DEF At
<1>4. q \in Seq(Seqs)
  <2>1. q = [n \in 1 .. N |-> ring.slots[(ring.readHead + n - 1) % Capacity]]  BY DEF Cursors
  <2> HIDE DEF q, N
  <2>2. q \in [1 .. N -> Seqs]  BY <1>2, <1>3, <2>1
  <2> QED  BY <1>1, <2>2
<1>5. seen \in Kept(q, S)
  <2>1. IsFiniteSet(S) /\ S \subseteq Nat
    <3>1. IsFiniteSet(1 .. N)  BY <1>1, FS_Interval
    <3>2. S \subseteq 1 .. N /\ 1 .. N \subseteq Nat  BY <1>2
    <3> QED  BY <3>1, <3>2, FS_Subset
  <2>2. Kept(q, S) # {}  BY <2>1, AscendingExists DEF Kept
  <2> QED  BY <2>2 DEF Visited
<1> HIDE DEF q, S, seen
<1>6. S \subseteq DOMAIN q /\ S = 1 .. N  BY <1>2, <1>3 DEF S
<1>7. PICK o \in Ascending(S) :
         /\ DOMAIN o = DOMAIN seen /\ DOMAIN seen = 1 .. Len(seen) /\ Len(seen) \in Nat
         /\ \A k \in DOMAIN seen : o[k] \in S /\ seen[k] = q[o[k]]
         /\ \A m \in S : \E k \in DOMAIN seen : o[k] = m
         /\ \A j, k \in DOMAIN seen : j < k => o[j] < o[k]
  <2>0. S \subseteq DOMAIN q  BY <1>6
  <2> QED  BY <1>4, <1>5, <2>0, KeptAscends
<1> HIDE DEF N
<1>8. \A m, n \in 1 .. Len(seen) : m < n => seen[m] < seen[n]
  <2> SUFFICES ASSUME NEW m \in 1 .. Len(seen), NEW n \in 1 .. Len(seen), m < n
               PROVE  seen[m] < seen[n]
    OBVIOUS
  <2>1. o[m] \in 1 .. N /\ o[n] \in 1 .. N /\ o[m] < o[n]  BY <1>6, <1>7
  <2>2. ring.readHead + o[m] - 1 < ring.readHead + o[n] - 1  BY <1>1, <2>1
  <2>3. seen[m] = At(ring, ring.readHead + o[m] - 1) /\ seen[n] = At(ring, ring.readHead + o[n] - 1)
    BY <1>2, <1>7, <2>1
  <2>4. /\ ring.readHead + o[m] - 1 \in ring.readHead .. ring.writeHead - 1
        /\ ring.readHead + o[n] - 1 \in ring.readHead .. ring.writeHead - 1
    BY <1>2, <2>1
  <2> QED  BY <2>2, <2>3, <2>4 DEF InOrder
<1>9. ToSet(seen) = Live
  <2>1. \A k \in DOMAIN seen : seen[k] \in Live
    <3> SUFFICES ASSUME NEW k \in DOMAIN seen  PROVE seen[k] \in Live  OBVIOUS
    <3>1. o[k] \in 1 .. N /\ seen[k] = q[o[k]]  BY <1>6, <1>7
    <3>2. ring.readHead + o[k] - 1 \in ring.readHead .. ring.writeHead - 1 /\ q[o[k]] # Empty
          /\ q[o[k]] = ring.slots[(ring.readHead + o[k] - 1) % Capacity]
      BY <1>2, <1>3, <3>1 DEF At
    <3> QED  BY <1>1, <3>1, <3>2 DEF SeenBefore
  <2>2. \A s \in Live : \E k \in DOMAIN seen : seen[k] = s
    <3> SUFFICES ASSUME NEW s \in Live  PROVE \E k \in DOMAIN seen : seen[k] = s  OBVIOUS
    <3>1. PICK c \in ring.readHead .. ring.writeHead - 1 : ring.slots[c % Capacity] = s
      BY <1>1 DEF SeenBefore
    <3>2. c - ring.readHead + 1 \in 1 .. N /\ ring.readHead + (c - ring.readHead + 1) - 1 = c
      BY <1>1 DEF N
    <3>3. q[c - ring.readHead + 1] = s  BY <1>2, <3>1, <3>2 DEF At
    <3>4. PICK k \in DOMAIN seen : o[k] = c - ring.readHead + 1  BY <1>6, <1>7, <3>2
    <3> QED  BY <1>7, <3>3, <3>4
  <2> QED  BY <2>1, <2>2 DEF ToSet
<1> QED  BY <1>8, <1>9 DEF ReadsInOrder, seen

(* Reading by request finds what is there and the request's; reading the      *)
(* whole ring finds every event once and in order, until a release has left   *)
(* a hole.                                                                    *)
THEOREM ReadsAreSound == Spec => []ReadsSound
<1>1. Init => IndexSound /\ OrderInv
  <2> SUFFICES ASSUME Init  PROVE IndexSound /\ OrderInv  OBVIOUS
  <2>1. ring.readHead = 0 /\ ring.writeHead = 0 /\ requestIdIndex = Empty  BY DEF Init
  <2>2. ring.readHead .. ring.writeHead - 1 = {}  BY <2>1
  <2>3. InOrder(ring)  BY <2>1, <2>2, CapacityAssumption DEF InOrder
  <2> QED  BY <2>1, <2>3 DEF IndexSound, OrderInv
<1>2. IInv /\ IndexSound /\ OrderInv /\ [Next]_vars => IndexSound' /\ OrderInv'
  BY NextIndexSound, NextInOrder
<1>3. IInv /\ IndexSound /\ OrderInv => ReadsSound
  BY OrderIsRead DEF ReadsSound, OrderInv, DrainIsChronological
<1> QED BY <1>1, <1>2, <1>3, InductiveInvariant, PTL DEF Spec

--------------------------------------------------------------------------------
(* The log holds seqs; its length does not matter.                            *)
LogTyped == evictionLog \in Seq(Seqs)

(* Evictions are appended, and at least the last EvictionLogCapacity stay.    *)
LEMMA EvictionsAreLogged ==
  ASSUME LogTyped, NEW gone, NEW order \in Seq(Seqs), RecordEvictions(gone, order)
  PROVE  /\ LogTyped'
         /\ Len(order) <= EvictionLogCapacity
              => \A n \in DOMAIN order : order[n] \in ToSet(evictionLog')
<1> DEFINE all == evictionLog \o order
           skip == IF Len(all) > EvictionLogCapacity THEN Len(all) - EvictionLogCapacity ELSE 0
           kept == SubSeq(all, skip + 1, Len(all))
<1>1. evictionLog' = kept  BY DEF RecordEvictions
<1>2. EvictionLogCapacity \in Nat  BY BoundAssumption
<1>3. /\ all \in Seq(Seqs) /\ Len(all) = Len(evictionLog) + Len(order)
      /\ Len(evictionLog) \in Nat /\ Len(order) \in Nat /\ DOMAIN order = 1 .. Len(order)
      /\ \A n \in 1 .. Len(order) : all[Len(evictionLog) + n] = order[n]
  BY DEF LogTyped
<1> HIDE DEF all
<1>4. skip \in Nat /\ skip <= Len(all) /\ Len(all) \in Nat  BY <1>2, <1>3
<1>5. Len(order) <= EvictionLogCapacity => skip <= Len(evictionLog)  BY <1>2, <1>3
<1> HIDE DEF skip
<1>6. kept \in Seq(Seqs) /\ DOMAIN kept = 1 .. Len(all) - skip
      /\ \A n \in 1 .. Len(all) - skip : kept[n] = all[skip + n]
  BY <1>3, <1>4
<1> HIDE DEF kept
<1>7. ASSUME Len(order) <= EvictionLogCapacity, NEW n \in DOMAIN order
      PROVE  order[n] \in ToSet(evictionLog')
  <2>1. skip <= Len(evictionLog)  BY <1>5, <1>7
  <2> DEFINE p == Len(evictionLog) + n - skip
  <2>2. p \in 1 .. Len(all) - skip /\ skip + p = Len(evictionLog) + n  BY <1>3, <1>4, <2>1
  <2> HIDE DEF p
  <2>3. kept[p] = order[n]  BY <1>3, <1>6, <2>2
  <2> QED  BY <1>1, <1>6, <2>2, <2>3 DEF ToSet
<1> QED  BY <1>1, <1>6, <1>7 DEF LogTyped

(* An eviction order is a sequence of just the slots to evict.                *)
LEMMA OrdersOf ==
  ASSUME NEW r, NEW gone \in SUBSET Seqs, IsFiniteSet(gone), NEW order \in EvictionOrders(r, gone)
  PROVE  /\ order \in Seq(Seqs) /\ DOMAIN order = 1 .. Len(order)
         /\ Len(order) = Cardinality(gone) /\ Cardinality(gone) \in Nat
         /\ \A s \in gone : \E n \in DOMAIN order : order[n] = s
<1>1. order \in [1 .. Cardinality(gone) -> gone] /\ ToSet(order) = gone  BY DEF EvictionOrders
<1>2. Cardinality(gone) \in Nat  BY FS_CardinalityType
<1>3. order \in Seq(Seqs) /\ Len(order) = Cardinality(gone)
  <2>1. order \in [1 .. Cardinality(gone) -> Seqs]  BY <1>1
  <2> QED  BY <1>1, <1>2, <2>1
<1> QED  BY <1>1, <1>2, <1>3 DEF ToSet

Lost(s) ==
  \/ s \in released'
  \/ "clear" \in happened' \ happened
  \/ /\ overflowCount' - overflowCount >= Cardinality(Live \ Live')
     /\ EvictionLogCapacity >= overflowCount' - overflowCount => s \in ToSet(evictionLog')

(* What is evicted is counted and, unless more is evicted at once than the    *)
(* log holds, logged.                                                         *)
LEMMA RecordedIsNotLost ==
  ASSUME LogTyped, NEW out, IsFiniteSet(out), Live \ Live' \subseteq out, overflowCount \in Nat,
         NEW order \in Seq(Seqs), Len(order) = Cardinality(out),
         \A s \in out : \E n \in DOMAIN order : order[n] = s,
         RecordEvictions(out, order)
  PROVE  LogTyped' /\ \A s \in Live \ Live' : Lost(s)
<1>1. overflowCount' = overflowCount + Cardinality(out)  BY DEF RecordEvictions
<1>2. Cardinality(out) \in Nat  BY FS_CardinalityType
<1>3. Cardinality(Live \ Live') <= Cardinality(out) /\ Cardinality(Live \ Live') \in Nat
  BY FS_Subset, FS_CardinalityType
<1>4. overflowCount' - overflowCount = Cardinality(out)  BY <1>1, <1>2
<1>5. ASSUME NEW s \in out, EvictionLogCapacity >= overflowCount' - overflowCount
      PROVE  s \in ToSet(evictionLog')
  <2>1. PICK n \in DOMAIN order : order[n] = s  OBVIOUS
  <2>2. Len(order) <= EvictionLogCapacity  BY <1>4, <1>5, BoundAssumption
  <2> QED  BY <2>1, <2>2, EvictionsAreLogged
<1>6. LogTyped'  BY EvictionsAreLogged
<1>7. overflowCount' - overflowCount >= Cardinality(Live \ Live')  BY <1>2, <1>3, <1>4
<1> QED  BY <1>5, <1>6, <1>7 DEF Lost

LEMMA SingleEntry ==
  ASSUME NEW x \in Seqs
  PROVE  LET one == [n \in 1 .. 1 |-> x]
         IN  one \in Seq(Seqs) /\ Len(one) = 1 /\ DOMAIN one = 1 .. Len(one) /\ one[1] = x
<1>1. [n \in 1 .. 1 |-> x] \in [1 .. 1 -> Seqs]  OBVIOUS
<1>2. [n \in 1 .. 1 |-> x] \in Seq(Seqs) /\ Len([n \in 1 .. 1 |-> x]) = 1  BY <1>1
<1> QED  BY <1>2

LEMMA NextLogs ==
  ASSUME IInv, LogTyped, [Next]_vars
  PROVE  LogTyped' /\ \A s \in Live \ Live' : Lost(s)
<1>0. /\ RingOK(ring) /\ IsFiniteSet(Live) /\ Live \subseteq Seqs /\ overflowCount \in Nat
      /\ ring.slots \in [Indexes -> Seqs \union {Empty}]
  BY LiveWeighted DEF IInv, TypeOK
<1>1. ASSUME NEW req \in Requests \union {NoRequest}, PushStored(req)
      PROVE  LogTyped' /\ \A s \in Live \ Live' : Lost(s)
  <2> DEFINE i == ring.writeHead % Capacity
             gone == LiveIn(Freed) \ LiveIn(Room)
             first == [n \in 1 .. Cardinality(Over) |-> ring.slots[i]]
  <2>1. /\ Over \subseteq Live /\ i \in Indexes /\ LiveIn(Freed) = Live \ Over
        /\ LiveIn(Room) \subseteq LiveIn(Freed) /\ Live' = LiveIn(Room) \union {Next1}
    BY <1>1, PushStoredParts
  <2>2. PICK order \in EvictionOrders(Freed, gone) : RecordEvictions(Over \union gone, first \o order)
    BY <1>1 DEF PushStored, Over, Freed, Room, InvalidateIndex
  <2>3. Live \ Live' \subseteq Over \union gone  BY <2>1
  <2>4. IsFiniteSet(Over) /\ IsFiniteSet(gone) /\ gone \subseteq Seqs /\ Over \intersect gone = {}
    BY <1>0, <2>1, FS_Subset
  <2>5. /\ first \in Seq(Seqs) /\ Len(first) = Cardinality(Over) /\ DOMAIN first = 1 .. Len(first)
        /\ \A s \in Over : \E n \in DOMAIN first : first[n] = s
    <3>1. CASE ring.slots[i] = Empty
      <4>1. Over = {} /\ Cardinality(Over) = 0  BY <3>1, FS_EmptySet DEF Over
      <4>2. first = << >>  BY <4>1
      <4> QED  BY <4>1, <4>2
    <3>2. CASE ring.slots[i] # Empty
      <4>1. Over = {ring.slots[i]} /\ Cardinality(Over) = 1  BY <3>2, FS_Singleton DEF Over
      <4> DEFINE x == ring.slots[i]
      <4>2. x \in Seqs  BY <1>0, <2>1, <3>2
      <4>3. first = [n \in 1 .. 1 |-> x]  BY <4>1
      <4> HIDE DEF x, first
      <4>4. /\ first \in Seq(Seqs) /\ Len(first) = 1 /\ DOMAIN first = 1 .. Len(first)
            /\ first[1] = x
        BY <4>2, <4>3, SingleEntry
      <4>5. Over = {x} /\ Cardinality(Over) = 1  BY <4>1 DEF x
      <4> QED  BY <4>4, <4>5
    <3> QED  BY <3>1, <3>2
  <2> HIDE DEF first, gone
  <2>6. /\ order \in Seq(Seqs) /\ DOMAIN order = 1 .. Len(order)
        /\ Len(order) = Cardinality(gone)
        /\ \A s \in gone : \E n \in DOMAIN order : order[n] = s
    BY <2>4, OrdersOf
  <2>7. /\ first \o order \in Seq(Seqs) /\ Len(first \o order) = Len(first) + Len(order)
        /\ \A n \in 1 .. Len(first) : (first \o order)[n] = first[n]
        /\ \A n \in 1 .. Len(order) : (first \o order)[Len(first) + n] = order[n]
        /\ DOMAIN (first \o order) = 1 .. Len(first) + Len(order)
        /\ Len(first) \in Nat /\ Len(order) \in Nat
    BY <2>5, <2>6
  <2> DEFINE both == first \o order
  <2> HIDE DEF both
  <2>8. \A s \in Over \union gone : \E n \in DOMAIN both : both[n] = s
    <3>1. ASSUME NEW s \in Over  PROVE \E n \in DOMAIN both : both[n] = s
      <4>1. PICK n \in 1 .. Len(first) : first[n] = s  BY <2>5
      <4> QED  BY <2>7, <4>1 DEF both
    <3>2. ASSUME NEW s \in gone  PROVE \E n \in DOMAIN both : both[n] = s
      <4>1. PICK n \in 1 .. Len(order) : order[n] = s  BY <2>6
      <4>2. Len(first) + n \in 1 .. Len(first) + Len(order)  BY <2>7
      <4> QED  BY <2>7, <4>1, <4>2 DEF both
    <3> QED  BY <3>1, <3>2
  <2>9. IsFiniteSet(Over \union gone) /\ Cardinality(Over \union gone) = Len(both)
    <3>1. Cardinality(Over \union gone) = Cardinality(Over) + Cardinality(gone)
      <4>1. Cardinality(Over \intersect gone) = 0  BY <2>4, FS_EmptySet
      <4>2. Cardinality(Over \union gone)
              = Cardinality(Over) + Cardinality(gone) - Cardinality(Over \intersect gone)
        BY <2>4, FS_Union
      <4>3. Cardinality(Over) \in Nat /\ Cardinality(gone) \in Nat  BY <2>4, FS_CardinalityType
      <4> QED  BY <4>1, <4>2, <4>3
    <3> QED  BY <2>4, <2>5, <2>6, <2>7, <3>1, FS_Union DEF both
  <2>10. both \in Seq(Seqs) /\ RecordEvictions(Over \union gone, both)  BY <2>2, <2>7 DEF both
  <2> QED  BY <1>0, <2>3, <2>8, <2>9, <2>10, RecordedIsNotLost
<1>2. ASSUME NEW s \in Seqs, NEW b \in SlotBytes, BackfillStored(s, b)
      PROVE  LogTyped' /\ \A t \in Live \ Live' : Lost(t)
  <2> DEFINE gone == Live \ LiveIn(EnforceByteBudget(WithBody(s, b), Grown(s, b), 0))
  <2>1. PICK order \in EvictionOrders(Grown(s, b), gone) : RecordEvictions(gone, order)
    BY <1>2 DEF BackfillStored, Grown, InvalidateIndex
  <2>2. Live' = LiveIn(EnforceByteBudget(WithBody(s, b), Grown(s, b), 0))
    BY <1>2 DEF BackfillStored, Grown, InvalidateIndex, Live
  <2>3. Live \ Live' \subseteq gone  BY <2>2
  <2>4. IsFiniteSet(gone) /\ gone \in SUBSET Seqs  BY <1>0, FS_Subset
  <2> HIDE DEF gone
  <2>5. /\ order \in Seq(Seqs) /\ Len(order) = Cardinality(gone)
        /\ \A t \in gone : \E n \in DOMAIN order : order[n] = t
    BY <2>4, OrdersOf
  <2> QED  BY <1>0, <2>1, <2>3, <2>4, <2>5, RecordedIsNotLost
<1>3. ASSUME NEW req \in Requests, ReleaseCompletedRequest(req)
      PROVE  LogTyped' /\ \A s \in Live \ Live' : Lost(s)
  <2> DEFINE out == Successful(Live, req)
  <2>1. /\ ring' = Without(heap, ring, out, ReleaseHead(ring, out)) /\ evictionLog' = evictionLog
        /\ released' = released \union out
    BY <1>3 DEF ReleaseCompletedRequest, InvalidateIndex
  <2> HIDE DEF out
  <2>2. ring'.slots = [i \in Indexes |-> IF ring.slots[i] \in out THEN Empty ELSE ring.slots[i]]
    BY <2>1 DEF Without
  <2>3. Live \ Live' \subseteq out  BY <2>2 DEF Live, LiveIn
  <2> QED  BY <2>1, <2>3 DEF LogTyped, Lost
<1>4. CASE Clear
  <2>1. "clear" \in happened' \ happened /\ evictionLog' = evictionLog  BY <1>4 DEF Clear
  <2> QED  BY <2>1 DEF LogTyped, Lost
<1>5. CASE UNCHANGED <<ring.slots, evictionLog>>
  <2>1. Live' = Live  BY <1>5 DEF Live, LiveIn
  <2> QED  BY <1>5, <2>1 DEF LogTyped
<1>6. \/ UNCHANGED <<ring, evictionLog>>
      \/ \E req \in Requests \union {NoRequest} : PushStored(req)
      \/ \E s \in Seqs, b \in SlotBytes : BackfillStored(s, b)
      \/ \E req \in Requests : ReleaseCompletedRequest(req) \/ CompactCompletedRequest(req)
      \/ Clear
  BY DEF Next, vars, PushDetached, BackfillGone, Materialize, Finish, AttachContext,
         FilterByRequestId, CompactDetachedSlot, InvalidateIndex
<1>7. \A req \in Requests : CompactCompletedRequest(req) => UNCHANGED <<ring.slots, evictionLog>>
  BY <1>0 DEF CompactCompletedRequest, RingOK, Shape
<1>8. UNCHANGED <<ring, evictionLog>> => UNCHANGED <<ring.slots, evictionLog>>  OBVIOUS
<1> QED  BY <1>1, <1>2, <1>3, <1>4, <1>5, <1>6, <1>7, <1>8

(* No event leaves the ring unseen: it was released, or cleared, or it is     *)
(* counted and in the eviction log.                                           *)
THEOREM NoLossIsSilent == Spec => LossIsRecorded
<1>1. Init => LogTyped  BY DEF Init, LogTyped
<1>2. IInv /\ LogTyped /\ [Next]_vars => LogTyped'  BY NextLogs
<1>3. IInv /\ LogTyped /\ [Next]_vars
        => [\A s \in Live \ Live' :
              \/ s \in released'
              \/ "clear" \in happened' \ happened
              \/ /\ overflowCount' - overflowCount >= Cardinality(Live \ Live')
                 /\ EvictionLogCapacity >= overflowCount' - overflowCount
                      => s \in ToSet(evictionLog')]_vars
  BY NextLogs DEF Lost
<1> QED BY <1>1, <1>2, <1>3, InductiveInvariant, PTL DEF Spec, LossIsRecorded
================================================================================
