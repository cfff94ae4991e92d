------------------------------- MODULE DataLemmas -------------------------------
(***************************************************************************)
(* What the operators of the models do to data.  Orders: the elements kept *)
(* of a sequence.  Sums: a sum is a fold over a finite set, which takes    *)
(* its elements in an order that nobody knows; the order does not matter.  *)
(***************************************************************************)
EXTENDS Orders, Integers, Functions, FiniteSetTheorems, WellFoundedInduction, TLAPS

(* Induction without an operator: a non-empty set of finite sets has one    *)
(* that is minimal.                                                         *)
LEMMA MinimalSet ==
  ASSUME NEW S, NEW F, F \subseteq FiniteSubsetsOf(S), F # {}
  PROVE  \E T \in F : \A U \in F : ~(U \subseteq T /\ U # T)
<1> DEFINE R == StrictSubsetOrdering(S)
<1>1. IsWellFoundedOn(R, FiniteSubsetsOf(S))  BY FS_StrictSubsetOrderingWellFounded
<1>2. \A T, U \in F : U \subseteq T /\ U # T => <<U, T>> \in R
  BY DEF StrictSubsetOrdering, FiniteSubsetsOf
<1> HIDE DEF R
<1>3. \E x \in F : \A y \in F : ~ (<<y, x>> \in R)  BY <1>1, WFMin, Zenon
<1> QED  BY <1>2, <1>3, Zenon

(* Numbers can be sorted.                                                   *)
LEMMA LargestNatural ==
  ASSUME NEW S, IsFiniteSet(S), S \subseteq Nat, S # {}
  PROVE  \E m \in S : \A n \in S : n <= m
<1> DEFINE F == {U \in SUBSET S : U # {} /\ ~ \E m \in U : \A n \in U : n <= m}
<1> SUFFICES ASSUME F # {}  PROVE FALSE  OBVIOUS
<1>1. F \subseteq FiniteSubsetsOf(S)  BY FS_Subset DEF FiniteSubsetsOf
<1>2. PICK U \in F : \A u \in F : ~(u \subseteq U /\ u # U)
  <2> HIDE DEF F
  <2> QED  BY <1>1, MinimalSet
<1>3. PICK x \in U : TRUE  OBVIOUS
<1>4. U \ {x} \notin F /\ U \ {x} \in SUBSET S  BY <1>2, <1>3
<1>5. CASE U \ {x} = {}
  <2>1. \A n \in U : n = x  BY <1>5
  <2> QED  BY <1>3, <2>1
<1>6. CASE U \ {x} # {}
  <2>1. PICK m \in U \ {x} : \A n \in U \ {x} : n <= m  BY <1>4, <1>6
  <2>2. m \in Nat /\ x \in Nat /\ U \subseteq Nat  OBVIOUS
  <2>3. CASE x <= m  BY <2>1, <2>3
  <2>4. CASE m <= x
    <3>1. \A n \in U : n <= x  BY <2>1, <2>2, <2>4
    <3> QED  BY <1>3, <3>1
  <2> QED  BY <2>2, <2>3, <2>4
<1> QED  BY <1>5, <1>6

LEMMA AscendingExists ==
  ASSUME NEW S, IsFiniteSet(S), S \subseteq Nat
  PROVE  Ascending(S) # {}
<1> DEFINE F == {T \in SUBSET S : Ascending(T) = {}}
<1> SUFFICES ASSUME F # {}  PROVE FALSE  OBVIOUS
<1>1. F \subseteq FiniteSubsetsOf(S)  BY FS_Subset DEF FiniteSubsetsOf
<1>2. PICK T \in F : \A u \in F : ~(u \subseteq T /\ u # T)
  <2> HIDE DEF F
  <2> QED  BY <1>1, MinimalSet
<1>3. IsFiniteSet(T) /\ T \subseteq Nat  BY FS_Subset
<1>4. CASE T = {}
  <2>1. Cardinality(T) = 0  BY <1>4, FS_EmptySet
  <2>2. << >> \in [1 .. Cardinality(T) -> T]  BY <2>1
  <2>3. ToSet(<< >>) = {}  BY DEF ToSet
  <2>4. << >> \in Ascending(T)  BY <1>4, <2>1, <2>2, <2>3 DEF Ascending
  <2> QED  BY <2>4
<1>5. CASE T # {}
  <2>1. PICK m \in T : \A n \in T : n <= m  BY <1>3, <1>5, LargestNatural
  <2> DEFINE R == T \ {m}
             N == Cardinality(R)
  <2>2. R \in SUBSET S /\ R \notin F  BY <1>2, <2>1
  <2>3. PICK o \in Ascending(R) : TRUE  BY <2>2
  <2>4. IsFiniteSet(R) /\ N \in Nat /\ Cardinality(T) = N + 1
    <3>1. IsFiniteSet(R) /\ m \notin R /\ R \cup {m} = T  BY <1>3, <2>1, FS_Subset
    <3> QED  BY <3>1, FS_AddElement, FS_CardinalityType
  <2>5. /\ o \in [1 .. N -> R] /\ \A x \in R : \E k \in 1 .. N : o[k] = x
        /\ \A j, k \in 1 .. N : j < k => o[j] < o[k]
    BY <2>3 DEF Ascending, ToSet
  <2>6. \A x \in R : x \in Nat /\ x < m  BY <1>3, <2>1
  <2> HIDE DEF N, R
  <2> DEFINE p == [k \in 1 .. N + 1 |-> IF k \in 1 .. N THEN o[k] ELSE m]
  <2>7. /\ DOMAIN p = 1 .. N + 1 /\ p[N + 1] = m /\ \A k \in 1 .. N : p[k] = o[k]
        /\ \A k \in 1 .. N + 1 : k \in 1 .. N \/ k = N + 1
    BY <2>4
  <2>8. p \in [1 .. N + 1 -> T]  BY <2>1, <2>5 DEF R
  <2> HIDE DEF p
  <2>9. \A j, k \in 1 .. N + 1 : j < k => p[j] < p[k]
    <3> SUFFICES ASSUME NEW j \in 1 .. N + 1, NEW k \in 1 .. N + 1, j < k  PROVE p[j] < p[k]
      OBVIOUS
    <3>1. j \in 1 .. N  BY <2>4
    <3>2. CASE k \in 1 .. N  BY <2>5, <2>7, <3>1, <3>2
    <3>3. CASE k = N + 1  BY <2>5, <2>6, <2>7, <3>1, <3>3
    <3> QED  BY <2>7, <3>2, <3>3
  <2>10. ToSet(p) = T
    <3>1. \A x \in T : \E k \in 1 .. N + 1 : p[k] = x
      <4> SUFFICES ASSUME NEW x \in T  PROVE \E k \in 1 .. N + 1 : p[k] = x  OBVIOUS
      <4>1. CASE x = m  BY <2>4, <2>7, <4>1
      <4>2. CASE x \in R
        <5>1. PICK k \in 1 .. N : o[k] = x  BY <2>5, <4>2
        <5> QED  BY <2>4, <2>7, <5>1
      <4> QED  BY <4>1, <4>2 DEF R
    <3> QED  BY <2>7, <2>8, <3>1 DEF ToSet
  <2>11. p \in Ascending(T)  BY <2>4, <2>7, <2>8, <2>9, <2>10 DEF Ascending
  <2> QED  BY <2>11
<1> QED  BY <1>4, <1>5

(* The elements kept are those at the positions S, each at one place, and no *)
(* position comes twice.                                                     *)
LEMMA KeptLines ==
  ASSUME NEW T, NEW q \in Seq(T), NEW S, S \subseteq DOMAIN q, NEW r \in Kept(q, S)
  PROVE  \E o \in Ascending(S) :
           /\ r = [k \in DOMAIN o |-> q[o[k]]]
           /\ r \in Seq(T) /\ DOMAIN r = 1 .. Cardinality(S) /\ DOMAIN o = DOMAIN r
           /\ Cardinality(S) \in Nat /\ Len(r) = Cardinality(S)
           /\ \A k \in DOMAIN r : o[k] \in S /\ r[k] = q[o[k]]
           /\ \A m \in S : \E k \in DOMAIN r : o[k] = m
           /\ \A j, k \in DOMAIN r : o[j] = o[k] => j = k
<1>1. PICK o \in Ascending(S) : r = [k \in DOMAIN o |-> q[o[k]]]  BY DEF Kept
<1>2. DOMAIN q = 1 .. Len(q) /\ Len(q) \in Nat  OBVIOUS
<1>3. IsFiniteSet(S) /\ Cardinality(S) \in Nat
  <2>1. IsFiniteSet(1 .. Len(q))  BY <1>2, FS_Interval
  <2>2. IsFiniteSet(S)  BY <1>2, <2>1, FS_Subset
  <2> QED  BY <2>2, FS_CardinalityType
<1>4. /\ o \in [1 .. Cardinality(S) -> S] /\ ToSet(o) = S
      /\ \A j, k \in DOMAIN o : j < k => o[j] < o[k]
  BY <1>1 DEF Ascending
<1> DEFINE N == Cardinality(S)
<1> HIDE DEF N
<1>5. DOMAIN o = 1 .. N /\ N \in Nat /\ o \in [1 .. N -> S]  BY <1>3, <1>4 DEF N
<1>6. \A k \in 1 .. N : o[k] \in S /\ q[o[k]] \in T
  BY <1>2, <1>5
<1>7. r \in [1 .. N -> T]  BY <1>1, <1>5, <1>6
<1>8. r \in Seq(T) /\ DOMAIN r = 1 .. N /\ Len(r) = N  BY <1>5, <1>7
<1>9. \A m \in S : \E k \in DOMAIN o : o[k] = m  BY <1>4 DEF ToSet
<1>10. ASSUME NEW j \in 1 .. N, NEW k \in 1 .. N, o[j] = o[k]  PROVE  j = k
  <2>1. o[j] \in Nat /\ o[k] \in Nat  BY <1>2, <1>6
  <2> QED  BY <1>4, <1>5, <1>10, <2>1
<1>11. \A k \in DOMAIN r : o[k] \in S /\ r[k] = q[o[k]]  BY <1>1, <1>5, <1>6, <1>8
<1>12. \A j, k \in DOMAIN r : o[j] = o[k] => j = k
  BY <1>4, <1>5, <1>8, <1>10
<1> QED  BY <1>1, <1>3, <1>5, <1>8, <1>9, <1>11, <1>12 DEF N

-------------------------------------------------------------------------------
SumOf(f, S) == FoldFunctionOnSet(+, 0, f, S)

-------------------------------------------------------------------------------
(* The fold is the value at S of a function that satisfies its equation on  *)
(* the subsets of S, if there is one.                                       *)
AnyOf(s) == CHOOSE x \in s : TRUE
Folds(it, f, S) ==
  it = [s \in SUBSET S |-> IF s = {} THEN 0 ELSE f[AnyOf(s)] + it[s \ {AnyOf(s)}]]

LEMMA SumUnfolds ==
  ASSUME NEW f, NEW S
  PROVE  SumOf(f, S) = (CHOOSE it : Folds(it, f, S))[S]
BY DEF SumOf, FoldFunctionOnSet, MapThenFoldSet, Folds, AnyOf

LEMMA PickOne ==
  ASSUME NEW s, s # {}
  PROVE  AnyOf(s) \in s /\ s \ {AnyOf(s)} \subseteq s /\ s \ {AnyOf(s)} # s
BY DEF AnyOf

LEMMA FoldsAt ==
  ASSUME NEW it, NEW f, NEW S, Folds(it, f, S), NEW s \in SUBSET S
  PROVE  it[s] = IF s = {} THEN 0 ELSE f[AnyOf(s)] + it[s \ {AnyOf(s)}]
<1> DEFINE V(r) == IF r = {} THEN 0 ELSE f[AnyOf(r)] + it[r \ {AnyOf(r)}]
<1>1. it = [r \in SUBSET S |-> V(r)]  BY DEF Folds
<1> HIDE DEF V
<1>2. it[s] = V(s)  BY <1>1
<1> QED  BY <1>2 DEF V

(* Two such functions agree where both are defined.                         *)
LEMMA FoldsAgree ==
  ASSUME NEW f, NEW S, NEW T, NEW g, NEW h, Folds(g, f, S), Folds(h, f, T),
         NEW s \in SUBSET S, s \in SUBSET T, IsFiniteSet(s)
  PROVE  g[s] = h[s]
<1> DEFINE F == {r \in SUBSET s : g[r] # h[r]}
<1> SUFFICES ASSUME F # {}  PROVE FALSE  OBVIOUS
<1>1. F \subseteq FiniteSubsetsOf(S)  BY FS_Subset DEF FiniteSubsetsOf
<1>2. PICK r \in F : \A u \in F : ~(u \subseteq r /\ u # r)
  <2> HIDE DEF F
  <2> QED  BY <1>1, MinimalSet
<1>3. r \in SUBSET S /\ r \in SUBSET T  OBVIOUS
<1>4. /\ g[r] = IF r = {} THEN 0 ELSE f[AnyOf(r)] + g[r \ {AnyOf(r)}]
      /\ h[r] = IF r = {} THEN 0 ELSE f[AnyOf(r)] + h[r \ {AnyOf(r)}]
  BY <1>3, FoldsAt
<1>5. r # {}  BY <1>4
<1>6. r \ {AnyOf(r)} \notin F  BY <1>2, <1>5, PickOne
<1>7. r \ {AnyOf(r)} \in SUBSET s  OBVIOUS
<1>8. g[r \ {AnyOf(r)}] = h[r \ {AnyOf(r)}]  BY <1>6, <1>7
<1> QED  BY <1>4, <1>5, <1>8

LEMMA FoldsExist ==
  ASSUME NEW f, NEW S, IsFiniteSet(S)
  PROVE  \E it : Folds(it, f, S)
<1> DEFINE F == {T \in SUBSET S : ~ \E it : Folds(it, f, T)}
<1> SUFFICES ASSUME F # {}  PROVE FALSE  OBVIOUS
<1>1. F \subseteq FiniteSubsetsOf(S)  BY FS_Subset DEF FiniteSubsetsOf
<1>2. PICK T \in F : \A u \in F : ~(u \subseteq T /\ u # T)
  <2> HIDE DEF F
  <2> QED  BY <1>1, MinimalSet
<1> DEFINE at(s) == CHOOSE it : Folds(it, f, s)
           V(s) == IF s = {} THEN 0
                   ELSE f[AnyOf(s)] + at(s \ {AnyOf(s)})[s \ {AnyOf(s)}]
           it == [s \in SUBSET T |-> V(s)]
<1>3. ASSUME NEW s \in SUBSET T, s # T  PROVE Folds(at(s), f, s)
  <2>1. s \notin F /\ s \in SUBSET S  BY <1>2, <1>3
  <2>2. \E x : Folds(x, f, s)  BY <2>1
  <2> QED  BY <2>2
<1>4. ASSUME NEW s \in SUBSET T, s # T  PROVE at(s)[s] = V(s)
  <2>1. Folds(at(s), f, s)  BY <1>3, <1>4
  <2>2. at(s)[s] = IF s = {} THEN 0 ELSE f[AnyOf(s)] + at(s)[s \ {AnyOf(s)}]
    <3> HIDE DEF at
    <3> QED  BY <2>1, FoldsAt
  <2>3. CASE s = {}  BY <2>2, <2>3
  <2>4. CASE s # {}
    <3> DEFINE r == s \ {AnyOf(s)}
    <3>1. r \subseteq s /\ r # s  BY <2>4, PickOne
    <3>2. r \in SUBSET T /\ r # T  BY <3>1
    <3>3. Folds(at(r), f, r)  BY <3>2, <1>3
    <3>4. IsFiniteSet(r)  BY <3>2, FS_Subset
    <3>5. at(s)[r] = at(r)[r]
      <4> HIDE DEF at, r
      <4> QED  BY <2>1, <3>3, <3>1, <3>4, FoldsAgree
    <3> QED  BY <2>2, <2>4, <3>5
  <2> QED  BY <2>3, <2>4
<1>5. ASSUME NEW s \in SUBSET T
      PROVE  V(s) = IF s = {} THEN 0 ELSE f[AnyOf(s)] + it[s \ {AnyOf(s)}]
  <2>1. CASE s = {}  BY <2>1
  <2>2. CASE s # {}
    <3> DEFINE r == s \ {AnyOf(s)}
    <3>1. r \subseteq s /\ r # s  BY <2>2, PickOne
    <3>2. r \in SUBSET T /\ r # T  BY <3>1
    <3>3. at(r)[r] = V(r)  BY <3>2, <1>4
    <3>4. it[r] = V(r)
      <4> HIDE DEF V, r
      <4> QED  BY <3>2
    <3> QED  BY <2>2, <3>3, <3>4
  <2> QED  BY <2>1, <2>2
<1>6. it = [s \in SUBSET T |-> IF s = {} THEN 0 ELSE f[AnyOf(s)] + it[s \ {AnyOf(s)}]]
  <2> DEFINE W(s) == IF s = {} THEN 0 ELSE f[AnyOf(s)] + it[s \ {AnyOf(s)}]
  <2>1. \A s \in SUBSET T : V(s) = W(s)  BY <1>5
  <2>2. [s \in SUBSET T |-> V(s)] = [s \in SUBSET T |-> W(s)]
    <3> HIDE DEF V, W
    <3> QED  BY <2>1
  <2> QED  BY <2>2
<1>7. Folds(it, f, T)  BY <1>6 DEF Folds
<1> QED  BY <1>7

(* The equation of the fold.                                                *)
LEMMA SumEquation ==
  ASSUME NEW f, NEW S, IsFiniteSet(S)
  PROVE  SumOf(f, S) = IF S = {} THEN 0 ELSE f[AnyOf(S)] + SumOf(f, S \ {AnyOf(S)})
<1> DEFINE at(s) == CHOOSE it : Folds(it, f, s)
           r == S \ {AnyOf(S)}
<1>1. \A s \in SUBSET S : IsFiniteSet(s) /\ Folds(at(s), f, s)  BY FoldsExist, FS_Subset
<1>2. SumOf(f, S) = at(S)[S] /\ SumOf(f, r) = at(r)[r]  BY SumUnfolds
<1> HIDE DEF at
<1>3. at(S)[S] = IF S = {} THEN 0 ELSE f[AnyOf(S)] + at(S)[r]  BY <1>1, FoldsAt
<1>4. at(S)[r] = at(r)[r]
  <2>1. r \in SUBSET S /\ r \in SUBSET r  OBVIOUS
  <2> HIDE DEF r
  <2> QED  BY <2>1, <1>1, FoldsAgree
<1> QED  BY <1>2, <1>3, <1>4

LEMMA SumEmpty ==
  ASSUME NEW f
  PROVE  SumOf(f, {}) = 0
BY SumEquation, FS_EmptySet

(* Sums of numbers are numbers.                                             *)
LEMMA SumNat ==
  ASSUME NEW S, IsFiniteSet(S), NEW f, \A x \in S : f[x] \in Nat
  PROVE  SumOf(f, S) \in Nat
<1> DEFINE F == {T \in SUBSET S : SumOf(f, T) \notin Nat}
<1> SUFFICES ASSUME F # {}  PROVE FALSE  OBVIOUS
<1>1. F \subseteq FiniteSubsetsOf(S)  BY FS_Subset DEF FiniteSubsetsOf
<1>2. PICK T \in F : \A u \in F : ~(u \subseteq T /\ u # T)
  <2> HIDE DEF F
  <2> QED  BY <1>1, MinimalSet
<1>3. IsFiniteSet(T) /\ T \subseteq S  BY FS_Subset
<1>4. SumOf(f, T) = IF T = {} THEN 0 ELSE f[AnyOf(T)] + SumOf(f, T \ {AnyOf(T)})
  BY <1>3, SumEquation
<1>5. T # {}  BY <1>4
<1>6. AnyOf(T) \in S /\ T \ {AnyOf(T)} \notin F  BY <1>2, <1>3, <1>5, PickOne
<1>7. SumOf(f, T \ {AnyOf(T)}) \in Nat  BY <1>6, <1>3
<1>8. f[AnyOf(T)] \in Nat  BY <1>6
<1> QED  BY <1>4, <1>5, <1>7, <1>8

(* Whichever element is taken out first.                                    *)
LEMMA SumWithout ==
  ASSUME NEW S, IsFiniteSet(S), NEW f, \A x \in S : f[x] \in Nat, NEW e \in S
  PROVE  SumOf(f, S) = f[e] + SumOf(f, S \ {e})
<1> DEFINE F == {T \in SUBSET S : \E x \in T : SumOf(f, T) # f[x] + SumOf(f, T \ {x})}
<1> SUFFICES ASSUME F # {}  PROVE FALSE  OBVIOUS
<1>1. F \subseteq FiniteSubsetsOf(S)  BY FS_Subset DEF FiniteSubsetsOf
<1>2. PICK T \in F : \A u \in F : ~(u \subseteq T /\ u # T)
  <2> HIDE DEF F
  <2> QED  BY <1>1, MinimalSet
<1>3. PICK x \in T : SumOf(f, T) # f[x] + SumOf(f, T \ {x})  OBVIOUS
<1> DEFINE p == AnyOf(T)
<1>4. IsFiniteSet(T) /\ T \subseteq S /\ T # {}  BY FS_Subset
<1>5. p \in T /\ SumOf(f, T) = f[p] + SumOf(f, T \ {p})  BY <1>4, SumEquation, PickOne
<1>6. p # x  BY <1>3, <1>5
<1> HIDE DEF p
<1>7. \A y \in T : T \ {y} \in SUBSET S /\ T \ {y} \notin F  BY <1>2, <1>4
<1>8. \A y \in T : \A z \in T \ {y} : SumOf(f, T \ {y}) = f[z] + SumOf(f, (T \ {y}) \ {z})
  BY <1>7
<1>9. /\ SumOf(f, T \ {p}) = f[x] + SumOf(f, (T \ {p}) \ {x})
      /\ SumOf(f, T \ {x}) = f[p] + SumOf(f, (T \ {x}) \ {p})
  BY <1>8, <1>5, <1>6
<1>10. (T \ {p}) \ {x} = (T \ {x}) \ {p}  OBVIOUS
<1>11. f[x] \in Nat /\ f[p] \in Nat  BY <1>4, <1>5
<1>12. SumOf(f, (T \ {x}) \ {p}) \in Nat
  <2>1. (T \ {x}) \ {p} \subseteq S /\ IsFiniteSet((T \ {x}) \ {p})  BY <1>4, FS_Subset
  <2> QED  BY <2>1, SumNat
<1>13. f[p] + (f[x] + SumOf(f, (T \ {x}) \ {p})) = f[x] + (f[p] + SumOf(f, (T \ {x}) \ {p}))
  BY <1>11, <1>12
<1> QED  BY <1>3, <1>5, <1>9, <1>10, <1>13, Zenon

(* Only what the function is on the set matters.                            *)
LEMMA SumSame ==
  ASSUME NEW S, IsFiniteSet(S), NEW f, NEW g, \A x \in S : f[x] = g[x]
  PROVE  SumOf(f, S) = SumOf(g, S)
<1> DEFINE F == {T \in SUBSET S : SumOf(f, T) # SumOf(g, T)}
<1> SUFFICES ASSUME F # {}  PROVE FALSE  OBVIOUS
<1>1. F \subseteq FiniteSubsetsOf(S)  BY FS_Subset DEF FiniteSubsetsOf
<1>2. PICK T \in F : \A u \in F : ~(u \subseteq T /\ u # T)
  <2> HIDE DEF F
  <2> QED  BY <1>1, MinimalSet
<1>3. IsFiniteSet(T) /\ T \subseteq S  BY FS_Subset
<1>4. /\ SumOf(f, T) = IF T = {} THEN 0 ELSE f[AnyOf(T)] + SumOf(f, T \ {AnyOf(T)})
      /\ SumOf(g, T) = IF T = {} THEN 0 ELSE g[AnyOf(T)] + SumOf(g, T \ {AnyOf(T)})
  BY <1>3, SumEquation
<1>5. T # {}  BY <1>4
<1>6. AnyOf(T) \in S /\ T \ {AnyOf(T)} \notin F  BY <1>2, <1>3, <1>5, PickOne
<1>7. SumOf(f, T \ {AnyOf(T)}) = SumOf(g, T \ {AnyOf(T)})  BY <1>6, <1>3
<1> QED  BY <1>4, <1>5, <1>6, <1>7

(* One element more, and one value changed.                                 *)
LEMMA SumWith ==
  ASSUME NEW S, IsFiniteSet(S), NEW e, e \notin S,
         NEW f, \A x \in S \union {e} : f[x] \in Nat
  PROVE  SumOf(f, S \union {e}) = f[e] + SumOf(f, S)
<1>1. IsFiniteSet(S \union {e})  BY FS_AddElement
<1>2. (S \union {e}) \ {e} = S  OBVIOUS
<1> QED  BY <1>1, <1>2, SumWithout

LEMMA SumChanged ==
  ASSUME NEW S, IsFiniteSet(S), NEW e \in S, NEW f, NEW g,
         \A x \in S : f[x] \in Nat /\ g[x] \in Nat,
         \A x \in S : x # e => f[x] = g[x]
  PROVE  SumOf(g, S) + f[e] = SumOf(f, S) + g[e]
<1>1. IsFiniteSet(S \ {e})  BY FS_Subset
<1>2. SumOf(f, S \ {e}) \in Nat  BY <1>1, SumNat
<1>3. SumOf(f, S \ {e}) = SumOf(g, S \ {e})  BY <1>1, SumSame
<1>4. SumOf(f, S) = f[e] + SumOf(f, S \ {e}) /\ SumOf(g, S) = g[e] + SumOf(g, S \ {e})
  BY SumWithout
<1> QED  BY <1>2, <1>3, <1>4

(* What is taken out, and what stays; and the same number everywhere.       *)
LEMMA SumSplit ==
  ASSUME NEW S, IsFiniteSet(S), NEW f, \A x \in S : f[x] \in Nat, NEW T \in SUBSET S
  PROVE  SumOf(f, S) = SumOf(f, T) + SumOf(f, S \ T)
<1> DEFINE F == {U \in SUBSET S : T \subseteq U /\ SumOf(f, U) # SumOf(f, T) + SumOf(f, U \ T)}
<1> SUFFICES ASSUME F # {}  PROVE FALSE  OBVIOUS
<1>1. F \subseteq FiniteSubsetsOf(S)  BY FS_Subset DEF FiniteSubsetsOf
<1>2. PICK U \in F : \A u \in F : ~(u \subseteq U /\ u # U)
  <2> HIDE DEF F
  <2> QED  BY <1>1, MinimalSet
<1>3. IsFiniteSet(U) /\ IsFiniteSet(T) /\ U \subseteq S /\ T \subseteq U  BY FS_Subset
<1>4. SumOf(f, U) \in Nat /\ SumOf(f, T) \in Nat  BY <1>3, SumNat
<1>5. U # T
  <2>1. U = T => U \ T = {}  OBVIOUS
  <2> QED  BY <1>4, <2>1, SumEmpty
<1>6. PICK x \in U : x \notin T  BY <1>3, <1>5
<1>7. U \ {x} \in SUBSET S /\ T \subseteq U \ {x} /\ U \ {x} \notin F  BY <1>2, <1>3, <1>6
<1>8. SumOf(f, U \ {x}) = SumOf(f, T) + SumOf(f, (U \ {x}) \ T)  BY <1>7
<1>9. SumOf(f, U) = f[x] + SumOf(f, U \ {x})  BY <1>3, SumWithout
<1>10. IsFiniteSet(U \ T) /\ x \in U \ T /\ (U \ T) \ {x} = (U \ {x}) \ T  BY <1>3, <1>6, FS_Subset
<1>11. SumOf(f, U \ T) = f[x] + SumOf(f, (U \ {x}) \ T)
  <2>1. \A y \in U \ T : f[y] \in Nat  BY <1>3
  <2>2. SumOf(f, U \ T) = f[x] + SumOf(f, (U \ T) \ {x})  BY <1>10, <2>1, SumWithout
  <2> QED  BY <1>10, <2>2
<1>12. SumOf(f, (U \ {x}) \ T) \in Nat /\ f[x] \in Nat
  <2>1. IsFiniteSet((U \ {x}) \ T) /\ (U \ {x}) \ T \subseteq S  BY <1>3, FS_Subset
  <2> QED  BY <1>3, <1>6, <2>1, SumNat
<1> QED  BY <1>4, <1>8, <1>9, <1>11, <1>12

LEMMA SumConstant ==
  ASSUME NEW S, IsFiniteSet(S), NEW c \in Nat, NEW f, \A x \in S : f[x] = c
  PROVE  SumOf(f, S) = c * Cardinality(S)
<1> DEFINE F == {T \in SUBSET S : SumOf(f, T) # c * Cardinality(T)}
<1> SUFFICES ASSUME F # {}  PROVE FALSE  OBVIOUS
<1>1. F \subseteq FiniteSubsetsOf(S)  BY FS_Subset DEF FiniteSubsetsOf
<1>2. PICK T \in F : \A u \in F : ~(u \subseteq T /\ u # T)
  <2> HIDE DEF F
  <2> QED  BY <1>1, MinimalSet
<1>3. IsFiniteSet(T) /\ T \subseteq S  BY FS_Subset
<1>4. T # {}
  <2>1. SumOf(f, {}) = 0 /\ Cardinality({}) = 0  BY SumEmpty, FS_EmptySet
  <2> QED  BY <2>1
<1>5. PICK x \in T : TRUE  BY <1>4
<1>6. T \ {x} \in SUBSET S /\ T \ {x} \notin F  BY <1>2, <1>3, <1>5
<1>7. SumOf(f, T \ {x}) = c * Cardinality(T \ {x})  BY <1>6
<1>8. SumOf(f, T) = c + SumOf(f, T \ {x})  BY <1>3, <1>5, SumWithout
<1>9. Cardinality(T \ {x}) \in Nat /\ Cardinality(T) = Cardinality(T \ {x}) + 1
  <2>1. IsFiniteSet(T \ {x}) /\ x \notin T \ {x} /\ (T \ {x}) \cup {x} = T  BY <1>3, <1>5, FS_Subset
  <2> QED  BY <2>1, FS_AddElement, FS_CardinalityType
<1>10. c * (Cardinality(T \ {x}) + 1) = c * Cardinality(T \ {x}) + c  BY <1>9
<1>11. c * Cardinality(T \ {x}) \in Nat  BY <1>9
<1> QED  BY <1>7, <1>8, <1>9, <1>10, <1>11

(* Fewer elements never add up to more.                                     *)
LEMMA SumMonotone ==
  ASSUME NEW S, IsFiniteSet(S), NEW f, \A x \in S : f[x] \in Nat, NEW T \in SUBSET S
  PROVE  SumOf(f, T) <= SumOf(f, S)
<1> DEFINE F == {U \in SUBSET S : T \subseteq U /\ ~(SumOf(f, T) <= SumOf(f, U))}
<1> SUFFICES ASSUME F # {}  PROVE FALSE  OBVIOUS
<1>1. F \subseteq FiniteSubsetsOf(S)  BY FS_Subset DEF FiniteSubsetsOf
<1>2. PICK U \in F : \A u \in F : ~(u \subseteq U /\ u # U)
  <2> HIDE DEF F
  <2> QED  BY <1>1, MinimalSet
<1>3. IsFiniteSet(U) /\ IsFiniteSet(T) /\ U \subseteq S  BY FS_Subset
<1>4. SumOf(f, U) \in Nat /\ SumOf(f, T) \in Nat  BY <1>3, SumNat
<1>5. U # T  BY <1>4
<1>6. PICK x \in U : x \notin T  BY <1>5
<1>7. U \ {x} \in SUBSET S /\ T \subseteq U \ {x} /\ U \ {x} \notin F  BY <1>2, <1>3, <1>6
<1>8. SumOf(f, T) <= SumOf(f, U \ {x})  BY <1>7
<1>9. SumOf(f, U) = f[x] + SumOf(f, U \ {x})  BY <1>3, SumWithout
<1>10. IsFiniteSet(U \ {x}) /\ f[x] \in Nat  BY <1>3, FS_Subset
<1>11. SumOf(f, U \ {x}) \in Nat  BY <1>10, <1>7, SumNat
<1> QED  BY <1>4, <1>8, <1>9, <1>10, <1>11
================================================================================
