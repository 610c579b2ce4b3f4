------------------------------ MODULE ProofTools ------------------------------
(***************************************************************************)
(* Facts about numbers, sequences and folds that several proofs need and   *)
(* the library states only for operators.  Induction is stated of sets: a  *)
(* property P of numbers is the set {n \in Nat : P(n)}.                    *)
(***************************************************************************)
EXTENDS Integers, Sequences, FiniteSets, FiniteSetTheorems, SequenceTheorems,
        WellFoundedInduction, TLAPS

\* A non-empty set of numbers has a least one.
LEMMA Least ==
  ASSUME NEW T \in SUBSET Nat, T # {}
  PROVE  \E x \in T : \A y \in T : x <= y
<1> DEFINE R == OpToRel(<, Nat)
<1>1. IsWellFoundedOn(R, Nat)
  BY NatLessThanWellFounded
<1>2. \A x, y \in Nat : y < x => <<y, x>> \in R
  BY DEF OpToRel
<1> HIDE DEF R
<1>3. PICK x \in T : \A y \in T : ~ (<<y, x>> \in R)
  BY <1>1, WFMin
<1>4. \A y \in T : ~ (y < x) => x <= y
  OBVIOUS
<1> QED  BY <1>2, <1>3, <1>4

\* A set that holds nought, and the successor of each number below n that it
\* holds, holds every number up to n.
LEMMA InductionUpTo ==
  ASSUME NEW n \in Nat, NEW I, 0 \in I,
         \A k \in 0 .. n - 1 : k \in I => k + 1 \in I
  PROVE  \A k \in 0 .. n : k \in I
<1> DEFINE Bad == {k \in 0 .. n : k \notin I}
<1>1. SUFFICES ASSUME Bad # {} PROVE FALSE
  OBVIOUS
<1>2. Bad \in SUBSET Nat
  OBVIOUS
<1> HIDE DEF Bad
<1>3. PICK x \in Bad : \A y \in Bad : x <= y
  BY <1>1, <1>2, Least
<1>4. x \in 0 .. n /\ x \notin I
  BY <1>3 DEF Bad
<1>5. x # 0 /\ x - 1 \in 0 .. n - 1
  BY <1>4
<1>6. x - 1 \notin I
  BY <1>4, <1>5
<1>7. x - 1 \in Bad
  BY <1>5, <1>6 DEF Bad
<1> QED  BY <1>3, <1>4, <1>7

\* The largest number of a set, as the folds of the library choose it.
Top(s) == CHOOSE x \in s : \A y \in s : x >= y

\* The largest number of a set below k that has k is k, and that of any other
\* non-empty set is its own.
LEMMA TopIs ==
  ASSUME NEW k \in Nat, NEW s \in SUBSET (1 .. k), k \in s
  PROVE  Top(s) = k
<1>1. \A y \in s : k >= y
  OBVIOUS
<1>2. \A x \in s : (\A y \in s : x >= y) => x = k
  OBVIOUS
<1> QED  BY <1>1, <1>2 DEF Top

LEMMA TopType ==
  ASSUME NEW k \in Nat, NEW s \in SUBSET (1 .. k), s # {}
  PROVE  Top(s) \in s
<1> DEFINE Down == {k - y : y \in s}
<1>1. Down \in SUBSET Nat /\ Down # {}
  <2>1. \A y \in s : k - y \in Nat
    OBVIOUS
  <2>2. PICK y \in s : TRUE
    OBVIOUS
  <2> QED  BY <2>1, <2>2
<1> HIDE DEF Down
<1>2. PICK d \in Down : \A e \in Down : d <= e
  BY <1>1, Least
<1>3. PICK x \in s : d = k - x
  BY <1>2 DEF Down
<1>4. \A y \in s : k - y \in Down
  BY DEF Down
<1>5. \A y \in s : x >= y
  BY <1>2, <1>3, <1>4
<1> QED  BY <1>5 DEF Top

\* A fold over the subsets of 1 .. n that takes the largest element last.
IsFold(it, T, b, n, step) ==
  /\ it \in [SUBSET (1 .. n) -> T]
  /\ \A s \in SUBSET (1 .. n) :
        it[s] = IF s = {} THEN b ELSE step[<<it[s \ {Top(s)}], Top(s)>>]

\* The recursion of such a fold has a solution.
LEMMA FoldExists ==
  ASSUME NEW T, NEW b \in T, NEW n \in Nat, NEW step \in [T \X (1 .. n) -> T]
  PROVE  \E it : IsFold(it, T, b, n, step)
<1> DEFINE H == [SUBSET (1 .. n) -> T]
           Right(h, s) ==
              h[s] = IF s = {} THEN b ELSE step[<<h[s \ {Top(s)}], Top(s)>>]
           I == {k \in 0 .. n : \E h \in H : \A s \in SUBSET (1 .. k) : Right(h, s)}
<1>1. 0 \in I
  <2> DEFINE h == [s \in SUBSET (1 .. n) |-> b]
  <2>1. h \in H /\ \A s \in SUBSET (1 .. 0) : Right(h, s)
    <3>1. \A s \in SUBSET (1 .. 0) : s = {}
      OBVIOUS
    <3> QED  BY <3>1
  <2> HIDE DEF h, H, Right
  <2> QED  BY <2>1
<1>2. ASSUME NEW k \in 0 .. n - 1, k \in I
      PROVE  k + 1 \in I
  <2>1. PICK h \in H : \A s \in SUBSET (1 .. k) : Right(h, s)
    BY <1>2
  <2> DEFINE m == k + 1
             g == [s \in SUBSET (1 .. n) |->
                     IF m \in s /\ s \in SUBSET (1 .. m)
                     THEN step[<<h[s \ {m}], m>>] ELSE h[s]]
  <2>2. m \in 1 .. n /\ k \in Nat /\ m \in Nat /\ SUBSET (1 .. m) \subseteq SUBSET (1 .. n)
    OBVIOUS
  <2>3. g \in H
    <3>1. ASSUME NEW s \in SUBSET (1 .. n)
          PROVE  h[s] \in T /\ step[<<h[s \ {m}], m>>] \in T
      <4>1. h[s] \in T /\ h[s \ {m}] \in T
        BY <3>1
      <4> QED  BY <4>1, <2>2
    <3> QED  BY <3>1
  <2>4. ASSUME NEW s \in SUBSET (1 .. m)
        PROVE  Right(g, s)
    <3>1. CASE m \in s
      <4>1. Top(s) = m
        BY <3>1, <2>2, TopIs
      <4>2. s \ {m} \in SUBSET (1 .. n) /\ m \notin s \ {m} /\ s \in SUBSET (1 .. n)
        BY <2>2, <2>4
      <4>3. g[s \ {m}] = h[s \ {m}]
        BY <4>2
      <4>4. g[s] = step[<<h[s \ {m}], m>>]
        BY <4>2, <3>1, <2>4
      <4> HIDE DEF g
      <4> QED  BY <3>1, <4>1, <4>3, <4>4
    <3>2. CASE m \notin s
      <4>1. s \in SUBSET (1 .. k) /\ s \in SUBSET (1 .. n)
        BY <3>2, <2>2, <2>4
      <4>2. g[s] = h[s]
        BY <3>2, <4>1
      <4>3. \A x : g[s \ {x}] = h[s \ {x}]
        BY <3>2, <4>1
      <4>4. Right(h, s)
        BY <2>1, <4>1
      <4> HIDE DEF g
      <4> QED  BY <4>2, <4>3, <4>4
    <3> QED  BY <3>1, <3>2
  <2> HIDE DEF Right, H, g
  <2> QED  BY <2>2, <2>3, <2>4
<1> HIDE DEF Right, H, I
<1>3. \A k \in 0 .. n : k \in I
  BY <1>1, <1>2, InductionUpTo
<1>4. n \in I
  BY <1>3
<1> QED  BY <1>4 DEF I, H, Right, IsFold

\* The rank of each number up to n in a total order of them: how many are not
\* after it.
Ranks(n, order) == [k \in 1 .. n |-> Cardinality({j \in 1 .. n : <<j, k>> \in order})]

TotalOrder(n, order) ==
  /\ \A j, k \in 1 .. n : <<j, k>> \in order \/ <<k, j>> \in order
  /\ \A j, k \in 1 .. n : <<j, k>> \in order /\ <<k, j>> \in order => j = k
  /\ \A i, j, k \in 1 .. n :
        <<i, j>> \in order /\ <<j, k>> \in order => <<i, k>> \in order

\* Each rank up to n is somebody's, and who is not before is not ranked before.
LEMMA RankOrders ==
  ASSUME NEW n \in Nat, NEW order, TotalOrder(n, order)
  PROVE  /\ Ranks(n, order) \in [1 .. n -> 1 .. n]
         /\ \A k \in 1 .. n : \E j \in 1 .. n : Ranks(n, order)[j] = k
         /\ \A j, k \in 1 .. n : Ranks(n, order)[j] = Ranks(n, order)[k] => j = k
         /\ \A j, k \in 1 .. n :
               Ranks(n, order)[j] <= Ranks(n, order)[k] => <<j, k>> \in order
<1> DEFINE Upto(k) == {j \in 1 .. n : <<j, k>> \in order}
           rank == Ranks(n, order)
<1>1. IsFiniteSet(1 .. n) /\ Cardinality(1 .. n) = n
  BY FS_Interval
<1>2. ASSUME NEW k \in 1 .. n
      PROVE  IsFiniteSet(Upto(k)) /\ Cardinality(Upto(k)) \in 1 .. n
  <2>1. Upto(k) \in SUBSET (1 .. n) /\ k \in Upto(k)
    BY DEF TotalOrder
  <2> HIDE DEF Upto
  <2>2. IsFiniteSet(Upto(k)) /\ Cardinality(Upto(k)) <= n
    BY <1>1, <2>1, FS_Subset
  <2>3. Cardinality(Upto(k)) \in Nat /\ Cardinality(Upto(k)) # 0
    BY <2>1, <2>2, FS_CardinalityType, FS_EmptySet
  <2> QED  BY <2>2, <2>3
<1>3. rank \in [1 .. n -> 1 .. n]
  BY <1>2 DEF Ranks
<1>4. ASSUME NEW j \in 1 .. n, NEW k \in 1 .. n, <<j, k>> \in order, j # k
      PROVE  rank[j] < rank[k]
  <2>1. Upto(j) \in SUBSET Upto(k) /\ k \in Upto(k) /\ k \notin Upto(j)
    BY <1>4 DEF TotalOrder
  <2>2. rank[j] = Cardinality(Upto(j)) /\ rank[k] = Cardinality(Upto(k))
    BY DEF Ranks
  <2> HIDE DEF Upto, rank
  <2>3. Cardinality(Upto(j)) <= Cardinality(Upto(k)) /\ Cardinality(Upto(k)) # Cardinality(Upto(j))
    BY <1>2, <2>1, FS_Subset
  <2> QED  BY <1>2, <2>2, <2>3
<1> HIDE DEF rank
<1>5. \A j, k \in 1 .. n : rank[j] <= rank[k] => <<j, k>> \in order
  <2> SUFFICES ASSUME NEW j \in 1 .. n, NEW k \in 1 .. n, <<j, k>> \notin order
               PROVE  ~(rank[j] <= rank[k])
    OBVIOUS
  <2>1. <<k, j>> \in order /\ j # k
    BY DEF TotalOrder
  <2>2. rank[k] < rank[j] /\ rank[j] \in 1 .. n /\ rank[k] \in 1 .. n
    BY <1>3, <1>4, <2>1
  <2> QED  BY <2>2
<1>6. \A j, k \in 1 .. n : rank[j] = rank[k] => j = k
  <2> SUFFICES ASSUME NEW j \in 1 .. n, NEW k \in 1 .. n, rank[j] = rank[k], j # k
               PROVE  FALSE
    OBVIOUS
  <2>1. rank[j] < rank[k] \/ rank[k] < rank[j]
    BY <1>4 DEF TotalOrder
  <2> QED  BY <1>3, <2>1
<1>7. rank \in Injection(1 .. n, 1 .. n)
  BY <1>3, <1>6 DEF Injection, IsInjective
<1>8. rank \in Surjection(1 .. n, 1 .. n)
  BY <1>1, <1>7, FS_Injection
<1>9. \A k \in 1 .. n : \E j \in 1 .. n : rank[j] = k
  BY <1>8 DEF Surjection
<1> QED  BY <1>3, <1>5, <1>6, <1>9 DEF rank

===============================================================================
