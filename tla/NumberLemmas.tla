---------------------------- MODULE NumberLemmas ----------------------------
(***************************************************************************)
(* What the proofs about the pallets need to know of numbers and of sums.  *)
(* Induction is over the members of a set, from a least counterexample.    *)
(***************************************************************************)
EXTENDS Integers, FiniteSetsExt, FiniteSetTheorems, WellFoundedInduction, TLAPS

\* A non-empty set of natural numbers has a least element.
LEMMA LeastNumber ==
  ASSUME NEW T \in SUBSET Nat, T # {}
  PROVE  \E m \in T : \A y \in T : m <= y
<1>1. PICK below : below = OpToRel(<, Nat)
  OBVIOUS
<1>2. IsWellFoundedOn(below, Nat)
  BY <1>1, NatLessThanWellFounded
<1>3. \A x, y \in Nat : <<x, y>> \in below <=> x < y
  BY <1>1 DEF OpToRel
<1>4. PICK m \in T : \A y \in T : ~(<<y, m>> \in below)
  BY <1>2, WFMin
<1>5. ASSUME NEW y \in T PROVE m <= y
  <2>1. y \in Nat /\ m \in Nat
    OBVIOUS
  <2>2. ~(y < m)
    BY <1>3, <1>4, <2>1, Zenon
  <2>3. QED
    BY <2>1, <2>2
<1>6. QED
  BY <1>5

\* Induction on natural numbers, over the set of numbers with the property.
LEMMA EveryNumber ==
  ASSUME NEW T \in SUBSET Nat, 0 \in T, \A n \in T : n + 1 \in T
  PROVE  T = Nat
<1> SUFFICES ASSUME T # Nat PROVE FALSE
  OBVIOUS
<1>1. PICK m \in Nat \ T : \A y \in Nat \ T : m <= y
  BY LeastNumber
<1>2. m # 0 /\ m - 1 \in Nat
  BY <1>1
<1>3. m - 1 \in T
  BY <1>1, <1>2
<1>4. (m - 1) + 1 = m
  BY <1>1
<1>5. QED
  BY <1>1, <1>3, <1>4

\* A non-empty set of numbers up to n has a largest element.
LEMMA MaxOfBounded ==
  ASSUME NEW n \in Nat, NEW S \in SUBSET (0..n), S # {}
  PROVE  Max(S) \in S /\ \A y \in S : y <= Max(S)
<1>1. PICK T : T = {k \in Nat : n - k \in S}
  OBVIOUS
<1>2. T \in SUBSET Nat /\ T # {}
  <2>1. PICK x \in S : x \in 0..n
    OBVIOUS
  <2>2. n - x \in T
    BY <1>1, <2>1
  <2>3. QED
    BY <1>1, <2>2
<1>3. PICK m \in T : \A y \in T : m <= y
  BY <1>2, LeastNumber
<1>4. n - m \in S /\ \A y \in S : n - m >= y
  <2>1. m \in Nat /\ n - m \in S
    BY <1>1
  <2>2. ASSUME NEW y \in S PROVE n - m >= y
    <3>1. y \in 0..n /\ n - y \in T
      BY <1>1
    <3>2. QED
      BY <1>3, <2>1, <3>1
  <2>3. QED
    BY <2>1, <2>2
<1>5. QED
  BY <1>4 DEF Max

-----------------------------------------------------------------------------
(* Sums over a finite set, as MapThenSumSet adds them up. *)

\* The element that the sum takes out of a set first.
Taken(s) == CHOOSE x \in s : TRUE

\* What is left of a set once that element is out.
Left(s) == s \ {Taken(s)}

\* One unfolding of the sum of l over s, given the sums f of smaller sets.
Unfolded(f, l, s) == IF s = {} THEN 0 ELSE l[Taken(s)] + f[Left(s)]

\* The sums of l over the subsets of S.
Sums(l, S) == CHOOSE f : f = [s \in SUBSET S |-> Unfolded(f, l, s)]

\* Taking an element out of a subset leaves a smaller subset.
LEMMA TakenOut ==
  ASSUME NEW S, IsFiniteSet(S), NEW s \in SUBSET S, s # {}
  PROVE  /\ Taken(s) \in s /\ Taken(s) \in S
         /\ Left(s) \in SUBSET S
         /\ Cardinality(s) \in Nat /\ Cardinality(Left(s)) \in Nat
         /\ Cardinality(Left(s)) = Cardinality(s) - 1
<1>1. Taken(s) \in s
  BY DEF Taken
<1>2. IsFiniteSet(s)
  BY FS_Subset
<1>3. IsFiniteSet(Left(s)) /\ Cardinality(Left(s)) = Cardinality(s) - 1
  BY <1>1, <1>2, FS_RemoveElement DEF Left
<1>4. QED
  BY <1>1, <1>2, <1>3, FS_CardinalityType DEF Left

\* Induction on the subsets of a finite set, one element out at a time.
LEMMA EverySubset ==
  ASSUME NEW S, IsFiniteSet(S), NEW T \in SUBSET SUBSET S, {} \in T,
         \A s \in SUBSET S : s # {} /\ Left(s) \in T => s \in T
  PROVE  T = SUBSET S
<1> SUFFICES ASSUME NEW r \in SUBSET S, r \notin T PROVE FALSE
  OBVIOUS
<1>1. PICK N : N = {n \in Nat : \A s \in SUBSET S : Cardinality(s) = n => s \in T}
  OBVIOUS
<1>2. 0 \in N
  <2>1. ASSUME NEW s \in SUBSET S, Cardinality(s) = 0 PROVE s \in T
    BY <2>1, FS_Subset, FS_EmptySet
  <2>2. QED
    BY <1>1, <2>1
<1>3. ASSUME NEW n \in N PROVE n + 1 \in N
  <2>1. n \in Nat
    BY <1>1
  <2>2. ASSUME NEW s \in SUBSET S, Cardinality(s) = n + 1 PROVE s \in T
    <3>1. s # {}
      BY <2>1, <2>2, FS_EmptySet
    <3>2. Left(s) \in SUBSET S /\ Cardinality(Left(s)) = n
      BY <2>1, <2>2, <3>1, TakenOut
    <3>3. QED
      BY <1>1, <3>1, <3>2
  <2>3. QED
    BY <1>1, <2>1, <2>2
<1>4. N = Nat
  BY <1>1, <1>2, <1>3, EveryNumber
<1>5. Cardinality(r) \in Nat
  BY FS_Subset, FS_CardinalityType
<1>6. QED
  BY <1>1, <1>4, <1>5

\* f is the sum of l on the subsets of S with at most n elements.
SumsTo(n, f, l, S) ==
  /\ f \in [SUBSET S -> Int]
  /\ \A s \in SUBSET S : Cardinality(s) <= n => f[s] = Unfolded(f, l, s)

\* For every bound n there is such a function.
LEMMA SumsUpTo ==
  ASSUME NEW S, IsFiniteSet(S), NEW l \in [S -> Int]
  PROVE  \A n \in Nat : \E f : SumsTo(n, f, l, S)
<1>1. PICK N : N = {n \in Nat : \E f : SumsTo(n, f, l, S)}
  OBVIOUS
<1>2. 0 \in N
  <2>1. PICK f : f = [s \in SUBSET S |-> 0]
    OBVIOUS
  <2>2. f \in [SUBSET S -> Int]
    BY <2>1
  <2>3. ASSUME NEW s \in SUBSET S, Cardinality(s) <= 0
        PROVE  f[s] = Unfolded(f, l, s)
    <3>1. IsFiniteSet(s) /\ Cardinality(s) \in Nat
      BY FS_Subset, FS_CardinalityType
    <3>2. Cardinality(s) = 0
      BY <2>3, <3>1
    <3>3. s = {}
      BY <3>1, <3>2, FS_EmptySet
    <3>4. QED
      BY <2>1, <3>3 DEF Unfolded
  <2>4. QED
    BY <1>1, <2>2, <2>3 DEF SumsTo
<1>3. ASSUME NEW n \in N PROVE n + 1 \in N
  <2>1. n \in Nat
    BY <1>1
  <2>2. PICK f \in [SUBSET S -> Int] :
          \A s \in SUBSET S : Cardinality(s) <= n => f[s] = Unfolded(f, l, s)
    BY <1>1 DEF SumsTo
  <2>3. PICK g : g = [s \in SUBSET S |-> Unfolded(f, l, s)]
    OBVIOUS
  <2>4. g \in [SUBSET S -> Int]
    <3>1. ASSUME NEW s \in SUBSET S PROVE Unfolded(f, l, s) \in Int
      <4>1. CASE s = {}
        BY <4>1 DEF Unfolded
      <4>2. CASE s # {}
        <5>1. l[Taken(s)] \in Int /\ f[Left(s)] \in Int
          BY <4>2, TakenOut
        <5>2. QED
          BY <4>2, <5>1 DEF Unfolded
      <4>3. QED
        BY <4>1, <4>2
    <3>2. QED
      BY <2>3, <3>1
  <2>5. ASSUME NEW s \in SUBSET S, Cardinality(s) <= n + 1
        PROVE  g[s] = Unfolded(g, l, s)
    <3>1. CASE s = {}
      BY <2>3, <3>1 DEF Unfolded
    <3>2. CASE s # {}
      <4>1. Left(s) \in SUBSET S /\ Cardinality(Left(s)) <= n
        BY <2>1, <2>5, <3>2, TakenOut
      <4>2. g[Left(s)] = f[Left(s)]
        BY <2>2, <2>3, <4>1
      <4>3. g[s] = Unfolded(f, l, s)
        BY <2>3
      <4>4. QED
        BY <3>2, <4>2, <4>3 DEF Unfolded
    <3>3. QED
      BY <3>1, <3>2
  <2>6. QED
    BY <1>1, <2>1, <2>4, <2>5 DEF SumsTo
<1>4. N = Nat
  BY <1>1, <1>2, <1>3, EveryNumber
<1>5. QED
  BY <1>1, <1>4

\* The sums over the subsets of a finite set exist: Sums is what it says.
LEMMA SumsUnfold ==
  ASSUME NEW S, IsFiniteSet(S), NEW l \in [S -> Int]
  PROVE  Sums(l, S) = [s \in SUBSET S |-> Unfolded(Sums(l, S), l, s)]
<1>1. Cardinality(S) \in Nat
  BY FS_CardinalityType
<1>2. PICK f : SumsTo(Cardinality(S), f, l, S)
  BY <1>1, SumsUpTo
<1>3. \A s \in SUBSET S : Cardinality(s) <= Cardinality(S)
  BY FS_Subset
<1>4. f = [s \in SUBSET S |-> Unfolded(f, l, s)]
  BY <1>2, <1>3 DEF SumsTo
<1>5. QED
  BY <1>4, Zenon DEF Sums

\* The sum over nothing is zero, any other takes out one element.
LEMMA SumsValue ==
  ASSUME NEW S, IsFiniteSet(S), NEW l \in [S -> Int]
  PROVE  /\ Sums(l, S)[{}] = 0
         /\ \A s \in SUBSET S :
              s # {} => Sums(l, S)[s] = l[Taken(s)] + Sums(l, S)[Left(s)]
<1>1. PICK f : f = Sums(l, S)
  OBVIOUS
<1>2. f = [s \in SUBSET S |-> Unfolded(f, l, s)]
  BY <1>1, SumsUnfold
<1>3. \A s \in SUBSET S : f[s] = Unfolded(f, l, s)
  BY <1>2
<1>4. f[{}] = 0
  BY <1>3 DEF Unfolded
<1>5. \A s \in SUBSET S : s # {} => f[s] = l[Taken(s)] + f[Left(s)]
  BY <1>3 DEF Unfolded
<1>6. QED
  BY <1>1, <1>4, <1>5

\* A sum of integers is an integer.
LEMMA SumsType ==
  ASSUME NEW S, IsFiniteSet(S), NEW l \in [S -> Int]
  PROVE  \A s \in SUBSET S : Sums(l, S)[s] \in Int
<1>1. PICK T : T = {s \in SUBSET S : Sums(l, S)[s] \in Int}
  OBVIOUS
<1>2. {} \in T
  BY <1>1, SumsValue
<1>3. ASSUME NEW s \in SUBSET S, s # {}, Left(s) \in T PROVE s \in T
  <2>1. l[Taken(s)] \in Int
    BY <1>3, TakenOut
  <2>2. QED
    BY <1>1, <1>3, <2>1, SumsValue
<1>4. T = SUBSET S
  BY <1>1, <1>2, <1>3, EverySubset
<1>5. QED
  BY <1>1, <1>4

\* The sum over the whole set: MapThenSumSet of a function's values, unfolded.
Total(l, S) == Sums(l, S)[S]

\* A function that is zero everywhere adds up to zero.
LEMMA SumOfZeros ==
  ASSUME NEW S, IsFiniteSet(S), NEW l, l = [b \in S |-> 0]
  PROVE  Total(l, S) = 0
<1>1. \A b \in S : l[b] = 0
  OBVIOUS
<1>2. l \in [S -> Int]
  OBVIOUS
<1>3. PICK T : T = {s \in SUBSET S : Sums(l, S)[s] = 0}
  OBVIOUS
<1>4. {} \in T
  BY <1>2, <1>3, SumsValue
<1>5. ASSUME NEW s \in SUBSET S, s # {}, Left(s) \in T PROVE s \in T
  <2>1. l[Taken(s)] = 0
    BY <1>1, <1>5, TakenOut
  <2>2. QED
    BY <1>2, <1>3, <1>5, <2>1, SumsValue
<1>6. T = SUBSET S
  BY <1>3, <1>4, <1>5, EverySubset
<1>7. Sums(l, S)[S] = 0
  BY <1>3, <1>6
<1>8. QED
  BY <1>7 DEF Total

\* How much of an amount at p falls within s.
AmountIn(s, p, amount) == IF p \in s THEN amount ELSE 0

\* Adding d at p and taking e off at q changes the sum by d and by e.
LEMMA SumMoves ==
  ASSUME NEW S, IsFiniteSet(S), NEW l \in [S -> Int], NEW m \in [S -> Int],
         NEW p \in S, NEW q \in S, NEW d \in Int, NEW e \in Int,
         \A a \in S : m[a] = l[a] + (IF a = p THEN d ELSE 0)
                                 - (IF a = q THEN e ELSE 0)
  PROVE  Total(m, S) = Total(l, S) + d - e
<1>1. PICK T : T = {s \in SUBSET S : Sums(m, S)[s] =
                     Sums(l, S)[s] + AmountIn(s, p, d) - AmountIn(s, q, e)}
  OBVIOUS
<1>2. {} \in T
  <2>1. Sums(m, S)[{}] = 0 /\ Sums(l, S)[{}] = 0
    BY SumsValue
  <2>2. QED
    BY <1>1, <2>1 DEF AmountIn
<1>3. ASSUME NEW s \in SUBSET S, s # {}, Left(s) \in T PROVE s \in T
  <2>1. PICK x : x = Taken(s)
    OBVIOUS
  <2>2. x \in s /\ x \in S /\ Left(s) \in SUBSET S /\ Left(s) = s \ {x}
    BY <1>3, <2>1, TakenOut DEF Left
  <2>3. /\ Sums(m, S)[s] = m[x] + Sums(m, S)[Left(s)]
        /\ Sums(l, S)[s] = l[x] + Sums(l, S)[Left(s)]
    BY <1>3, <2>1, SumsValue
  <2>4. /\ Sums(m, S)[Left(s)] \in Int /\ Sums(l, S)[Left(s)] \in Int
        /\ m[x] \in Int /\ l[x] \in Int
    BY <2>2, SumsType
  <2>5. Sums(m, S)[Left(s)] = Sums(l, S)[Left(s)]
          + AmountIn(Left(s), p, d) - AmountIn(Left(s), q, e)
    BY <1>1, <1>3
  <2>6. m[x] = l[x] + AmountIn({x}, p, d) - AmountIn({x}, q, e)
    BY <2>2 DEF AmountIn
  <2>7. /\ AmountIn(s, p, d) = AmountIn({x}, p, d) + AmountIn(Left(s), p, d)
        /\ AmountIn(s, q, e) = AmountIn({x}, q, e) + AmountIn(Left(s), q, e)
    BY <2>2 DEF AmountIn
  <2>8. /\ AmountIn({x}, p, d) \in Int /\ AmountIn({x}, q, e) \in Int
        /\ AmountIn(Left(s), p, d) \in Int /\ AmountIn(Left(s), q, e) \in Int
    BY DEF AmountIn
  <2>9. Sums(m, S)[s] = Sums(l, S)[s] + AmountIn(s, p, d) - AmountIn(s, q, e)
    BY <2>3, <2>4, <2>5, <2>6, <2>7, <2>8
  <2>10. QED
    BY <1>1, <2>9
<1>4. T = SUBSET S
  BY <1>1, <1>2, <1>3, EverySubset
<1>5. Sums(m, S)[S] = Sums(l, S)[S] + d - e
  BY <1>1, <1>4 DEF AmountIn
<1>6. QED
  BY <1>5 DEF Total
=============================================================================
