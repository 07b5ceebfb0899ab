---------------------------- MODULE Heap_proofs ----------------------------
(* Proofs about Heap, for every heap and every set of requests.             *)
EXTENDS Heap, FiniteSetTheorems, WellFoundedInduction, TLAPS

(***************************************************************************)
(* Sums over finite sets, by induction on their size.                      *)
(***************************************************************************)

\* Induction over the natural numbers, as the least element of a set.
LEMMA LeastNumber ==
    ASSUME NEW T \in SUBSET Nat, T # {}
    PROVE  \E n \in T : \A m \in T : n <= m
<1>. DEFINE R == {ss \in Nat \X Nat : ss[1] < ss[2]}
<1>1. IsWellFoundedOn(R, Nat)
  BY NatLessThanWellFounded DEF OpToRel
<1>2. \A m, n \in Nat : <<m, n>> \in R <=> m < n
  OBVIOUS
<1>. HIDE DEF R
<1>3. \E n \in T : \A m \in T : ~ (<<m, n>> \in R)
  BY <1>1, WFMin, Zenon
<1>4. \A m, n \in Nat : ~ (m < n) => n <= m
  OBVIOUS
<1>. QED  BY <1>2, <1>3, <1>4

\* The function MapThenSumSet is defined by: the sums over the subsets of S.
Pick(s) == CHOOSE x \in s : TRUE
Sums(f, S) ==
    CHOOSE iter : iter = [s \in SUBSET S |->
                             IF s = {} THEN 0 ELSE f[Pick(s)] + iter[s \ {Pick(s)}]]
Total(f, S) == MapThenSumSet(LAMBDA a : f[a], S)

LEMMA TotalIsSum ==
    ASSUME NEW S, NEW f
    PROVE  Total(f, S) = Sums(f, S)[S]
BY DEF Total, MapThenSumSet, MapThenFoldSet, Sums, Pick

\* A set with one element less.
LEMMA Smaller ==
    ASSUME NEW s, IsFiniteSet(s), NEW x \in s
    PROVE  /\ IsFiniteSet(s \ {x}) /\ Cardinality(s) \in Nat /\ Cardinality(s \ {x}) \in Nat
           /\ Cardinality(s \ {x}) = Cardinality(s) - 1
BY FS_RemoveElement, FS_CardinalityType

LEMMA PickIsIn ==
    ASSUME NEW s, s # {}
    PROVE  Pick(s) \in s
BY DEF Pick

\* The recursion is well-founded: the function exists.
LEMMA SumsExist ==
    ASSUME NEW S, IsFiniteSet(S), NEW f
    PROVE  /\ Sums(f, S)[{}] = 0
           /\ \A s \in SUBSET S : s # {} =>
                 Sums(f, S)[s] = f[Pick(s)] + Sums(f, S)[s \ {Pick(s)}]
<1>. DEFINE Body(g, s) == IF s = {} THEN 0 ELSE f[Pick(s)] + g[s \ {Pick(s)}]
            Small(n) == {s \in SUBSET S : Cardinality(s) <= n}
            Good(g, n) == g = [s \in Small(n) |-> Body(g, s)]
            Bad == {n \in Nat : ~ \E g : Good(g, n)}
<1>1. \A s \in SUBSET S : IsFiniteSet(s) /\ Cardinality(s) \in Nat /\ Cardinality(s) <= Cardinality(S)
  BY FS_Subset, FS_CardinalityType
<1>2. \A s \in SUBSET S : s # {} =>
          /\ Pick(s) \in s /\ s \ {Pick(s)} \in SUBSET S
          /\ Cardinality(s \ {Pick(s)}) = Cardinality(s) - 1
  <2>1. ASSUME NEW s \in SUBSET S, s # {}
        PROVE  Pick(s) \in s /\ s \ {Pick(s)} \in SUBSET S
               /\ Cardinality(s \ {Pick(s)}) = Cardinality(s) - 1
    <3>1. Pick(s) \in s
      BY <2>1, PickIsIn
    <3>. QED  BY <3>1, <1>1, Smaller
  <2>. QED  BY <2>1
<1>3. \E g : Good(g, 0)
  <2>. DEFINE g == [s \in Small(0) |-> 0]
  <2>1. \A s \in Small(0) : s = {}
    <3>1. ASSUME NEW s \in Small(0), s # {} PROVE FALSE
      <4>1. Cardinality(s) \in Nat /\ Cardinality(s) <= 0
        BY <1>1
      <4>2. Cardinality(s \ {Pick(s)}) = Cardinality(s) - 1 /\ Cardinality(s \ {Pick(s)}) \in Nat
        BY <3>1, <1>1, <1>2
      <4>. QED  BY <4>1, <4>2
    <3>. QED  BY <3>1
  <2>2. \A s \in Small(0) : Body(g, s) = 0
    BY <2>1
  <2>. HIDE DEF Body
  <2>3. g = [s \in Small(0) |-> Body(g, s)]
    BY <2>2
  <2>. QED  BY <2>3
<1>4. ASSUME NEW n \in Nat, NEW g, Good(g, n) PROVE \E h : Good(h, n + 1)
  <2>. DEFINE h == [s \in Small(n + 1) |-> IF s \in Small(n) THEN g[s] ELSE Body(g, s)]
  <2>1. ASSUME NEW s \in Small(n + 1) PROVE h[s] = Body(h, s)
    <3>1. h[s] = Body(g, s)
      <4>1. CASE s \in Small(n)
        <5>1. g[s] = Body(g, s)
          <6>. HIDE DEF Body, Small
          <6>. QED  BY <4>1, <1>4
        <5>. QED  BY <4>1, <5>1
      <4>2. CASE s \notin Small(n)
        BY <4>2
      <4>. QED  BY <4>1, <4>2
    <3>2. CASE s = {}
      BY <3>1, <3>2
    <3>3. CASE s # {}
      <4>. DEFINE r == s \ {Pick(s)}
      <4>1. r \in Small(n) /\ r \in Small(n + 1)
        BY <3>3, <1>1, <1>2
      <4>2. h[r] = g[r]
        BY <4>1
      <4>3. Body(g, s) = f[Pick(s)] + g[r] /\ Body(h, s) = f[Pick(s)] + h[r]
        BY <3>3
      <4>. QED  BY <3>1, <4>2, <4>3
    <3>. QED  BY <3>2, <3>3
  <2>2. h = [s \in Small(n + 1) |-> h[s]]
    OBVIOUS
  <2>. HIDE DEF h, Body, Small
  <2>3. h = [s \in Small(n + 1) |-> Body(h, s)]
    BY <2>1, <2>2
  <2>. QED  BY <2>3
<1>5. Bad = {}
  <2>. HIDE DEF Good
  <2>1. SUFFICES ASSUME Bad # {} PROVE FALSE
    OBVIOUS
  <2>2. PICK n \in Bad : \A m \in Bad : n <= m
    BY <2>1, LeastNumber
  <2>3. n \in Nat /\ n # 0
    BY <2>2, <1>3
  <2>4. n - 1 \in Nat /\ n - 1 \notin Bad /\ (n - 1) + 1 = n
    BY <2>2, <2>3
  <2>5. \E g : Good(g, n - 1)
    BY <2>4
  <2>6. \E h : Good(h, (n - 1) + 1)
    BY <2>4, <2>5, <1>4
  <2>. QED  BY <2>2, <2>4, <2>6
<1>6. Small(Cardinality(S)) = SUBSET S /\ Cardinality(S) \in Nat
  BY <1>1
<1>7. \E g : Good(g, Cardinality(S))
  <2>. HIDE DEF Good
  <2>. QED  BY <1>5, <1>6
<1>8. \E g : g = [s \in SUBSET S |-> Body(g, s)]
  <2>. HIDE DEF Body
  <2>. QED  BY <1>6, <1>7
<1>9. Sums(f, S) = [s \in SUBSET S |-> Body(Sums(f, S), s)]
  BY <1>8, Zenon DEF Sums
<1>. QED  BY <1>9

\* The sum of a set, an element taken off.
LEMMA SumOfSubset ==
    ASSUME NEW U, IsFiniteSet(U), NEW f
    PROVE  \A S \in SUBSET U : \A s \in SUBSET S : Sums(f, S)[s] = Total(f, s)
<1>. DEFINE Wrong(S, s) == Sums(f, S)[s] # Total(f, s)
            Bad == {n \in Nat : \E S \in SUBSET U : \E s \in SUBSET S : Cardinality(s) = n /\ Wrong(S, s)}
<1>1. \A s \in SUBSET U : IsFiniteSet(s) /\ Cardinality(s) \in Nat
  BY FS_Subset, FS_CardinalityType
<1>2. Bad = {}
  <2>1. SUFFICES ASSUME Bad # {} PROVE FALSE
    OBVIOUS
  <2>2. PICK n \in Bad : \A m \in Bad : n <= m
    <3>. HIDE DEF Wrong
    <3>. QED  BY <2>1, LeastNumber
  <2>30. PICK S \in SUBSET U : \E s \in SUBSET S : Cardinality(s) = n /\ Wrong(S, s)
    BY <2>2
  <2>3. PICK s \in SUBSET S : Cardinality(s) = n /\ Wrong(S, s)
    BY <2>30
  <2>4. IsFiniteSet(S) /\ IsFiniteSet(s) /\ s \in SUBSET U
    BY <1>1
  <2>5. Total(f, s) = Sums(f, s)[s]
    BY TotalIsSum
  <2>6. CASE s = {}
    <3>1. Sums(f, S)[s] = 0 /\ Sums(f, s)[s] = 0
      BY <2>4, <2>6, SumsExist
    <3>. QED  BY <3>1, <2>3, <2>5
  <2>7. CASE s # {}
    <3>. DEFINE r == s \ {Pick(s)}
    <3>1. Sums(f, S)[s] = f[Pick(s)] + Sums(f, S)[r]
      BY <2>4, <2>7, SumsExist
    <3>2. Sums(f, s)[s] = f[Pick(s)] + Sums(f, s)[r]
      BY <2>4, <2>7, SumsExist
    <3>3. Pick(s) \in s /\ Cardinality(r) = n - 1 /\ Cardinality(r) \in Nat /\ n \in Nat
      BY <2>2, <2>3, <2>4, <2>7, PickIsIn, Smaller
    <3>4. Cardinality(r) \notin Bad
      BY <3>3, <2>2
    <3>5. ~ Wrong(S, r) /\ ~ Wrong(s, r)
      <4>1. r \in SUBSET S /\ r \in SUBSET s /\ s \in SUBSET U
        BY <2>4
      <4>. HIDE DEF Wrong, r
      <4>. QED  BY <3>3, <3>4, <4>1
    <3>. QED  BY <3>1, <3>2, <3>5, <2>3, <2>5
  <2>. QED  BY <2>6, <2>7
<1>3. ASSUME NEW S \in SUBSET U, NEW s \in SUBSET S PROVE ~ Wrong(S, s)
  <2>1. Cardinality(s) \in Nat
    BY <1>1
  <2>. HIDE DEF Wrong
  <2>. QED  BY <2>1, <1>2
<1>. QED  BY <1>3

LEMMA TotalOfNone ==
    ASSUME NEW f
    PROVE  Total(f, {}) = 0
BY TotalIsSum, SumsExist, FS_EmptySet

LEMMA TotalOfPick ==
    ASSUME NEW S, IsFiniteSet(S), S # {}, NEW f
    PROVE  Total(f, S) = f[Pick(S)] + Total(f, S \ {Pick(S)})
<1>1. Sums(f, S)[S] = f[Pick(S)] + Sums(f, S)[S \ {Pick(S)}]
  BY SumsExist
<1>2. Sums(f, S)[S \ {Pick(S)}] = Total(f, S \ {Pick(S)})
  BY SumOfSubset
<1>. QED  BY <1>1, <1>2, TotalIsSum

\* An element of any choice taken off, and the type of a sum.
LEMMA TotalLaws ==
    ASSUME NEW U, IsFiniteSet(U), NEW f, \A x \in U : f[x] \in Nat
    PROVE  /\ Total(f, U) \in Nat
           /\ \A x \in U : Total(f, U) = f[x] + Total(f, U \ {x})
<1>. DEFINE Right(S) == /\ Total(f, S) \in Nat
                        /\ \A x \in S : Total(f, S) = f[x] + Total(f, S \ {x})
            Bad == {n \in Nat : \E S \in SUBSET U : Cardinality(S) = n /\ ~ Right(S)}
<1>1. \A S \in SUBSET U : IsFiniteSet(S) /\ Cardinality(S) \in Nat
  BY FS_Subset, FS_CardinalityType
<1>2. Bad = {}
  <2>1. SUFFICES ASSUME Bad # {} PROVE FALSE
    OBVIOUS
  <2>2. PICK n \in Bad : \A m \in Bad : n <= m
    <3>. HIDE DEF Right
    <3>. QED  BY <2>1, LeastNumber
  <2>3. PICK S \in SUBSET U : Cardinality(S) = n /\ ~ Right(S)
    <3>. HIDE DEF Right
    <3>. QED  BY <2>2
  <2>4. IsFiniteSet(S) /\ n \in Nat
    BY <1>1, <2>2
  <2>5. \A T \in SUBSET S : Cardinality(T) < n => Right(T)
    <3>. HIDE DEF Right
    <3>. QED  BY <1>1, <2>2, <2>4
  <2>6. CASE S = {}
    BY <2>3, <2>6, TotalOfNone
  <2>7. CASE S # {}
    <3>. DEFINE c == Pick(S)
                R == S \ {c}
    <3>1. c \in S /\ Total(f, S) = f[c] + Total(f, R) /\ f[c] \in Nat
      BY <2>4, <2>7, PickIsIn, TotalOfPick
    <3>. HIDE DEF c
    <3>2. Right(R)
      <4>0. Cardinality(R) = Cardinality(S) - 1 /\ Cardinality(R) \in Nat
        BY <2>4, <3>1, Smaller
      <4>1. R \in SUBSET S /\ Cardinality(R) < n
        BY <2>3, <2>4, <4>0
      <4>. HIDE DEF Right, R
      <4>. QED  BY <4>1, <2>5
    <3>3. ASSUME NEW x \in S, x # c PROVE Total(f, S) = f[x] + Total(f, S \ {x})
      <4>. DEFINE X == S \ {x}
      <4>1. Total(f, R) = f[x] + Total(f, R \ {x})
        BY <3>2, <3>3
      <4>2. Right(X)
        <5>1. X \in SUBSET S /\ Cardinality(X) < n
          BY <2>3, <2>4, Smaller
        <5>. HIDE DEF Right, X
        <5>. QED  BY <5>1, <2>5
      <4>3. Total(f, X) = f[c] + Total(f, X \ {c})
        BY <4>2, <3>1, <3>3
      <4>4. X \ {c} = R \ {x}
        OBVIOUS
      <4>5. f[x] \in Nat /\ Total(f, R \ {x}) \in Nat
        <5>1. R \ {x} \in SUBSET S /\ Cardinality(R \ {x}) < n
          <6>1. IsFiniteSet(R) /\ x \in R
            BY <1>1, <3>3
          <6>2. /\ Cardinality(R) = Cardinality(S) - 1 /\ Cardinality(R \ {x}) = Cardinality(R) - 1
                /\ Cardinality(R \ {x}) \in Nat
            <7>1. Cardinality(R \ {x}) = Cardinality(R) - 1 /\ Cardinality(R \ {x}) \in Nat
              <8>. HIDE DEF R
              <8>. QED  BY <6>1, Smaller
            <7>. QED  BY <7>1, <2>4, <3>1, Smaller
          <6>. QED  BY <6>2, <2>3, <2>4
        <5>2. Right(R \ {x})
          <6>. HIDE DEF Right, R
          <6>. QED  BY <5>1, <2>5
        <5>. QED  BY <5>2
      <4>6. X = S \ {x}
        OBVIOUS
      <4>. HIDE DEF R, X
      <4>. DEFINE rest == Total(f, R \ {x})
      <4>7. /\ Total(f, S) = f[c] + Total(f, R) /\ Total(f, R) = f[x] + rest
            /\ Total(f, X) = f[c] + rest /\ rest \in Nat /\ f[c] \in Nat /\ f[x] \in Nat
        BY <3>1, <4>1, <4>3, <4>4, <4>5
      <4>. HIDE DEF rest
      <4>8. Total(f, S) = f[x] + Total(f, X)
        BY <4>7
      <4>. QED  BY <4>6, <4>8
    <3>4. Right(S)
      <4>1. Total(f, R) \in Nat
        BY <3>2
      <4>2. Total(f, S) \in Nat
        BY <3>1, <4>1
      <4>. QED  BY <3>1, <3>3, <4>2
    <3>. QED  BY <3>4, <2>3
  <2>. QED  BY <2>6, <2>7
<1>3. Cardinality(U) \in Nat /\ U \in SUBSET U
  BY <1>1
<1>4. Right(U)
  <2>. HIDE DEF Right
  <2>. QED  BY <1>2, <1>3
<1>. QED  BY <1>4

\* A sum depends on the values of the elements only.
LEMMA TotalOfSame ==
    ASSUME NEW U, IsFiniteSet(U), NEW f, NEW g, \A x \in U : f[x] = g[x]
    PROVE  Total(f, U) = Total(g, U)
<1>. DEFINE Same(S) == Total(f, S) = Total(g, S)
            Bad == {n \in Nat : \E S \in SUBSET U : Cardinality(S) = n /\ ~ Same(S)}
<1>1. \A S \in SUBSET U : IsFiniteSet(S) /\ Cardinality(S) \in Nat
  BY FS_Subset, FS_CardinalityType
<1>2. Bad = {}
  <2>1. SUFFICES ASSUME Bad # {} PROVE FALSE
    OBVIOUS
  <2>2. PICK n \in Bad : \A m \in Bad : n <= m
    <3>. HIDE DEF Same
    <3>. QED  BY <2>1, LeastNumber
  <2>3. PICK S \in SUBSET U : Cardinality(S) = n /\ ~ Same(S)
    <3>. HIDE DEF Same
    <3>. QED  BY <2>2
  <2>4. IsFiniteSet(S) /\ n \in Nat
    BY <1>1, <2>2
  <2>5. S # {}
    BY <2>3, TotalOfNone
  <2>. DEFINE c == Pick(S)
              R == S \ {c}
  <2>6. c \in S /\ Total(f, S) = f[c] + Total(f, R) /\ Total(g, S) = g[c] + Total(g, R)
    BY <2>4, <2>5, PickIsIn, TotalOfPick
  <2>. HIDE DEF c
  <2>7. R \in SUBSET U /\ Cardinality(R) < n /\ Cardinality(R) \in Nat
    BY <2>3, <2>4, <2>6, Smaller
  <2>8. Same(R)
    <3>. HIDE DEF Same, R
    <3>1. Cardinality(R) \notin Bad
      BY <2>7, <2>2, <2>4
    <3>. QED  BY <3>1, <2>7
  <2>. QED  BY <2>3, <2>6, <2>8
<1>3. Cardinality(U) \in Nat /\ U \in SUBSET U
  BY <1>1
<1>4. Same(U)
  <2>. HIDE DEF Same
  <2>. QED  BY <1>2, <1>3
<1>. QED  BY <1>4

(***************************************************************************)
(* Multiples.                                                              *)
(***************************************************************************)

\* Quotient and remainder.
LEMMA DivMod ==
    ASSUME NEW x \in Nat, NEW w \in Nat \ {0}
    PROVE  /\ x \div w \in Nat /\ x % w \in 0 .. w - 1 /\ x = w * (x \div w) + (x % w)
           /\ x % w <= x
<1>1. x \div w \in Nat /\ x % w \in 0 .. w - 1 /\ x = w * (x \div w) + (x % w)
  OBVIOUS
<1>2. w * (x \div w) \in Nat
  BY <1>1
<1>. QED  BY <1>1, <1>2

\* A multiple has no remainder.
LEMMA ZeroMod ==
    ASSUME NEW k \in Nat, NEW w \in Nat \ {0}
    PROVE  (w * k) % w = 0
OBVIOUS

\* A sum of two multiples is a multiple.
LEMMA SumOfMultiples ==
    ASSUME NEW x \in Nat, NEW y \in Nat, NEW w \in Nat \ {0}, x % w = 0, y % w = 0
    PROVE  (x + y) % w = 0
<1>1. /\ x = w * (x \div w) /\ y = w * (y \div w)
      /\ x \div w \in Nat /\ y \div w \in Nat
  BY DivMod
<1>2. x + y = w * ((x \div w) + (y \div w))
  BY <1>1
<1>3. (x \div w) + (y \div w) \in Nat
  BY <1>1
<1>. QED  BY ZeroMod, <1>2, <1>3

\* A number without its remainder is a multiple.
LEMMA RoundedIsMultiple ==
    ASSUME NEW x \in Nat, NEW w \in Nat \ {0}
    PROVE  (x - (x % w)) % w = 0
<1>1. x - (x % w) = w * (x \div w) /\ x \div w \in Nat
  BY DivMod
<1>. QED  BY <1>1, ZeroMod

\* A multiple of a multiple of w is a multiple of w.
LEMMA MultipleOfMultiple ==
    ASSUME NEW x \in Nat, NEW v \in Nat \ {0}, NEW w \in Nat \ {0}, x % v = 0, v % w = 0
    PROVE  x % w = 0
<1>1. /\ x = v * (x \div v) /\ v = w * (v \div w)
      /\ x \div v \in Nat /\ v \div w \in Nat
  BY DivMod
<1>2. x = w * ((v \div w) * (x \div v))
  BY <1>1
<1>3. (v \div w) * (x \div v) \in Nat
  BY <1>1
<1>. QED  BY ZeroMod, <1>2, <1>3

\* The remainder of a multiple of w, by a multiple of w, is one too.
LEMMA RemainderOfMultiple ==
    ASSUME NEW x \in Nat, NEW v \in Nat \ {0}, NEW w \in Nat \ {0}, x % w = 0, v % w = 0
    PROVE  x % v <= v - w
<1>. DEFINE a == x \div w
            b == v \div w
            q == x \div v
            r == x % v
            d == a - b * q
<1>1. a \in Nat /\ b \in Nat /\ q \in Nat /\ r \in Nat
  BY DivMod
<1>2. x = w * a /\ v = w * b
  BY DivMod
<1>3. x = v * q + r /\ r < v
  BY DivMod
<1>. HIDE DEF a, b, q, r
<1>4. d \in Int /\ r = w * d
  <2>1. r = w * a - (w * b) * q
    BY <1>1, <1>2, <1>3
  <2>. QED  BY <2>1, <1>1
<1>5. w * d < w * b
  BY <1>2, <1>3, <1>4
<1>6. d < b
  <2>1. ASSUME d >= b PROVE FALSE
    <3>1. w * d >= w * b
      BY <2>1, <1>4, <1>1
    <3>. QED  BY <3>1, <1>5, <1>4, <1>1
  <2>. QED  BY <2>1, <1>4, <1>1
<1>7. w * d <= w * (b - 1)
  BY <1>6, <1>4, <1>1
<1>8. w * (b - 1) = v - w
  BY <1>2, <1>1
<1>. QED  BY <1>4, <1>7, <1>8 DEF r

(***************************************************************************)
(* Arithmetic of addresses.                                                *)
(***************************************************************************)

\* The aligned heap is a range of natural numbers.
LEMMA Bounds ==
    /\ First \in Nat /\ End \in Nat /\ First < End
    /\ StructSize \in Nat \ {0} /\ Word \in Nat \ {0} /\ SizeCount \in Nat
    /\ AllocatedBit \in Nat /\ End < AllocatedBit /\ 2 * AllocatedBit <= SizeCount
<1>1. /\ HeapStart \in Nat /\ TotalHeapSize \in Nat /\ Alignment \in Nat \ {0}
      /\ StructSize \in Nat \ {0} /\ Word \in Nat \ {0} /\ SizeCount \in Nat
      /\ First < End /\ End < AllocatedBit
  BY HeapAssumption
<1>2. \A n \in Nat : RoundDown(n) \in Nat /\ RoundDown(n) <= n
  BY <1>1 DEF RoundDown
<1>3. First \in Nat
  BY <1>1, <1>2 DEF First, RoundUp
<1>4. AllocatedBit \in Nat /\ 2 * AllocatedBit <= SizeCount
  BY <1>1 DEF AllocatedBit
<1>5. End \in Int
  BY <1>1 DEF End, RoundDown
<1>. QED  BY <1>1, <1>3, <1>4, <1>5

\* The masks that prvHeapInit and pvPortMalloc align with.
LEMMA Rounded ==
    ASSUME NEW n \in Nat
    PROVE  /\ RoundDown(n) \in Nat /\ RoundDown(n) <= n /\ n < RoundDown(n) + Alignment
           /\ RoundDown(n) % Alignment = 0
<1>1. Alignment \in Nat \ {0}
  BY HeapAssumption
<1>2. n % Alignment \in 0 .. Alignment - 1 /\ n % Alignment <= n
  BY <1>1, DivMod
<1>3. n % Alignment \in Nat /\ n % Alignment < Alignment
  BY <1>1, <1>2
<1>. QED  BY <1>1, <1>2, <1>3, RoundedIsMultiple DEF RoundDown

\* Headers, and the first of them, are aligned to a word.
LEMMA StructAligned ==
    /\ Alignment <= StructSize /\ Word <= StructSize
    /\ StructSize % Word = 0 /\ First % Word = 0
<1>1. /\ Alignment \in Nat \ {0} /\ StructSize \in Nat \ {0} /\ Word \in Nat \ {0}
      /\ StructSize % Alignment = 0 /\ Word <= Alignment /\ Alignment % Word = 0
      /\ HeapStart \in Nat
  BY HeapAssumption
<1>2. Alignment <= StructSize
  BY <1>1
<1>3. First \in Nat /\ First % Alignment = 0
  <2>1. HeapStart + Alignment - 1 \in Nat
    BY <1>1
  <2>. QED  BY <2>1, Rounded DEF First, RoundUp
<1>4. StructSize % Word = 0
  BY <1>1, MultipleOfMultiple
<1>5. First % Word = 0
  BY <1>1, <1>3, MultipleOfMultiple
<1>. QED  BY <1>1, <1>2, <1>4, <1>5

\* A block has room for its header and for what was asked for.
LEMMA WantedIsEnough ==
    ASSUME NEW n \in Nat, WantedSize(n) # 0
    PROVE  /\ WantedSize(n) \in Nat
           /\ WantedSize(n) >= n + StructSize
           /\ WantedSize(n) % Word = 0
<1>. DEFINE whole == (n + StructSize) % SizeCount
            up    == RoundUp(whole) % SizeCount
<1>1. WantedSize(n) = up /\ n < AllocatedBit /\ ~ whole <= n /\ ~ up < whole
  BY Bounds DEF WantedSize
<1>2. n + StructSize \in Nat /\ n + StructSize < SizeCount
  BY <1>1, Bounds, HeapAssumption
<1>3. whole = n + StructSize
  BY <1>2, Bounds
<1>4. Alignment \in Nat \ {0} /\ Alignment <= StructSize /\ Alignment < SizeCount
  BY Bounds, HeapAssumption, StructAligned
<1>5. /\ RoundUp(whole) \in Nat /\ RoundUp(whole) % Alignment = 0
      /\ RoundUp(whole) < whole + Alignment
  <2>1. whole + Alignment - 1 \in Nat
    BY <1>2, <1>3, <1>4
  <2>2. RoundUp(whole) = RoundDown(whole + Alignment - 1)
    BY DEF RoundUp
  <2>. QED  BY <2>1, <2>2, <1>2, <1>3, <1>4, Rounded
<1>6. up = RoundUp(whole)
  <2>1. CASE RoundUp(whole) < SizeCount
    BY <2>1, <1>5, Bounds
  <2>2. CASE RoundUp(whole) >= SizeCount
    <3>1. RoundUp(whole) - SizeCount \in 0 .. Alignment - 1
      BY <2>2, <1>2, <1>3, <1>4, <1>5, Bounds
    <3>2. up = RoundUp(whole) - SizeCount
      BY <3>1, <1>4, <1>5, Bounds
    <3>. QED  BY <3>1, <3>2, <1>1, <1>2, <1>3, <1>4, Bounds
  <2>. QED  BY <2>1, <2>2, <1>5, Bounds
<1>7. Alignment % Word = 0 /\ Word \in Nat \ {0}
  BY HeapAssumption
<1>8. up % Word = 0
  BY <1>4, <1>5, <1>6, <1>7, MultipleOfMultiple
<1>. QED  BY <1>1, <1>2, <1>3, <1>5, <1>6, <1>8, Bounds

(***************************************************************************)
(* Insertion into the list of free blocks.                                 *)
(***************************************************************************)

\* HeapShape, of any set of blocks and any list of free ones.
Tiles(B, sz) ==
    /\ First \in B
    /\ \A a \in B : /\ sz[a] > 0
                    /\ a + sz[a] \in B \cup {End}
                    /\ \A b \in B : a < b => a + sz[a] <= b
Apart(list, sz) == \A a \in list : a + sz[a] \notin list

\* Blocks that tile the heap end at different places, and inside it.
LEMMA EndsDiffer ==
    ASSUME NEW B \in SUBSET Addresses, NEW sz \in [Addresses -> Nat], Tiles(B, sz),
           NEW a \in B, NEW b \in B
    PROVE  /\ a \in Nat /\ sz[a] \in Nat /\ First <= a /\ a < End /\ a < a + sz[a]
           /\ a + sz[a] <= End
           /\ a + sz[a] = b + sz[b] => a = b
           /\ a < b => a + sz[a] <= b
<1>1. a \in Nat /\ b \in Nat /\ sz[a] \in Nat /\ sz[b] \in Nat
  BY Bounds DEF Addresses
<1>2. sz[a] > 0 /\ sz[b] > 0
  BY DEF Tiles
<1>3. /\ a < b => a + sz[a] <= b
      /\ b < a => b + sz[b] <= a
  BY DEF Tiles
<1>4. First <= a /\ a + sz[a] <= End
  <2>1. a + sz[a] \in Addresses
    BY Bounds DEF Tiles, Addresses
  <2>. QED  BY <2>1, <1>1, Bounds DEF Addresses
<1>. QED  BY <1>1, <1>2, <1>3, <1>4, Bounds

\* What insertion keeps: the blocks still tile the heap, no two free blocks
\* adjoin, and the blocks that are not free keep their sizes.
Merged(B, list, sz, a) ==
    LET freed == InsertIntoList(list, sz, a)
        sizes == InsertedSizes(list, sz, a)
    IN  /\ sizes \in [Addresses -> Nat]
        /\ freed \subseteq list \cup {a}
        /\ Tiles(freed \cup (B \ (list \cup {a})), sizes)
        /\ Apart(freed, sizes)
        /\ \A b \in B \ (list \cup {a}) : sizes[b] = sz[b]
        /\ Total(sizes, freed) = Total(sz, list) + sz[a]

\* prvInsertBlockIntoFreeList keeps the shape of the heap.
LEMMA Merge ==
    ASSUME NEW B \in SUBSET Addresses, NEW list \in SUBSET B,
           NEW sz \in [Addresses -> Nat], NEW a \in B, a \notin list,
           Tiles(B, sz), Apart(list, sz)
    PROVE  Merged(B, list, sz, a)
<1>. DEFINE s  == StartOf(list, sz, a)
            e  == EndOf(list, sz, a)
            F  == Following(list, sz, a)
            L2 == InsertIntoList(list, sz, a)
            S2 == InsertedSizes(list, sz, a)
            B2 == L2 \cup (B \ (list \cup {a}))
<1>0. \A x, y \in B :
          /\ x \in Nat /\ sz[x] \in Nat /\ First <= x /\ x < End /\ x < x + sz[x]
          /\ x + sz[x] <= End
          /\ x + sz[x] = y + sz[y] => x = y
          /\ x < y => x + sz[x] <= y
  BY EndsDiffer
\* What the definitions say, in terms of s, e and F.
<1>1. /\ s \in list \cup {a}
      /\ s # a => s + sz[s] = a
      /\ s = a => \A b \in list : b + sz[b] # a
  <2>1. CASE Adjoining(list, sz, a) = {}
    <3>1. s = a
      BY <2>1 DEF StartOf
    <3>2. ASSUME NEW b \in list, b + sz[b] = a PROVE FALSE
      <4>1. b \in B /\ b < a
        BY <3>2, <1>0
      <4>2. \A c \in list : c < a => c <= b
        BY <3>2, <4>1, <1>0
      <4>. QED  BY <2>1, <3>2, <4>1, <4>2 DEF Adjoining
    <3>. QED  BY <3>1, <3>2
  <2>2. CASE Adjoining(list, sz, a) # {}
    <3>1. s \in Adjoining(list, sz, a)
      BY <2>2 DEF StartOf
    <3>2. s \in list /\ s < a /\ s + sz[s] = a
      BY <3>1 DEF Adjoining
    <3>. QED  BY <3>2
  <2>. QED  BY <2>1, <2>2
<1>2. s \in B /\ s <= a /\ s \in Nat /\ a \in Nat /\ sz[a] \in Nat /\ sz[a] > 0
  <2>1. s \in B
    BY <1>1
  <2>2. s <= a
    BY <1>1, <2>1, <1>0
  <2>. QED  BY <2>1, <2>2, <1>0
<1>3. /\ F \subseteq list
      /\ F = {} => e = a + sz[a] /\ a + sz[a] \notin list
      /\ F # {} => /\ F = {a + sz[a]} /\ a + sz[a] \in list
                   /\ e = a + sz[a] + sz[a + sz[a]]
  BY DEF Following, EndOf
<1>4. /\ L2 = (list \ F) \cup {s}
      /\ B2 = (B \ ({a} \cup F)) \cup {s}
  BY <1>1, <1>3 DEF InsertIntoList
<1>5. e \in Nat /\ a + sz[a] <= e /\ e \in B \cup {End} /\ e \notin F /\ e # a /\ s < e
  <2>1. a + sz[a] \in B \cup {End} /\ a < a + sz[a]
    BY <1>2 DEF Tiles
  <2>2. CASE F = {}
    BY <2>1, <2>2, <1>2, <1>3
  <2>3. CASE F # {}
    <3>1. PICK f \in B : f = a + sz[a] /\ F = {f} /\ e = f + sz[f]
      BY <2>3, <1>3
    <3>2. f + sz[f] \in B \cup {End} /\ f < f + sz[f] /\ f \in Nat /\ sz[f] \in Nat
      BY <3>1, <1>0 DEF Tiles
    <3>. QED  BY <2>1, <3>1, <3>2, <1>2
  <2>. QED  BY <2>2, <2>3
<1>6. S2 \in [Addresses -> Nat] /\ S2[s] = e - s /\ \A b \in B2 : b # s => S2[b] = sz[b]
  <2>1. S2 = [b \in Addresses |-> IF b = s THEN e - s
                                  ELSE IF b \in {a} \cup F THEN 0 ELSE sz[b]]
    BY DEF InsertedSizes
  <2>2. e - s \in Nat
    BY <1>2, <1>5
  <2>3. S2 \in [Addresses -> Nat]
    BY <2>1, <2>2
  <2>4. s \in Addresses /\ B2 \subseteq Addresses
    BY <1>2, <1>4
  <2>5. ASSUME NEW b \in B2, b # s PROVE S2[b] = sz[b]
    <3>1. b \notin {a} \cup F
      BY <2>5, <1>4
    <3>. QED  BY <3>1, <2>1, <2>4, <2>5
  <2>. QED  BY <2>1, <2>3, <2>4, <2>5
\* The blocks that do not end at a, nor at a block merged away.
<1>7. ASSUME NEW b \in B2, b # s
      PROVE  /\ b \in B /\ b # a /\ b \notin F /\ S2[b] = sz[b]
             /\ b + sz[b] \in B2 \cup {End}
  <2>1. b \in B /\ b # a /\ b \notin F /\ S2[b] = sz[b]
    BY <1>4, <1>6, <1>7
  <2>2. b + sz[b] \in B \cup {End}
    BY <2>1 DEF Tiles
  <2>3. CASE b + sz[b] = a
    <3>1. s # a => s = b
      BY <2>1, <2>3, <1>1, <1>2, <1>0
    <3>. QED  BY <2>1, <2>3, <3>1, <1>7, <1>4
  <2>4. CASE b + sz[b] \in F
    <3>1. b + sz[b] = a + sz[a]
      BY <2>4, <1>3
    <3>. QED  BY <3>1, <2>1, <1>0
  <2>. QED  BY <2>1, <2>2, <2>3, <2>4, <1>4
<1>8. Tiles(B2, S2)
  <2>1. First \in B2
    <3>1. First \in B /\ First <= a
      BY <1>0 DEF Tiles
    <3>2. First \notin F
      BY <3>1, <1>2, <1>3, Bounds
    <3>3. First = a => s = a
      BY <1>1, <1>2, <1>0, Bounds
    <3>. QED  BY <3>1, <3>2, <3>3, <1>4
  <2>2. ASSUME NEW b \in B2
        PROVE  /\ S2[b] > 0 /\ b + S2[b] \in B2 \cup {End}
               /\ \A c \in B2 : b < c => b + S2[b] <= c
    <3>1. CASE b = s
      <4>1. S2[b] > 0 /\ b + S2[b] = e
        BY <3>1, <1>2, <1>5, <1>6
      <4>2. e \in B2 \cup {End}
        BY <1>4, <1>5
      <4>3. ASSUME NEW c \in B2, s < c PROVE e <= c
        <5>0. c \in B /\ c \in Nat /\ c # s
          <6>1. c \in B
            BY <4>3, <1>4, <1>2
          <6>. QED  BY <6>1, <4>3, <1>2, <1>0
        <5>1. c # a /\ c \notin F
          BY <4>3, <5>0, <1>7
        <5>2. a < c
          BY <5>0, <5>1, <4>3, <1>1, <1>2, <1>0
        <5>3. a + sz[a] <= c
          BY <5>0, <5>2, <1>0
        <5>4. CASE F = {}
          BY <5>4, <5>3, <1>3
        <5>5. CASE F # {}
          <6>1. PICK f \in B : f = a + sz[a] /\ F = {f} /\ e = f + sz[f]
            BY <5>5, <1>3
          <6>2. f < c
            BY <6>1, <5>0, <5>1, <5>3, <1>2
          <6>. QED  BY <6>1, <6>2, <5>0, <1>0
        <5>. QED  BY <5>4, <5>5
      <4>. QED  BY <3>1, <4>1, <4>2, <4>3
    <3>2. CASE b # s
      <4>1. /\ b \in B /\ S2[b] = sz[b] /\ b + sz[b] \in B2 \cup {End}
        BY <3>2, <1>7
      <4>2. B2 \subseteq B
        BY <1>2, <1>4
      <4>. QED  BY <4>1, <4>2, <1>0
    <3>. QED  BY <3>1, <3>2
  <2>. QED  BY <2>1, <2>2 DEF Tiles
<1>9. Apart(L2, S2)
  <2>1. ASSUME NEW b \in L2, b + S2[b] \in L2 PROVE FALSE
    <3>1. CASE b = s
      <4>1. e \in L2 /\ e # s
        BY <2>1, <3>1, <1>2, <1>5, <1>6
      <4>2. e \in list
        BY <4>1, <1>4
      <4>3. CASE F = {}
        BY <4>2, <4>3, <1>3
      <4>4. CASE F # {}
        BY <4>2, <4>4, <1>3 DEF Apart
      <4>. QED  BY <4>3, <4>4
    <3>2. CASE b # s
      <4>1. b \in list /\ b \in B2 /\ S2[b] = sz[b]
        BY <2>1, <3>2, <1>4, <1>6
      <4>2. b + sz[b] \notin list
        BY <4>1 DEF Apart
      <4>3. b + sz[b] = s /\ s = a
        BY <2>1, <4>1, <4>2, <1>1, <1>4
      <4>. QED  BY <4>1, <4>3, <1>1
    <3>. QED  BY <3>1, <3>2
  <2>. QED  BY <2>1 DEF Apart
<1>10. L2 \subseteq list \cup {a}
  BY <1>1, <1>4
<1>11. \A b \in B \ (list \cup {a}) : S2[b] = sz[b]
  BY <1>1, <1>6
\* The bytes of the merged blocks are those of its parts.
<1>12. Total(S2, L2) = Total(sz, list) + sz[a]
  <2>. DEFINE L == list \ F
              R == L \ {s}
              f == a + sz[a]
  <2>1. /\ IsFiniteSet(list) /\ IsFiniteSet(L) /\ IsFiniteSet(R) /\ IsFiniteSet(L2)
        /\ \A x \in list : sz[x] \in Nat
    <3>1. IsFiniteSet(Addresses)
      BY FS_Interval, Bounds DEF Addresses
    <3>2. list \subseteq Addresses /\ L2 \subseteq Addresses
      BY <1>1, <1>2, <1>4
    <3>. QED  BY <3>1, <3>2, FS_Subset
  <2>2. s \notin F
    BY <1>2, <1>3
  <2>. DEFINE after == IF F = {} THEN 0 ELSE sz[f]
              before == IF s = a THEN 0 ELSE sz[s]
              sum == Total(sz, R)
  <2>3. Total(sz, list) = after + Total(sz, L) /\ e = a + sz[a] + after /\ after \in Nat
    <3>1. CASE F = {}
      <4>1. L = list /\ after = 0 /\ e = a + sz[a]
        BY <3>1, <1>3
      <4>2. Total(sz, list) \in Nat
        BY <2>1, TotalLaws
      <4>3. a + sz[a] \in Int
        BY <1>2
      <4>. HIDE DEF L, e
      <4>. QED  BY <4>1, <4>2, <4>3
    <3>2. CASE F # {}
      <4>1. f \in list /\ L = list \ {f} /\ after = sz[f] /\ e = a + sz[a] + sz[f]
        BY <3>2, <1>3
      <4>2. Total(sz, list) = sz[f] + Total(sz, list \ {f})
        <5>. HIDE DEF f
        <5>. QED  BY <4>1, <2>1, TotalLaws
      <4>. QED  BY <4>1, <4>2, <2>1
    <3>. QED  BY <3>1, <3>2
  <2>4. Total(sz, L) = before + sum /\ a = s + before /\ before \in Nat /\ sum \in Nat
    <3>1. sum \in Nat
      BY <2>1, TotalLaws
    <3>2. CASE s = a
      <4>1. R = L /\ before = 0
        BY <3>2
      <4>. QED  BY <4>1, <3>1, <3>2, <1>2
    <3>3. CASE s # a
      <4>1. s \in L /\ before = sz[s]
        BY <3>3, <1>1, <2>2
      <4>2. Total(sz, L) = sz[s] + Total(sz, L \ {s})
        <5>. HIDE DEF L, s
        <5>1. \A x \in L : sz[x] \in Nat
          BY <2>1 DEF L
        <5>. QED  BY <4>1, <5>1, <2>1, TotalLaws
      <4>. QED  BY <4>1, <4>2, <3>1, <3>3, <2>1, <1>1
    <3>. QED  BY <3>2, <3>3
  <2>5. Total(S2, L2) = (e - s) + sum
    <3>1. s \in L2 /\ L2 \ {s} = R /\ S2[s] = e - s
      BY <1>4, <1>6
    <3>2. \A x \in R : S2[x] = sz[x]
      BY <1>4, <1>6
    <3>3. Total(S2, R) = sum
      <4>. HIDE DEF R, S2
      <4>. QED  BY <3>2, <2>1, TotalOfSame
    <3>4. \A x \in L2 : S2[x] \in Nat
      <4>1. L2 \subseteq Addresses
        BY <1>1, <1>2, <1>4
      <4>. QED  BY <4>1, <1>6
    <3>5. Total(S2, L2) = S2[s] + Total(S2, L2 \ {s})
      <4>. HIDE DEF L2, S2, s
      <4>. QED  BY <3>1, <3>4, <2>1, TotalLaws
    <3>. QED  BY <3>1, <3>3, <3>5
  <2>. HIDE DEF before, after, sum, e, s
  <2>. QED  BY <2>3, <2>4, <2>5, <1>2
<1>. QED  BY <1>6, <1>8, <1>9, <1>10, <1>11, <1>12 DEF Merged

(***************************************************************************)
(* The inductive invariant.                                                *)
(***************************************************************************)
\* Blocks begin at words: memalign moves the pointer by at least a word.
WordAligned == \A b \in Blocks : b % Word = 0
\* Inductive: the shape of the heap needs the types, the pointers need the
\* shape, and memalign needs the alignment.
IInv == TypeOK /\ HeapShape /\ WordAligned /\ RequestsFit /\ BytesCounted

\* The count in the terms of the lemmas about sums, of a state and of the next.
LEMMA CountIsTotal == BytesCounted <=> freeBytes = Total(size, free) /\ leastFree <= freeBytes
BY DEF BytesCounted, Total

LEMMA CountAfter ==
    BytesCounted' <=> freeBytes' = Total(size', free') /\ leastFree' <= freeBytes'
BY DEF BytesCounted, Total, MapThenSumSet, MapThenFoldSet

\* A set of blocks is finite.
LEMMA BlocksAreFinite == \A S \in SUBSET Addresses : IsFiniteSet(S)
<1>1. IsFiniteSet(Addresses)
  BY FS_Interval, Bounds DEF Addresses
<1>. QED  BY <1>1, FS_Subset

\* HeapShape in the terms of the lemmas above.
LEMMA ShapeIsTiles == HeapShape <=> Tiles(Blocks, size) /\ Apart(free, size) /\ Separate
BY DEF HeapShape, Tiled, Coalesced, Tiles, Apart

\* The same of the state after a step.
LEMMA ShapeAfter == HeapShape' <=> Tiles(Blocks', size') /\ Apart(free', size') /\ Separate'
BY DEF HeapShape, Tiled, Coalesced, Tiles, Apart

\* Words of different blocks are different words.
LEMMA WordsDiffer ==
    ASSUME NEW B \in SUBSET Addresses, NEW sz \in [Addresses -> Nat], Tiles(B, sz),
           NEW a \in B, NEW b \in B, a # b,
           NEW x \in Nat, NEW y \in Nat,
           a <= x, x < a + sz[a], b <= y, y < b + sz[b]
    PROVE  x # y
<1>1. /\ a \in Nat /\ b \in Nat /\ sz[a] \in Nat /\ sz[b] \in Nat
      /\ a < b => a + sz[a] <= b
      /\ b < a => b + sz[b] <= a
  BY EndsDiffer
<1>. QED  BY <1>1

\* The heap prvHeapInit leaves, one free block, satisfies the invariant.
LEMMA InitInvariant == Init => IInv
<1>. SUFFICES ASSUME Init PROVE IInv
  OBVIOUS
<1>1. TypeOK
  <2>1. /\ free = {First} /\ used = {} /\ held = {}
        /\ size = [a \in Addresses |-> IF a = First THEN End - First ELSE 0]
        /\ freeBytes = End - First /\ leastFree = End - First
        /\ word = [a \in Addresses |-> None] /\ freeing = [t \in Tasks |-> None]
    BY DEF Init
  <2>2. First \in Addresses /\ End - First \in Nat
    BY Bounds DEF Addresses
  <2>. QED  BY <2>1, <2>2 DEF TypeOK
<1>2. Leaving = {} /\ Blocks = {First} /\ First \in Addresses
  BY Bounds DEF Init, Leaving, Blocks, Addresses
<1>3. size[First] = End - First /\ First + size[First] = End
  BY <1>2, Bounds DEF Init
<1>4. Tiles(Blocks, size) /\ Apart(free, size)
  BY <1>2, <1>3, Bounds DEF Init, Tiles, Apart
<1>5. Separate
  BY <1>2 DEF Init, Separate
<1>6. WordAligned /\ RequestsFit
  BY <1>2, StructAligned DEF Init, WordAligned, RequestsFit
<1>7. BytesCounted
  <2>1. IsFiniteSet({First}) /\ {First} \ {First} = {} /\ size[First] \in Nat
    BY <1>2, <1>3, BlocksAreFinite, Bounds
  <2>2. Total(size, {First}) = size[First] + Total(size, {})
    BY <2>1, TotalLaws
  <2>3. Total(size, {First}) = End - First
    BY <2>1, <2>2, <1>3, TotalOfNone
  <2>. QED  BY <2>3, CountIsTotal, Bounds DEF Init
<1>. QED  BY <1>1, <1>4, <1>5, <1>6, <1>7, ShapeIsTiles DEF IInv

\* A request that is held: its block, and the word that finds it.
LEMMA HeldIsInside ==
    ASSUME IInv, NEW r \in held
    PROVE  LET b == BlockOf(r)
           IN  /\ b \in used /\ b \in Blocks /\ b \in Nat /\ size[b] \in Nat
               /\ r.pointer \in Addresses /\ r.size \in Nat /\ r.pointer \in Nat
               /\ b + StructSize <= r.pointer
               /\ r.glue => b + StructSize + Word <= r.pointer
               /\ r.pointer + r.size <= b + size[b]
               /\ r.pointer - Word \in Nat
               /\ b <= r.pointer - Word /\ r.pointer - Word < b + size[b]
               /\ \A q \in held \ {r} : BlockOf(q) # b
<1>. DEFINE b == BlockOf(r)
<1>1. r.pointer \in Addresses /\ r.size \in Nat /\ r.glue \in BOOLEAN
  BY DEF IInv, TypeOK
<1>2. /\ b \in used
      /\ b + StructSize + (IF r.glue THEN Word ELSE 0) <= r.pointer
      /\ r.pointer + r.size <= b + size[b]
      /\ \A q \in held \ {r} : BlockOf(q) # b
  BY DEF IInv, RequestsFit
<1>3. b \in Blocks /\ b \in Addresses
  BY <1>2 DEF IInv, TypeOK, Blocks
<1>4. b \in Nat /\ size[b] \in Nat /\ r.pointer \in Nat
  BY <1>1, <1>3, Bounds DEF IInv, TypeOK, Addresses
<1>. HIDE DEF b
<1>5. b + StructSize <= r.pointer /\ (r.glue => b + StructSize + Word <= r.pointer)
  BY <1>1, <1>2, <1>4, Bounds
<1>6. r.pointer - Word \in Nat /\ b <= r.pointer - Word /\ r.pointer - Word < b + size[b]
  BY <1>1, <1>2, <1>4, <1>5, Bounds, StructAligned
<1>. QED  BY <1>1, <1>2, <1>3, <1>4, <1>5, <1>6 DEF b

(***************************************************************************)
(* pvPortMalloc.                                                           *)
(***************************************************************************)

\* What the blocks are like when block b is cut in two, after n bytes.
Halved(B, list, sz, b, n, sizes) ==
    /\ b + n \in Addresses /\ b + n \notin B
    /\ sizes \in [Addresses -> Nat] /\ sizes[b] = n /\ sizes[b + n] = sz[b] - n
    /\ Tiles(B \cup {b + n}, sizes)
    /\ Apart(list \ {b}, sizes)
    /\ \A c \in B : c # b => sizes[c] = sz[c]

\* A free block that is cut in two leaves the others as they were.
LEMMA Cut ==
    ASSUME NEW B \in SUBSET Addresses, NEW list \in SUBSET B,
           NEW sz \in [Addresses -> Nat], NEW b \in list,
           Tiles(B, sz), Apart(list, sz),
           NEW n \in Nat, 0 < n, n < sz[b],
           NEW sizes, sizes = [sz EXCEPT ![b] = n, ![b + n] = sz[b] - n]
    PROVE  Halved(B, list, sz, b, n, sizes)
<1>. DEFINE rest == b + n
<1>0. \A x, y \in B :
          /\ x \in Nat /\ sz[x] \in Nat /\ First <= x /\ x < End /\ x < x + sz[x]
          /\ x + sz[x] <= End
          /\ x + sz[x] = y + sz[y] => x = y
          /\ x < y => x + sz[x] <= y
  BY EndsDiffer
<1>1. b \in B /\ b \in Nat /\ sz[b] \in Nat
  BY <1>0
<1>2. rest \in Nat /\ b < rest /\ rest < b + sz[b] /\ rest \in Addresses
  <2>1. rest \in Nat /\ b < rest /\ rest < b + sz[b]
    BY <1>1
  <2>2. First <= b /\ b + sz[b] <= End
    BY <1>1, <1>0
  <2>. QED  BY <2>1, <2>2, <1>1, Bounds DEF Addresses
<1>3. rest \notin B
  <2>1. SUFFICES ASSUME rest \in B PROVE FALSE
    OBVIOUS
  <2>2. b + sz[b] <= rest
    BY <2>1, <1>0, <1>1, <1>2
  <2>. QED  BY <2>2, <1>2, <1>1
<1>4. /\ sizes \in [Addresses -> Nat] /\ sizes[b] = n /\ sizes[rest] = sz[b] - n
      /\ \A c \in B : c # b => sizes[c] = sz[c]
  <2>1. sz[b] - n \in Nat /\ b \in Addresses /\ b # rest
    BY <1>1, <1>2
  <2>2. \A c \in B : c \in Addresses /\ c # rest
    BY <1>3
  <2>. QED  BY <2>1, <2>2, <1>2
<1>5. Tiles(B \cup {rest}, sizes)
  <2>1. First \in B
    BY DEF Tiles
  <2>2. ASSUME NEW c \in B \cup {rest}
        PROVE  /\ sizes[c] > 0 /\ c + sizes[c] \in B \cup {rest, End}
               /\ \A d \in B \cup {rest} : c < d => c + sizes[c] <= d
    <3>1. CASE c = b
      <4>1. ASSUME NEW d \in B \cup {rest}, b < d PROVE rest <= d
        <5>1. CASE d \in B
          <6>1. b + sz[b] <= d /\ d \in Nat
            BY <5>1, <4>1, <1>0, <1>1
          <6>. QED  BY <6>1, <1>1, <1>2
        <5>. QED  BY <5>1, <1>2
      <4>. QED  BY <3>1, <4>1, <1>1, <1>4
    <3>2. CASE c = rest
      <4>1. c + sizes[c] = b + sz[b] /\ sizes[c] > 0
        BY <3>2, <1>1, <1>2, <1>4
      <4>2. b + sz[b] \in B \cup {End}
        BY <1>1 DEF Tiles
      <4>3. ASSUME NEW d \in B \cup {rest}, rest < d PROVE b + sz[b] <= d
        <5>1. d \in B
          BY <4>3, <1>2
        <5>2. d \in Nat
          BY <5>1, <1>0
        <5>3. b < d
          BY <5>2, <4>3, <1>1, <1>2
        <5>. QED  BY <5>1, <5>3, <1>0, <1>1
      <4>. QED  BY <3>2, <4>1, <4>2, <4>3
    <3>3. CASE c # b /\ c # rest
      <4>1. c \in B /\ sizes[c] = sz[c]
        BY <3>3, <1>4
      <4>2. sz[c] > 0 /\ c + sz[c] \in B \cup {End} /\ \A d \in B : c < d => c + sz[c] <= d
        BY <4>1 DEF Tiles
      <4>3. c < rest => c + sz[c] <= rest
        <5>1. SUFFICES ASSUME c < rest PROVE c + sz[c] <= rest
          OBVIOUS
        <5>2. c \in Nat /\ sz[c] \in Nat
          BY <4>1, <1>0
        <5>3. ~ b < c
          <6>1. SUFFICES ASSUME b < c PROVE FALSE
            OBVIOUS
          <6>2. b + sz[b] <= c
            BY <6>1, <4>1, <1>0, <1>1
          <6>. QED  BY <6>2, <5>1, <5>2, <1>1, <1>2
        <5>4. c < b
          BY <5>2, <5>3, <3>3, <1>1
        <5>5. c + sz[c] <= b
          BY <5>4, <4>1, <1>0, <1>1
        <5>. QED  BY <5>2, <5>5, <1>1, <1>2
      <4>. QED  BY <4>1, <4>2, <4>3
    <3>. QED  BY <3>1, <3>2, <3>3
  <2>. QED  BY <2>1, <2>2 DEF Tiles
<1>6. Apart(list \ {b}, sizes)
  BY <1>4 DEF Apart
<1>. QED  BY <1>2, <1>3, <1>4, <1>5, <1>6 DEF Halved

\* The block that is handed out was free and is large enough.
LEMMA TakeBlockKeepsShape ==
    ASSUME IInv, NEW n \in Nat, ~ MallocFails(n), NEW b \in FirstFit(n), TakeBlock(n, b)
    PROVE  /\ size' \in [Addresses -> Nat] /\ free' \subseteq Addresses
           /\ used' \subseteq Addresses /\ used' = used \cup {b} /\ freeing' = freeing
           /\ freeBytes' \in Int /\ leastFree' \in Int
           /\ HeapShape' /\ WordAligned'
           /\ b \in free /\ b \in Blocks /\ b \notin used
           /\ size'[b] >= n + StructSize /\ size'[b] <= size[b]
           /\ \A c \in used : size'[c] = size[c]
           /\ BytesCounted'
<1>. DEFINE wanted == WantedSize(n)
            rest   == b + wanted
            sizes  == [size EXCEPT ![b] = wanted, ![rest] = size[b] - wanted]
            splits == size[b] - wanted > MinimumBlockSize
<1>1. /\ size \in [Addresses -> Nat] /\ Blocks \in SUBSET Addresses
      /\ free \subseteq Blocks /\ used \subseteq Blocks
      /\ Tiles(Blocks, size) /\ Apart(free, size) /\ Separate
      /\ freeBytes \in Int /\ leastFree \in Int
  <2>1. Leaving \subseteq Addresses
    BY DEF IInv, TypeOK, Leaving
  <2>. QED  BY <2>1, ShapeIsTiles DEF IInv, TypeOK, Blocks
<1>2. wanted \in Nat /\ wanted >= n + StructSize /\ wanted % Word = 0 /\ wanted > 0
  BY WantedIsEnough, Bounds DEF MallocFails
<1>3. b \in free /\ b \in Blocks /\ b \in Addresses /\ b \notin used /\ size[b] \in Nat
      /\ size[b] >= wanted /\ b \in Nat
  <2>1. b \in free /\ size[b] >= wanted
    BY DEF FirstFit
  <2>. QED  BY <2>1, <1>1, Bounds DEF Separate, Addresses
<1>4. /\ free' = IF splits THEN InsertIntoList(free \ {b}, sizes, rest) ELSE free \ {b}
      /\ size' = IF splits THEN InsertedSizes(free \ {b}, sizes, rest) ELSE size
      /\ used' = used \cup {b} /\ freeing' = freeing
      /\ freeBytes' = freeBytes - size'[b]
      /\ leastFree' = IF freeBytes' < leastFree THEN freeBytes' ELSE leastFree
  BY DEF TakeBlock
<1>5. Leaving' = Leaving
  BY <1>4 DEF Leaving
\* What is common to the two cases.
<1>6. /\ size' \in [Addresses -> Nat] /\ free' \subseteq (free \ {b}) \cup {rest}
      /\ (rest \in free' => rest \in Addresses /\ rest \notin Blocks)
      /\ Tiles(Blocks', size') /\ Apart(free', size')
      /\ size'[b] >= n + StructSize /\ size'[b] <= size[b]
      /\ \A c \in used : size'[c] = size[c]
      /\ Total(size', free') = Total(size, free) - size'[b]
  <2>0. /\ IsFiniteSet(free) /\ IsFiniteSet(free \ {b}) /\ \A x \in free : size[x] \in Nat
        /\ Total(size, free) = size[b] + Total(size, free \ {b})
        /\ Total(size, free \ {b}) \in Nat
    <3>1. free \subseteq Addresses /\ \A x \in free : size[x] \in Nat
      BY <1>1
    <3>2. IsFiniteSet(free) /\ IsFiniteSet(free \ {b})
      BY <3>1, BlocksAreFinite
    <3>. QED  BY <3>1, <3>2, <1>3, TotalLaws
  <2>1. CASE ~ splits
    <3>1. free' = free \ {b} /\ size' = size /\ Blocks' = Blocks
      BY <2>1, <1>3, <1>4, <1>5 DEF Blocks
    <3>2. Apart(free', size')
      BY <3>1, <1>1 DEF Apart
    <3>3. rest \in free' => rest \notin Blocks
      <4>1. SUFFICES ASSUME rest \in free PROVE rest \notin Blocks
        BY <3>1
      <4>2. rest = b + size[b] \/ rest < b + size[b]
        BY <1>2, <1>3
      <4>3. rest # b + size[b]
        BY <4>1, <1>1, <1>3 DEF Apart
      <4>4. b < rest /\ rest \in Blocks
        BY <4>1, <1>1, <1>2, <1>3
      <4>5. b + size[b] <= rest
        BY <4>4, <1>1, <1>3, EndsDiffer
      <4>. QED  BY <4>2, <4>3, <4>5, <1>2, <1>3
    <3>4. Total(size', free') = Total(size, free) - size'[b]
      BY <3>1, <2>0, <1>3
    <3>. QED  BY <3>1, <3>2, <3>3, <3>4, <1>1, <1>2, <1>3, Bounds
  <2>2. CASE splits
    <3>1. wanted < size[b] /\ 0 < wanted /\ free \in SUBSET Blocks
      BY <2>2, <1>1, <1>2, <1>3, Bounds DEF MinimumBlockSize
    <3>. DEFINE B == Blocks \cup {rest}
                list == free \ {b}
    <3>10. Halved(Blocks, free, size, b, wanted, sizes)
      <4>. HIDE DEF wanted
      <4>. QED  BY <3>1, <1>1, <1>2, <1>3, Cut
    <3>2. /\ rest \in Addresses /\ rest \notin Blocks
          /\ sizes \in [Addresses -> Nat] /\ sizes[b] = wanted
          /\ sizes[rest] = size[b] - wanted
          /\ Tiles(B, sizes) /\ Apart(list, sizes)
          /\ \A c \in Blocks : c # b => sizes[c] = size[c]
      BY <3>10, Zenon DEF Halved
    <3>3. B \in SUBSET Addresses /\ list \in SUBSET B /\ rest \in B /\ rest \notin list
      BY <3>2, <1>1
    <3>4. free' = InsertIntoList(list, sizes, rest) /\ size' = InsertedSizes(list, sizes, rest)
      BY <2>2, <1>4
    <3>. HIDE DEF B, list, sizes, rest, wanted
    <3>5. /\ size' \in [Addresses -> Nat] /\ free' \subseteq list \cup {rest}
          /\ Tiles(free' \cup (B \ (list \cup {rest})), size') /\ Apart(free', size')
          /\ \A c \in B \ (list \cup {rest}) : size'[c] = sizes[c]
          /\ Total(size', free') = Total(sizes, list) + sizes[rest]
      <4>1. Merged(B, list, sizes, rest)
        BY <3>2, <3>3, Merge
      <4>. QED  BY <3>4, <4>1, Zenon DEF Merged
    <3>6. B \ (list \cup {rest}) = used' \cup Leaving'
      <4>1. b \notin Leaving /\ free \cap (used \cup Leaving) = {}
        BY <1>1, <1>3 DEF Separate
      <4>. QED  BY <4>1, <3>2, <1>3, <1>4, <1>5 DEF B, list, Blocks
    <3>7. Blocks' = free' \cup (B \ (list \cup {rest}))
      BY <3>6 DEF Blocks
    <3>8. \A c \in used : size'[c] = size[c]
      <4>1. \A c \in used : c \in Blocks /\ c # b /\ c \in B \ (list \cup {rest})
        BY <3>6, <1>1, <1>3, <1>4
      <4>. QED  BY <4>1, <3>2, <3>5
    <3>9. size'[b] = wanted
      <4>1. b \in B \ (list \cup {rest})
        BY <3>6, <1>4
      <4>. QED  BY <4>1, <3>2, <3>5
    <3>11. Total(size', free') = Total(size, free) - size'[b]
      <4>1. \A x \in list : sizes[x] = size[x]
        BY <3>2, <1>1 DEF list
      <4>2. Total(sizes, list) = Total(size, free \ {b})
        BY <4>1, <2>0, TotalOfSame DEF list
      <4>. DEFINE left == Total(size, free \ {b})
      <4>3. /\ Total(size', free') = left + (size[b] - wanted)
            /\ Total(size, free) = size[b] + left /\ size'[b] = wanted /\ left \in Nat
        BY <4>2, <3>2, <3>5, <3>9, <2>0
      <4>. HIDE DEF left
      <4>. QED  BY <4>3, <1>2, <1>3 DEF wanted
    <3>. QED  BY <3>2, <3>5, <3>7, <3>8, <3>9, <3>11, <1>2, <1>3 DEF list, rest
  <2>. QED  BY <2>1, <2>2
<1>7. free' \subseteq Addresses /\ used' \subseteq Addresses
  BY <1>1, <1>3, <1>4, <1>6
<1>8. Separate'
  <2>1. b \notin Leaving
    BY <1>1, <1>3 DEF Separate
  <2>2. \A c \in free' : c \notin used /\ c # b /\ c \notin Leaving
    BY <1>1, <1>3, <1>6 DEF Separate, Blocks
  <2>. QED  BY <2>1, <2>2, <1>1, <1>4, <1>5 DEF Separate
<1>9. HeapShape'
  BY <1>6, <1>8, ShapeAfter
<1>10. WordAligned'
  <2>1. rest % Word = 0
    BY <1>2, <1>3, SumOfMultiples, Bounds DEF IInv, WordAligned
  <2>2. Blocks' \subseteq Blocks \cup {rest}
    BY <1>3, <1>4, <1>5, <1>6 DEF Blocks
  <2>. QED  BY <2>1, <2>2 DEF IInv, WordAligned
<1>11. freeBytes' \in Int /\ leastFree' \in Int
  BY <1>1, <1>3, <1>4, <1>6
<1>12. BytesCounted'
  <2>1. freeBytes' = Total(size', free')
    BY <1>4, <1>6, CountIsTotal DEF IInv
  <2>2. leastFree' <= freeBytes'
    BY <1>1, <1>4, <1>11
  <2>. QED  BY <2>1, <2>2, CountAfter
<1>. QED  BY <1>3, <1>4, <1>6, <1>7, <1>9, <1>10, <1>11, <1>12

\* A pointer into the block just taken, with room behind it for what was asked
\* for, and its word in that block: what the other pointers find is unchanged.
LEMMA HandedOut ==
    ASSUME IInv, NEW n \in Nat, ~ MallocFails(n), NEW b \in FirstFit(n), TakeBlock(n, b),
           NEW p \in Nat, NEW m \in Nat, NEW glue \in BOOLEAN, HandOut(p, m, glue),
           b + StructSize + (IF glue THEN Word ELSE 0) <= p,
           ~ glue => p = b + StructSize,
           p + m <= b + StructSize + n,
           word' = IF glue THEN [word EXCEPT ![p - Word] = b + StructSize] ELSE word
    PROVE  IInv'
<1>. DEFINE q == [pointer |-> p, size |-> m, glue |-> glue]
<1>1. /\ size' \in [Addresses -> Nat] /\ free' \subseteq Addresses
      /\ used' \subseteq Addresses /\ used' = used \cup {b} /\ freeing' = freeing
      /\ freeBytes' \in Int /\ leastFree' \in Int
      /\ HeapShape' /\ WordAligned'
      /\ b \in free /\ b \in Blocks /\ b \notin used
      /\ size'[b] >= n + StructSize /\ size'[b] <= size[b]
      /\ \A c \in used : size'[c] = size[c]
      /\ BytesCounted'
  BY TakeBlockKeepsShape
<1>2. TypeOK /\ Blocks \in SUBSET Addresses /\ Tiles(Blocks, size) /\ used \subseteq Blocks
  BY ShapeIsTiles DEF IInv, TypeOK, Blocks, Leaving
<1>3. /\ b \in Nat /\ size[b] \in Nat /\ size'[b] \in Nat
      /\ First <= b /\ b + size[b] <= End
  <2>1. size \in [Addresses -> Nat] /\ b \in Addresses
    BY <1>1, <1>2 DEF TypeOK
  <2>. QED  BY <2>1, <1>1, <1>2, EndsDiffer, Bounds DEF Addresses
<1>4. /\ p \in Addresses /\ b + StructSize \in Addresses
      /\ p + m <= b + size'[b]
      /\ glue => /\ p - Word \in Addresses
                 /\ b <= p - Word /\ p - Word < b + size[b]
  <2>1. p + m <= b + size'[b] /\ b + StructSize <= p
    BY <1>1, <1>3, Bounds
  <2>2. p \in Addresses /\ b + StructSize \in Addresses
    BY <2>1, <1>1, <1>3, Bounds, SMTT(30) DEF Addresses
  <2>3. glue => p - Word \in Addresses /\ b <= p - Word /\ p - Word < b + size[b]
    BY <2>1, <1>1, <1>3, Bounds, StructAligned, SMTT(30) DEF Addresses
  <2>. QED  BY <2>1, <2>2, <2>3
<1>5. held' = held \cup {q}
  BY DEF HandOut
<1>6. TypeOK'
  <2>1. held' \subseteq [pointer : Addresses, size : Nat, glue : BOOLEAN]
    BY <1>2, <1>4, <1>5 DEF TypeOK
  <2>2. word' \in [Addresses -> Addresses \cup {None}]
    BY <1>2, <1>4 DEF TypeOK
  <2>. QED  BY <2>1, <2>2, <1>1, <1>2 DEF TypeOK
\* The new pointer.
<1>7. /\ BlockOf(q)' = b
      /\ b + StructSize + (IF q.glue THEN Word ELSE 0) <= q.pointer
      /\ q.pointer + q.size <= b + size'[b]
  <2>1. q.pointer = p /\ q.size = m /\ q.glue = glue
    OBVIOUS
  <2>2. CASE glue
    <3>1. word'[p - Word] = b + StructSize
      BY <2>2, <1>2, <1>4 DEF TypeOK
    <3>. HIDE DEF q
    <3>. QED  BY <2>1, <2>2, <3>1, <1>3, <1>4, Bounds DEF BlockOf
  <2>3. CASE ~ glue
    <3>. HIDE DEF q
    <3>1. BlockOf(q)' = q.pointer - StructSize
      BY <2>1, <2>3 DEF BlockOf
    <3>2. BlockOf(q)' = b
      BY <2>1, <2>3, <3>1, <1>3, Bounds
    <3>. QED  BY <2>1, <2>3, <3>2, <1>3, <1>4, Bounds
  <2>. QED  BY <2>2, <2>3
\* Those that were held.
<1>8. ASSUME NEW r \in held
      PROVE  /\ BlockOf(r)' = BlockOf(r) /\ BlockOf(r) # b
             /\ size'[BlockOf(r)] = size[BlockOf(r)] /\ BlockOf(r) \in used'
  <2>. DEFINE c == BlockOf(r)
  <2>1. /\ c \in used /\ c \in Blocks /\ r.pointer - Word \in Nat
        /\ c <= r.pointer - Word /\ r.pointer - Word < c + size[c]
    BY HeldIsInside
  <2>2. c # b
    BY <2>1, <1>1
  <2>3. word'[r.pointer - Word] = word[r.pointer - Word]
    <3>1. CASE ~ glue
      BY <3>1
    <3>2. CASE glue
      <4>. HIDE DEF c
      <4>1. p - Word \in Nat
        BY <3>2, <1>4, Bounds DEF Addresses
      <4>2. r.pointer - Word # p - Word
        BY <4>1, <3>2, <2>1, <2>2, <1>1, <1>2, <1>4, WordsDiffer DEF TypeOK
      <4>. QED  BY <4>2, <3>2, <1>2 DEF TypeOK
    <3>. QED  BY <3>1, <3>2
  <2>4. BlockOf(r)' = c
    BY <2>3 DEF BlockOf
  <2>. QED  BY <2>1, <2>2, <2>4, <1>1
<1>9. RequestsFit'
  <2>1. ASSUME NEW r \in held'
        PROVE  /\ BlockOf(r)' \in used'
               /\ BlockOf(r)' + StructSize + (IF r.glue THEN Word ELSE 0) <= r.pointer
               /\ r.pointer + r.size <= BlockOf(r)' + size'[BlockOf(r)']
               /\ \A other \in held' \ {r} : BlockOf(other)' # BlockOf(r)'
    <3>1. CASE r = q
      <4>1. \A other \in held' \ {r} : BlockOf(other)' # b
        BY <3>1, <1>5, <1>8
      <4>. HIDE DEF q
      <4>. QED  BY <3>1, <4>1, <1>1, <1>7
    <3>2. CASE r # q
      <4>1. r \in held
        BY <3>2, <1>5
      <4>2. /\ BlockOf(r) + StructSize + (IF r.glue THEN Word ELSE 0) <= r.pointer
            /\ r.pointer + r.size <= BlockOf(r) + size[BlockOf(r)]
            /\ \A other \in held \ {r} : BlockOf(other) # BlockOf(r)
        BY <4>1 DEF IInv, RequestsFit
      <4>3. /\ BlockOf(r)' = BlockOf(r) /\ BlockOf(r) # b
            /\ size'[BlockOf(r)] = size[BlockOf(r)] /\ BlockOf(r) \in used'
        BY <4>1, <1>8
      <4>4. ASSUME NEW other \in held' \ {r} PROVE BlockOf(other)' # BlockOf(r)
        <5>1. CASE other = q
          <6>. HIDE DEF q
          <6>. QED  BY <5>1, <4>3, <1>7
        <5>2. CASE other # q
          <6>1. other \in held \ {r}
            BY <5>2, <4>4, <1>5
          <6>2. BlockOf(other)' = BlockOf(other)
            BY <6>1, <1>8
          <6>. QED  BY <6>1, <6>2, <4>2
        <5>. QED  BY <5>1, <5>2
      <4>. QED  BY <4>2, <4>3, <4>4
    <3>. QED  BY <3>1, <3>2
  <2>. QED  BY <2>1 DEF RequestsFit
<1>. QED  BY <1>1, <1>6, <1>9 DEF IInv

\* pvPortMalloc: the pointer is just behind the header.
LEMMA PortMallocKeeps ==
    ASSUME IInv, NEW n \in Requests, PortMalloc(n)
    PROVE  IInv'
<1>1. n \in Nat
  BY HeapAssumption
<1>2. PICK b \in FirstFit(n) : TakeBlock(n, b) /\ HandOut(b + StructSize, n, FALSE)
  BY DEF PortMalloc
<1>3. b \in Nat
  BY Bounds DEF FirstFit, IInv, TypeOK, Addresses
<1>4. ~ MallocFails(n) /\ word' = word
  BY DEF PortMalloc
<1>. HIDE DEF IInv
<1>. DEFINE p == b + StructSize
            glue == FALSE
<1>5. p \in Nat /\ glue \in BOOLEAN /\ HandOut(p, n, glue)
      /\ b + StructSize + (IF glue THEN Word ELSE 0) <= p
      /\ (~ glue => p = b + StructSize)
      /\ p + n <= b + StructSize + n
      /\ word' = IF glue THEN [word EXCEPT ![p - Word] = b + StructSize] ELSE word
  <2>1. p \in Nat /\ p = b + StructSize /\ p + n <= b + StructSize + n
    BY <1>1, <1>3, Bounds
  <2>2. b + StructSize + (IF glue THEN Word ELSE 0) <= p
    BY <2>1
  <2>. QED  BY <2>1, <2>2, <1>2, <1>4
<1>. HIDE DEF p, glue
<1>. QED  BY <1>1, <1>2, <1>4, <1>5, HandedOut

\* malloc: the word with the address of the allocation is in between.
LEMMA WrapMallocKeeps ==
    ASSUME IInv, NEW n \in GlueRequests, WrapMalloc(n)
    PROVE  IInv'
<1>. DEFINE asked == (n + Word) % SizeCount
<1>1. n \in Nat /\ asked = n + Word /\ asked \in Nat
  <2>1. n \in Nat /\ n + Word < SizeCount
    BY HeapAssumption
  <2>. QED  BY <2>1, Bounds
<1>2. PICK b \in FirstFit(asked) :
          /\ TakeBlock(asked, b)
          /\ word' = [word EXCEPT ![b + StructSize] = b + StructSize]
          /\ HandOut(b + StructSize + Word, n, TRUE)
  BY DEF WrapMalloc
<1>3. b \in Nat
  BY Bounds DEF FirstFit, IInv, TypeOK, Addresses
<1>4. ~ MallocFails(asked)
  BY DEF WrapMalloc
<1>. DEFINE p == b + StructSize + Word
            glue == TRUE
<1>5. p - Word = b + StructSize
  BY <1>3, Bounds
<1>6. p \in Nat /\ glue \in BOOLEAN /\ HandOut(p, n, glue)
      /\ b + StructSize + (IF glue THEN Word ELSE 0) <= p
      /\ (~ glue => p = b + StructSize)
      /\ p + n <= b + StructSize + asked
      /\ word' = IF glue THEN [word EXCEPT ![p - Word] = b + StructSize] ELSE word
  <2>1. p + n = b + StructSize + asked
    BY <1>1, <1>3, Bounds
  <2>2. word' = [word EXCEPT ![p - Word] = b + StructSize]
    BY <1>2, <1>5
  <2>3. p \in Nat /\ b + StructSize + Word <= p /\ p + n <= b + StructSize + asked
    BY <2>1, <1>1, <1>3, Bounds
  <2>4. b + StructSize + (IF glue THEN Word ELSE 0) <= p
    BY <2>3
  <2>. QED  BY <2>2, <2>3, <2>4, <1>2
<1>7. TakeBlock(asked, b)
  BY <1>2
<1>. HIDE DEF p, glue, asked, IInv
<1>. QED  BY <1>1, <1>4, <1>6, <1>7, HandedOut

\* memalign: the aligned pointer leaves the word behind the header, and still
\* fits what was asked for.
LEMMA WrapMemalignKeeps ==
    ASSUME IInv, NEW n \in GlueRequests, NEW alignment \in Alignments,
           WrapMemalign(alignment, n)
    PROVE  IInv'
<1>. DEFINE al    == IF alignment < Word THEN Word ELSE alignment
            asked == (n + al) % SizeCount
            start(b) == b + StructSize
            moved(b) == start(b) - (start(b) % al) + al
<1>1. n \in Nat /\ al \in Nat \ {0} /\ al % Word = 0 /\ asked = n + al /\ asked \in Nat
  <2>1. /\ n \in Nat /\ alignment \in Nat \ {0}
        /\ n + alignment < SizeCount /\ n + Word < SizeCount
        /\ alignment % Word = 0 \/ Word % alignment = 0
    BY HeapAssumption
  <2>2. al \in Nat \ {0} /\ asked = n + al
    BY <2>1, Bounds
  <2>3. CASE alignment < Word
    <3>1. Word % Word = 0
      BY Bounds
    <3>. QED  BY <3>1, <2>1, <2>2, <2>3
  <2>4. CASE alignment >= Word /\ alignment % Word = 0
    BY <2>1, <2>2, <2>4, Bounds
  <2>5. CASE alignment >= Word /\ Word % alignment = 0
    <3>1. alignment = Word
      <4>1. alignment > Word => Word % alignment = Word
        BY <2>1, Bounds
      <4>. QED  BY <4>1, <2>1, <2>5, Bounds
    <3>2. Word % Word = 0
      BY Bounds
    <3>3. al = Word
      BY <3>1
    <3>. HIDE DEF al, asked
    <3>. QED  BY <3>2, <3>3, <2>1, <2>2
  <2>. QED  BY <2>1, <2>2, <2>3, <2>4, <2>5, Bounds
<1>2. PICK b \in FirstFit(asked) :
          /\ TakeBlock(asked, b)
          /\ word' = [word EXCEPT ![moved(b) - Word] = start(b)]
          /\ HandOut(moved(b), n, TRUE)
  BY DEF WrapMemalign
<1>3. b \in Nat /\ b \in Blocks
  BY Bounds DEF FirstFit, IInv, TypeOK, Addresses, Blocks
<1>4. ~ MallocFails(asked)
  BY DEF WrapMemalign
<1>5. start(b) \in Nat /\ start(b) % Word = 0
  <2>1. b % Word = 0
    BY <1>3 DEF IInv, WordAligned
  <2>. QED  BY <2>1, <1>3, Bounds, StructAligned, SumOfMultiples
<1>6. start(b) % al \in Nat /\ start(b) % al <= al - Word
  <2>. HIDE DEF start, al
  <2>1. start(b) % al \in 0 .. al - 1
    BY <1>1, <1>5, DivMod
  <2>2. start(b) % al <= al - Word
    BY <1>1, <1>5, Bounds, RemainderOfMultiple
  <2>. QED  BY <2>1, <2>2, <1>1
<1>. DEFINE p == moved(b)
            glue == TRUE
<1>7. p \in Nat /\ start(b) + Word <= p /\ p <= start(b) + al
  <2>. HIDE DEF start, al
  <2>1. start(b) % al <= start(b)
    BY <1>1, <1>5, DivMod
  <2>. QED  BY <2>1, <1>1, <1>5, <1>6, Bounds
<1>8. p \in Nat /\ glue \in BOOLEAN /\ HandOut(p, n, glue)
      /\ b + StructSize + (IF glue THEN Word ELSE 0) <= p
      /\ (~ glue => p = b + StructSize)
      /\ p + n <= b + StructSize + asked
      /\ word' = IF glue THEN [word EXCEPT ![p - Word] = b + StructSize] ELSE word
  <2>1. /\ p \in Nat /\ b + StructSize + Word <= p
        /\ p + n <= b + StructSize + asked
    <3>. HIDE DEF al, moved
    <3>. QED  BY <1>1, <1>3, <1>7, Bounds
  <2>2. b + StructSize + (IF glue THEN Word ELSE 0) <= p
    BY <2>1
  <2>. HIDE DEF al, asked
  <2>. QED  BY <2>1, <2>2, <1>2
<1>9. TakeBlock(asked, b)
  BY <1>2
<1>. HIDE DEF p, glue, asked, IInv
<1>. QED  BY <1>1, <1>4, <1>8, <1>9, HandedOut

(***************************************************************************)
(* vPortFree.                                                              *)
(***************************************************************************)

\* The block leaves those in use, and is found again by none of the others.
LEMMA FreeBeginKeeps ==
    ASSUME IInv, NEW t \in Tasks, NEW r \in held, FreeBegin(t, r)
    PROVE  IInv'
<1>. DEFINE b == BlockOf(r)
<1>1. /\ b \in used /\ b \in Blocks /\ b \in Addresses
      /\ r.pointer - Word \in Nat
      /\ b <= r.pointer - Word /\ r.pointer - Word < b + size[b]
      /\ \A q \in held \ {r} : BlockOf(q) # b
  BY HeldIsInside DEF IInv, TypeOK
<1>2. /\ freeing[t] = None /\ held' = held \ {r} /\ used' = used \ {b}
      /\ freeing' = [freeing EXCEPT ![t] = b]
      /\ word' = [word EXCEPT ![r.pointer - Word] = None]
      /\ size' = size /\ free' = free /\ freeBytes' = freeBytes /\ leastFree' = leastFree
  BY DEF FreeBegin
<1>3. /\ TypeOK /\ Blocks \in SUBSET Addresses
      /\ Tiles(Blocks, size) /\ Apart(free, size) /\ Separate
  BY ShapeIsTiles DEF IInv, TypeOK, Blocks, Leaving
<1>. HIDE DEF b
<1>4. b # None
  BY <1>1, HeapAssumption, Bounds DEF Addresses
<1>5. TypeOK'
  BY <1>1, <1>2, <1>3 DEF TypeOK
<1>6. /\ \A u \in Tasks : freeing'[u] = IF u = t THEN b ELSE freeing[u]
      /\ Leaving' = Leaving \cup {b}
  <2>1. \A u \in Tasks : freeing'[u] = IF u = t THEN b ELSE freeing[u]
    BY <1>2, <1>3 DEF TypeOK
  <2>. QED  BY <2>1, <1>2, <1>4 DEF Leaving
<1>7. Blocks' = Blocks
  BY <1>1, <1>2, <1>6 DEF Blocks
<1>8. Separate'
  <2>1. b \notin free /\ b \notin Leaving
    BY <1>1, <1>3 DEF Separate
  <2>2. \A u \in Tasks : freeing[u] # b
    BY <2>1, <1>4 DEF Leaving
  <2>3. free' \cap used' = {} /\ Leaving' \cap (free' \cup used') = {}
    BY <2>1, <1>2, <1>3, <1>6 DEF Separate
  <2>4. \A u, v \in Tasks : u # v /\ freeing'[u] # None => freeing'[u] # freeing'[v]
    BY <2>2, <1>3, <1>6 DEF Separate
  <2>. QED  BY <2>3, <2>4 DEF Separate
<1>9. HeapShape'
  BY <1>2, <1>3, <1>7, <1>8, ShapeAfter
<1>10. WordAligned'
  BY <1>7 DEF IInv, WordAligned
<1>11. ASSUME NEW q \in held'
       PROVE  q \in held /\ BlockOf(q) # b /\ BlockOf(q)' = BlockOf(q)
  <2>1. q \in held /\ q # r
    BY <1>2
  <2>. DEFINE c == BlockOf(q)
  <2>2. /\ c \in Blocks /\ q.pointer - Word \in Nat
        /\ c <= q.pointer - Word /\ q.pointer - Word < c + size[c]
    BY <2>1, HeldIsInside
  <2>3. c # b
    BY <2>1, <1>1
  <2>4. q.pointer - Word # r.pointer - Word
    <3>. HIDE DEF c
    <3>. QED  BY <2>2, <2>3, <1>1, <1>3, WordsDiffer DEF TypeOK
  <2>5. word'[q.pointer - Word] = word[q.pointer - Word]
    BY <2>4, <1>2, <1>3 DEF TypeOK
  <2>. QED  BY <2>1, <2>3, <2>5 DEF BlockOf
<1>12. RequestsFit'
  <2>1. ASSUME NEW q \in held'
        PROVE  /\ BlockOf(q)' \in used'
               /\ BlockOf(q)' + StructSize + (IF q.glue THEN Word ELSE 0) <= q.pointer
               /\ q.pointer + q.size <= BlockOf(q)' + size'[BlockOf(q)']
               /\ \A other \in held' \ {q} : BlockOf(other)' # BlockOf(q)'
    <3>1. q \in held /\ BlockOf(q) # b /\ BlockOf(q)' = BlockOf(q)
      BY <1>11
    <3>2. /\ BlockOf(q) \in used
          /\ BlockOf(q) + StructSize + (IF q.glue THEN Word ELSE 0) <= q.pointer
          /\ q.pointer + q.size <= BlockOf(q) + size[BlockOf(q)]
          /\ \A other \in held \ {q} : BlockOf(other) # BlockOf(q)
      BY <3>1 DEF IInv, RequestsFit
    <3>3. \A other \in held' \ {q} : BlockOf(other)' # BlockOf(q)
      BY <3>2, <1>11
    <3>. QED  BY <3>1, <3>2, <3>3, <1>2
  <2>. QED  BY <2>1 DEF RequestsFit
<1>13. BytesCounted'
  BY <1>2, CountIsTotal, CountAfter DEF IInv
<1>. QED  BY <1>5, <1>9, <1>10, <1>12, <1>13 DEF IInv

\* The block is on its way back until it is in the list.
LEMMA FreeInsertKeeps ==
    ASSUME IInv, NEW t \in Tasks, FreeInsert(t)
    PROVE  IInv'
<1>. DEFINE b == freeing[t]
<1>1. /\ b # None /\ freeBytes' = freeBytes + size[b]
      /\ free' = InsertIntoList(free, size, b)
      /\ size' = InsertedSizes(free, size, b)
      /\ freeing' = [freeing EXCEPT ![t] = None]
      /\ used' = used /\ leastFree' = leastFree /\ held' = held /\ word' = word
  BY DEF FreeInsert
<1>2. /\ TypeOK /\ Blocks \in SUBSET Addresses /\ free \in SUBSET Blocks
      /\ Tiles(Blocks, size) /\ Apart(free, size) /\ Separate
  BY ShapeIsTiles DEF IInv, TypeOK, Blocks, Leaving
<1>3. b \in Leaving /\ b \in Blocks /\ b \in Addresses
  BY <1>1, <1>2 DEF Leaving, Blocks
<1>4. b \notin free /\ b \notin used
  BY <1>2, <1>3 DEF Separate
<1>5. /\ \A u \in Tasks : freeing'[u] = IF u = t THEN None ELSE freeing[u]
      /\ Leaving' = Leaving \ {b}
  <2>1. \A u \in Tasks : freeing'[u] = IF u = t THEN None ELSE freeing[u]
    BY <1>1, <1>2 DEF TypeOK
  <2>2. \A u \in Tasks : u # t => freeing[u] # b
    BY <1>1, <1>2 DEF Separate
  <2>. QED  BY <2>1, <2>2 DEF Leaving
<1>. HIDE DEF b
<1>6. Merged(Blocks, free, size, b)
  BY <1>2, <1>3, <1>4, Merge DEF TypeOK
<1>7. /\ size' \in [Addresses -> Nat] /\ free' \subseteq free \cup {b}
      /\ Tiles(free' \cup (Blocks \ (free \cup {b})), size') /\ Apart(free', size')
      /\ \A c \in Blocks \ (free \cup {b}) : size'[c] = size[c]
      /\ Total(size', free') = Total(size, free) + size[b]
  BY <1>1, <1>6, Zenon DEF Merged
<1>8. Blocks \ (free \cup {b}) = used' \cup Leaving'
  BY <1>1, <1>2, <1>3, <1>4, <1>5 DEF Blocks, Separate
<1>9. Blocks' = free' \cup (Blocks \ (free \cup {b}))
  BY <1>8 DEF Blocks
<1>10. TypeOK'
  <2>1. freeBytes' \in Int
    BY <1>1, <1>2, <1>3 DEF TypeOK
  <2>. QED  BY <2>1, <1>1, <1>2, <1>3, <1>7 DEF TypeOK
<1>11. Separate'
  <2>1. free' \cap used' = {} /\ Leaving' \cap (free' \cup used') = {}
    BY <1>1, <1>2, <1>4, <1>5, <1>7 DEF Separate
  <2>2. \A u, v \in Tasks : u # v /\ freeing'[u] # None => freeing'[u] # freeing'[v]
    BY <1>2, <1>5 DEF Separate
  <2>. QED  BY <2>1, <2>2 DEF Separate
<1>12. HeapShape'
  BY <1>7, <1>9, <1>11, ShapeAfter
<1>13. WordAligned'
  <2>1. Blocks' \subseteq Blocks
    BY <1>2, <1>3, <1>7, <1>9
  <2>. QED  BY <2>1 DEF IInv, WordAligned
<1>14. RequestsFit'
  <2>1. \A r \in held : BlockOf(r)' = BlockOf(r)
    BY <1>1 DEF BlockOf
  <2>2. \A c \in used : size'[c] = size[c]
    BY <1>1, <1>7, <1>8
  <2>3. RequestsFit
    BY DEF IInv
  <2>. QED  BY <2>1, <2>2, <2>3, <1>1 DEF RequestsFit
<1>15. BytesCounted'
  <2>1. /\ freeBytes = Total(size, free) /\ leastFree <= freeBytes
        /\ freeBytes \in Int /\ leastFree \in Int /\ size[b] \in Nat
    BY <1>2, <1>3, CountIsTotal DEF IInv, TypeOK
  <2>. QED  BY <2>1, <1>1, <1>7, CountAfter
<1>. QED  BY <1>10, <1>12, <1>13, <1>14, <1>15 DEF IInv

(***************************************************************************)
(* The theorems.                                                           *)
(***************************************************************************)

\* Every call keeps the invariant.
LEMMA StepKeepsInvariant == IInv /\ [Next]_vars => IInv'
<1>. SUFFICES ASSUME IInv, [Next]_vars PROVE IInv'
  OBVIOUS
<1>1. CASE \E t \in Tasks : Malloc(t)
  <2>1. PICK t \in Tasks : Malloc(t)
    BY <1>1
  <2>2. CASE \E n \in Requests : PortMalloc(n)
    BY <2>2, PortMallocKeeps
  <2>3. CASE \E n \in GlueRequests : WrapMalloc(n)
    BY <2>3, WrapMallocKeeps
  <2>4. CASE \E n \in GlueRequests, al \in Alignments : WrapMemalign(al, n)
    BY <2>4, WrapMemalignKeeps
  <2>. QED  BY <2>1, <2>2, <2>3, <2>4 DEF Malloc
<1>2. CASE \E t \in Tasks : FreeInsert(t)
  BY <1>2, FreeInsertKeeps
<1>3. CASE \E t \in Tasks : \E r \in held : FreeBegin(t, r)
  BY <1>3, FreeBeginKeeps
<1>4. CASE UNCHANGED vars
  <2>1. /\ size' = size /\ free' = free /\ used' = used /\ freeBytes' = freeBytes
        /\ leastFree' = leastFree /\ held' = held /\ word' = word /\ freeing' = freeing
    BY <1>4 DEF vars
  <2>2. TypeOK' /\ Blocks' = Blocks
    BY <2>1 DEF IInv, TypeOK, Blocks, Leaving
  <2>3. HeapShape' /\ WordAligned'
    BY <2>1, <2>2, ShapeAfter, ShapeIsTiles DEF IInv, Separate, Leaving, WordAligned
  <2>4. RequestsFit'
    <3>1. \A r \in held : BlockOf(r)' = BlockOf(r)
      BY <2>1 DEF BlockOf
    <3>. QED  BY <3>1, <2>1 DEF IInv, RequestsFit
  <2>5. BytesCounted'
    BY <2>1, CountIsTotal, CountAfter DEF IInv
  <2>. QED  BY <2>2, <2>3, <2>4, <2>5 DEF IInv
<1>. QED  BY <1>1, <1>2, <1>3, <1>4 DEF Next

\* The inductive invariant holds in every state of every heap.
THEOREM InvariantHolds == Spec => []IInv
BY InitInvariant, StepKeepsInvariant, PTL DEF Spec

\* Every variable keeps its type.
THEOREM TypeCorrect == Spec => []TypeOK
<1>1. IInv => TypeOK
  BY DEF IInv
<1>. QED  BY <1>1, InvariantHolds, PTL

\* Where the heap writes: the header of a block is at an address of the heap and
\* the block ends by pxEnd; what is handed out ends in its block, and the word in
\* front of it that malloc and memalign write is behind the header of the block.
BlocksInside == \A b \in Blocks : b \in First .. End - 1 /\ b + size[b] <= End
PointersInside ==
    \A r \in held :
        /\ BlockOf(r) \in First .. End - 1
        /\ BlockOf(r) + StructSize <= r.pointer /\ r.pointer + r.size <= End
        /\ r.glue => r.pointer - Word \in BlockOf(r) + StructSize .. End - 1
MemoryInside == BlocksInside /\ PointersInside

\* heap_4 and the glue of sys.cpp write no header and no word outside the aligned
\* heap, for requests that do not wrap in the glue (HeapAssumption).
THEOREM MemoryStaysInside == Spec => []MemoryInside
<1>1. ASSUME IInv PROVE MemoryInside
  <2>1. First \in Nat /\ End \in Nat /\ StructSize \in Nat \ {0} /\ Word \in Nat \ {0}
    BY Bounds, HeapAssumption
  <2>2. Blocks \subseteq Addresses
    BY <1>1 DEF IInv, TypeOK, Blocks, Leaving
  <2>3. BlocksInside
    <3>1. ASSUME NEW b \in Blocks PROVE b \in First .. End - 1 /\ b + size[b] <= End
      <4>1. b \in Addresses /\ size[b] \in Nat
        BY <1>1, <2>2 DEF IInv, TypeOK
      <4>2. size[b] > 0 /\ b + size[b] \in Blocks \cup {End}
        BY <1>1 DEF IInv, HeapShape, Tiled
      <4>3. b + size[b] <= End
        BY <4>1, <4>2, <2>1, <2>2 DEF Addresses
      <4>. QED  BY <4>1, <4>2, <4>3, <2>1 DEF Addresses
    <3>. QED  BY <3>1 DEF BlocksInside
  <2>4. ASSUME NEW r \in held
        PROVE  /\ BlockOf(r) \in First .. End - 1
               /\ BlockOf(r) + StructSize <= r.pointer /\ r.pointer + r.size <= End
               /\ r.glue => r.pointer - Word \in BlockOf(r) + StructSize .. End - 1
    <3>. DEFINE b == BlockOf(r)
    <3>1. b \in Blocks /\ b \in First .. End - 1 /\ b + size[b] <= End /\ size[b] \in Nat
      <4>1. b \in used
        BY <1>1 DEF IInv, RequestsFit
      <4>2. b \in Blocks /\ b \in Addresses
        BY <4>1, <2>2 DEF Blocks
      <4>. QED  BY <4>2, <2>3, <1>1 DEF BlocksInside, IInv, TypeOK
    <3>2. /\ b + StructSize + (IF r.glue THEN Word ELSE 0) <= r.pointer
          /\ r.pointer + r.size <= b + size[b]
      BY <1>1 DEF IInv, RequestsFit
    <3>3. r.pointer \in Nat /\ r.size \in Nat /\ r.glue \in BOOLEAN
      <4>1. r.pointer \in Addresses /\ r.size \in Nat /\ r.glue \in BOOLEAN
        BY <1>1 DEF IInv, TypeOK
      <4>. QED  BY <4>1, <2>1 DEF Addresses
    <3>. HIDE DEF b
    <3>4. b + StructSize <= r.pointer /\ r.pointer + r.size <= End
      <4>1. b \in Nat
        BY <3>1, <2>1
      <4>2. CASE r.glue
        BY <4>1, <4>2, <2>1, <3>1, <3>2, <3>3
      <4>3. CASE ~ r.glue
        BY <4>1, <4>3, <2>1, <3>1, <3>2, <3>3
      <4>. QED  BY <4>2, <4>3
    <3>5. ASSUME r.glue PROVE r.pointer - Word \in b + StructSize .. End - 1
      <4>1. b \in Nat /\ b + StructSize + Word <= r.pointer
        BY <3>1, <3>2, <3>5, <2>1
      <4>. QED  BY <4>1, <3>3, <3>4, <2>1
    <3>. QED  BY <3>1, <3>4, <3>5 DEF b
  <2>. QED  BY <2>3, <2>4 DEF MemoryInside, PointersInside
<1>. QED  BY <1>1, InvariantHolds, PTL

\* heap_4: for every size of heap and every order of the calls, the blocks
\* tile the heap, none is both free and in use, and no two free ones adjoin.
THEOREM HeapKeepsItsShape == Spec => []HeapShape
<1>1. IInv => HeapShape
  BY DEF IInv
<1>. QED  BY <1>1, InvariantHolds, PTL

\* sys.cpp over heap_4: for every request and every alignment whose sum does not
\* wrap size_t (HeapAssumption; the code does not check it), what is handed out
\* lies in one block of its own, which free finds again from the pointer.
THEOREM PointersHaveTheirRoom == Spec => []RequestsFit
<1>1. IInv => RequestsFit
  BY DEF IInv
<1>. QED  BY <1>1, InvariantHolds, PTL

\* heap_4: xFreeBytesRemaining, which decides whether a request is tried, is
\* what the blocks of the free list hold together, through every split and
\* every merge, and has never been below xMinimumEverFreeBytesRemaining.
THEOREM BytesAreCounted == Spec => []BytesCounted
<1>1. IInv => BytesCounted
  BY DEF IInv
<1>. QED  BY <1>1, InvariantHolds, PTL

(***************************************************************************)
(* The contract of an allocator.                                           *)
(***************************************************************************)
\* What the contract sees of a pointer.
View(r) == [pointer |-> r.pointer, size |-> r.size]
Views == {View(r) : r \in held}

\* Ranges in different blocks do not meet, and all lie in the heap.
LEMMA RangesApart ==
    ASSUME IInv, NEW r \in held
    PROVE  /\ View(r).pointer \in Nat /\ View(r).size \in Nat
           /\ Contract!Range(View(r)) \subseteq First .. End - 1
           /\ \A q \in held \ {r} : /\ Contract!Range(View(r)) \cap Contract!Range(View(q)) = {}
                                    /\ View(q).pointer # View(r).pointer
<1>1. Tiles(Blocks, size) /\ Blocks \in SUBSET Addresses /\ size \in [Addresses -> Nat]
  BY ShapeIsTiles DEF IInv, TypeOK, Blocks, Leaving
<1>2. \A q \in held :
        LET c == BlockOf(q)
        IN  /\ c \in Blocks /\ c \in Nat /\ size[c] \in Nat
            /\ q.pointer \in Nat /\ q.size \in Nat
            /\ c < q.pointer /\ q.pointer + q.size <= c + size[c]
            /\ First <= c /\ c + size[c] <= End
  <2>. SUFFICES ASSUME NEW q \in held
                PROVE  LET c == BlockOf(q)
                       IN  /\ c \in Blocks /\ c \in Nat /\ size[c] \in Nat
                           /\ q.pointer \in Nat /\ q.size \in Nat
                           /\ c < q.pointer /\ q.pointer + q.size <= c + size[c]
                           /\ First <= c /\ c + size[c] <= End
    OBVIOUS
  <2>. DEFINE c == BlockOf(q)
  <2>1. /\ c \in Blocks /\ c \in Nat /\ size[c] \in Nat
        /\ q.pointer \in Nat /\ q.size \in Nat
        /\ c + StructSize <= q.pointer /\ q.pointer + q.size <= c + size[c]
    BY HeldIsInside
  <2>. HIDE DEF c
  <2>2. First <= c /\ c + size[c] <= End
    BY <2>1, <1>1, EndsDiffer
  <2>3. c < q.pointer
    BY <2>1, Bounds
  <2>. QED  BY <2>1, <2>2, <2>3 DEF c
<1>3. \A q \in held : /\ View(q).pointer = q.pointer /\ View(q).size = q.size
                      /\ Contract!Range(View(q)) = q.pointer .. q.pointer + q.size - 1
  BY DEF View, Contract!Range
<1>4. Contract!Range(View(r)) \subseteq First .. End - 1
  <2>. DEFINE c == BlockOf(r)
  <2>1. /\ c \in Nat /\ size[c] \in Nat /\ r.pointer \in Nat /\ r.size \in Nat
        /\ c < r.pointer /\ r.pointer + r.size <= c + size[c]
        /\ First <= c /\ c + size[c] <= End
    BY <1>2
  <2>. HIDE DEF c
  <2>2. r.pointer .. r.pointer + r.size - 1 \subseteq First .. End - 1
    BY <2>1, Bounds
  <2>. QED  BY <2>2, <1>3
<1>5. ASSUME NEW q \in held \ {r}
      PROVE  /\ Contract!Range(View(r)) \cap Contract!Range(View(q)) = {}
             /\ q.pointer # r.pointer
  <2>. DEFINE b == BlockOf(r)
              c == BlockOf(q)
  <2>1. /\ b \in Blocks /\ b \in Nat /\ size[b] \in Nat /\ r.pointer \in Nat /\ r.size \in Nat
        /\ b < r.pointer /\ r.pointer + r.size <= b + size[b]
    BY <1>2
  <2>2. /\ c \in Blocks /\ c \in Nat /\ size[c] \in Nat /\ q.pointer \in Nat /\ q.size \in Nat
        /\ c < q.pointer /\ q.pointer + q.size <= c + size[c]
    BY <1>2
  <2>3. b # c
    BY <1>5, HeldIsInside
  <2>. HIDE DEF b, c
  <2>4. b + size[b] <= c \/ c + size[c] <= b
    BY <2>1, <2>2, <2>3, <1>1 DEF Tiles
  <2>5. /\ (r.pointer .. r.pointer + r.size - 1) \cap (q.pointer .. q.pointer + q.size - 1) = {}
        /\ q.pointer # r.pointer
    BY <2>1, <2>2, <2>4
  <2>. QED  BY <2>5, <1>3
<1>. QED  BY <1>2, <1>3, <1>4, <1>5

RangesFit ==
    \A r \in held :
        /\ View(r).pointer \in Nat /\ View(r).size \in Nat
        /\ Contract!Range(View(r)) \subseteq First .. End - 1
        /\ \A q \in held \ {r} : /\ Contract!Range(View(r)) \cap Contract!Range(View(q)) = {}
                                 /\ View(q).pointer # View(r).pointer

\* The ranges of the contract, from the invariant.
LEMMA InvariantKeepsRanges == IInv => RangesFit
BY RangesApart DEF RangesFit

\* A request that is granted is one of the contract.
LEMMA GrantAllocates ==
    ASSUME IInv, IInv', NEW p, NEW m, NEW glue, HandOut(p, m, glue)
    PROVE  Contract!Allocate \/ Views' = Views
<1>. DEFINE q == [pointer |-> p, size |-> m, glue |-> glue]
<1>1. held' = held \cup {q}
  BY DEF HandOut
<1>2. Views' = Views \cup {View(q)}
  BY <1>1 DEF Views, View
<1>. HIDE DEF q
<1>3. CASE View(q) \in Views
  BY <1>2, <1>3
<1>4. CASE View(q) \notin Views
  <2>1. q \in held' /\ View(q) \in Views' \ Views
    BY <1>1, <1>2, <1>4
  <2>2. /\ View(q).pointer \in Nat /\ View(q).size \in Nat
        /\ Contract!Range(View(q)) \subseteq First .. End - 1
        /\ \A r \in held' \ {q} : /\ Contract!Range(View(q)) \cap Contract!Range(View(r)) = {}
                                  /\ View(r).pointer # View(q).pointer
    <3>1. RangesFit'
      BY InvariantKeepsRanges, PTL
    <3>. QED  BY <3>1, <2>1 DEF RangesFit
  <2>3. \A other \in Views : /\ Contract!Range(View(q)) \cap Contract!Range(other) = {}
                             /\ View(q).pointer # other.pointer
    <3>1. \A r \in held : r \in held' \ {q}
      BY <1>1, <1>4 DEF Views
    <3>. QED  BY <3>1, <2>2 DEF Views
  <2>. QED  BY <1>2, <2>1, <2>2, <2>3 DEF Contract!Allocate, Views, View
<1>. QED  BY <1>3, <1>4

\* What is given back was handed out, and the others stay.
LEMMA FreeReleases ==
    ASSUME IInv, NEW t \in Tasks, NEW r \in held, FreeBegin(t, r)
    PROVE  Contract!Release
<1>1. held' = held \ {r}
  BY DEF FreeBegin
<1>2. \A q \in held \ {r} : View(q) # View(r)
  BY InvariantKeepsRanges DEF RangesFit
<1>3. View(r) \in Views /\ Views' = Views \ {View(r)}
  BY <1>1, <1>2 DEF Views, View
<1>. QED  BY <1>3 DEF Contract!Release, Views, View

\* sys.cpp over heap_4: for every heap, what is handed out is what an
\* allocator promises: ranges of the heap that never overlap.
THEOREM HeapImplementsContract == Spec => ImplementsContract
<1>1. Init => Contract!Init
  BY DEF Init, Contract!Init
<1>2. ASSUME IInv, IInv', [Next]_vars PROVE Contract!Next \/ Views' = Views
  <2>1. CASE \E t \in Tasks : Malloc(t)
    <3>1. PICK p, m, glue : HandOut(p, m, glue)
      BY <2>1 DEF Malloc, PortMalloc, WrapMalloc, WrapMemalign
    <3>. QED  BY <3>1, <1>2, GrantAllocates DEF Contract!Next
  <2>2. CASE \E t \in Tasks : FreeInsert(t)
    BY <2>2 DEF FreeInsert, Views
  <2>3. CASE \E t \in Tasks : \E r \in held : FreeBegin(t, r)
    BY <2>3, <1>2, FreeReleases DEF Contract!Next
  <2>4. CASE UNCHANGED vars
    BY <2>4 DEF vars, Views
  <2>. QED  BY <1>2, <2>1, <2>2, <2>3, <2>4 DEF Next
<1>3. IInv /\ IInv' /\ [Next]_vars => [Contract!Next]_Views
  BY <1>2
<1>4. [Contract!Next]_Views <=>
        [Contract!Next]_({[pointer |-> r.pointer, size |-> r.size] : r \in held})
  BY DEF Views, View
<1>. QED  BY <1>1, <1>3, <1>4, InvariantHolds, PTL DEF Spec, ImplementsContract, Contract!Spec

=============================================================================
