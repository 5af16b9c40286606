----------------------------- MODULE SumTheorems -----------------------------
(***************************************************************************)
(* Sums over all accounts.  SumFunction folds a function over a finite set *)
(* by a recursion that takes the elements in some order; here is that the  *)
(* recursion defines something, that the order does not matter, and what   *)
(* sums do when functions change in one place, are added or compared.      *)
(* Induction is over sets of sizes and sets of subsets.                    *)
(***************************************************************************)
EXTENDS Functions, FiniteSetTheorems, TLAPS

\* A set of numbers has a least element.
LEMMA Least ==
    ASSUME NEW S \in SUBSET Nat, S # {}
    PROVE  \E m \in S : \A k \in S : m <= k
<1> DEFINE R == OpToRel(<, Nat)
<1>1. IsWellFoundedOn(R, Nat)
  BY NatLessThanWellFounded
<1>2. \A x, y \in Nat : x < y => << x, y >> \in R
  BY DEF OpToRel
<1> HIDE DEF R
<1>3. PICK m \in S : \A k \in S : << k, m >> \notin R
  BY <1>1, WFMin
<1>4. \A k \in S : ~(k < m)
  BY <1>2, <1>3
<1>5. \A k \in S : k \in Nat /\ m \in Nat
  OBVIOUS
<1>6. \A k \in S : m <= k
  BY <1>4, <1>5
<1>7. QED
  BY <1>6

\* What holds of no elements, and of one more whenever it holds of some, holds of all.
LEMMA OneByOne ==
    ASSUME NEW S, IsFiniteSet(S), NEW P \in SUBSET SUBSET S, {} \in P,
           \A t \in P : \A x \in S \ t : t \union {x} \in P
    PROVE  S \in P
<1> DEFINE left == {n \in Nat : \E t \in P : n = Cardinality(S \ t)}
<1>1. \A t \in P : IsFiniteSet(S \ t) /\ Cardinality(S \ t) \in Nat
  BY FS_Difference, FS_CardinalityType
<1>2. left # {}
  BY <1>1
<1>3. PICK n \in left : \A k \in left : n <= k
  BY <1>2, Least
<1>4. PICK t \in P : n = Cardinality(S \ t)
  OBVIOUS
<1>5. CASE S \ t = {}
  <2>1. t = S
    BY <1>5
  <2>2. QED
    BY <2>1
<1>6. CASE S \ t # {}
  <2>1. PICK x : x \in S \ t
    BY <1>6
  <2>2. t \union {x} \in P /\ S \ (t \union {x}) = (S \ t) \ {x}
    BY <2>1
  <2>3. Cardinality((S \ t) \ {x}) = n - 1
    BY <1>1, <1>4, <2>1, FS_RemoveElement
  <2>4. n - 1 \in left
    BY <1>1, <2>2, <2>3
  <2>5. n \in Nat
    OBVIOUS
  <2>6. n <= n - 1
    BY <1>3, <2>4
  <2>7. QED
    BY <2>5, <2>6
<1>7. QED
  BY <1>5, <1>6

-----------------------------------------------------------------------------
(* The recursion in SumFunctionOnSet.                                       *)
Pick(s) == CHOOSE x \in s : TRUE

Step(g, f, s) == IF s = {} THEN 0 ELSE f[Pick(s)] + g[s \ {Pick(s)}]

IsSum(g, f, S) == g = [s \in SUBSET S |-> Step(g, f, s)]

\* The same up to a size.
Small(S, n) == {s \in SUBSET S : Cardinality(s) <= n}

IsPartOfSum(g, f, S, n) == g = [s \in Small(S, n) |-> Step(g, f, s)]

LEMMA PickIsIn == \A s : s # {} => Pick(s) \in s
BY DEF Pick

LEMMA SubsetsAreFinite ==
    ASSUME NEW S, IsFiniteSet(S), NEW s \in SUBSET S
    PROVE  IsFiniteSet(s) /\ Cardinality(s) \in Nat /\ Cardinality(s) <= Cardinality(S)
           /\ (Cardinality(s) = 0 <=> s = {})
           /\ \A x \in s : Cardinality(s \ {x}) = Cardinality(s) - 1
BY FS_Subset, FS_CardinalityType, FS_EmptySet, FS_RemoveElement

LEMMA PartsExist ==
    ASSUME NEW f, NEW S, IsFiniteSet(S), NEW m \in Nat
    PROVE  \E g : IsPartOfSum(g, f, S, m)
<1> DEFINE none == {k \in Nat : ~\E g : IsPartOfSum(g, f, S, k)}
<1>1. SUFFICES ASSUME none # {} PROVE FALSE
  OBVIOUS
<1>2. PICK k \in none : \A j \in none : k <= j
  BY <1>1, Least
<1>3. k \in Nat /\ ~\E g : IsPartOfSum(g, f, S, k)
  OBVIOUS
<1>4. CASE k = 0
  <2> DEFINE g == [s \in Small(S, 0) |-> 0]
  <2>1. \A s \in Small(S, 0) : s = {}
    BY SubsetsAreFinite DEF Small
  <2>2. g = [s \in Small(S, 0) |-> Step(g, f, s)]
    BY <2>1 DEF Step
  <2> HIDE DEF g
  <2>3. QED
    BY <1>3, <1>4, <2>2 DEF IsPartOfSum
<1>5. CASE k # 0
  <2>1. k - 1 \in Nat /\ k - 1 \notin none
    BY <1>2, <1>3, <1>5
  <2>2. PICK g : IsPartOfSum(g, f, S, k - 1)
    BY <2>1
  <2>3. \A s \in Small(S, k - 1) : g[s] = Step(g, f, s)
    BY <2>2 DEF IsPartOfSum
  <2> DEFINE h == [s \in Small(S, k) |-> Step(g, f, s)]
  <2>4. \A s \in Small(S, k - 1) : s \in Small(S, k) /\ h[s] = g[s]
    <3>1. \A s \in Small(S, k - 1) : s \in Small(S, k)
      BY <1>3, SubsetsAreFinite DEF Small
    <3>2. QED
      BY <2>3, <3>1
  <2>5. \A s \in Small(S, k) : s # {} => s \ {Pick(s)} \in Small(S, k - 1)
    BY <1>3, PickIsIn, SubsetsAreFinite DEF Small
  <2>6. \A s \in Small(S, k) : h[s] = Step(h, f, s)
    <3> SUFFICES ASSUME NEW s \in Small(S, k) PROVE Step(g, f, s) = Step(h, f, s)
      OBVIOUS
    <3> HIDE DEF h
    <3>1. QED
      BY <2>4, <2>5 DEF Step
  <2>7. h = [s \in Small(S, k) |-> Step(h, f, s)]
    BY <2>6
  <2> HIDE DEF h
  <2>8. QED
    BY <1>3, <2>7 DEF IsPartOfSum
<1>6. QED
  BY <1>4, <1>5

\* What the equation says of one subset.
LEMMA SumOfSubset ==
    ASSUME NEW g, NEW f, NEW S, IsSum(g, f, S), NEW s \in SUBSET S
    PROVE  g[s] = Step(g, f, s)
BY Zenon DEF IsSum

\* The recursion defines the sum.
LEMMA SumIsDefined ==
    ASSUME NEW f, NEW S, IsFiniteSet(S)
    PROVE  \E g : IsSum(g, f, S) /\ SumFunctionOnSet(f, S) = g[S]
<1>1. SumFunctionOnSet(f, S) = (CHOOSE g : IsSum(g, f, S))[S]
  BY DEF SumFunctionOnSet, FoldFunctionOnSet, MapThenFoldSet, IsSum, Step, Pick
<1>2. Small(S, Cardinality(S)) = SUBSET S /\ Cardinality(S) \in Nat
  BY SubsetsAreFinite DEF Small
<1>3. \E g : IsSum(g, f, S)
  <2>1. PICK g : IsPartOfSum(g, f, S, Cardinality(S))
    BY <1>2, PartsExist
  <2>2. IsSum(g, f, S)
    BY <1>2, <2>1, Zenon DEF IsPartOfSum, IsSum
  <2>3. QED
    BY <2>2
<1>4. QED
  BY <1>1, <1>3

\* Two recursions agree where both are defined.
LEMMA SumsAgree ==
    ASSUME NEW f, NEW S, IsFiniteSet(S), NEW T, NEW g, NEW h,
           IsSum(g, f, S), IsSum(h, f, T),
           NEW U, U \subseteq S, U \subseteq T
    PROVE  g[U] = h[U]
<1> DEFINE both == {s \in SUBSET S : s \subseteq T}
           bad  == {n \in Nat : \E s \in both : n = Cardinality(s) /\ g[s] # h[s]}
<1>1. bad = {}
  <2>1. SUFFICES ASSUME bad # {} PROVE FALSE
    OBVIOUS
  <2>2. PICK n \in bad : \A k \in bad : n <= k
    BY <2>1, Least
  <2>3. PICK s \in both : n = Cardinality(s) /\ g[s] # h[s]
    OBVIOUS
  <2>4. s \in SUBSET S /\ s \in SUBSET T
    OBVIOUS
  <2>5. g[s] = Step(g, f, s) /\ h[s] = Step(h, f, s)
    BY <2>4, SumOfSubset
  <2>6. s # {}
    BY <2>3, <2>5 DEF Step
  <2> DEFINE r == s \ {Pick(s)}
  <2>7. r \in both /\ Cardinality(r) = n - 1 /\ n \in Nat /\ n - 1 \in Nat
    BY <2>3, <2>4, <2>6, PickIsIn, SubsetsAreFinite
  <2>8. g[r] = h[r]
    <3>1. ~(n <= n - 1)
      BY <2>7
    <3>2. n - 1 \notin bad
      BY <2>2, <3>1
    <3>3. QED
      BY <2>7, <3>2
  <2>9. QED
    BY <2>3, <2>5, <2>6, <2>8 DEF Step
<1>2. U \in both
  OBVIOUS
<1>3. Cardinality(U) \in Nat
  BY SubsetsAreFinite
<1>4. QED
  BY <1>1, <1>2, <1>3

-----------------------------------------------------------------------------
LEMMA SumOfNone ==
    ASSUME NEW f PROVE SumFunctionOnSet(f, {}) = 0
<1>1. PICK g : IsSum(g, f, {}) /\ SumFunctionOnSet(f, {}) = g[{}]
  BY FS_EmptySet, SumIsDefined
<1>2. g[{}] = Step(g, f, {})
  BY <1>1, SumOfSubset
<1>3. QED
  BY <1>1, <1>2 DEF Step

\* The sum takes the picked element first.
LEMMA SumPicks ==
    ASSUME NEW f, NEW S, IsFiniteSet(S), S # {}
    PROVE  SumFunctionOnSet(f, S) = f[Pick(S)] + SumFunctionOnSet(f, S \ {Pick(S)})
<1>1. PICK g : IsSum(g, f, S) /\ SumFunctionOnSet(f, S) = g[S]
  BY SumIsDefined
<1> DEFINE R == S \ {Pick(S)}
<1>2. IsFiniteSet(R)
  BY SubsetsAreFinite
<1>3. PICK h : IsSum(h, f, R) /\ SumFunctionOnSet(f, R) = h[R]
  BY <1>2, SumIsDefined
<1>4. g[R] = h[R]
  BY <1>1, <1>3, SumsAgree
<1>5. g[S] = Step(g, f, S)
  BY <1>1, SumOfSubset
<1>6. QED
  BY <1>1, <1>3, <1>4, <1>5 DEF Step

LEMMA SumIsInt ==
    ASSUME NEW f, NEW S, IsFiniteSet(S), \A x \in S : f[x] \in Int,
           NEW U \in SUBSET S
    PROVE  SumFunctionOnSet(f, U) \in Int
<1> DEFINE bad == {n \in Nat : \E s \in SUBSET S :
                      n = Cardinality(s) /\ SumFunctionOnSet(f, s) \notin Int}
<1>1. bad = {}
  <2>1. SUFFICES ASSUME bad # {} PROVE FALSE
    OBVIOUS
  <2>2. PICK n \in bad : \A k \in bad : n <= k
    BY <2>1, Least
  <2>3. PICK s \in SUBSET S : n = Cardinality(s) /\ SumFunctionOnSet(f, s) \notin Int
    OBVIOUS
  <2>4. s # {}
    BY <2>3, SumOfNone
  <2> DEFINE r == s \ {Pick(s)}
  <2>5. r \in SUBSET S /\ Cardinality(r) = n - 1 /\ n \in Nat /\ n - 1 \in Nat
        /\ IsFiniteSet(s) /\ Pick(s) \in S
    BY <2>3, <2>4, PickIsIn, SubsetsAreFinite
  <2>6. SumFunctionOnSet(f, r) \in Int
    <3>1. ~(n <= n - 1)
      BY <2>5
    <3>2. n - 1 \notin bad
      BY <2>2, <3>1
    <3>3. QED
      BY <2>5, <3>2
  <2>7. SumFunctionOnSet(f, s) = f[Pick(s)] + SumFunctionOnSet(f, r)
    BY <2>4, <2>5, SumPicks
  <2>8. QED
    BY <2>3, <2>5, <2>6, <2>7
<1>2. Cardinality(U) \in Nat
  BY SubsetsAreFinite
<1>3. QED
  BY <1>1, <1>2

\* The order does not matter: any element may be taken first.
LEMMA SumTakes ==
    ASSUME NEW f, NEW S, IsFiniteSet(S), \A x \in S : f[x] \in Int,
           NEW U \in SUBSET S, NEW y \in U
    PROVE  SumFunctionOnSet(f, U) = f[y] + SumFunctionOnSet(f, U \ {y})
<1> DEFINE Takes(s) == \A x \in s :
                          SumFunctionOnSet(f, s) = f[x] + SumFunctionOnSet(f, s \ {x})
           bad == {n \in Nat : \E s \in SUBSET S : n = Cardinality(s) /\ ~Takes(s)}
<1>1. bad = {}
  <2>1. SUFFICES ASSUME bad # {} PROVE FALSE
    OBVIOUS
  <2>2. PICK n \in bad : \A k \in bad : n <= k
    BY <2>1, Least
  <2>3. PICK s \in SUBSET S : n = Cardinality(s) /\ ~Takes(s)
    OBVIOUS
  <2>4. PICK x \in s : SumFunctionOnSet(f, s) # f[x] + SumFunctionOnSet(f, s \ {x})
    BY <2>3
  <2> DEFINE c == Pick(s)
  <2>5. c \in s /\ IsFiniteSet(s) /\ n \in Nat
    BY <2>4, PickIsIn, SubsetsAreFinite
  <2>6. SumFunctionOnSet(f, s) = f[c] + SumFunctionOnSet(f, s \ {c})
    BY <2>5, SumPicks
  <2> HIDE DEF c, Takes
  <2>7. c # x
    BY <2>4, <2>6
  <2>8. \A z \in s : Takes(s \ {z})
    <3> SUFFICES ASSUME NEW z \in s PROVE Takes(s \ {z})
      OBVIOUS
    <3>1. s \ {z} \in SUBSET S /\ Cardinality(s \ {z}) = n - 1 /\ n - 1 \in Nat
      BY <2>3, <2>5, SubsetsAreFinite
    <3>2. n - 1 \notin bad
      <4>1. ~(n <= n - 1)
        BY <2>5
      <4>2. QED
        BY <2>2, <4>1
    <3>3. QED
      BY <3>1, <3>2
  <2> DEFINE rest == SumFunctionOnSet(f, (s \ {c}) \ {x})
  <2>9. SumFunctionOnSet(f, s \ {c}) = f[x] + rest
    BY <2>5, <2>7, <2>8 DEF Takes
  <2>10. SumFunctionOnSet(f, s \ {x}) = f[c] + rest
    <3>1. (s \ {c}) \ {x} = (s \ {x}) \ {c}
      OBVIOUS
    <3>2. QED
      BY <2>5, <2>7, <2>8, <3>1 DEF Takes
  <2>11. rest \in Int /\ f[x] \in Int /\ f[c] \in Int
    BY <2>5, SumIsInt
  <2> HIDE DEF rest
  <2>12. QED
    BY <2>4, <2>6, <2>9, <2>10, <2>11
<1>2. Cardinality(U) \in Nat
  BY SubsetsAreFinite
<1>3. QED
  BY <1>1, <1>2

-----------------------------------------------------------------------------
(* Sums over a whole set.                                                   *)

LEMMA SumOfSame ==
    ASSUME NEW f, NEW h, NEW S, IsFiniteSet(S), \A x \in S : f[x] \in Int,
           \A x \in S : h[x] = f[x], NEW U \in SUBSET S
    PROVE  SumFunctionOnSet(h, U) = SumFunctionOnSet(f, U)
<1> DEFINE P == {t \in SUBSET U : SumFunctionOnSet(h, t) = SumFunctionOnSet(f, t)}
<1>1. {} \in P
  BY SumOfNone
<1>2. ASSUME NEW t \in P, NEW x \in U \ t PROVE t \union {x} \in P
  <2>1. (t \union {x}) \ {x} = t /\ t \union {x} \in SUBSET S /\ t \union {x} \in SUBSET U
    OBVIOUS
  <2>2. SumFunctionOnSet(f, t \union {x}) = f[x] + SumFunctionOnSet(f, t)
    BY <2>1, SumTakes
  <2>3. SumFunctionOnSet(h, t \union {x}) = h[x] + SumFunctionOnSet(h, t)
    BY <2>1, SumTakes
  <2>4. QED
    BY <2>1, <2>2, <2>3
<1>3. IsFiniteSet(U)
  BY SubsetsAreFinite
<1> HIDE DEF P
<1>4. P \in SUBSET SUBSET U
  BY DEF P
<1>5. U \in P
  BY <1>1, <1>2, <1>3, <1>4, OneByOne
<1>6. QED
  BY <1>5 DEF P

\* A function that differs in one place.
LEMMA SumOfChange ==
    ASSUME NEW f, NEW h, NEW S, IsFiniteSet(S), \A x \in S : f[x] \in Int,
           \A x \in S : h[x] \in Int, NEW y \in S, \A x \in S \ {y} : h[x] = f[x]
    PROVE  SumFunctionOnSet(h, S) = SumFunctionOnSet(f, S) - f[y] + h[y]
<1> DEFINE R == S \ {y}
<1>1. SumFunctionOnSet(f, S) = f[y] + SumFunctionOnSet(f, R)
  BY SumTakes
<1>2. SumFunctionOnSet(h, S) = h[y] + SumFunctionOnSet(h, R)
  BY SumTakes
<1>3. SumFunctionOnSet(h, R) = SumFunctionOnSet(f, R)
  <2>1. IsFiniteSet(R) /\ R \in SUBSET R
    BY SubsetsAreFinite
  <2>2. QED
    BY <2>1, SumOfSame
<1>4. SumFunctionOnSet(f, R) \in Int /\ f[y] \in Int /\ h[y] \in Int
  BY SumIsInt
<1>5. QED
  BY <1>1, <1>2, <1>3, <1>4

LEMMA SumOfSums ==
    ASSUME NEW f, NEW g, NEW h, NEW S, IsFiniteSet(S), NEW m \in Int,
           \A x \in S : f[x] \in Int /\ g[x] \in Int,
           \A x \in S : h[x] = f[x] + m * g[x]
    PROVE  SumFunctionOnSet(h, S) = SumFunctionOnSet(f, S) + m * SumFunctionOnSet(g, S)
<1> DEFINE P == {t \in SUBSET S : SumFunctionOnSet(h, t)
                    = SumFunctionOnSet(f, t) + m * SumFunctionOnSet(g, t)}
<1>0. \A x \in S : h[x] \in Int
  OBVIOUS
<1>1. {} \in P
  BY SumOfNone
<1>2. ASSUME NEW t \in P, NEW x \in S \ t PROVE t \union {x} \in P
  <2> DEFINE a == SumFunctionOnSet(f, t)
             b == SumFunctionOnSet(g, t)
             u == t \union {x}
  <2>1. u \ {x} = t /\ u \in SUBSET S /\ t \in SUBSET S /\ x \in S /\ x \in u
    OBVIOUS
  <2> HIDE DEF u
  <2>2. SumFunctionOnSet(f, u) = f[x] + a
    BY <2>1, SumTakes
  <2>3. SumFunctionOnSet(g, u) = g[x] + b
    BY <2>1, SumTakes
  <2>4. SumFunctionOnSet(h, u) = h[x] + SumFunctionOnSet(h, t)
    BY <1>0, <2>1, SumTakes
  <2>5. SumFunctionOnSet(h, t) = a + m * b
    OBVIOUS
  <2>6. a \in Int /\ b \in Int
    BY <2>1, SumIsInt
  <2> HIDE DEF a, b, P
  <2>7. SumFunctionOnSet(h, u) = (f[x] + a) + m * (g[x] + b)
    <3>1. f[x] \in Int /\ g[x] \in Int /\ h[x] = f[x] + m * g[x]
      BY <2>1
    <3>2. m * (g[x] + b) = m * g[x] + m * b
      BY <2>6, <3>1
    <3>3. m * g[x] \in Int /\ m * b \in Int
      BY <2>6, <3>1
    <3>4. QED
      BY <2>4, <2>5, <2>6, <3>1, <3>2, <3>3
  <2>8. u \in P
    BY <2>1, <2>2, <2>3, <2>7 DEF P
  <2>9. QED
    BY <2>8 DEF u
<1> HIDE DEF P
<1>3. P \in SUBSET SUBSET S
  BY DEF P
<1>4. S \in P
  BY <1>1, <1>2, <1>3, OneByOne
<1>5. QED
  BY <1>4 DEF P

LEMMA SumIsMonotonic ==
    ASSUME NEW f, NEW h, NEW S, IsFiniteSet(S),
           \A x \in S : f[x] \in Int /\ h[x] \in Int /\ f[x] <= h[x]
    PROVE  SumFunctionOnSet(f, S) <= SumFunctionOnSet(h, S)
<1> DEFINE P == {t \in SUBSET S : SumFunctionOnSet(f, t) <= SumFunctionOnSet(h, t)}
<1>1. {} \in P
  BY SumOfNone
<1>2. ASSUME NEW t \in P, NEW x \in S \ t PROVE t \union {x} \in P
  <2>1. (t \union {x}) \ {x} = t /\ t \union {x} \in SUBSET S /\ t \in SUBSET S
    OBVIOUS
  <2>2. SumFunctionOnSet(f, t \union {x}) = f[x] + SumFunctionOnSet(f, t)
    BY <2>1, SumTakes
  <2>3. SumFunctionOnSet(h, t \union {x}) = h[x] + SumFunctionOnSet(h, t)
    BY <2>1, SumTakes
  <2>4. SumFunctionOnSet(f, t) \in Int /\ SumFunctionOnSet(h, t) \in Int
    BY <2>1, SumIsInt
  <2>5. SumFunctionOnSet(f, t) <= SumFunctionOnSet(h, t) /\ f[x] <= h[x]
        /\ f[x] \in Int /\ h[x] \in Int
    OBVIOUS
  <2>6. SumFunctionOnSet(f, t \union {x}) <= SumFunctionOnSet(h, t \union {x})
    BY <2>2, <2>3, <2>4, <2>5
  <2>7. QED
    BY <2>1, <2>6
<1> HIDE DEF P
<1>3. P \in SUBSET SUBSET S
  BY DEF P
<1>4. S \in P
  BY <1>1, <1>2, <1>3, OneByOne
<1>5. QED
  BY <1>4 DEF P

LEMMA SumOfZeros ==
    ASSUME NEW f, NEW S, IsFiniteSet(S), \A x \in S : f[x] = 0
    PROVE  SumFunctionOnSet(f, S) = 0
<1> DEFINE P == {t \in SUBSET S : SumFunctionOnSet(f, t) = 0}
<1>1. {} \in P
  BY SumOfNone
<1>2. ASSUME NEW t \in P, NEW x \in S \ t PROVE t \union {x} \in P
  <2>1. (t \union {x}) \ {x} = t /\ t \union {x} \in SUBSET S
    OBVIOUS
  <2>2. SumFunctionOnSet(f, t \union {x}) = f[x] + SumFunctionOnSet(f, t)
    BY <2>1, SumTakes
  <2>3. QED
    BY <2>1, <2>2
<1> HIDE DEF P
<1>3. P \in SUBSET SUBSET S
  BY DEF P
<1>4. S \in P
  BY <1>1, <1>2, <1>3, OneByOne
<1>5. QED
  BY <1>4 DEF P

\* None of several natural numbers is more than their sum.
LEMMA OneOfTheSum ==
    ASSUME NEW f, NEW S, IsFiniteSet(S), \A x \in S : f[x] \in Nat, NEW y \in S
    PROVE  f[y] <= SumFunctionOnSet(f, S)
<1> DEFINE R == S \ {y}
           none == [x \in S |-> 0]
<1>1. SumFunctionOnSet(f, S) = f[y] + SumFunctionOnSet(f, R)
  BY SumTakes
<1>2. IsFiniteSet(R) /\ \A x \in R : none[x] = 0 /\ f[x] \in Nat
  BY FS_Subset
<1> HIDE DEF R, none
<1>3. SumFunctionOnSet(none, R) = 0
  BY <1>2, SumOfZeros
<1>4. SumFunctionOnSet(none, R) <= SumFunctionOnSet(f, R)
  <2>1. \A x \in R : none[x] \in Int /\ f[x] \in Int /\ none[x] <= f[x]
    BY <1>2
  <2>2. QED
    BY <1>2, <2>1, SumIsMonotonic
<1>5. SumFunctionOnSet(f, R) \in Int
  BY <1>2, SumIsInt
<1>6. QED
  BY <1>1, <1>3, <1>4, <1>5

\* Several numbers of at most m each.
LEMMA SumIsBounded ==
    ASSUME NEW f, NEW S, IsFiniteSet(S), NEW m \in Nat,
           \A x \in S : f[x] \in Nat /\ f[x] <= m
    PROVE  SumFunctionOnSet(f, S) <= m * Cardinality(S)
<1> DEFINE P == {t \in SUBSET S : SumFunctionOnSet(f, t) <= m * Cardinality(t)}
<1>1. {} \in P
  <2>1. SumFunctionOnSet(f, {}) = 0 /\ Cardinality({}) = 0
    BY SumOfNone, FS_EmptySet
  <2>2. 0 <= m * 0
    OBVIOUS
  <2>3. QED
    BY <2>1, <2>2
<1>2. ASSUME NEW t \in P, NEW x \in S \ t PROVE t \union {x} \in P
  <2> DEFINE u == t \union {x}
             n == Cardinality(t)
  <2>1. u \ {x} = t /\ u \in SUBSET S /\ x \in u /\ t \in SUBSET S
    OBVIOUS
  <2>2. SumFunctionOnSet(f, u) = f[x] + SumFunctionOnSet(f, t)
    BY <2>1, SumTakes
  <2>3. n \in Nat /\ Cardinality(u) = n + 1
    BY <2>1, FS_Subset, FS_AddElement, FS_CardinalityType
  <2>4. SumFunctionOnSet(f, t) \in Int
    BY <2>1, SumIsInt
  <2>5. SumFunctionOnSet(f, t) <= m * n
    OBVIOUS
  <2> HIDE DEF u, n, P
  <2>6. m * (n + 1) = m * n + m
    BY <2>3
  <2>7. SumFunctionOnSet(f, u) <= m * Cardinality(u)
    <3>1. m * n \in Int
      BY <2>3
    <3>2. QED
      BY <2>2, <2>3, <2>4, <2>5, <2>6, <3>1
  <2>8. QED
    BY <2>1, <2>7 DEF P, u
<1> HIDE DEF P
<1>3. P \in SUBSET SUBSET S
  BY DEF P
<1>4. S \in P
  BY <1>1, <1>2, <1>3, OneByOne
<1>5. QED
  BY <1>4 DEF P
=============================================================================
