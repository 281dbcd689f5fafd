------------------------------ MODULE Induction ------------------------------
(***************************************************************************)
(* Induction over the natural numbers and over finite sets of them, stated *)
(* with sets in place of predicates; quotients, remainders and powers of   *)
(* two; how many subsets of a size there are: what the proofs about loops, *)
(* folds, trees and samples rest on.                                       *)
(***************************************************************************)
EXTENDS FiniteSetTheorems, FiniteSetsExt, TLAPS

\* A set of natural numbers that is not empty has a least one.
LEMMA LeastExists ==
    ASSUME NEW T \in SUBSET Nat, T # {}
    PROVE  \E m \in T : \A k \in T : m <= k
  <1>1. \E m \in T : \A k \in T : <<k, m>> \notin OpToRel(<, Nat)
    BY NatLessThanWellFounded, WFMin
  <1>2. PICK m \in T : \A k \in T : ~(k < m)
    BY <1>1 DEF OpToRel
  <1> QED
    BY <1>2

\* A set that has 0 and with a number the next one has them all: of those it
\* lacks there would be a least one.
LEMMA SetInduction ==
    ASSUME NEW S, 0 \in S, \A n \in Nat : n \in S => n + 1 \in S
    PROVE  \A n \in Nat : n \in S
  <1> DEFINE T == Nat \ S
  <1> SUFFICES ASSUME T # {} PROVE FALSE
    OBVIOUS
  <1>1. PICK m \in T : \A k \in T : m <= k
    BY LeastExists
  <1>2. m # 0 /\ m - 1 \in Nat /\ (m - 1) + 1 = m
    OBVIOUS
  <1>3. m - 1 \in S
    BY <1>1, <1>2
  <1> QED
    BY <1>2, <1>3

\* A set of numbers below a bound that is not empty has a largest one.
LEMMA MaxIsLargest ==
    ASSUME NEW n \in Nat, NEW s \in SUBSET (0..n), s # {}
    PROVE  Max(s) \in s /\ \A h \in s : Max(s) >= h
  <1> DEFINE S == {k \in Nat : \A t \in SUBSET (0..k) :
                                   t # {} => \E x \in t : \A y \in t : x >= y}
  <1>1. 0 \in S
    <2> SUFFICES ASSUME NEW t \in SUBSET (0..0), t # {}
                 PROVE  \E x \in t : \A y \in t : x >= y
      OBVIOUS
    <2>1. \A x \in t : x = 0
      OBVIOUS
    <2>2. PICK x \in t : TRUE
      OBVIOUS
    <2> QED
      BY <2>1, <2>2
  <1>2. ASSUME NEW k \in Nat, k \in S
        PROVE  k + 1 \in S
    <2> SUFFICES ASSUME NEW t \in SUBSET (0..(k + 1)), t # {}
                 PROVE  \E x \in t : \A y \in t : x >= y
      OBVIOUS
    <2>1. CASE k + 1 \in t
      BY <2>1
    <2>2. CASE k + 1 \notin t
      <3>1. t \in SUBSET (0..k)
        BY <2>2
      <3> QED
        BY <3>1, <1>2
    <2> QED
      BY <2>1, <2>2
  <1>3. n \in S
    <2> HIDE DEF S
    <2> QED
      BY <1>1, <1>2, SetInduction
  <1>4. \E x \in s : \A y \in s : x >= y
    BY <1>3
  <1> QED
    BY <1>4 DEF Max

LEMMA MaxIs ==
    ASSUME NEW n \in Nat, NEW s \in SUBSET (0..n), NEW m \in s, \A h \in s : h <= m
    PROVE  Max(s) = m
  <1>1. PICK max \in s : max = Max(s) /\ \A h \in s : max >= h
    BY MaxIsLargest
  <1>2. max \in Nat /\ m \in Nat /\ max >= m /\ max <= m
    BY <1>1
  <1> QED
    BY <1>1, <1>2

LEMMA PowerOfZero == 2^0 = 1
  <1>1. SUBSET (1..0) = {{}}
    <2>1. 1..0 = {}
      OBVIOUS
    <2> QED
      BY <2>1
  <1>2. Cardinality(SUBSET (1..0)) = 2^0
    <2>1. IsFiniteSet(1..0) /\ Cardinality(1..0) = 0
      BY FS_Interval
    <2> QED
      BY <2>1, FS_SUBSET
  <1> QED
    BY <1>1, <1>2, FS_Singleton

\* Twice the subsets for one element more.
LEMMA PowerDoubles ==
    ASSUME NEW n \in Nat
    PROVE  2^(n + 1) = 2 * 2^n /\ 2^n \in Nat \ {0}
  <1> DEFINE S == 1..n
             x == n + 1
             T == 1..(n + 1)
             W == {s \cup {x} : s \in SUBSET S}
  <1>1. IsFiniteSet(S) /\ Cardinality(S) = n /\ IsFiniteSet(T) /\ Cardinality(T) = n + 1
    BY FS_Interval
  <1>2. /\ IsFiniteSet(SUBSET S) /\ Cardinality(SUBSET S) = 2^n
        /\ Cardinality(SUBSET T) = 2^(n + 1)
    BY <1>1, FS_SUBSET
  <1>3. ExistsBijection(SUBSET S, W)
    <2> DEFINE f == [s \in SUBSET S |-> s \cup {x}]
    <2>1. \A s, t \in SUBSET S : f[s] = f[t] => s = t
      <3> SUFFICES ASSUME NEW s \in SUBSET S, NEW t \in SUBSET S, s \cup {x} = t \cup {x}
                   PROVE  s = t
        OBVIOUS
      <3>1. x \notin s /\ x \notin t
        OBVIOUS
      <3> QED
        BY <3>1
    <2>2. f \in [SUBSET S -> W]
      OBVIOUS
    <2>3. \A w \in W : \E s \in SUBSET S : f[s] = w
      OBVIOUS
    <2> HIDE DEF f, W
    <2>4. f \in Bijection(SUBSET S, W)
      BY <2>1, <2>2, <2>3 DEF Bijection, Injection, Surjection, IsInjective
    <2> QED
      BY <2>4 DEF ExistsBijection
  <1>4. IsFiniteSet(W) /\ Cardinality(W) = 2^n
    BY <1>2, <1>3, FS_Bijection
  <1>5. SUBSET T = (SUBSET S) \cup W /\ (SUBSET S) \cap W = {}
    <2>1. ASSUME NEW t \in SUBSET T
          PROVE  t \in SUBSET S \/ t \in W
      <3>1. CASE x \in t
        <4>1. t \ {x} \in SUBSET S /\ t = (t \ {x}) \cup {x}
          BY <3>1
        <4> QED
          BY <4>1
      <3>2. CASE x \notin t
        BY <3>2
      <3> QED
        BY <3>1, <3>2
    <2>2. W \subseteq SUBSET T /\ SUBSET S \subseteq SUBSET T
      <3>1. S \subseteq T /\ x \in T
        OBVIOUS
      <3> HIDE DEF S, T, x
      <3> QED
        BY <3>1
    <2>3. \A w \in W : x \in w
      OBVIOUS
    <2>4. \A s \in SUBSET S : x \notin s
      OBVIOUS
    <2> QED
      BY <2>1, <2>2, <2>3, <2>4
  <1>6. Cardinality(SUBSET T) = 2^n + 2^n - 0
    <2> DEFINE A == SUBSET S
    <2>1. IsFiniteSet(A) /\ IsFiniteSet(W) /\ Cardinality(A \cap W) = 0
      BY <1>2, <1>4, <1>5, FS_EmptySet
    <2>2. Cardinality(A \cup W) = Cardinality(A) + Cardinality(W) - Cardinality(A \cap W)
      <3> HIDE DEF A, W
      <3> QED
        BY <2>1, FS_Union
    <2> QED
      BY <1>2, <1>4, <1>5, <2>1, <2>2
  <1>7. 2^n \in Nat /\ 2^n # 0
    <2>1. {} \in SUBSET S
      OBVIOUS
    <2> QED
      BY <1>2, <2>1, FS_CardinalityType, FS_EmptySet
  <1> QED
    BY <1>2, <1>6, <1>7

-----------------------------------------------------------------------------
(* Quotients, remainders and powers of two                                 *)

\* Quotient and remainder are unique.
LEMMA SmallerQuotient ==
    ASSUME NEW width \in Nat \ {0}, NEW p \in Nat, NEW q \in Nat, p < q,
           NEW r \in 0..(width - 1), NEW s \in 0..(width - 1)
    PROVE  width * p + r # width * q + s
  <1>1. PICK k \in Nat : q = p + 1 + k
    <2>1. q - p - 1 \in Nat /\ q = p + 1 + (q - p - 1)
      OBVIOUS
    <2> QED
      BY <2>1
  <1>2. width * q = width * p + width + width * k /\ width * k \in Nat /\ width * p \in Nat
    BY <1>1
  <1> QED
    BY <1>2

LEMMA QuotientUnique ==
    ASSUME NEW width \in Nat \ {0}, NEW p \in Nat, NEW q \in Nat,
           NEW r \in 0..(width - 1), NEW s \in 0..(width - 1),
           width * p + r = width * q + s
    PROVE  p = q /\ r = s
  <1>1. ~(p < q)
    BY SmallerQuotient
  <1>2. ~(q < p)
    BY SmallerQuotient
  <1> QED
    BY <1>1, <1>2

\* A bit's number gives back its byte and its place there.
LEMMA BitPlace ==
    ASSUME NEW width \in Nat \ {0}, NEW byte \in Nat, NEW bit \in 0..(width - 1)
    PROVE  /\ byte * width + bit \in Nat
           /\ (byte * width + bit) \div width = byte
           /\ (byte * width + bit) % width = bit
  <1> DEFINE n == byte * width + bit
  <1>1. n \in Nat /\ n = width * byte + bit
    OBVIOUS
  <1> HIDE DEF n
  <1>2. /\ n = width * (n \div width) + (n % width)
        /\ n % width \in 0..(width - 1)
        /\ n \div width \in Nat
    BY <1>1
  <1>3. n \div width = byte /\ n % width = bit
    BY <1>1, <1>2, QuotientUnique
  <1> QED
    BY <1>1, <1>3 DEF n

\* What a number is made of gives its quotient and remainder.
LEMMA DivisionIs ==
    ASSUME NEW m \in Nat \ {0}, NEW x \in Nat, NEW q \in Nat, NEW r \in 0..(m - 1), x = m * q + r
    PROVE  x \div m = q /\ x % m = r
  <1>1. /\ x = m * (x \div m) + (x % m)
        /\ x % m \in 0..(m - 1)
        /\ x \div m \in Nat
    OBVIOUS
  <1> DEFINE p == x \div m
             s == x % m
  <1> HIDE DEF p, s
  <1>2. p = q /\ s = r
    <2>1. p \in Nat /\ s \in 0..(m - 1) /\ m * p + s = m * q + r
      BY <1>1 DEF p, s
    <2> QED
      BY <2>1, QuotientUnique
  <1> QED
    BY <1>2 DEF p, s

LEMMA Division ==
    ASSUME NEW m \in Nat \ {0}, NEW x \in Nat
    PROVE  \E q \in Nat, r \in 0..(m - 1) : x = m * q + r /\ x \div m = q /\ x % m = r
  <1>1. /\ x = m * (x \div m) + (x % m)
        /\ x % m \in 0..(m - 1)
        /\ x \div m \in Nat
    OBVIOUS
  <1> QED
    BY <1>1

\* Dividing twice.
LEMMA DivisionTwice ==
    ASSUME NEW m \in Nat \ {0}, NEW n \in Nat \ {0}, NEW x \in Nat
    PROVE  /\ m * n \in Nat \ {0}
           /\ x \div (m * n) = (x \div m) \div n
           /\ x % (m * n) = (m * ((x \div m) % n)) + (x % m)
           /\ x % (m * n) \in 0..(m * n - 1)
  <1>1. PICK q \in Nat, r \in 0..(m - 1) : x = m * q + r /\ x \div m = q /\ x % m = r
    BY Division
  <1>2. PICK u \in Nat, v \in 0..(n - 1) : q = n * u + v /\ q \div n = u /\ q % n = v
    BY Division
  <1>3. x = (m * n) * u + (m * v + r)
    <2>1. m * q = m * (n * u) + m * v
      BY <1>2
    <2>2. m * (n * u) = (m * n) * u
      OBVIOUS
    <2>3. m * q \in Nat /\ m * v \in Nat /\ m * (n * u) \in Nat
      OBVIOUS
    <2> QED
      BY <1>1, <2>1, <2>2, <2>3
  <1>4. m * v + r \in 0..(m * n - 1) /\ m * n \in Nat \ {0}
    <2>1. PICK w \in Nat : n = v + 1 + w
      <3>1. n - v - 1 \in Nat /\ n = v + 1 + (n - v - 1)
        OBVIOUS
      <3> QED
        BY <3>1
    <2>2. m * n = m * v + m + m * w
      BY <2>1
    <2>3. m * v \in Nat /\ m * w \in Nat
      OBVIOUS
    <2> QED
      BY <2>2, <2>3
  <1>5. x \div (m * n) = u /\ x % (m * n) = m * v + r
    BY <1>3, <1>4, DivisionIs
  <1> QED
    BY <1>1, <1>2, <1>4, <1>5

\* Remainders may be taken at any time in a sum.
LEMMA RemainderOfSum ==
    ASSUME NEW m \in Nat \ {0}, NEW x \in Nat, NEW y \in Nat
    PROVE  ((x % m) + (y % m)) % m = (x + y) % m
  <1>1. PICK q \in Nat, r \in 0..(m - 1) : x = m * q + r /\ x % m = r
    BY Division
  <1>2. PICK p \in Nat, s \in 0..(m - 1) : y = m * p + s /\ y % m = s
    BY Division
  <1>3. PICK u \in Nat, t \in 0..(m - 1) : r + s = m * u + t /\ (r + s) % m = t
    <2>1. r + s \in Nat
      OBVIOUS
    <2> QED
      BY <2>1, Division
  <1>4. x + y = m * (q + p + u) + t
    BY <1>1, <1>2, <1>3
  <1>5. (x + y) % m = t
    <2>1. x + y \in Nat /\ q + p + u \in Nat
      OBVIOUS
    <2> QED
      BY <1>4, <2>1, DivisionIs
  <1> QED
    BY <1>1, <1>2, <1>3, <1>5

LEMMA SmallRemainder ==
    ASSUME NEW m \in Nat \ {0}, NEW x \in 0..(m - 1)
    PROVE  x % m = x /\ x \div m = 0
  <1>1. x = m * 0 + x /\ x \in Nat /\ 0 \in Nat
    OBVIOUS
  <1> QED
    BY <1>1, DivisionIs

\* The exponents of powers of two add up.
LEMMA PowersMultiply ==
    ASSUME NEW a \in Nat, NEW b \in Nat
    PROVE  2^(a + b) = 2^a * 2^b /\ 2^a \in Nat \ {0} /\ 2^b \in Nat \ {0}
  <1> DEFINE S == {k \in Nat : 2^(a + k) = 2^a * 2^k}
  <1>1. 0 \in S
    <2>1. a + 0 = a /\ 2^0 = 1 /\ 2^a \in Nat
      BY PowerOfZero, PowerDoubles
    <2> QED
      BY <2>1
  <1>2. ASSUME NEW k \in Nat, k \in S
        PROVE  k + 1 \in S
    <2> DEFINE p == 2^a
               q == 2^k
               s == 2^(a + k)
    <2>1. p \in Nat /\ q \in Nat /\ 2^(k + 1) = 2 * q
      BY PowerDoubles
    <2>2. a + k \in Nat /\ (a + k) + 1 = a + (k + 1)
      OBVIOUS
    <2>3. 2^(a + (k + 1)) = 2 * s
      BY <2>2, PowerDoubles
    <2>4. s = p * q
      BY <1>2
    <2> HIDE DEF p, q, s
    <2>5. 2 * (p * q) = p * (2 * q)
      BY <2>1
    <2>6. 2^(a + (k + 1)) = p * 2^(k + 1)
      BY <2>1, <2>3, <2>4, <2>5
    <2> QED
      BY <2>6 DEF p
  <1>3. b \in S
    <2> HIDE DEF S
    <2> QED
      BY <1>1, <1>2, SetInduction
  <1> QED
    BY <1>3, PowerDoubles

-----------------------------------------------------------------------------
(* Counting subsets                                                        *)

\* In how many ways k elements are chosen from a set.
Ways(k, A) == Cardinality(kSubset(k, A))

\* How many numbers are below n.
LEMMA NumbersBelow ==
    ASSUME NEW n \in Nat
    PROVE  IsFiniteSet(0..(n - 1)) /\ Cardinality(0..(n - 1)) = n
  BY FS_Interval

LEMMA SubsetsAreFinite ==
    ASSUME NEW A, IsFiniteSet(A), NEW k
    PROVE  IsFiniteSet(kSubset(k, A)) /\ Ways(k, A) \in Nat
  <1>1. kSubset(k, A) \in SUBSET (SUBSET A)
    BY DEF kSubset
  <1>2. IsFiniteSet(SUBSET A)
    BY FS_SUBSET
  <1>3. IsFiniteSet(kSubset(k, A))
    BY <1>1, <1>2, FS_Subset
  <1> QED
    BY <1>3, FS_CardinalityType DEF Ways

LEMMA OneEmptySubset ==
    ASSUME NEW A, IsFiniteSet(A)
    PROVE  Ways(0, A) = 1
  <1>1. kSubset(0, A) = {{}}
    <2>1. ASSUME NEW s \in SUBSET A
          PROVE  Cardinality(s) = 0 <=> s = {}
      BY FS_Subset, FS_EmptySet
    <2> QED
      BY <2>1 DEF kSubset
  <1> QED
    BY <1>1, FS_Singleton DEF Ways

LEMMA NoLargerSubset ==
    ASSUME NEW A, IsFiniteSet(A), NEW k \in Nat, Cardinality(A) < k
    PROVE  Ways(k, A) = 0
  <1>1. ASSUME NEW s \in SUBSET A
        PROVE  Cardinality(s) # k
    <2>1. Cardinality(s) <= Cardinality(A) /\ Cardinality(A) \in Nat
      BY FS_Subset, FS_CardinalityType
    <2> QED
      BY <2>1
  <1>2. kSubset(k, A) = {}
    BY <1>1 DEF kSubset
  <1> QED
    BY <1>2, FS_EmptySet DEF Ways

\* A subset has the new element, and one element fewer of the others, or not.
LEMMA SubsetsOfMore ==
    ASSUME NEW A, IsFiniteSet(A), NEW x, x \notin A, NEW k \in Nat
    PROVE  Ways(k + 1, A \cup {x}) = Ways(k + 1, A) + Ways(k, A)
  <1> DEFINE T == A \cup {x}
             Without == kSubset(k + 1, A)
             Fewer == kSubset(k, A)
             With == {s \cup {x} : s \in Fewer}
  <1>1. ASSUME NEW s \in SUBSET A
        PROVE  /\ IsFiniteSet(s) /\ x \notin s /\ Cardinality(s) \in Nat
               /\ Cardinality(s \cup {x}) = Cardinality(s) + 1
    <2>1. IsFiniteSet(s) /\ x \notin s
      BY FS_Subset
    <2> QED
      BY <2>1, FS_AddElement, FS_CardinalityType
  <1>2. \A s \in Fewer : s \in SUBSET A /\ Cardinality(s) = k
    BY DEF kSubset
  <1>3. ExistsBijection(Fewer, With)
    <2> DEFINE f == [s \in Fewer |-> s \cup {x}]
    <2>1. \A s, t \in Fewer : f[s] = f[t] => s = t
      <3> SUFFICES ASSUME NEW s \in Fewer, NEW t \in Fewer, s \cup {x} = t \cup {x}
                   PROVE  s = t
        OBVIOUS
      <3>1. x \notin s /\ x \notin t
        BY <1>1, <1>2
      <3> QED
        BY <3>1
    <2>2. f \in [Fewer -> With]
      OBVIOUS
    <2>3. \A w \in With : \E s \in Fewer : f[s] = w
      OBVIOUS
    <2> HIDE DEF f, With, Fewer
    <2>4. f \in Bijection(Fewer, With)
      BY <2>1, <2>2, <2>3 DEF Bijection, Injection, Surjection, IsInjective
    <2> QED
      BY <2>4 DEF ExistsBijection
  <1>4. kSubset(k + 1, T) = Without \cup With
    <2>1. ASSUME NEW t \in kSubset(k + 1, T)
          PROVE  t \in Without \cup With
      <3>0. t \in SUBSET T /\ Cardinality(t) = k + 1
        BY DEF kSubset
      <3>1. CASE x \in t
        <4>1. t \ {x} \in SUBSET A /\ (t \ {x}) \cup {x} = t
          BY <3>0, <3>1
        <4>2. Cardinality(t) = Cardinality(t \ {x}) + 1 /\ Cardinality(t \ {x}) \in Nat
          BY <1>1, <4>1
        <4>3. Cardinality(t \ {x}) = k
          BY <3>0, <4>2
        <4>4. t \ {x} \in Fewer
          BY <4>1, <4>3 DEF kSubset
        <4> QED
          BY <4>1, <4>4
      <3>2. CASE x \notin t
        <4>1. t \in SUBSET A
          BY <3>0, <3>2
        <4>2. t \in Without
          BY <3>0, <4>1 DEF kSubset
        <4> QED
          BY <4>2
      <3> QED
        BY <3>1, <3>2
    <2>2. ASSUME NEW t \in Without
          PROVE  t \in kSubset(k + 1, T)
      BY DEF kSubset
    <2>3. ASSUME NEW s \in Fewer
          PROVE  s \cup {x} \in kSubset(k + 1, T)
      <3>1. Cardinality(s \cup {x}) = k + 1
        BY <1>1, <1>2
      <3>2. s \cup {x} \in SUBSET T
        BY <1>2
      <3> QED
        BY <3>1, <3>2 DEF kSubset
    <2> QED
      BY <2>1, <2>2, <2>3
  <1>5. Without \cap With = {}
    <2>1. \A t \in Without : x \notin t
      BY DEF kSubset
    <2>2. \A t \in With : x \in t
      OBVIOUS
    <2> QED
      BY <2>1, <2>2
  <1>6. /\ IsFiniteSet(Without) /\ Cardinality(Without) = Ways(k + 1, A) /\ Ways(k + 1, A) \in Nat
        /\ IsFiniteSet(Fewer) /\ Cardinality(Fewer) = Ways(k, A) /\ Ways(k, A) \in Nat
    BY SubsetsAreFinite DEF Ways
  <1>7. IsFiniteSet(With) /\ Cardinality(With) = Ways(k, A)
    BY <1>3, <1>6, FS_Bijection
  <1> HIDE DEF Without, With, T
  <1>8. Cardinality(Without \cup With) = Cardinality(Without) + Cardinality(With) - 0
    <2>1. Cardinality(Without \cap With) = 0
      BY <1>5, FS_EmptySet
    <2> QED
      BY <1>6, <1>7, <2>1, FS_Union
  <1>9. Ways(k + 1, T) = Cardinality(Without \cup With)
    BY <1>4 DEF Ways
  <1> QED
    BY <1>6, <1>7, <1>8, <1>9 DEF T

\* Each subset of k of n elements becomes one of k + 1 by any of the n - k others,
\* and each of those comes from k + 1 subsets.
GrowsBy(A, n) ==
    \A k \in Nat : (k + 1) * Ways(k + 1, A) = (n - k) * Ways(k, A)

LEMMA GrowsOnce ==
    ASSUME NEW n \in Nat, NEW B, IsFiniteSet(B), Cardinality(B) = n, GrowsBy(B, n), NEW x, x \notin B
    PROVE  GrowsBy(B \cup {x}, n + 1)
  <1> SUFFICES ASSUME NEW k \in Nat
               PROVE  (k + 1) * Ways(k + 1, B \cup {x}) = (n + 1 - k) * Ways(k, B \cup {x})
    BY DEF GrowsBy
  <1> DEFINE a == Ways(k + 1, B)
             b == Ways(k, B)
  <1>1. Ways(k + 1, B \cup {x}) = a + b /\ a \in Nat /\ b \in Nat
    BY SubsetsOfMore, SubsetsAreFinite
  <1>2. (k + 1) * a = (n - k) * b
    BY DEF GrowsBy
  <1>3. CASE k = 0
    <2>1. b = 1 /\ Ways(0, B \cup {x}) = 1
      BY <1>3, OneEmptySubset, FS_AddElement
    <2> HIDE DEF a, b
    <2>2. a = n
      BY <1>1, <1>2, <1>3, <2>1
    <2> QED
      BY <1>1, <1>3, <2>1, <2>2
  <1>4. CASE k # 0
    <2> DEFINE h == k - 1
               c == Ways(h, B)
    <2>1. h \in Nat /\ h + 1 = k
      BY <1>4
    <2> HIDE DEF h
    <2>2. Ways(k, B \cup {x}) = b + c /\ c \in Nat
      BY <2>1, SubsetsOfMore, SubsetsAreFinite
    <2>3. (h + 1) * Ways(h + 1, B) = (n - h) * c
      BY <2>1 DEF GrowsBy
    <2>4. k * b = (n - h) * c
      BY <2>1, <2>3
    <2> HIDE DEF a, b, c
    <2>5. (k + 1) * (a + b) = (k + 1) * a + (k + 1) * b
      BY <1>1
    <2>6. (k + 1) * b = k * b + b
      BY <1>1
    <2>7. (n - k) * b = n * b - k * b
      BY <1>1
    <2>8. n + 1 - k = n - h
      BY <2>1
    <2>9. (n + 1 - k) * (b + c) = (n + 1 - k) * b + (n - h) * c
      BY <1>1, <2>1, <2>2, <2>8
    <2>10. (n + 1 - k) * b = n * b + b - k * b
      BY <1>1
    <2>11. k * b \in Int /\ n * b \in Int
      BY <1>1
    <2> QED
      BY <1>1, <1>2, <2>2, <2>4, <2>5, <2>6, <2>7, <2>9, <2>10, <2>11
  <1> QED
    BY <1>3, <1>4

LEMMA WaysGrow ==
    ASSUME NEW A, IsFiniteSet(A)
    PROVE  GrowsBy(A, Cardinality(A))
  <1> DEFINE S == {n \in Nat : \A B : IsFiniteSet(B) /\ Cardinality(B) = n => GrowsBy(B, n)}
  <1>1. 0 \in S
    <2> SUFFICES ASSUME NEW B, IsFiniteSet(B), Cardinality(B) = 0, NEW k \in Nat
                 PROVE  (k + 1) * Ways(k + 1, B) = (0 - k) * Ways(k, B)
      BY DEF GrowsBy
    <2>1. Ways(k + 1, B) = 0
      BY NoLargerSubset
    <2>2. k # 0 => Ways(k, B) = 0
      BY NoLargerSubset
    <2>3. Ways(k, B) \in Nat
      BY SubsetsAreFinite
    <2> QED
      BY <2>1, <2>2, <2>3
  <1>2. ASSUME NEW n \in Nat, n \in S
        PROVE  n + 1 \in S
    <2> SUFFICES ASSUME NEW B, IsFiniteSet(B), Cardinality(B) = n + 1
                 PROVE  GrowsBy(B, n + 1)
      OBVIOUS
    <2>1. PICK x \in B : TRUE
      <3>1. B # {}
        BY FS_EmptySet
      <3> QED
        BY <3>1
    <2> DEFINE R == B \ {x}
    <2>2. IsFiniteSet(R) /\ Cardinality(R) = n
      <3>1. IsFiniteSet(R) /\ Cardinality(R) = Cardinality(B) - 1
        BY <2>1, FS_RemoveElement
      <3> HIDE DEF R
      <3> QED
        BY <3>1
    <2>3. B = R \cup {x} /\ x \notin R
      BY <2>1
    <2>4. GrowsBy(R, n)
      <3> HIDE DEF R
      <3> QED
        BY <1>2, <2>2
    <2> HIDE DEF R
    <2>5. GrowsBy(R \cup {x}, n + 1)
      BY <2>2, <2>3, <2>4, GrowsOnce
    <2> QED
      BY <2>3, <2>5
  <1>3. Cardinality(A) \in Nat
    BY FS_CardinalityType
  <1>4. Cardinality(A) \in S
    <2> HIDE DEF S
    <2> QED
      BY <1>1, <1>2, <1>3, SetInduction
  <1> QED
    BY <1>4
=============================================================================
