-------------------------- MODULE CrossCurveProofs --------------------------
(***************************************************************************)
(* Commitments to different balances answer two challenges at most, and    *)
(* honest proofs are accepted: for every width of a value, a challenge, a  *)
(* weight and a blinder, and every order.                                  *)
(***************************************************************************)
EXTENDS CrossCurve, FiniteSetTheorems, TLAPS

\* The statement is about residues, as Init has it, and never changes.
StatementTyped ==
    statement \in
        [kind : {"balance"}, q : Values, r : 0..(R - 1)]
          \cup {[kind |-> "distances", q |-> v, r |-> v] : v \in [1..3 -> Values]}
          \cup {[kind |-> "secret", q |-> x, r |-> x] : x \in CanonicalX}

LEMMA Numbers ==
    ASSUME CrossCurveAssumption
    PROVE  /\ Q \in Nat \ {0, 1} /\ R \in Nat \ {0, 1} /\ LimbBase \in Nat \ {0, 1}
           /\ Challenge \in Nat \ {0, 1} /\ Weight \in Nat
           /\ Wide \in Nat /\ Q < R /\ R < Wide
  BY DEF CrossCurveAssumption, Wide

-----------------------------------------------------------------------------
(* Sets without three different members                                    *)

LEMMA AtMostTwo ==
    ASSUME NEW S,
           \A x, y, z \in S : x = y \/ y = z \/ x = z
    PROVE  Cardinality(S) <= 2
  <1>1. CASE S = {}
    BY <1>1, FS_EmptySet
  <1>2. ASSUME NEW x \in S
        PROVE  Cardinality(S) <= 2
    <2>1. CASE S = {x}
      <3>1. Cardinality({x}) = 1
        BY FS_Singleton
      <3> QED
        BY <2>1, <3>1
    <2>2. ASSUME NEW y \in S, y # x
          PROVE  Cardinality(S) <= 2
      <3>1. S = {x} \cup {y}
        BY <2>2
      <3>2. IsFiniteSet({x}) /\ Cardinality({x}) = 1
        BY FS_Singleton
      <3>3. Cardinality({x} \cup {y}) = Cardinality({x}) + 1
        BY <2>2, <3>2, FS_AddElement
      <3> QED
        BY <3>1, <3>2, <3>3
    <2> QED
      BY <2>1, <2>2
  <1> QED
    BY <1>1, <1>2

-----------------------------------------------------------------------------
(* Limbs compare as the numbers they stand for                             *)

\* A larger quotient makes a larger number, whatever the remainders.
LEMMA QuotientDecides ==
    ASSUME NEW width \in Nat \ {0}, NEW p \in Nat, NEW q \in Nat, p < q,
           NEW r \in 0..(width - 1), NEW s \in 0..(width - 1)
    PROVE  width * p + r < width * q + s
  <1>1. PICK k \in Nat : q = p + 1 + k
    <2>1. q - p - 1 \in Nat /\ q = p + 1 + (q - p - 1)
      OBVIOUS
    <2> QED
      BY <2>1
  <1>2. width * q = width * p + width + width * k /\ width * k \in Nat /\ width * p \in Nat
    BY <1>1
  <1> QED
    BY <1>2

\* One division: what is left and what it leaves.
LEMMA OneLimb ==
    ASSUME NEW width \in Nat \ {0}, NEW n \in Nat
    PROVE  /\ n \div width \in Nat
           /\ n % width \in 0..(width - 1)
           /\ n = width * (n \div width) + (n % width)
  OBVIOUS

\* A quotient, multiplied back, is no larger than what was divided.
LEMMA Floor ==
    ASSUME NEW width \in Nat \ {0}, NEW n \in Nat
    PROVE  n \div width \in Nat /\ width * (n \div width) <= n
  BY OneLimb

\* A common factor cancels.
LEMMA FactorCancels ==
    ASSUME NEW width \in Nat \ {0}, NEW p \in Nat, NEW q \in Nat, width * p < width * q
    PROVE  p < q
  <1> SUFFICES ASSUME p >= q PROVE FALSE
    OBVIOUS
  <1>1. PICK k \in Nat : p = q + k
    <2>1. p - q \in Nat /\ p = q + (p - q)
      OBVIOUS
    <2> QED
      BY <2>1
  <1>2. width * p = width * q + width * k /\ width * k \in Nat /\ width * q \in Nat
    BY <1>1
  <1> QED
    BY <1>2

\* A number below the modulus has less than a limb left after three.
LEMMA ThreeDivisions ==
    ASSUME NEW width \in Nat \ {0}, NEW n \in Nat,
           n < width * (width * (width * width))
    PROVE  ((n \div width) \div width) \div width \in 0..(width - 1)
  <1> DEFINE n1 == n \div width
             n2 == n1 \div width
             n3 == n2 \div width
             w2 == width * width
             w3 == width * w2
  <1>1. n1 \in Nat /\ width * n1 <= n
    BY OneLimb
  <1>2. w2 \in Nat /\ w3 \in Nat
    OBVIOUS
  <1>3. n < width * w3
    OBVIOUS
  <1> HIDE DEF n1, w3
  <1>4. n1 < w3
    <2>1. width * n1 < width * w3
      BY <1>1, <1>2, <1>3
    <2> QED
      BY <2>1, <1>1, <1>2, FactorCancels
  <1>5. n2 \in Nat /\ width * n2 <= n1
    BY <1>1, OneLimb
  <1>6. n1 < width * w2
    BY <1>4 DEF w3
  <1> HIDE DEF n2, w2
  <1>7. n2 < w2
    <2>1. width * n2 < width * w2
      BY <1>1, <1>2, <1>5, <1>6
    <2> QED
      BY <2>1, <1>2, <1>5, FactorCancels
  <1>8. n3 \in Nat /\ width * n3 <= n2
    BY <1>5, Floor
  <1>9. n2 < width * width
    BY <1>7 DEF w2
  <1> HIDE DEF n3
  <1>10. n3 < width
    <2>1. width * n3 < width * width
      BY <1>5, <1>8, <1>9
    <2> QED
      BY <2>1, <1>8, FactorCancels
  <1> QED
    BY <1>8, <1>10 DEF n1, n2, n3

\* The four limbs of a number, one division after the other.
LEMMA LimbsOf ==
    ASSUME CrossCurveAssumption, NEW n \in 0..(Wide - 1)
    PROVE  \E l1, l2, l3, l4 \in 0..(LimbBase - 1), n1, n2 \in Nat :
             /\ Limbs(n) = <<l1, l2, l3, l4>>
             /\ n  = LimbBase * n1 + l1
             /\ n1 = LimbBase * n2 + l2
             /\ n2 = LimbBase * l4 + l3
  <1> DEFINE n1 == n \div LimbBase
             n2 == n1 \div LimbBase
             n3 == n2 \div LimbBase
  <1>1. LimbBase \in Nat \ {0} /\ n \in Nat
    BY Numbers
  <1>2. n < LimbBase * (LimbBase * (LimbBase * LimbBase))
    <2>1. Wide = LimbBase * (LimbBase * (LimbBase * LimbBase))
      BY <1>1 DEF Wide
    <2> QED
      BY <2>1, <1>1, Numbers
  <1>3. n1 \in Nat /\ n % LimbBase \in 0..(LimbBase - 1) /\ n = LimbBase * n1 + (n % LimbBase)
    BY <1>1, OneLimb
  <1>4. n3 \in 0..(LimbBase - 1)
    BY <1>1, <1>2, ThreeDivisions
  <1>5. Limbs(n) = <<n % LimbBase, n1 % LimbBase, n2 % LimbBase, n3 % LimbBase>>
    BY DEF Limbs
  <1> HIDE DEF n1
  <1>6. n2 \in Nat /\ n1 % LimbBase \in 0..(LimbBase - 1) /\ n1 = LimbBase * n2 + (n1 % LimbBase)
    BY <1>1, <1>3, OneLimb
  <1> HIDE DEF n2
  <1>7. n2 % LimbBase \in 0..(LimbBase - 1) /\ n2 = LimbBase * n3 + (n2 % LimbBase)
    BY <1>1, <1>6, OneLimb
  <1> HIDE DEF n3
  <1>8. n3 % LimbBase = n3
    BY <1>1, <1>4
  <1> QED
    BY <1>3, <1>4, <1>5, <1>6, <1>7, <1>8

\* Of two numbers, the one that is less in the highest digit that differs.
LEMMA HighestDigit ==
    ASSUME NEW width \in Nat \ {0},
           NEW a \in 0..(width - 1), NEW m \in Nat, NEW b \in 0..(width - 1), NEW n \in Nat
    PROVE  width * m + a < width * n + b <=> m < n \/ (m = n /\ a < b)
  <1>1. m < n => width * m + a < width * n + b
    BY QuotientDecides
  <1>2. n < m => width * n + b < width * m + a
    BY QuotientDecides
  <1>3. width * m \in Nat /\ width * n \in Nat
    OBVIOUS
  <1>4. m = n => (width * m + a < width * n + b <=> a < b)
    BY <1>3
  <1>5. CASE m < n
    BY <1>1, <1>5
  <1>6. CASE n < m
    BY <1>2, <1>3, <1>6
  <1>7. CASE m = n
    BY <1>4, <1>7
  <1> QED
    BY <1>5, <1>6, <1>7

\* u256_lt decides the order of the numbers.
LEMMA LimbLessIsLess ==
    ASSUME CrossCurveAssumption, NEW m \in 0..(Wide - 1), NEW n \in 0..(Wide - 1)
    PROVE  LimbLess(Limbs(m), Limbs(n)) <=> m < n
  <1>1. LimbBase \in Nat \ {0}
    BY Numbers
  <1>2. PICK a1, a2, a3, a4 \in 0..(LimbBase - 1), m1, m2 \in Nat :
             /\ Limbs(m) = <<a1, a2, a3, a4>>
             /\ m  = LimbBase * m1 + a1
             /\ m1 = LimbBase * m2 + a2
             /\ m2 = LimbBase * a4 + a3
    BY LimbsOf
  <1>3. PICK b1, b2, b3, b4 \in 0..(LimbBase - 1), n1, n2 \in Nat :
             /\ Limbs(n) = <<b1, b2, b3, b4>>
             /\ n  = LimbBase * n1 + b1
             /\ n1 = LimbBase * n2 + b2
             /\ n2 = LimbBase * b4 + b3
    BY LimbsOf
  <1>4. LimbLess(Limbs(m), Limbs(n)) <=>
          \/ a4 < b4
          \/ a4 = b4 /\ a3 < b3
          \/ a4 = b4 /\ a3 = b3 /\ a2 < b2
          \/ a4 = b4 /\ a3 = b3 /\ a2 = b2 /\ a1 < b1
    <2> DEFINE less(i) == Limbs(m)[i] < Limbs(n)[i]
                          /\ \A j \in (i + 1)..4 : Limbs(m)[j] = Limbs(n)[j]
    <2>1. less(4) <=> a4 < b4
      BY <1>2, <1>3
    <2>2. less(3) <=> a3 < b3 /\ a4 = b4
      <3>1. (3 + 1)..4 = {4}
        OBVIOUS
      <3> QED
        BY <1>2, <1>3, <3>1
    <2>3. less(2) <=> a2 < b2 /\ a3 = b3 /\ a4 = b4
      <3>1. (2 + 1)..4 = {3, 4}
        OBVIOUS
      <3> QED
        BY <1>2, <1>3, <3>1
    <2>4. less(1) <=> a1 < b1 /\ a2 = b2 /\ a3 = b3 /\ a4 = b4
      <3>1. (1 + 1)..4 = {2, 3, 4}
        OBVIOUS
      <3> QED
        BY <1>2, <1>3, <3>1
    <2>5. LimbLess(Limbs(m), Limbs(n)) <=> \E i \in 1..4 : less(i)
      BY DEF LimbLess
    <2> HIDE DEF less
    <2>6. (\E i \in 1..4 : less(i)) <=> less(1) \/ less(2) \/ less(3) \/ less(4)
      <3>1. 1..4 = {1, 2, 3, 4}
        OBVIOUS
      <3> QED
        BY <3>1
    <2> QED
      BY <2>1, <2>2, <2>3, <2>4, <2>5, <2>6
  <1>5. m < n <=> m1 < n1 \/ (m1 = n1 /\ a1 < b1)
    BY <1>1, <1>2, <1>3, HighestDigit
  <1>6. m1 < n1 <=> m2 < n2 \/ (m2 = n2 /\ a2 < b2)
    BY <1>1, <1>2, <1>3, HighestDigit
  <1>7. m2 < n2 <=> a4 < b4 \/ (a4 = b4 /\ a3 < b3)
    BY <1>1, <1>2, <1>3, HighestDigit
  <1>8. (m2 = n2 <=> a4 = b4 /\ a3 = b3) /\ (m1 = n1 <=> m2 = n2 /\ a2 = b2)
    <2>1. n2 < m2 <=> b4 < a4 \/ (b4 = a4 /\ b3 < a3)
      BY <1>1, <1>2, <1>3, HighestDigit
    <2>2. n1 < m1 <=> n2 < m2 \/ (n2 = m2 /\ b2 < a2)
      BY <1>1, <1>2, <1>3, HighestDigit
    <2>3. /\ a2 \in Int /\ a3 \in Int /\ a4 \in Int /\ b2 \in Int /\ b3 \in Int /\ b4 \in Int
          /\ m1 \in Int /\ m2 \in Int /\ n1 \in Int /\ n2 \in Int
      BY <1>1, <1>2, <1>3
    <2> QED
      BY <1>6, <1>7, <2>1, <2>2, <2>3
  <1> QED
    BY <1>4, <1>5, <1>6, <1>7, <1>8

-----------------------------------------------------------------------------
(* Residues                                                                *)

\* A multiple of the width that is closer to zero than the width is zero.
LEMMA SmallMultiple ==
    ASSUME NEW width \in Nat \ {0}, NEW k \in Int,
           -width < width * k, width * k < width
    PROVE  k = 0
  <1>1. CASE k >= 1
    <2>1. PICK j \in Nat : k = j + 1
      <3>1. k - 1 \in Nat /\ k = (k - 1) + 1
        BY <1>1
      <3> QED
        BY <3>1
    <2>2. width * k = width * j + width /\ width * j \in Nat
      BY <2>1
    <2> QED
      BY <2>2
  <1>2. CASE k <= -1
    <2>1. PICK j \in Nat : k = -(j + 1)
      <3>1. -k - 1 \in Nat /\ k = -((-k - 1) + 1)
        BY <1>2
      <3> QED
        BY <3>1
    <2>2. width * k = -(width * j) - width /\ width * j \in Nat
      BY <2>1
    <2> QED
      BY <2>2
  <1> QED
    BY <1>1, <1>2

\* Integers with the same residue differ by a multiple of the width.
LEMMA SameResidue ==
    ASSUME NEW width \in Nat \ {0}, NEW m \in Int, NEW n \in Int,
           m % width = n % width
    PROVE  \E k \in Int : m - n = width * k
  <1>1. PICK i \in Int : m = width * i + (m % width)
    <2>1. m \div width \in Int /\ m = width * (m \div width) + (m % width)
      OBVIOUS
    <2> QED
      BY <2>1
  <1>2. PICK j \in Int : n = width * j + (n % width)
    <2>1. n \div width \in Int /\ n = width * (n \div width) + (n % width)
      OBVIOUS
    <2> QED
      BY <2>1
  <1>3. m % width \in Int
    OBVIOUS
  <1>4. m - n = width * i - width * j
    BY <1>1, <1>2, <1>3
  <1>5. width * i - width * j = width * (i - j) /\ i - j \in Int
    OBVIOUS
  <1> QED
    BY <1>4, <1>5

\* A multiple of the width leaves nothing.
LEMMA MultipleResidue ==
    ASSUME NEW width \in Nat \ {0}, NEW k \in Int
    PROVE  (width * k) % width = 0
  <1> DEFINE n == width * k
  <1>1. n \in Int
    OBVIOUS
  <1>2. n = width * k
    OBVIOUS
  <1> HIDE DEF n
  <1>3. PICK j \in Int : n = width * j + (n % width)
    <2>1. n \div width \in Int /\ n = width * (n \div width) + (n % width)
      BY <1>1
    <2> QED
      BY <2>1
  <1>4. n % width \in 0..(width - 1)
    BY <1>1
  <1>5. n % width = width * (k - j) /\ k - j \in Int
    <2>1. width * (k - j) = width * k - width * j
      OBVIOUS
    <2> QED
      BY <1>2, <1>3, <1>4, <2>1
  <1>6. k - j = 0
    BY <1>4, <1>5, SmallMultiple
  <1>7. n % width = 0
    BY <1>5, <1>6
  <1> QED
    BY <1>2, <1>7

-----------------------------------------------------------------------------
(* A response that is below Q has wrapped around Q once or not at all      *)

LEMMA WrapsOnce ==
    ASSUME CrossCurveAssumption, NEW q \in Values, NEW c \in Challenges,
           NEW z \in 0..(Q - 1), NEW first \in 0..(Q - 1),
           (z - c * q) % Q = first % Q
    PROVE  z = first + c * q \/ z = first + c * q - Q
  <1>1. Q \in Nat \ {0} /\ LimbBase \in Nat \ {0, 1} /\ Challenge \in Nat \ {0, 1}
    BY Numbers
  <1>2. c * q \in 0..(Q - 1)
    <2>1. (Challenge - 1) * (LimbBase - 1) < Q
      BY DEF CrossCurveAssumption
    <2>2. /\ c \in Nat /\ Challenge - 1 - c \in Nat
          /\ q \in Nat /\ LimbBase - 1 - q \in Nat
      BY <1>1 DEF Values, Challenges
    <2>3. c * q \in Nat /\ c * (LimbBase - 1 - q) \in Nat /\ (Challenge - 1 - c) * (LimbBase - 1) \in Nat
      BY <1>1, <2>2
    <2>4. (Challenge - 1) * (LimbBase - 1)
            = c * q + c * (LimbBase - 1 - q) + (Challenge - 1 - c) * (LimbBase - 1)
      BY <1>1, <2>2
    <2> QED
      BY <1>1, <2>1, <2>3, <2>4
  <1>3. PICK k \in Int : (z - c * q) - first = Q * k
    <2>1. z - c * q \in Int /\ first \in Int
      BY <1>1, <1>2
    <2> QED
      BY <1>1, <2>1, SameResidue
  <1>4. z - c * q - first < Q /\ -(Q + Q) < z - c * q - first
    <2>1. PICK p \in 0..(Q - 1) : p = c * q
      BY <1>2
    <2>2. z - p - first < Q /\ -(Q + Q) < z - p - first
      BY <1>1
    <2> QED
      BY <2>1, <2>2
  <1>5. CASE z - c * q - first > -Q
    <2>1. k = 0
      BY <1>1, <1>2, <1>3, <1>4, <1>5, SmallMultiple
    <2> QED
      BY <1>1, <1>2, <1>3, <2>1
  <1>6. CASE z - c * q - first <= -Q
    <2>1. Q * (k + 1) = Q * k + Q /\ k + 1 \in Int
      BY <1>1
    <2>2. k + 1 = 0
      BY <1>1, <1>2, <1>3, <1>4, <1>6, <2>1, SmallMultiple
    <2>3. k = -1
      BY <2>2
    <2> QED
      BY <1>1, <1>2, <1>3, <2>3
  <1> QED
    BY <1>1, <1>2, <1>5, <1>6

\* Modulo a prime, a product is no multiple unless a factor is.
LEMMA NoMultiple ==
    ASSUME CrossCurveAssumption, NEW x \in 1..(R - 1), NEW y \in 1..(R - 1), NEW k \in Int
    PROVE  x * y # R * k
  <1>1. R \in Nat \ {0}
    BY Numbers
  <1>2. (x * y) % R # 0
    BY DEF CrossCurveAssumption
  <1>3. (R * k) % R = 0
    BY <1>1, MultipleResidue
  <1> QED
    BY <1>2, <1>3

\* Of two answers to one announcement that wrapped alike, the second curve tells.
LEMMA WrappedAlike ==
    ASSUME CrossCurveAssumption, NEW q \in Values, NEW r \in 0..(R - 1), q # r,
           NEW c \in Challenges, NEW d \in Challenges, NEW y \in Int, NEW z \in Int,
           z - c * q = y - d * q, (z - c * r) % R = (y - d * r) % R
    PROVE  c = d
  <1>1. /\ R \in Nat \ {0} /\ Q \in Nat \ {0} /\ Q < R
        /\ LimbBase \in Nat \ {0, 1} /\ Challenge \in Nat \ {0, 1}
    BY Numbers
  <1>2. q \in Nat /\ r \in Nat /\ c \in Nat /\ d \in Nat
    BY <1>1 DEF Values, Challenges
  <1>3. q < R /\ c < R /\ d < R
    <2>1. (Challenge - 1) * (LimbBase - 1) < Q
      BY DEF CrossCurveAssumption
    <2>2. PICK i \in Nat, j \in Nat : Challenge - 1 = i + 1 /\ LimbBase - 1 = j + 1
      <3>1. Challenge - 2 \in Nat /\ LimbBase - 2 \in Nat
        BY <1>1
      <3> QED
        BY <1>1, <3>1
    <2>3. (i + 1) * (j + 1) = i * j + i + j + 1 /\ i * j \in Nat
      BY <2>2
    <2>4. Challenge - 1 < Q /\ LimbBase - 1 < Q
      BY <1>1, <2>1, <2>2, <2>3
    <2> QED
      BY <1>1, <1>2, <2>4 DEF Values, Challenges
  <1>4. PICK k \in Int : (z - c * r) - (y - d * r) = R * k
    <2>1. z - c * r \in Int /\ y - d * r \in Int
      BY <1>2
    <2> QED
      BY <1>1, <2>1, SameResidue
  <1>5. (c - d) * (q - r) = R * k
    <2>1. (c - d) * (q - r) = c * q - c * r - d * q + d * r
      BY <1>2
    <2>2. c * q \in Int /\ c * r \in Int /\ d * q \in Int /\ d * r \in Int
      BY <1>2
    <2> QED
      BY <1>4, <2>1, <2>2
  <1>6. ASSUME NEW x \in Int, NEW v \in Int, x = c - d \/ x = d - c, v = q - r \/ v = r - q,
               x > 0, v > 0
        PROVE  FALSE
    <2>1. x \in 1..(R - 1) /\ v \in 1..(R - 1)
      BY <1>1, <1>2, <1>3, <1>6
    <2>2. x * v = R * k \/ x * v = R * (-k)
      <3>1. R * (-k) = -(R * k)
        BY <1>1
      <3>2. x * v = (c - d) * (q - r) \/ x * v = -((c - d) * (q - r))
        BY <1>2, <1>6
      <3> QED
        BY <1>5, <3>1, <3>2
    <2>3. -k \in Int
      OBVIOUS
    <2> QED
      BY <2>1, <2>2, <2>3, NoMultiple
  <1>7. SUFFICES ASSUME c # d PROVE FALSE
    OBVIOUS
  <1>8. c - d > 0 \/ d - c > 0
    BY <1>2, <1>7
  <1>9. q - r > 0 \/ r - q > 0
    BY <1>2
  <1>10. c - d \in Int /\ d - c \in Int /\ q - r \in Int /\ r - q \in Int
    BY <1>2
  <1> QED
    BY <1>6, <1>8, <1>9, <1>10

-----------------------------------------------------------------------------
(* The theorems                                                            *)

LEMMA StatementInvariant == Spec => []StatementTyped
  <1>1. Init => StatementTyped
    BY DEF Init, StatementTyped
  <1>2. StatementTyped /\ [Next]_vars => StatementTyped'
    BY DEF StatementTyped, Next, Prove, vars
  <1> QED
    BY <1>1, <1>2, PTL DEF Spec

\* Three challenges with a response to one announcement: two wrapped alike.
LEMMA TwoOfThree ==
    ASSUME CrossCurveAssumption, StatementTyped
    PROVE  TwoAnswers
  <1> SUFFICES ASSUME statement.kind = "balance", statement.q # statement.r
               PROVE  TwoAnswers
    BY DEF TwoAnswers
  <1> DEFINE q == statement.q
             r == statement.r
             announced == [a \in Answers |-> Announced(statement, a[1], a[2])]
  <1>1. q \in Values /\ r \in 0..(R - 1) /\ q # r
    BY DEF StatementTyped
  <1>2. Q \in Nat \ {0} /\ R \in Nat \ {0} /\ LimbBase \in Nat \ {0} /\ Challenge \in Nat
        /\ Q \in 0..(Wide - 1)
    BY Numbers
  <1> SUFFICES ASSUME NEW first \in Answers, first[1] = 0
               PROVE  Cardinality({a[1] : a \in {a \in Answers : announced[a] = announced[first]}}) <= 2
    BY DEF TwoAnswers
  <1> DEFINE alike == {a \in Answers : announced[a] = announced[first]}
             challenges == {a[1] : a \in alike}
  <1>3. ASSUME NEW a \in Answers
        PROVE  a[1] \in Challenges /\ a[2] \in 0..(Q - 1)
    <2>1. a[1] \in Challenges /\ a[2] \in 0..(Wide - 1) /\ LimbLess(Limbs(a[2]), Limbs(Q))
      BY DEF Answers, ResponseBelowOrder
    <2>2. a[2] < Q
      BY <1>2, <2>1, LimbLessIsLess
    <2> QED
      BY <1>2, <2>1, <2>2
  <1>4. ASSUME NEW a \in alike
        PROVE  /\ a \in Answers
               /\ (a[2] - a[1] * q) % Q = (first[2] - 0 * q) % Q
               /\ (a[2] - a[1] * r) % R = (first[2] - 0 * r) % R
    BY DEF Announced
  <1> HIDE DEF q, r
  <1>5. ASSUME NEW a \in alike
        PROVE  /\ a[2] = first[2] + a[1] * q \/ a[2] = first[2] + a[1] * q - Q
               /\ (a[2] - a[1] * r) % R = first[2] % R
    <2>1. 0 * q = 0 /\ 0 * r = 0 /\ first[2] - 0 = first[2]
      BY <1>1, <1>2, <1>3 DEF Values
    <2>2. (a[2] - a[1] * q) % Q = first[2] % Q /\ (a[2] - a[1] * r) % R = first[2] % R
      BY <1>4, <2>1
    <2>3. a[1] \in Challenges /\ a[2] \in 0..(Q - 1) /\ first[2] \in 0..(Q - 1)
      BY <1>3, <1>4
    <2> QED
      BY <1>1, <2>2, <2>3, WrapsOnce
  <1> HIDE DEF alike
  <1>6. ASSUME NEW a \in alike, NEW b \in alike,
               a[2] - a[1] * q = b[2] - b[1] * q
        PROVE  a[1] = b[1]
    <2>1. /\ a[1] \in Challenges /\ a[2] \in Int /\ b[1] \in Challenges /\ b[2] \in Int
      BY <1>2, <1>3, <1>4 DEF alike
    <2>2. (a[2] - a[1] * r) % R = (b[2] - b[1] * r) % R
      BY <1>5
    <2> QED
      BY <1>1, <1>6, <2>1, <2>2, WrappedAlike
  <1>7. ASSUME NEW a \in alike
        PROVE  a[2] - a[1] * q = first[2] \/ a[2] - a[1] * q = first[2] - Q
    <2>1. a[1] \in Int /\ a[2] \in Int /\ first[2] \in Int /\ q \in Int /\ Q \in Int
      BY <1>1, <1>2, <1>3 DEF Values, Challenges, alike
    <2>2. PICK p \in Int : p = a[1] * q
      BY <2>1
    <2>3. a[2] = first[2] + p \/ a[2] = first[2] + p - Q
      BY <1>5, <2>2
    <2> QED
      BY <2>1, <2>2, <2>3
  <1>8. ASSUME NEW a \in alike, NEW b \in alike, NEW c \in alike
        PROVE  a[1] = b[1] \/ b[1] = c[1] \/ a[1] = c[1]
    <2>1. \/ a[2] - a[1] * q = b[2] - b[1] * q
          \/ b[2] - b[1] * q = c[2] - c[1] * q
          \/ a[2] - a[1] * q = c[2] - c[1] * q
      BY <1>7
    <2> QED
      BY <1>6, <2>1
  <1>9. \A x, y, z \in challenges : x = y \/ y = z \/ x = z
    BY <1>8
  <1> HIDE DEF challenges
  <1>10. Cardinality(challenges) <= 2
    BY <1>9, AtMostTwo
  <1> QED
    BY <1>10 DEF challenges, alike

\* For a commitment on each curve to a different balance, whatever its prover
\* announced, at most two of the challenges have a response that verify accepts:
\* the bound z < Q of src/batched_eq.rs leaves one wrap around the smaller order.
THEOREM ChallengesAnswered ==
    ASSUME CrossCurveAssumption
    PROVE  Spec => []TwoAnswers
  <1>1. StatementTyped => TwoAnswers
    BY TwoOfThree
  <1> QED
    BY <1>1, StatementInvariant, PTL

-----------------------------------------------------------------------------
(* The limbs of sums and products, carries included                        *)

Carrying == INSTANCE Folding WITH Op <- TakeLimb

\* A digit put below a number is its remainder, and the number its quotient.
LEMMA DigitsRead ==
    ASSUME NEW width \in Nat \ {0}, NEW l \in 0..(width - 1), NEW n \in Nat
    PROVE  (l + width * n) % width = l /\ (l + width * n) \div width = n
  <1> DEFINE m == l + width * n
  <1>1. m \in Nat /\ width * n \in Nat
    OBVIOUS
  <1>2. m = width * n + l
    BY <1>1
  <1> HIDE DEF m
  <1>3. /\ m \div width \in Nat /\ m % width \in 0..(width - 1)
        /\ m = width * (m \div width) + (m % width)
    BY <1>1, OneLimb
  <1> DEFINE q == m \div width
             r == m % width
  <1>4. q \in Nat /\ r \in 0..(width - 1) /\ width * q + r = width * n + l
    BY <1>2, <1>3
  <1> HIDE DEF q, r
  <1>5. ~(q < n) /\ ~(n < q)
    <2>1. q < n => width * q + r < width * n + l
      BY <1>4, QuotientDecides
    <2>2. n < q => width * n + l < width * q + r
      BY <1>4, QuotientDecides
    <2>3. width * q \in Nat
      BY <1>4
    <2> QED
      BY <1>1, <1>4, <2>1, <2>2, <2>3
  <1>6. q = n
    BY <1>4, <1>5
  <1>7. r = l
    BY <1>1, <1>4, <1>6
  <1> QED
    BY <1>6, <1>7 DEF q, r, m

\* The limbs of a number split into a low digit and the rest, three times.
LEMMA LimbsFromDigits ==
    ASSUME NEW width \in Nat \ {0}, width = LimbBase,
           NEW l1 \in 0..(width - 1), NEW l2 \in 0..(width - 1), NEW l3 \in 0..(width - 1),
           NEW t \in Nat
    PROVE  Limbs(l1 + width * (l2 + width * (l3 + width * t))) = <<l1, l2, l3, t % width>>
  <1> DEFINE n3 == l3 + width * t
             n2 == l2 + width * n3
             n1 == l1 + width * n2
  <1>1. n3 \in Nat /\ n3 % width = l3 /\ n3 \div width = t
    BY DigitsRead
  <1> HIDE DEF n3
  <1>2. n2 \in Nat /\ n2 % width = l2 /\ n2 \div width = n3
    BY <1>1, DigitsRead
  <1> HIDE DEF n2
  <1>3. n1 % width = l1 /\ n1 \div width = n2
    BY <1>2, DigitsRead
  <1>4. Limbs(n1) = <<n1 % width, (n1 \div width) % width, ((n1 \div width) \div width) % width,
                      (((n1 \div width) \div width) \div width) % width>>
    BY Zenon DEF Limbs
  <1> HIDE DEF n1
  <1>5. Limbs(n1) = <<l1, l2, l3, t % width>>
    BY <1>1, <1>2, <1>3, <1>4
  <1> QED
    BY <1>5 DEF n1, n2, n3

\* Kept digit by digit, with what is over carried on, four sums give the limbs
\* of the number they add up to, each weighing LimbBase times the one before.
LEMMA CarriedSums ==
    ASSUME CrossCurveAssumption, NEW sums \in [1..4 -> Nat]
    PROVE  Carried(sums) = Limbs(sums[1] + LimbBase * (sums[2] + LimbBase * (sums[3] + LimbBase * sums[4])))
  <1> DEFINE start == [limbs |-> <<>>, carry |-> 0]
             w == LimbBase
             at(k) == Carrying!After(start, sums, k)
             t1 == sums[1]
             t2 == sums[2] + t1 \div w
             t3 == sums[3] + t2 \div w
             t4 == sums[4] + t3 \div w
  <1>1. w \in Nat \ {0}
    BY Numbers
  <1>2. FoldLeft(TakeLimb, start, sums) = Carrying!Fold(start, sums)
    BY Zenon DEF Carrying!Fold, Carrying!FoldLeft, FoldLeft, Carrying!MapThenFoldSet,
                 MapThenFoldSet, Carrying!Max, Max
  <1>3. Carried(sums) = Carrying!Fold(start, sums).limbs
    BY <1>2, Zenon DEF Carried
  <1>4. sums[1] \in Nat /\ sums[2] \in Nat /\ sums[3] \in Nat /\ sums[4] \in Nat
    OBVIOUS
  <1> HIDE DEF start
  <1>6. Carrying!Fold(start, sums) = at(4) /\ at(0) = start
    <2>1. DOMAIN sums = 1..4
      OBVIOUS
    <2>2. \A n \in Nat : DOMAIN sums = 1..n =>
              /\ Carrying!After(start, sums, 0) = start
              /\ Carrying!Fold(start, sums) = Carrying!After(start, sums, n)
      BY Carrying!FoldSteps
    <2> QED
      BY <2>1, <2>2
  <1>7. \A k \in 1..4 : at(k) = TakeLimb(at(k - 1), sums[k])
    <2>1. DOMAIN sums = 1..4
      OBVIOUS
    <2>2. \A n \in Nat : DOMAIN sums = 1..n => \A k \in 1..n :
              Carrying!After(start, sums, k) = TakeLimb(Carrying!After(start, sums, k - 1), sums[k])
      BY Carrying!FoldSteps
    <2> QED
      BY <2>1, <2>2
  <1> HIDE DEF at, w
  <1>8. /\ at(1) = TakeLimb(at(0), sums[1]) /\ at(2) = TakeLimb(at(1), sums[2])
        /\ at(3) = TakeLimb(at(2), sums[3]) /\ at(4) = TakeLimb(at(3), sums[4])
    <2>1. 1 - 1 = 0 /\ 2 - 1 = 1 /\ 3 - 1 = 2 /\ 4 - 1 = 3
      OBVIOUS
    <2>2. 1 \in 1..4 /\ 2 \in 1..4 /\ 3 \in 1..4 /\ 4 \in 1..4
      OBVIOUS
    <2> QED
      BY <1>7, <2>1, <2>2, Zenon
  <1>9. t1 \in Nat /\ t1 \div w \in Nat /\ t1 % w \in 0..(w - 1) /\ t1 = w * (t1 \div w) + (t1 % w)
    BY <1>1, <1>4, OneLimb
  <1> HIDE DEF t1
  <1>10. t2 \in Nat /\ t2 \div w \in Nat /\ t2 % w \in 0..(w - 1) /\ t2 = w * (t2 \div w) + (t2 % w)
    <2>1. t2 \in Nat
      BY <1>4, <1>9
    <2> HIDE DEF t2
    <2> QED
      BY <1>1, <2>1, OneLimb
  <1> HIDE DEF t2
  <1>11. t3 \in Nat /\ t3 \div w \in Nat /\ t3 % w \in 0..(w - 1) /\ t3 = w * (t3 \div w) + (t3 % w)
    <2>1. t3 \in Nat
      BY <1>4, <1>10
    <2> HIDE DEF t3
    <2> QED
      BY <1>1, <2>1, OneLimb
  <1> HIDE DEF t3
  <1>12. t4 \in Nat
    BY <1>1, <1>4, <1>11
  <1> HIDE DEF t4
  <1>19. \A acc, n : TakeLimb(acc, n) = [limbs |-> Append(acc.limbs, (n + acc.carry) % w),
                                       carry |-> (n + acc.carry) \div w]
    BY Zenon DEF TakeLimb, w
  <1>13. at(1) = [limbs |-> <<t1 % w>>, carry |-> t1 \div w]
    <2>1. at(0).limbs = <<>> /\ at(0).carry = 0
      BY <1>6 DEF start
    <2>2. sums[1] + 0 = t1
      BY <1>4 DEF t1
    <2>3. at(1) = [limbs |-> Append(<<>>, t1 % w), carry |-> t1 \div w]
      BY <1>8, <1>19, <2>1, <2>2, Zenon
    <2> QED
      BY <2>3
  <1>14. at(2) = [limbs |-> <<t1 % w, t2 % w>>, carry |-> t2 \div w]
    <2>1. at(1).limbs = <<t1 % w>> /\ at(1).carry = t1 \div w
      BY <1>13
    <2>2. sums[2] + t1 \div w = t2
      BY DEF t2
    <2>3. at(2) = [limbs |-> Append(<<t1 % w>>, t2 % w), carry |-> t2 \div w]
      BY <1>8, <1>19, <2>1, <2>2, Zenon
    <2> QED
      BY <2>3
  <1>15. at(3) = [limbs |-> <<t1 % w, t2 % w, t3 % w>>, carry |-> t3 \div w]
    <2>1. at(2).limbs = <<t1 % w, t2 % w>> /\ at(2).carry = t2 \div w
      BY <1>14
    <2>2. sums[3] + t2 \div w = t3
      BY DEF t3
    <2>3. at(3) = [limbs |-> Append(<<t1 % w, t2 % w>>, t3 % w), carry |-> t3 \div w]
      BY <1>8, <1>19, <2>1, <2>2, Zenon
    <2> QED
      BY <2>3
  <1>16. at(4).limbs = <<t1 % w, t2 % w, t3 % w, t4 % w>>
    <2>1. at(3).limbs = <<t1 % w, t2 % w, t3 % w>> /\ at(3).carry = t3 \div w
      BY <1>15
    <2>2. sums[4] + t3 \div w = t4
      BY DEF t4
    <2>3. at(4) = [limbs |-> Append(<<t1 % w, t2 % w, t3 % w>>, t4 % w), carry |-> t4 \div w]
      BY <1>8, <1>19, <2>1, <2>2, Zenon
    <2> QED
      BY <2>3
  <1>17. sums[1] + w * (sums[2] + w * (sums[3] + w * sums[4]))
         = (t1 % w) + w * ((t2 % w) + w * ((t3 % w) + w * t4))
    <2> DEFINE a1 == t1 % w
               a2 == t2 % w
               a3 == t3 % w
               b1 == t1 \div w
               b2 == t2 \div w
               b3 == t3 \div w
               s2 == sums[2]
               s3 == sums[3]
               s4 == sums[4]
    <2>1. /\ sums[1] = w * b1 + a1 /\ s2 + b1 = w * b2 + a2
          /\ s3 + b2 = w * b3 + a3 /\ t4 = s4 + b3
      BY <1>9, <1>10, <1>11 DEF t1, t2, t3, t4
    <2>2. /\ a1 \in Nat /\ a2 \in Nat /\ a3 \in Nat /\ b1 \in Nat /\ b2 \in Nat /\ b3 \in Nat
          /\ s2 \in Nat /\ s3 \in Nat /\ s4 \in Nat /\ w \in Nat
      BY <1>1, <1>4, <1>9, <1>10, <1>11
    <2> HIDE DEF a1, a2, a3, b1, b2, b3, s2, s3, s4
    <2> DEFINE x3 == s3 + w * s4
               y3 == a3 + w * t4
    <2>3. x3 + b2 = y3
      <3>1. w * t4 = w * s4 + w * b3 /\ w * s4 \in Nat /\ w * b3 \in Nat
        BY <2>1, <2>2
      <3> QED
        BY <2>1, <2>2, <3>1
    <2>4. x3 \in Nat /\ y3 \in Nat
      BY <2>2, <1>12
    <2> HIDE DEF x3, y3
    <2> DEFINE x2 == s2 + w * x3
               y2 == a2 + w * y3
    <2>5. x2 + b1 = y2
      <3>1. w * y3 = w * x3 + w * b2 /\ w * x3 \in Nat /\ w * b2 \in Nat
        BY <2>2, <2>3, <2>4
      <3> QED
        BY <2>1, <2>2, <3>1
    <2>6. x2 \in Nat /\ y2 \in Nat
      BY <2>2, <2>4
    <2> HIDE DEF x2, y2
    <2>7. sums[1] + w * x2 = a1 + w * y2
      <3>1. w * y2 = w * x2 + w * b1 /\ w * x2 \in Nat /\ w * b1 \in Nat
        BY <2>2, <2>5, <2>6
      <3> QED
        BY <2>1, <2>2, <3>1
    <2> QED
      BY <2>7 DEF x2, y2, x3, y3, a1, a2, a3, s2, s3, s4
  <1>18. Limbs((t1 % w) + w * ((t2 % w) + w * ((t3 % w) + w * t4))) = <<t1 % w, t2 % w, t3 % w, t4 % w>>
    BY <1>1, <1>9, <1>10, <1>11, <1>12, LimbsFromDigits DEF w
  <1> QED
    BY <1>3, <1>6, <1>16, <1>17, <1>18, Zenon DEF w

\* The limbs are those of the number, and give it back.
LEMMA IntegerOfLimbs ==
    ASSUME CrossCurveAssumption, NEW n \in 0..(Wide - 1)
    PROVE  /\ Integer(Limbs(n)) = n
           /\ \A k \in 1..4 : Limbs(n)[k] \in Nat
  <1>1. PICK l1, l2, l3, l4 \in 0..(LimbBase - 1), n1, n2 \in Nat :
             /\ Limbs(n) = <<l1, l2, l3, l4>>
             /\ n  = LimbBase * n1 + l1
             /\ n1 = LimbBase * n2 + l2
             /\ n2 = LimbBase * l4 + l3
    BY LimbsOf
  <1>2. LimbBase \in Nat
    BY Numbers
  <1>3. n2 = l3 + LimbBase * l4
    BY <1>1, <1>2
  <1>4. n1 = l2 + LimbBase * n2
    BY <1>1, <1>2
  <1>5. n = l1 + LimbBase * n1
    BY <1>1, <1>2
  <1>6. Integer(Limbs(n)) = l1 + LimbBase * (l2 + LimbBase * (l3 + LimbBase * l4))
    BY <1>1 DEF Integer
  <1>7. Integer(Limbs(n)) = n
    BY <1>3, <1>4, <1>5, <1>6, Zenon
  <1> QED
    BY <1>1, <1>2, <1>7

\* u256_mul_u64 gives the limbs of the product.
LEMMA LimbMulIsProduct ==
    ASSUME CrossCurveAssumption, NEW a \in 0..(Wide - 1), NEW b \in Nat
    PROVE  LimbMul(Limbs(a), b) = Limbs(a * b)
  <1> DEFINE l == Limbs(a)
             sums == [i \in 1..4 |-> l[i] * b]
             w == LimbBase
  <1>1. Integer(l) = a /\ l[1] \in Nat /\ l[2] \in Nat /\ l[3] \in Nat /\ l[4] \in Nat
    <2>1. 1 \in 1..4 /\ 2 \in 1..4 /\ 3 \in 1..4 /\ 4 \in 1..4
      OBVIOUS
    <2> QED
      BY <2>1, IntegerOfLimbs
  <1>2. \A k \in 1..4 : l[k] \in Nat
    BY IntegerOfLimbs
  <1> HIDE DEF l
  <1>3. sums \in [1..4 -> Nat]
    BY <1>2
  <1>4. sums[1] = l[1] * b /\ sums[2] = l[2] * b /\ sums[3] = l[3] * b /\ sums[4] = l[4] * b
    OBVIOUS
  <1>5. LimbMul(l, b) = Carried(sums)
    BY Zenon DEF LimbMul
  <1> HIDE DEF sums
  <1>6. Carried(sums) = Limbs(sums[1] + w * (sums[2] + w * (sums[3] + w * sums[4])))
    BY <1>3, CarriedSums
  <1>7. sums[1] + w * (sums[2] + w * (sums[3] + w * sums[4])) = a * b
    <2>1. w \in Nat
      BY Numbers
    <2> HIDE DEF w
    <2> DEFINE x3 == l[3] + w * l[4]
               x2 == l[2] + w * x3
    <2>2. sums[3] + w * sums[4] = x3 * b /\ x3 \in Nat
      <3>1. w * (l[4] * b) = (w * l[4]) * b /\ w * l[4] \in Nat
        BY <1>1, <2>1
      <3> QED
        BY <1>1, <1>4, <3>1
    <2> HIDE DEF x3
    <2>3. sums[2] + w * (x3 * b) = x2 * b /\ x2 \in Nat
      <3>1. w * (x3 * b) = (w * x3) * b /\ w * x3 \in Nat
        BY <2>1, <2>2
      <3> QED
        BY <1>1, <1>4, <3>1
    <2> HIDE DEF x2
    <2>4. sums[1] + w * (x2 * b) = (l[1] + w * x2) * b
      <3>1. w * (x2 * b) = (w * x2) * b /\ w * x2 \in Nat
        BY <2>1, <2>3
      <3> QED
        BY <1>1, <1>4, <3>1
    <2>5. a = l[1] + w * x2
      BY <1>1, Zenon DEF Integer, x2, x3, w
    <2> QED
      BY <2>2, <2>3, <2>4, <2>5, Zenon
  <1> QED
    BY <1>5, <1>6, <1>7, Zenon DEF l

\* u256_add gives the limbs of the sum.
LEMMA LimbAddIsSum ==
    ASSUME CrossCurveAssumption, NEW a \in 0..(Wide - 1), NEW b \in 0..(Wide - 1)
    PROVE  LimbAdd(Limbs(a), Limbs(b)) = Limbs(a + b)
  <1> DEFINE l == Limbs(a)
             m == Limbs(b)
             sums == [i \in 1..4 |-> l[i] + m[i]]
             w == LimbBase
  <1>0. 1 \in 1..4 /\ 2 \in 1..4 /\ 3 \in 1..4 /\ 4 \in 1..4
    OBVIOUS
  <1>1. /\ Integer(l) = a /\ \A k \in 1..4 : l[k] \in Nat
        /\ Integer(m) = b /\ \A k \in 1..4 : m[k] \in Nat
    BY IntegerOfLimbs
  <1> HIDE DEF l, m
  <1>2. /\ l[1] \in Nat /\ l[2] \in Nat /\ l[3] \in Nat /\ l[4] \in Nat
        /\ m[1] \in Nat /\ m[2] \in Nat /\ m[3] \in Nat /\ m[4] \in Nat
    BY <1>0, <1>1
  <1>3. sums \in [1..4 -> Nat]
    BY <1>1
  <1>4. sums[1] = l[1] + m[1] /\ sums[2] = l[2] + m[2] /\ sums[3] = l[3] + m[3] /\ sums[4] = l[4] + m[4]
    BY <1>0
  <1>5. LimbAdd(l, m) = Carried(sums)
    BY Zenon DEF LimbAdd
  <1> HIDE DEF sums
  <1>6. Carried(sums) = Limbs(sums[1] + w * (sums[2] + w * (sums[3] + w * sums[4])))
    BY <1>3, CarriedSums
  <1>7. sums[1] + w * (sums[2] + w * (sums[3] + w * sums[4])) = a + b
    <2>1. w \in Nat
      BY Numbers
    <2> HIDE DEF w
    <2> DEFINE x3 == l[3] + w * l[4]
               x2 == l[2] + w * x3
               y3 == m[3] + w * m[4]
               y2 == m[2] + w * y3
    <2>2. sums[3] + w * sums[4] = x3 + y3 /\ x3 \in Nat /\ y3 \in Nat
      <3>1. w * (l[4] + m[4]) = w * l[4] + w * m[4] /\ w * l[4] \in Nat /\ w * m[4] \in Nat
        BY <1>2, <2>1
      <3> QED
        BY <1>2, <1>4, <3>1
    <2> HIDE DEF x3, y3
    <2>3. sums[2] + w * (x3 + y3) = x2 + y2 /\ x2 \in Nat /\ y2 \in Nat
      <3>1. w * (x3 + y3) = w * x3 + w * y3 /\ w * x3 \in Nat /\ w * y3 \in Nat
        BY <2>1, <2>2
      <3> QED
        BY <1>2, <1>4, <3>1
    <2> HIDE DEF x2, y2
    <2>4. sums[1] + w * (x2 + y2) = (l[1] + w * x2) + (m[1] + w * y2)
      <3>1. w * (x2 + y2) = w * x2 + w * y2 /\ w * x2 \in Nat /\ w * y2 \in Nat
        BY <2>1, <2>3
      <3> QED
        BY <1>2, <1>4, <3>1
    <2>5. a = l[1] + w * x2 /\ b = m[1] + w * y2
      BY <1>1, Zenon DEF Integer, x2, x3, y2, y3, w
    <2> QED
      BY <2>2, <2>3, <2>4, <2>5, Zenon
  <1> QED
    BY <1>5, <1>6, <1>7, Zenon DEF l, m

-----------------------------------------------------------------------------
(* Honest proofs are accepted                                              *)

\* A factor times a smaller value is a smaller product.
LEMMA ProductBounded ==
    ASSUME NEW c \in Nat, NEW d \in Nat, NEW m \in Nat, NEW n \in Nat, c <= d, m <= n
    PROVE  c * m \in Nat /\ c * m <= d * n
  <1>1. PICK i \in Nat : d = c + i
    <2>1. d - c \in Nat /\ d = c + (d - c)
      OBVIOUS
    <2> QED
      BY <2>1
  <1>2. PICK j \in Nat : n = m + j
    <2>1. n - m \in Nat /\ n = m + (n - m)
      OBVIOUS
    <2> QED
      BY <2>1
  <1>3. /\ (c + i) * (m + j) = c * m + c * j + i * m + i * j
        /\ c * m \in Nat /\ c * j \in Nat /\ i * m \in Nat /\ i * j \in Nat
    OBVIOUS
  <1> QED
    BY <1>1, <1>2, <1>3

\* The response to a balance's challenge passes the bound, and both curves
\* recover the announcement.
LEMMA BalanceAccepted ==
    ASSUME CrossCurveAssumption, ResponsesFit, NEW st,
           st.q \in Values, st.q = st.r,
           NEW u \in 0..(BalanceBlind - 1), NEW c \in Challenges
    PROVE  VerifyBalance(st, ProveBalance(st.q, u, c))
  <1> DEFINE m == st.q
             pf == ProveBalance(m, u, c)
             z == u + c * m
  <1>1. /\ u \in Nat /\ c \in Nat /\ m \in Nat
        /\ u <= BalanceBlind - 1 /\ c <= Challenge - 1 /\ m <= LimbBase - 1
        /\ Challenge - 1 \in Nat /\ LimbBase - 1 \in Nat
        /\ BalanceBlind \in Nat /\ Q \in Nat /\ Q < Wide /\ Wide \in Nat
    BY Numbers DEF CrossCurveAssumption, Values, Challenges
  <1> HIDE DEF m
  <1>2. c * m \in Nat /\ c * m <= (Challenge - 1) * (LimbBase - 1)
    BY <1>1, ProductBounded
  <1>3. z \in Nat /\ z < Q
    <2>1. (Challenge - 1) * (LimbBase - 1) \in Nat
      BY <1>1
    <2>2. BalanceBlind + (Challenge - 1) * (LimbBase - 1) <= Q
      BY DEF ResponsesFit
    <2> QED
      BY <1>1, <1>2, <2>1, <2>2
  <1>4. c \in 0..(Wide - 1) /\ u \in 0..(Wide - 1) /\ c * m \in 0..(Wide - 1) /\ z \in 0..(Wide - 1)
    <2>1. c * 1 <= (Challenge - 1) * (LimbBase - 1)
      <3>1. 1 <= LimbBase - 1
        BY Numbers
      <3> QED
        BY <1>1, <3>1, ProductBounded
    <2>2. (Challenge - 1) * (LimbBase - 1) < Q
      BY DEF CrossCurveAssumption
    <2>3. (Challenge - 1) * (LimbBase - 1) \in Nat
      BY <1>1
    <2> QED
      BY <1>1, <1>2, <1>3, <2>1, <2>2, <2>3
  <1>5. pf.z = Limbs(z)
    <2>1. LimbMul(Limbs(c), m) = Limbs(c * m)
      BY <1>1, <1>4, LimbMulIsProduct
    <2>2. LimbAdd(Limbs(u), Limbs(c * m)) = Limbs(u + c * m)
      BY <1>4, LimbAddIsSum
    <2>3. pf.z = LimbAdd(Limbs(u), LimbMul(Limbs(c), m))
      BY DEF ProveBalance
    <2> QED
      BY <2>1, <2>2, <2>3, Zenon
  <1>6. pf.c = c /\ pf.r = [q |-> u % Q, r |-> u % R] /\ pf.range = RangeFor(m)
    BY DEF ProveBalance
  <1> HIDE DEF pf, z
  <1>7. ResponseBelowOrder(pf.z)
    <2>1. Q \in 0..(Wide - 1)
      BY <1>1
    <2>2. LimbLess(Limbs(z), Limbs(Q))
      BY <1>3, <1>4, <2>1, LimbLessIsLess
    <2> QED
      BY <1>5, <2>2 DEF ResponseBelowOrder
  <1>8. Announced(st, pf.c, Integer(pf.z)) = pf.r
    <2>1. Integer(pf.z) = z
      BY <1>4, <1>5, IntegerOfLimbs
    <2>2. z - c * m = u
      BY <1>1, <1>2 DEF z
    <2> QED
      BY <1>6, <2>1, <2>2 DEF Announced, m
  <1>9. pf.range \in {HalfRange, LimbBase} /\ m < pf.range
    BY <1>1, <1>6, Numbers DEF RangeFor
  <1> QED
    BY <1>7, <1>8, <1>9 DEF VerifyBalance, pf, m

\* A multiple of the width does not change the residue.
LEMMA ShiftedResidue ==
    ASSUME NEW width \in Nat \ {0}, NEW n \in Nat, NEW k \in Int
    PROVE  (n + width * k) % width = n % width
  <1> DEFINE m == n + width * k
  <1>1. m \in Int /\ width * k \in Int
    OBVIOUS
  <1>2. m = n + width * k
    OBVIOUS
  <1> HIDE DEF m
  <1>3. PICK i \in Int : m = width * i + (m % width)
    <2>1. m \div width \in Int /\ m = width * (m \div width) + (m % width)
      BY <1>1
    <2> QED
      BY <2>1
  <1>4. PICK j \in Int : n = width * j + (n % width)
    <2>1. n \div width \in Int /\ n = width * (n \div width) + (n % width)
      OBVIOUS
    <2> QED
      BY <2>1
  <1>5. m % width \in 0..(width - 1) /\ n % width \in 0..(width - 1)
    BY <1>1
  <1> DEFINE d == (j + k) - i
  <1>6. (m % width) - (n % width) = width * d /\ d \in Int
    <2> DEFINE rm == m % width
               rn == n % width
    <2>1. width * ((j + k) - i) = width * j + width * k - width * i
      OBVIOUS
    <2>2. width * j \in Int /\ width * i \in Int /\ d \in Int
      OBVIOUS
    <2>3. rm \in Int /\ rn \in Int /\ m = width * i + rm /\ n = width * j + rn
      BY <1>3, <1>4, <1>5
    <2> HIDE DEF rm, rn
    <2>4. rm - rn = width * j + width * k - width * i
      BY <1>1, <1>2, <2>2, <2>3
    <2> QED
      BY <2>1, <2>2, <2>4 DEF rm, rn
  <1> HIDE DEF d
  <1>7. d = 0
    <2>1. -width < width * d /\ width * d < width
      BY <1>5, <1>6
    <2> QED
      BY <1>6, <2>1, SmallMultiple
  <1> QED
    BY <1>2, <1>5, <1>6, <1>7
\* Reducing the weight first does not change what the residues combine to.
LEMMA CombineReduced ==
    ASSUME NEW width \in Nat \ {0}, NEW v \in [1..3 -> Nat], NEW gamma \in Nat
    PROVE  \E k \in Int : Combine(v, gamma) - (Combine(v, gamma % width) % width) = width * k
  <1> DEFINE g == gamma % width
             v1 == v[1]
             v2 == v[2]
             v3 == v[3]
  <1>1. v1 \in Nat /\ v2 \in Nat /\ v3 \in Nat
    OBVIOUS
  <1>2. PICK q \in Nat : gamma = width * q + g /\ g \in Nat
    <2>1. gamma \div width \in Nat /\ g \in Nat /\ gamma = width * (gamma \div width) + g
      <3>1. gamma \div width \in Nat /\ g \in 0..(width - 1) /\ gamma = width * (gamma \div width) + g
        BY OneLimb
      <3>2. g \in Nat
        BY <3>1
      <3> QED
        BY <3>1, <3>2
    <2> QED
      BY <2>1, Zenon
  <1> HIDE DEF g, v1, v2, v3
  <1>3. gamma * v2 = width * (q * v2) + g * v2
    BY <1>1, <1>2
  <1>4. gamma * gamma = width * (q * (width * q + 2 * g)) + g * g
    BY <1>2
  <1> DEFINE h == q * (width * q + 2 * g)
  <1>5. h \in Nat /\ g * g \in Nat
    BY <1>2
  <1>6. gamma * gamma = width * h + g * g
    BY <1>4
  <1> HIDE DEF h
  <1>7. (gamma * gamma) * v3 = width * (h * v3) + (g * g) * v3
    <2> DEFINE gg == g * g
    <2>1. gg \in Nat /\ gamma * gamma = width * h + gg
      BY <1>5, <1>6
    <2> HIDE DEF gg
    <2>2. (width * h + gg) * v3 = width * (h * v3) + gg * v3
      BY <1>1, <1>5, <2>1
    <2> QED
      BY <2>1, <2>2 DEF gg
  <1> DEFINE low == v1 + g * v2 + (g * g) * v3
  <1>8. low \in Nat /\ q * v2 \in Nat /\ h * v3 \in Nat
    BY <1>1, <1>2, <1>5
  <1>9. Combine(v, gamma) = v1 + gamma * v2 + (gamma * gamma) * v3
    BY DEF Combine, v1, v2, v3
  <1>10. Combine(v, g) = low
    BY DEF Combine, v1, v2, v3
  <1>11. Combine(v, gamma) = width * (q * v2 + h * v3) + low
    <2> DEFINE a == q * v2
               b == h * v3
               x == g * v2
               y == (g * g) * v3
    <2>1. a \in Nat /\ b \in Nat /\ x \in Nat /\ y \in Nat
      BY <1>1, <1>2, <1>5
    <2>2. Combine(v, gamma) = v1 + (width * a + x) + (width * b + y)
      BY <1>3, <1>7, <1>9
    <2>3. low = v1 + x + y
      OBVIOUS
    <2> HIDE DEF a, b, x, y, low
    <2>4. width * (a + b) = width * a + width * b /\ width * a \in Nat /\ width * b \in Nat
      BY <2>1
    <2>5. Combine(v, gamma) = width * (a + b) + low
      BY <1>1, <2>1, <2>2, <2>3, <2>4
    <2> QED
      BY <2>5 DEF a, b
  <1> HIDE DEF low
  <1>12. PICK p \in Nat : low = width * p + (low % width) /\ low % width \in Nat
    <2>1. /\ low \div width \in Nat /\ low % width \in Nat
          /\ low = width * (low \div width) + (low % width)
      <3>1. /\ low \div width \in Nat /\ low % width \in 0..(width - 1)
            /\ low = width * (low \div width) + (low % width)
        BY <1>8, OneLimb
      <3>2. low % width \in Nat
        BY <3>1
      <3> QED
        BY <3>1, <3>2
    <2> QED
      BY <2>1, Zenon
  <1> DEFINE j == q * v2 + h * v3
  <1>13. j \in Nat /\ Combine(v, gamma) = width * j + low
    BY <1>1, <1>8, <1>11
  <1> HIDE DEF j
  <1>14. Combine(v, gamma) - (low % width) = width * (j + p)
    <2> DEFINE a == low % width
               b == width * j
               d == width * p
               sum == Combine(v, gamma)
    <2>1. width * (j + p) = b + d /\ b \in Nat /\ d \in Nat
      BY <1>12, <1>13
    <2>2. low = d + a /\ a \in Nat /\ sum = b + low
      BY <1>12, <1>13
    <2> HIDE DEF a, b, d, sum
    <2>3. sum - a = b + d
      BY <2>1, <2>2
    <2> QED
      BY <2>1, <2>3 DEF a, sum
  <1>15. j + p \in Int
    BY <1>12, <1>13
  <1> QED
    BY <1>10, <1>14, <1>15 DEF g

\* The response about three distances is within its bound, and both curves
\* recover the announcement though it exceeds their orders.
LEMMA DistancesAccepted ==
    ASSUME CrossCurveAssumption, ResponsesFit, NEW st,
           st.q \in [1..3 -> Values], st.q = st.r,
           NEW gamma \in 0..(Weight - 1), NEW k \in 0..(DistanceBlind - 1), NEW c \in Challenges
    PROVE  VerifyDistances(st, ProveDistances(st.q, gamma, k, c))
  <1> DEFINE v == st.q
             pf == ProveDistances(v, gamma, k, c)
             value == Combine(v, gamma)
             top == (LimbBase - 1) * (1 + (Weight - 1) + (Weight - 1) * (Weight - 1))
  <1>1. /\ gamma \in Nat /\ k \in Nat /\ c \in Nat
        /\ gamma <= Weight - 1 /\ k <= DistanceBlind - 1 /\ c <= Challenge - 1
        /\ Challenge - 1 \in Nat /\ LimbBase - 1 \in Nat /\ Weight - 1 \in Nat
        /\ DistanceBlind \in Nat /\ DistanceBound \in Nat /\ Q \in Nat \ {0} /\ R \in Nat \ {0}
    BY Numbers DEF CrossCurveAssumption, Challenges
  <1>2. v \in [1..3 -> Nat] /\ \A i \in 1..3 : v[i] <= LimbBase - 1
    BY <1>1 DEF Values
  <1>3. v[1] \in Nat /\ v[2] \in Nat /\ v[3] \in Nat
        /\ v[1] <= LimbBase - 1 /\ v[2] <= LimbBase - 1 /\ v[3] <= LimbBase - 1
    <2>1. 1 \in 1..3 /\ 2 \in 1..3 /\ 3 \in 1..3
      OBVIOUS
    <2> QED
      BY <1>2, <2>1
  <1>4. value \in Nat /\ value <= top
    <2> DEFINE l == LimbBase - 1
               w == Weight - 1
               v1 == v[1]
               v2 == v[2]
               v3 == v[3]
    <2>1. /\ l \in Nat /\ w \in Nat /\ v1 \in Nat /\ v2 \in Nat /\ v3 \in Nat
          /\ gamma <= w /\ v1 <= l /\ v2 <= l /\ v3 <= l
      BY <1>1, <1>3
    <2>2. value = v1 + gamma * v2 + (gamma * gamma) * v3
      BY DEF Combine
    <2>3. top = l * (1 + w + w * w)
      OBVIOUS
    <2> HIDE DEF l, w, v1, v2, v3, v, value, top
    <2>4. gamma * v2 \in Nat /\ gamma * v2 <= w * l
      BY <1>1, <2>1, ProductBounded
    <2>5. gamma * gamma \in Nat /\ gamma * gamma <= w * w /\ w * w \in Nat
      BY <1>1, <2>1, ProductBounded
    <2>6. (gamma * gamma) * v3 \in Nat /\ (gamma * gamma) * v3 <= (w * w) * l
      BY <2>1, <2>5, ProductBounded
    <2>7. l * (1 + w + w * w) = l + w * l + (w * w) * l /\ w * l \in Nat /\ (w * w) * l \in Nat
      BY <2>1
    <2> QED
      BY <2>1, <2>2, <2>3, <2>4, <2>6, <2>7
  <1>5. pf.z < DistanceBound
    <2>1. c * value \in Nat /\ c * value <= (Challenge - 1) * top
      <3>1. top \in Nat
        BY <1>1
      <3> HIDE DEF top, value
      <3> QED
        BY <1>1, <1>4, <3>1, ProductBounded
    <2>2. DistanceBlind + (Challenge - 1) * top <= DistanceBound
      BY DEF ResponsesFit
    <2>3. pf.z = k + c * value
      BY DEF ProveDistances, DistanceResponse
    <2>4. (Challenge - 1) * top \in Nat
      <3>1. top \in Nat
        BY <1>1
      <3> HIDE DEF top
      <3> QED
        BY <1>1, <3>1
    <2> HIDE DEF pf, value, top
    <2> QED
      BY <1>1, <2>1, <2>2, <2>3, <2>4
  <1>6. /\ pf.gamma = gamma /\ pf.c = c /\ pf.z = k + c * value
        /\ pf.r = [q |-> k % Q, r |-> k % R]
    BY DEF ProveDistances, DistanceResponse
  <1> DEFINE com == CombinedCommitment(st, gamma)
  <1>7. /\ com.q = Combine(v, gamma % Q) % Q
        /\ com.r = Combine(v, gamma % R) % R
    BY DEF CombinedCommitment
  <1> HIDE DEF pf, value, com, v
  <1>8. ((k + c * value) - c * com.q) % Q = k % Q
    <2>1. PICK j \in Int : Combine(v, gamma) - (Combine(v, gamma % Q) % Q) = Q * j
      BY <1>1, <1>2, CombineReduced
    <2>2. com.q \in Int
      <3>1. gamma % Q \in Nat
        BY <1>1
      <3>2. Combine(v, gamma % Q) \in Nat
        BY <1>3, <3>1 DEF Combine
      <3> QED
        BY <1>1, <1>7, <3>2
    <2>3. value - com.q = Q * j
      BY <1>7, <2>1, Zenon DEF value
    <2>4. Q \in Nat \ {0} /\ k \in Nat /\ c \in Nat /\ value \in Nat /\ j \in Int
      BY <1>1, <1>4, <2>1
    <2> DEFINE res == com.q
    <2>5. res \in Int /\ value - res = Q * j
      BY <2>2, <2>3
    <2> HIDE DEF res
    <2>6. (k + c * value) - c * res = k + Q * (c * j) /\ c * j \in Int
      <3>1. c * (value - res) = c * value - c * res /\ c * value \in Int /\ c * res \in Int
        BY <2>4, <2>5
      <3>2. c * (Q * j) = Q * (c * j) /\ c * j \in Int
        BY <2>4
      <3> QED
        BY <2>4, <2>5, <3>1, <3>2
    <2>7. (k + Q * (c * j)) % Q = k % Q
      BY <2>4, <2>6, ShiftedResidue
    <2> QED
      BY <2>6, <2>7, Zenon DEF res
  <1>9. ((k + c * value) - c * com.r) % R = k % R
    <2>1. PICK j \in Int : Combine(v, gamma) - (Combine(v, gamma % R) % R) = R * j
      BY <1>1, <1>2, CombineReduced
    <2>2. com.r \in Int
      <3>1. gamma % R \in Nat
        BY <1>1
      <3>2. Combine(v, gamma % R) \in Nat
        BY <1>3, <3>1 DEF Combine
      <3> QED
        BY <1>1, <1>7, <3>2
    <2>3. value - com.r = R * j
      BY <1>7, <2>1, Zenon DEF value
    <2>4. R \in Nat \ {0} /\ k \in Nat /\ c \in Nat /\ value \in Nat /\ j \in Int
      BY <1>1, <1>4, <2>1
    <2> DEFINE res == com.r
    <2>5. res \in Int /\ value - res = R * j
      BY <2>2, <2>3
    <2> HIDE DEF res
    <2>6. (k + c * value) - c * res = k + R * (c * j) /\ c * j \in Int
      <3>1. c * (value - res) = c * value - c * res /\ c * value \in Int /\ c * res \in Int
        BY <2>4, <2>5
      <3>2. c * (R * j) = R * (c * j) /\ c * j \in Int
        BY <2>4
      <3> QED
        BY <2>4, <2>5, <3>1, <3>2
    <2>7. (k + R * (c * j)) % R = k % R
      BY <2>4, <2>6, ShiftedResidue
    <2> QED
      BY <2>6, <2>7, Zenon DEF res
  <1>10. Announced(CombinedCommitment(st, pf.gamma), pf.c, pf.z) = pf.r
    BY <1>6, <1>8, <1>9 DEF Announced, com
  <1> QED
    BY <1>5, <1>10 DEF VerifyDistances, pf, v

\* The prover of a canonical secret has nothing to refuse, and is believed.
LEMMA SecretAccepted ==
    ASSUME CrossCurveAssumption, ResponsesFit, NEW st,
           st.q \in CanonicalX, st.q = st.r,
           NEW u \in 0..(SecretBlind - 1), NEW c \in Challenges
    PROVE  /\ ValidStatement(st) /\ ProveSecret(st.q, u, c).z < SecretBound
           /\ VerifySecret(st, ProveSecret(st.q, u, c))
  <1> DEFINE x == st.q
             pf == ProveSecret(x, u, c)
  <1>1. /\ u \in Nat /\ c \in Nat /\ x \in Nat /\ x # 0
        /\ u <= SecretBlind - 1 /\ c <= Challenge - 1 /\ x <= Secret - 1
        /\ Challenge - 1 \in Nat /\ Secret - 1 \in Nat /\ SecretBlind \in Nat /\ SecretBound \in Nat
    BY DEF CrossCurveAssumption, CanonicalX, Challenges
  <1>2. pf.z = u + c * x /\ pf.c = c /\ pf.r = [q |-> u % Q, r |-> u % R]
    BY DEF ProveSecret
  <1>3. ValidStatement(st)
    BY <1>1 DEF ValidStatement
  <1> HIDE DEF pf, x
  <1>4. c * x \in Nat /\ c * x <= (Challenge - 1) * (Secret - 1)
    BY <1>1, ProductBounded
  <1>5. pf.z < SecretBound
    <2>1. (Challenge - 1) * (Secret - 1) \in Nat
      BY <1>1
    <2>2. SecretBlind + (Challenge - 1) * (Secret - 1) <= SecretBound
      BY DEF ResponsesFit
    <2> QED
      BY <1>1, <1>2, <1>4, <2>1, <2>2
  <1>6. pf.z - c * x = u
    BY <1>1, <1>2, <1>4
  <1>7. Announced(st, pf.c, pf.z) = pf.r
    BY <1>2, <1>6 DEF Announced, x
  <1> QED
    BY <1>3, <1>5, <1>7 DEF VerifySecret, pf, x

\* An honest proof is never refused by its prover, and always accepted: on both
\* curves, for every value, blinder, challenge and weight, at every width whose
\* responses fit (prove_batched_equality, prove_with_bls_bases,
\* SameXProof::prove and their verifiers).
THEOREM HonestProofsAccepted ==
    ASSUME CrossCurveAssumption, ResponsesFit
    PROVE  Spec => []HonestAccepted
  <1> DEFINE Inv == StatementTyped /\ HonestAccepted
  <1>1. Init => Inv
    BY DEF Init, StatementTyped, HonestAccepted
  <1>2. Inv /\ [Next]_vars => Inv'
    <2> SUFFICES ASSUME Inv, [Next]_vars
                 PROVE  Inv'
      OBVIOUS
    <2>1. CASE UNCHANGED vars
      BY <2>1 DEF vars, StatementTyped, HonestAccepted
    <2>2. CASE Next
      <3>1. StatementTyped' /\ statement' = statement /\ statement.q = statement.r
        BY <2>2 DEF Next, Prove, StatementTyped
      <3>2. CASE MakeBalance
        <4>1. statement.q \in Values
          BY <3>2 DEF MakeBalance, StatementTyped
        <4>2. PICK u \in 0..(BalanceBlind - 1), c \in Challenges :
                 proof' = ProveBalance(statement.q, u, c)
          BY <3>2 DEF MakeBalance
        <4>3. VerifyBalance(statement, proof')
          BY <3>1, <4>1, <4>2, BalanceAccepted
        <4>4. proof'.kind = "balance"
          BY <4>2 DEF ProveBalance
        <4>5. Accepted(statement, proof')
          BY <4>3, <4>4 DEF Accepted
        <4> QED
          BY <3>1, <4>5 DEF HonestAccepted
      <3>3. CASE MakeDistances
        <4>1. statement.q \in [1..3 -> Values]
          BY <3>3 DEF MakeDistances, StatementTyped
        <4>2. PICK gamma \in 0..(Weight - 1), k \in 0..(DistanceBlind - 1), c \in Challenges :
                 proof' = ProveDistances(statement.q, gamma, k, c)
          BY <3>3 DEF MakeDistances
        <4>3. VerifyDistances(statement, proof')
          BY <3>1, <4>1, <4>2, DistancesAccepted
        <4>4. proof'.kind = "distances"
          BY <4>2 DEF ProveDistances
        <4>5. Accepted(statement, proof')
          BY <4>3, <4>4 DEF Accepted
        <4> QED
          BY <3>1, <4>5 DEF HonestAccepted
      <3>4. CASE MakeSecret
        <4>1. statement.q \in CanonicalX
          BY <3>4 DEF MakeSecret, StatementTyped
        <4>2. PICK u \in 0..(SecretBlind - 1), c \in Challenges :
                 LET pf == ProveSecret(statement.q, u, c) IN
                 proof' = IF ValidStatement(statement) /\ pf.z < SecretBound THEN pf ELSE Refused
          BY <3>4 DEF MakeSecret
        <4>3. /\ proof' = ProveSecret(statement.q, u, c)
              /\ VerifySecret(statement, proof')
          BY <3>1, <4>1, <4>2, SecretAccepted
        <4>4. proof'.kind = "secret"
          BY <4>3 DEF ProveSecret
        <4>5. Accepted(statement, proof')
          BY <4>3, <4>4 DEF Accepted
        <4> QED
          BY <3>1, <4>5 DEF HonestAccepted
      <3> QED
        BY <2>2, <3>2, <3>3, <3>4 DEF Next, Prove
    <2> QED
      BY <2>1, <2>2
  <1>3. Inv => HonestAccepted
    OBVIOUS
  <1> QED
    BY <1>1, <1>2, <1>3, PTL DEF Spec
=============================================================================
