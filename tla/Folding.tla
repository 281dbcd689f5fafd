------------------------------ MODULE Folding -------------------------------
(***************************************************************************)
(* A fold over a sequence, element by element: what FoldLeft computes is   *)
(* worked out from here for any operator, through an instance of this      *)
(* module with that operator for Op.                                       *)
(***************************************************************************)
EXTENDS Induction, SequencesExt

CONSTANT Op(_, _)   \* what the accumulator and the next element give

Fold(start, seq) == FoldLeft(Op, start, seq)

\* The function a fold over a sequence recurses with.
Folds(f, start, seq, n) ==
    f = [s \in SUBSET (1..n) |->
            IF s = {} THEN start ELSE Op(f[s \ {Max(s)}], seq[Max(s)])]

\* FoldLeft's recursive definition has a function, whatever Op is.
LEMMA FoldExists ==
    ASSUME NEW start, NEW seq, NEW n \in Nat
    PROVE  \E f : Folds(f, start, seq, n)
  <1> DEFINE S == {k \in Nat : \E f : Folds(f, start, seq, k)}
  <1>1. 0 \in S
    <2> DEFINE f == [s \in SUBSET (1..0) |-> start]
    <2>1. \A s \in SUBSET (1..0) : s = {}
      OBVIOUS
    <2>2. f = [s \in SUBSET (1..0) |->
                  IF s = {} THEN start ELSE Op(f[s \ {Max(s)}], seq[Max(s)])]
      BY <2>1
    <2> QED
      BY <2>2 DEF Folds
  <1>2. ASSUME NEW k \in Nat, k \in S
        PROVE  k + 1 \in S
    <2>1. PICK f : Folds(f, start, seq, k)
      BY <1>2
    <2> DEFINE g == [s \in SUBSET (1..(k + 1)) |->
                        IF k + 1 \in s THEN Op(f[s \ {k + 1}], seq[k + 1]) ELSE f[s]]
    <2>2. ASSUME NEW s \in SUBSET (1..(k + 1))
          PROVE  g[s] = IF s = {} THEN start ELSE Op(g[s \ {Max(s)}], seq[Max(s)])
      <3>1. CASE k + 1 \in s
        <4>1. Max(s) = k + 1
          <5>1. k + 1 \in Nat /\ \A h \in s : h <= k + 1
            OBVIOUS
          <5>2. s \in SUBSET (0..(k + 1))
            OBVIOUS
          <5> QED
            BY <3>1, <5>1, <5>2, MaxIs
        <4>2. s \ {k + 1} \in SUBSET (1..k) /\ s \ {k + 1} \in SUBSET (1..(k + 1))
          OBVIOUS
        <4>3. g[s \ {k + 1}] = f[s \ {k + 1}]
          BY <4>2
        <4> QED
          BY <3>1, <4>1, <4>3
      <3>2. CASE k + 1 \notin s
        <4>1. s \in SUBSET (1..k)
          BY <3>2
        <4>2. f[s] = IF s = {} THEN start ELSE Op(f[s \ {Max(s)}], seq[Max(s)])
          BY <2>1, <4>1 DEF Folds
        <4>3. s \ {Max(s)} \in SUBSET (1..(k + 1)) /\ k + 1 \notin s \ {Max(s)}
          BY <3>2
        <4> QED
          BY <3>2, <4>2, <4>3
      <3> QED
        BY <3>1, <3>2
    <2>3. Folds(g, start, seq, k + 1)
      BY <2>2 DEF Folds
    <2> QED
      BY <2>3
  <1> HIDE DEF S
  <1>3. n \in S
    BY <1>1, <1>2, SetInduction
  <1> QED
    BY <1>3 DEF S

\* What a fold has computed after the first k elements.
After(start, seq, k) == (CHOOSE f : Folds(f, start, seq, Len(seq)))[1..k]

\* A fold over a sequence goes through its elements one after the other.
LEMMA FoldSteps ==
    ASSUME NEW start, NEW seq, NEW n \in Nat, DOMAIN seq = 1..n
    PROVE  /\ After(start, seq, 0) = start
           /\ \A k \in 1..n : After(start, seq, k) = Op(After(start, seq, k - 1), seq[k])
           /\ Fold(start, seq) = After(start, seq, n)
  <1> DEFINE iter == CHOOSE f : Folds(f, start, seq, n)
  <1>1. Folds(iter, start, seq, n)
    BY FoldExists
  <1>2. Fold(start, seq) = iter[1..n]
    BY DEF Fold, FoldLeft, MapThenFoldSet, Folds
  <1>3. \A k : After(start, seq, k) = iter[1..k]
    <2>1. Len(seq) = n
      OBVIOUS
    <2> QED
      BY <2>1 DEF After
  <1> HIDE DEF iter
  <1>4. iter[1..0] = start
    <2>1. 1..0 = {} /\ {} \in SUBSET (1..n)
      OBVIOUS
    <2> QED
      BY <1>1, <2>1 DEF Folds
  <1>5. ASSUME NEW k \in 1..n
        PROVE  iter[1..k] = Op(iter[1..(k - 1)], seq[k])
    <2>1. 1..k \in SUBSET (1..n) /\ 1..k # {} /\ (1..k) \ {k} = 1..(k - 1)
      OBVIOUS
    <2>2. Max(1..k) = k
      <3>1. k \in Nat /\ 1..k \in SUBSET (0..k) /\ k \in 1..k /\ \A h \in 1..k : h <= k
        OBVIOUS
      <3> QED
        BY <3>1, MaxIs
    <2> QED
      BY <1>1, <2>1, <2>2 DEF Folds
  <1> QED
    BY <1>2, <1>3, <1>4, <1>5

\* One element more is one round more.
LEMMA FoldNext ==
    ASSUME NEW start, NEW s, NEW t, NEW n \in Nat, DOMAIN s = 1..n, DOMAIN t = 1..(n + 1),
           \A i \in 1..n : t[i] = s[i]
    PROVE  Fold(start, t) = Op(Fold(start, s), t[n + 1])
  <1> DEFINE S == {k \in Nat : k <= n => After(start, t, k) = After(start, s, k)}
  <1>1. n + 1 \in Nat /\ n + 1 \in 1..(n + 1) /\ (n + 1) - 1 = n
    OBVIOUS
  <1>2. /\ After(start, t, 0) = start
        /\ \A k \in 1..(n + 1) : After(start, t, k) = Op(After(start, t, k - 1), t[k])
        /\ Fold(start, t) = After(start, t, n + 1)
    BY <1>1, FoldSteps
  <1>3. /\ After(start, s, 0) = start
        /\ \A k \in 1..n : After(start, s, k) = Op(After(start, s, k - 1), s[k])
        /\ Fold(start, s) = After(start, s, n)
    BY FoldSteps
  <1>4. 0 \in S
    BY <1>2, <1>3
  <1>5. ASSUME NEW k \in Nat, k \in S
        PROVE  k + 1 \in S
    <2> SUFFICES ASSUME k + 1 <= n PROVE After(start, t, k + 1) = After(start, s, k + 1)
      OBVIOUS
    <2>1. k + 1 \in 1..n /\ k + 1 \in 1..(n + 1) /\ (k + 1) - 1 = k /\ k <= n
      OBVIOUS
    <2>2. After(start, t, k) = After(start, s, k)
      BY <1>5, <2>1
    <2>3. After(start, t, k + 1) = Op(After(start, t, k), t[k + 1])
      BY <1>2, <2>1
    <2>4. After(start, s, k + 1) = Op(After(start, s, k), s[k + 1])
      BY <1>3, <2>1
    <2>5. t[k + 1] = s[k + 1]
      BY <2>1
    <2> QED
      BY <2>2, <2>3, <2>4, <2>5
  <1>6. After(start, t, n) = After(start, s, n)
    <2> HIDE DEF S
    <2>1. n \in S
      BY <1>4, <1>5, SetInduction
    <2> QED
      BY <2>1 DEF S
  <1> QED
    BY <1>1, <1>2, <1>3, <1>6
=============================================================================
