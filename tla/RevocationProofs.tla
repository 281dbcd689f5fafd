--------------------------- MODULE RevocationProofs --------------------------
(***************************************************************************)
(* What the loop of sign_blacklist signs, for every blacklist; and that a  *)
(* verified proof of non-revocation is about the list it is verified       *)
(* against, whatever copy it was made from: versions name blacklists.      *)
(***************************************************************************)
EXTENDS RevocationList, Induction

-----------------------------------------------------------------------------
(* The loop of sign_blacklist                                              *)

Start == [left |-> 0, gaps |-> {}]

\* A function that is what the loop computes, for every part of a blacklist.
LoopOn(f, handles) ==
    f = [s \in SUBSET handles |-> IF s = {} THEN Start ELSE SignGap(f[s \ {Max(s)}], Max(s))]

\* There is such a function: what it is up to k gives what it is up to k + 1.
LEMMA LoopExists ==
    ASSUME NEW n \in Nat
    PROVE  \E f : LoopOn(f, 0..n)
  <1> DEFINE S == {k \in Nat : \E f : LoopOn(f, 0..k)}
  <1>1. 0 \in S
    <2> DEFINE f == [s \in SUBSET (0..0) |-> IF s = {} THEN Start ELSE SignGap(Start, Max(s))]
    <2>1. ASSUME NEW s \in SUBSET (0..0), s # {}
          PROVE  f[s \ {Max(s)}] = Start
      <3>1. Max(s) \in s
        BY <2>1, MaxIsLargest
      <3>2. \A h \in s : h = 0
        OBVIOUS
      <3>3. s \ {Max(s)} = {}
        BY <3>1, <3>2
      <3> QED
        BY <3>3
    <2>2. f = [s \in SUBSET (0..0) |-> IF s = {} THEN Start ELSE SignGap(f[s \ {Max(s)}], Max(s))]
      BY <2>1
    <2> QED
      BY <2>2 DEF LoopOn
  <1>2. ASSUME NEW k \in Nat, k \in S
        PROVE  k + 1 \in S
    <2>1. PICK f : LoopOn(f, 0..k)
      BY <1>2
    <2> DEFINE g == [s \in SUBSET (0..(k + 1)) |->
                        IF k + 1 \in s THEN SignGap(f[s \ {k + 1}], k + 1) ELSE f[s]]
    <2>2. ASSUME NEW s \in SUBSET (0..(k + 1))
          PROVE  g[s] = IF s = {} THEN Start ELSE SignGap(g[s \ {Max(s)}], Max(s))
      <3>1. CASE k + 1 \in s
        <4>1. Max(s) = k + 1
          <5>1. k + 1 \in Nat /\ \A h \in s : h <= k + 1
            OBVIOUS
          <5> QED
            BY <3>1, <5>1, MaxIs
        <4>2. s \ {k + 1} \in SUBSET (0..k) /\ s \ {k + 1} \in SUBSET (0..(k + 1))
          OBVIOUS
        <4>3. g[s \ {k + 1}] = f[s \ {k + 1}]
          BY <4>2
        <4> QED
          BY <3>1, <4>1, <4>3
      <3>2. CASE k + 1 \notin s
        <4>1. s \in SUBSET (0..k)
          BY <3>2
        <4>2. f[s] = IF s = {} THEN Start ELSE SignGap(f[s \ {Max(s)}], Max(s))
          BY <2>1, <4>1 DEF LoopOn
        <4>3. s \ {Max(s)} \in SUBSET (0..(k + 1)) /\ k + 1 \notin s \ {Max(s)}
          BY <3>2
        <4> QED
          BY <3>2, <4>2, <4>3
      <3> QED
        BY <3>1, <3>2
    <2>3. LoopOn(g, 0..(k + 1))
      BY <2>2 DEF LoopOn
    <2> QED
      BY <2>3
  <1> HIDE DEF S
  <1>3. n \in S
    BY <1>1, <1>2, SetInduction
  <1> QED
    BY <1>3 DEF S

\* The fold of sign_blacklist is such a function at the blacklist itself.
LEMMA LoopRuns ==
    ASSUME NEW n \in Nat, NEW b \in SUBSET (0..n)
    PROVE  \E f : LoopOn(f, b) /\ SignInOrder(b) = f[b]
  <1> DEFINE Runs(f) ==
                 f = [s \in SUBSET b |-> IF s = {} THEN Start ELSE SignGap(f[s \ {Max(s)}], Max(s))]
  <1>1. PICK f : LoopOn(f, 0..n)
    BY LoopExists
  <1>2. Runs([s \in SUBSET b |-> f[s]])
    BY <1>1 DEF LoopOn
  <1>3. SignInOrder(b) = (CHOOSE g : Runs(g))[b]
    BY DEF SignInOrder, MapThenFoldSet, Start
  <1>4. Runs(CHOOSE g : Runs(g))
    <2> HIDE DEF Runs
    <2> QED
      BY <1>2
  <1> QED
    BY <1>3, <1>4 DEF LoopOn

\* What the loop has signed once it is past the handles of s: no handle is
\* inside a gap, every other value up to the last handle is inside just one.
Signed(acc, s) ==
    /\ acc.left \in {0} \cup s
    /\ \A h \in s : h <= acc.left
    /\ \A gap \in acc.gaps :
         /\ gap[1] \in {0} \cup s /\ gap[2] \in s
         /\ \A h \in s : ~Inside(gap, h)
    /\ \A e \in 1..(acc.left - 1) : e \notin s => \E gap \in acc.gaps : Inside(gap, e)
    /\ \A g1, g2 \in acc.gaps : \A e \in Nat : Inside(g1, e) /\ Inside(g2, e) => g1 = g2

\* One round: the next handle closes the gap from the last one.
LEMMA SignGapStep ==
    ASSUME NEW n \in Nat, NEW s \in SUBSET (0..n), NEW m \in 0..n, \A h \in s : h < m,
           NEW acc, Signed(acc, s)
    PROVE  Signed(SignGap(acc, m), s \cup {m})
  <1> DEFINE after == SignGap(acc, m)
             t     == s \cup {m}
  <1>1. acc.left \in Nat /\ acc.left <= m /\ m \in Nat /\ \A h \in s : h \in Nat
    <2>1. acc.left = 0 \/ acc.left \in s
      BY DEF Signed
    <2>2. m \in Nat /\ \A h \in s : h \in Nat
      OBVIOUS
    <2>3. 0 \in Nat /\ 0 <= m /\ \A h \in s : h <= m
      BY <2>2
    <2> QED
      BY <2>1, <2>2, <2>3, Zenon
  <1>2. /\ after.left = m
        /\ m > acc.left + 1 => after.gaps = acc.gaps \cup {<<acc.left, m>>}
        /\ ~(m > acc.left + 1) => after.gaps = acc.gaps
    BY DEF SignGap
  <1> HIDE DEF after
  <1>3. ASSUME NEW gap \in acc.gaps
        PROVE  /\ gap[1] \in Nat /\ gap[2] \in Nat /\ gap[2] <= acc.left
               /\ gap[1] \in {0} \cup t /\ gap[2] \in t
               /\ \A h \in t : ~Inside(gap, h)
    <2>1. /\ gap[1] \in {0} \cup s /\ gap[2] \in s
          /\ \A h \in s : ~Inside(gap, h)
          /\ \A h \in s : h <= acc.left
      BY DEF Signed
    <2>2. 0 \in Nat /\ (gap[1] = 0 \/ gap[1] \in s)
      BY <2>1
    <2>3. gap[1] \in Nat /\ gap[2] \in Nat /\ gap[2] <= acc.left
      BY <1>1, <2>1, <2>2, Zenon
    <2>4. ~Inside(gap, m)
      BY <1>1, <2>3 DEF Inside
    <2> QED
      BY <2>1, <2>3, <2>4
  <1>4. ASSUME NEW gap, gap = <<acc.left, m>>
        PROVE  /\ gap[1] \in {0} \cup t /\ gap[2] \in t
               /\ \A h \in t : ~Inside(gap, h)
    BY <1>1, <1>4 DEF Signed, Inside
  <1>5. \A gap \in after.gaps :
            /\ gap[1] \in {0} \cup t /\ gap[2] \in t
            /\ \A h \in t : ~Inside(gap, h)
    BY <1>2, <1>3, <1>4
  <1>6. ASSUME NEW e \in 1..(m - 1), e \notin t
        PROVE  \E gap \in after.gaps : Inside(gap, e)
    <2>1. CASE e < acc.left
      <3>1. PICK gap \in acc.gaps : Inside(gap, e)
        BY <1>1, <1>6, <2>1 DEF Signed
      <3> QED
        BY <1>2, <3>1
    <2>2. CASE e = acc.left
      BY <1>6, <2>2 DEF Signed
    <2>3. CASE e > acc.left
      <3>1. m > acc.left + 1 /\ Inside(<<acc.left, m>>, e)
        BY <1>1, <2>3 DEF Inside
      <3> QED
        BY <1>2, <3>1
    <2> QED
      BY <1>1, <2>1, <2>2, <2>3
  <1>7. ASSUME NEW g1 \in after.gaps, NEW g2 \in after.gaps, NEW e \in Nat,
               Inside(g1, e), Inside(g2, e)
        PROVE  g1 = g2
    <2>1. ASSUME NEW gap \in acc.gaps, Inside(gap, e)
          PROVE  e < acc.left
      BY <1>1, <1>3, <2>1 DEF Inside
    <2>2. Inside(<<acc.left, m>>, e) => acc.left < e
      BY DEF Inside
    <2>3. CASE g1 \in acc.gaps /\ g2 \in acc.gaps
      BY <1>7, <2>3 DEF Signed
    <2>4. CASE g1 = <<acc.left, m>> /\ g2 = <<acc.left, m>>
      BY <2>4
    <2>5. CASE g1 \in acc.gaps /\ g2 = <<acc.left, m>>
      BY <1>1, <1>7, <2>1, <2>2, <2>5
    <2>6. CASE g1 = <<acc.left, m>> /\ g2 \in acc.gaps
      BY <1>1, <1>7, <2>1, <2>2, <2>6
    <2> QED
      BY <1>2, <2>3, <2>4, <2>5, <2>6
  <1>8. after.left \in {0} \cup t /\ \A h \in t : h <= after.left
    BY <1>2
  <1>9. Signed(after, t)
    BY <1>2, <1>5, <1>6, <1>7, <1>8 DEF Signed
  <1> QED
    BY <1>9 DEF after

\* After the loop, by induction on the largest handle.
LEMMA LoopSigned ==
    ASSUME NEW n \in Nat, NEW b \in SUBSET (0..n)
    PROVE  Signed(SignInOrder(b), b)
  <1>1. PICK f : LoopOn(f, b) /\ SignInOrder(b) = f[b]
    BY LoopRuns
  <1> DEFINE S == {k \in Nat : \A s \in SUBSET b : (\A h \in s : h < k) => Signed(f[s], s)}
  <1>2. f[{}] = Start /\ Signed(Start, {})
    BY <1>1 DEF LoopOn, Start, Signed
  <1>3. 0 \in S
    <2> SUFFICES ASSUME NEW s \in SUBSET b, \A h \in s : h < 0 PROVE Signed(f[s], s)
      OBVIOUS
    <2>1. s = {}
      OBVIOUS
    <2> QED
      BY <1>2, <2>1
  <1>4. ASSUME NEW k \in Nat, k \in S
        PROVE  k + 1 \in S
    <2> SUFFICES ASSUME NEW s \in SUBSET b, \A h \in s : h < k + 1 PROVE Signed(f[s], s)
      OBVIOUS
    <2>1. CASE k \notin s
      <3>1. \A h \in s : h < k
        BY <2>1
      <3> QED
        BY <1>4, <3>1
    <2>2. CASE k \in s
      <3>1. s \in SUBSET (0..n) /\ s # {} /\ \A h \in s : h <= k
        BY <2>2
      <3>2. Max(s) = k
        BY <2>2, <3>1, MaxIs
      <3>3. f[s] = SignGap(f[s \ {k}], k)
        BY <1>1, <2>2, <3>2 DEF LoopOn
      <3>4. s \ {k} \in SUBSET b /\ \A h \in s \ {k} : h < k
        BY <3>1
      <3>5. Signed(f[s \ {k}], s \ {k})
        BY <1>4, <3>4
      <3>6. Signed(SignGap(f[s \ {k}], k), (s \ {k}) \cup {k})
        BY <2>2, <3>4, <3>5, SignGapStep
      <3>7. (s \ {k}) \cup {k} = s
        BY <2>2
      <3> QED
        BY <3>3, <3>6, <3>7
    <2> QED
      BY <2>1, <2>2
  <1> HIDE DEF S
  <1>5. n + 1 \in S
    BY <1>3, <1>4, SetInduction
  <1>6. \A h \in b : h < n + 1
    OBVIOUS
  <1> QED
    BY <1>1, <1>5, <1>6 DEF S

\* sign_blacklist, for every blacklist of handles: a handle is inside no signed
\* gap, and every other value of the domain inside exactly one.
LEMMA SignedGapsExact ==
    ASSUME NEW b \in Blacklists
    PROVE  /\ b \in SUBSET (0..MaxValue)
           /\ \A gap \in SignedGaps(b) :
                /\ gap[1] \in {0} \cup b /\ gap[2] \in b \cup {DomainMax}
                /\ gap[1] \in Nat /\ gap[2] \in Nat
                /\ \A h \in b : ~Inside(gap, h)
           /\ \A e \in 1..(DomainMax - 1) :
                e \notin b => \E gap \in SignedGaps(b) : Inside(gap, e)
           /\ \A g1, g2 \in SignedGaps(b) :
                \A e \in Nat : Inside(g1, e) /\ Inside(g2, e) => g1 = g2
  <1> DEFINE end  == SignInOrder(b)
             last == <<end.left, DomainMax>>
             gaps == SignedGaps(b)
  <1>0. b \in SUBSET (0..MaxValue) /\ MaxValue \in Nat /\ \A h \in b : h \in Nat
    BY DomainAssumption
  <1>1. Signed(end, b)
    BY <1>0, LoopSigned
  <1>2. /\ DomainMax > end.left + 1 => gaps = end.gaps \cup {last}
        /\ ~(DomainMax > end.left + 1) => gaps = end.gaps
    BY DEF SignedGaps
  <1> HIDE DEF end, gaps
  <1>3. end.left \in Nat /\ DomainMax \in Nat
    <2>1. end.left = 0 \/ end.left \in b
      BY <1>1 DEF Signed
    <2>2. 0 \in Nat /\ DomainMax \in Nat
      BY DomainAssumption
    <2> QED
      BY <1>0, <2>1, <2>2, Zenon
  <1>4. ASSUME NEW gap \in gaps
        PROVE  /\ gap[1] \in {0} \cup b /\ gap[2] \in b \cup {DomainMax}
               /\ gap[1] \in Nat /\ gap[2] \in Nat
               /\ \A h \in b : ~Inside(gap, h)
    <2>1. gap[1] \in {0} \cup b /\ gap[2] \in b \cup {DomainMax}
      BY <1>1, <1>2 DEF Signed
    <2>2. \A h \in b : ~Inside(gap, h)
      BY <1>0, <1>1, <1>2, <1>3 DEF Signed, Inside
    <2>3. (gap[1] = 0 \/ gap[1] \in b) /\ (gap[2] = DomainMax \/ gap[2] \in b)
      BY <2>1
    <2>4. gap[1] \in Nat /\ gap[2] \in Nat
      <3>1. 0 \in Nat
        OBVIOUS
      <3> QED
        BY <1>0, <1>3, <2>3, <3>1, Zenon
    <2> QED
      BY <2>1, <2>2, <2>4
  <1>5. ASSUME NEW e \in 1..(DomainMax - 1), e \notin b
        PROVE  \E gap \in gaps : Inside(gap, e)
    <2>1. CASE e < end.left
      <3>1. PICK gap \in end.gaps : Inside(gap, e)
        BY <1>1, <1>3, <1>5, <2>1 DEF Signed
      <3> QED
        BY <1>2, <3>1
    <2>2. CASE e = end.left
      BY <1>1, <1>5, <2>2 DEF Signed
    <2>3. CASE e > end.left
      <3>1. DomainMax > end.left + 1 /\ Inside(last, e)
        BY <1>3, <2>3 DEF Inside
      <3> QED
        BY <1>2, <3>1
    <2> QED
      BY <1>3, <2>1, <2>2, <2>3
  <1>6. ASSUME NEW g1 \in gaps, NEW g2 \in gaps, NEW e \in Nat, Inside(g1, e), Inside(g2, e)
        PROVE  g1 = g2
    <2>1. ASSUME NEW gap \in end.gaps, Inside(gap, e)
          PROVE  e < end.left
      <3>1. gap[2] \in b /\ \A h \in b : h <= end.left
        BY <1>1 DEF Signed
      <3>2. gap[2] \in Nat
        BY <1>0, <3>1
      <3> QED
        BY <1>3, <2>1, <3>1, <3>2 DEF Inside
    <2>2. Inside(last, e) => end.left < e
      BY DEF Inside
    <2>3. CASE g1 \in end.gaps /\ g2 \in end.gaps
      BY <1>1, <1>6, <2>3 DEF Signed
    <2>4. CASE g1 = last /\ g2 = last
      BY <2>4
    <2>5. CASE g1 \in end.gaps /\ g2 = last
      BY <1>3, <1>6, <2>1, <2>2, <2>5
    <2>6. CASE g1 = last /\ g2 \in end.gaps
      BY <1>3, <1>6, <2>1, <2>2, <2>6
    <2> QED
      BY <1>2, <2>3, <2>4, <2>5, <2>6
  <1> QED
    BY <1>0, <1>4, <1>5, <1>6 DEF gaps

-----------------------------------------------------------------------------
(* The invariant                                                           *)

\* The server's list is signed from one of the blacklists.
ListSigned ==
    /\ list.version \in Nat
    /\ list.revoked \in Blacklists
    /\ list.gaps = SignedGaps(list.revoked)

\* A copy is of an earlier version, or has the gaps of the list.
CopiesBehind ==
    \A u \in User :
        /\ copy[u].version \in 0..list.version
        /\ copy[u].version = list.version =>
               copy[u].gaps = list.gaps /\ copy[u].revoked = list.revoked

\* Lists and copies were signed in the past.
SignedInThePast ==
    /\ now \in Nat
    /\ list.now \in 0..now
    /\ \A u \in User : copy[u].now \in 0..now

\* A proof was made with a signature of an earlier version, or of a gap of the
\* list.
ProofsBehind ==
    \A p \in proofs :
        /\ p.x \in User
        /\ p.at \in Int /\ p.value \in Int
        /\ \E version \in 0..list.version :
             /\ p.signature = <<p.gap, version>>
             /\ version = list.version => p.gap \in list.gaps

RevocationInv ==
    ListSigned /\ CopiesBehind /\ SignedInThePast /\ ProofsBehind /\ AcceptedNotRevoked

-----------------------------------------------------------------------------
(* Steps                                                                   *)

LEMMA InitialList == Init => RevocationInv
  <1> SUFFICES ASSUME Init PROVE RevocationInv
    OBVIOUS
  <1>1. ListSigned
    BY DomainAssumption DEF Init, SignBlacklist, ListSigned
  <1>2. CopiesBehind /\ SignedInThePast
    BY DEF Init, SignBlacklist, CopiesBehind, SignedInThePast
  <1>3. ProofsBehind /\ AcceptedNotRevoked
    BY DEF Init, ProofsBehind, AcceptedNotRevoked
  <1> QED
    BY <1>1, <1>2, <1>3 DEF RevocationInv

\* A list under a new version leaves every copy and every proof behind.
LEMMA PublishStep ==
    ASSUME RevocationInv, NEW b \in Blacklists, Publish(b)
    PROVE  RevocationInv'
  <1> USE DEF RevocationInv
  <1>1. /\ list'.version = list.version + 1
        /\ list'.revoked = b
        /\ list'.gaps = SignedGaps(b)
        /\ list'.now = now
        /\ UNCHANGED <<now, copy, proofs, accepted>>
    BY DEF Publish, SignBlacklist
  <1>2. list.version \in Nat /\ list'.version \in Nat
    BY <1>1 DEF ListSigned
  <1>3. ListSigned'
    BY <1>1, <1>2 DEF ListSigned
  <1>4. CopiesBehind'
    <2> SUFFICES ASSUME NEW u \in User
                 PROVE  copy[u].version \in 0..list'.version /\ copy[u].version # list'.version
      BY <1>1 DEF CopiesBehind
    <2> QED
      BY <1>1, <1>2 DEF CopiesBehind
  <1>5. ProofsBehind'
    <2> SUFFICES ASSUME NEW p \in proofs
                 PROVE  /\ p.x \in User /\ p.at \in Int /\ p.value \in Int
                        /\ \E version \in 0..list'.version :
                             p.signature = <<p.gap, version>> /\ version # list'.version
      BY <1>1 DEF ProofsBehind
    <2>1. PICK version \in 0..list.version : p.signature = <<p.gap, version>>
      BY DEF ProofsBehind
    <2>2. version \in 0..list'.version /\ version # list'.version
      BY <1>1, <1>2
    <2> QED
      BY <2>1, <2>2 DEF ProofsBehind
  <1>6. AcceptedNotRevoked' /\ SignedInThePast'
    BY <1>1 DEF AcceptedNotRevoked, SignedInThePast
  <1> QED
    BY <1>3, <1>4, <1>5, <1>6

\* The same list at another second has the same gaps.
LEMMA ResignStep ==
    ASSUME RevocationInv, Resign
    PROVE  RevocationInv'
  <1> USE DEF RevocationInv
  <1>1. /\ list'.version = list.version
        /\ list'.revoked = list.revoked
        /\ list'.gaps = list.gaps
        /\ list'.now = now
        /\ UNCHANGED <<now, copy, proofs, accepted>>
    BY DEF Resign, SignBlacklist, ListSigned
  <1> QED
    BY <1>1 DEF ListSigned, CopiesBehind, SignedInThePast, ProofsBehind, AcceptedNotRevoked

LEMMA FetchStep ==
    ASSUME RevocationInv, NEW u \in User, Fetch(u)
    PROVE  RevocationInv'
  <1> USE DEF RevocationInv
  <1>1. \A v \in User : copy'[v] \in {copy[v], list}
    BY DEF Fetch
  <1>2. CopiesBehind'
    <2> SUFFICES ASSUME NEW v \in User
                 PROVE  /\ copy'[v].version \in 0..list.version
                        /\ copy'[v].version = list.version =>
                               copy'[v].gaps = list.gaps /\ copy'[v].revoked = list.revoked
      BY DEF Fetch, CopiesBehind
    <2> QED
      BY <1>1 DEF CopiesBehind, ListSigned
  <1>3. SignedInThePast'
    BY <1>1 DEF Fetch, SignedInThePast
  <1> QED
    BY <1>2, <1>3 DEF Fetch, ListSigned, ProofsBehind, AcceptedNotRevoked

\* A client proves with a gap of its copy, whatever seconds it names.
LEMMA ProveStep ==
    ASSUME RevocationInv, NEW u \in User, NEW at \in 0..MaxTime, NEW s \in 0..MaxTime,
           Prove(u, at, s)
    PROVE  RevocationInv'
  <1> USE DEF RevocationInv
  <1> DEFINE value == Emax(u) - at + s
             made(gap) == [x |-> u, at |-> at, value |-> value, gap |-> gap,
                           signature |-> <<gap, copy[u].version>>]
  <1>1. PICK gap \in copy[u].gaps : proofs' = proofs \cup {made(gap)}
    BY DEF Prove, ProvableGaps, FindGap, Signature, GapContext
  <1>2. UNCHANGED <<now, list, copy, accepted>>
    BY DEF Prove
  <1>3. at \in Int /\ value \in Int
    BY DomainAssumption
  <1> HIDE DEF value
  <1>4. ProofsBehind'
    <2> SUFFICES ASSUME NEW p \in proofs'
                 PROVE  /\ p.x \in User
                        /\ p.at \in Int /\ p.value \in Int
                        /\ \E version \in 0..list.version :
                             /\ p.signature = <<p.gap, version>>
                             /\ version = list.version => p.gap \in list.gaps
      BY <1>2 DEF ProofsBehind
    <2>1. CASE p \in proofs
      BY <2>1 DEF ProofsBehind
    <2>2. CASE p = made(gap)
      BY <2>2, <1>1, <1>3 DEF CopiesBehind
    <2> QED
      BY <1>1, <2>1, <2>2
  <1> QED
    BY <1>2, <1>4 DEF ListSigned, CopiesBehind, SignedInThePast, AcceptedNotRevoked

\* The context of the verifier's list admits only signed gaps of that list.
LEMMA VerifyStep ==
    ASSUME RevocationInv, NEW p \in proofs, Verify(p)
    PROVE  RevocationInv'
  <1> USE DEF RevocationInv
  <1>1. p.x \in User /\ Emax(p.x) \in Nat /\ p.at \in Int /\ p.value \in Int /\ list.now \in Int
    BY DomainAssumption DEF ProofsBehind, SignedInThePast
  <1>2. PICK version \in 0..list.version :
            /\ p.signature = <<p.gap, version>>
            /\ version = list.version => p.gap \in list.gaps
    BY DEF ProofsBehind
  <1>3. p.signature = <<p.gap, list.version>>
    <2>1. p.signature \in {<<p.gap, list.version>>, <<>>}
      BY DEF Verify, NonMembershipHolds, GapProofHolds, Signature, GapContext, IdentityPair
    <2>2. p.signature # <<>>
      BY <1>2
    <2> QED
      BY <2>1, <2>2
  <1>4. RangesHold(p) /\ p.value = Emax(p.x) - p.at + list.now
    BY DEF Verify, NonMembershipHolds, Rebuilt
  <1>5. p.gap \in SignedGaps(list.revoked)
    BY <1>2, <1>3 DEF ListSigned
  <1>6. /\ p.gap[1] \in Nat /\ p.gap[2] \in Nat
        /\ \A h \in list.revoked : ~Inside(p.gap, h)
    BY <1>5, SignedGapsExact DEF ListSigned
  <1>7. Inside(p.gap, p.value)
    BY <1>1, <1>4, <1>6, DomainAssumption DEF RangesHold, Inside
  <1>8. p.value \notin list.revoked
    BY <1>6, <1>7
  <1>9. p.at = list.now => Emax(p.x) \notin list.revoked
    BY <1>1, <1>4, <1>8
  <1>10. AcceptedNotRevoked'
    <2> SUFFICES ASSUME NEW a \in accepted'
                 PROVE  /\ a.proof.value \notin a.revoked
                        /\ a.proof.at = a.at => Emax(a.proof.x) \notin a.revoked
      BY DEF AcceptedNotRevoked
    <2>1. CASE a \in accepted
      BY <2>1 DEF AcceptedNotRevoked
    <2>2. CASE a = [proof |-> p, at |-> list.now, revoked |-> list.revoked]
      BY <2>2, <1>8, <1>9
    <2> QED
      BY <2>1, <2>2 DEF Verify
  <1> QED
    BY <1>10 DEF Verify, ListSigned, CopiesBehind, SignedInThePast, ProofsBehind

LEMMA RevocationStep ==
    ASSUME RevocationInv, [Next]_vars
    PROVE  RevocationInv'
  <1>1. CASE \E b \in Blacklists : Publish(b)
    BY <1>1, PublishStep
  <1>2. CASE Resign
    BY <1>2, ResignStep
  <1>3. CASE \E u \in User : Fetch(u)
    BY <1>3, FetchStep
  <1>4. CASE \E u \in User, at, s \in 0..MaxTime : Prove(u, at, s)
    BY <1>4, ProveStep
  <1>5. CASE \E p \in proofs : Verify(p)
    BY <1>5, VerifyStep
  <1>6. CASE Tick
    BY <1>6
    DEF Tick, RevocationInv, ListSigned, CopiesBehind, SignedInThePast, ProofsBehind, AcceptedNotRevoked
  <1>7. CASE UNCHANGED vars
    BY <1>7
    DEF vars, RevocationInv, ListSigned, CopiesBehind, SignedInThePast, ProofsBehind, AcceptedNotRevoked
  <1> QED
    BY <1>1, <1>2, <1>3, <1>4, <1>5, <1>6, <1>7 DEF Next

\* No proof of the code's prover verifies for a value the verifier's list
\* revokes, for any blacklists and any number of versions, copies, proofs under
\* way and seconds they are made for; and that value is the subscriber's expiry
\* when list and companion are of one second: verify_*_not_revoked under the
\* list's context.
THEOREM VerifiedNotRevoked == Spec => []AcceptedNotRevoked
  <1>1. Init => RevocationInv
    BY InitialList
  <1>2. RevocationInv /\ [Next]_vars => RevocationInv'
    BY RevocationStep
  <1>3. RevocationInv => AcceptedNotRevoked
    BY DEF RevocationInv
  <1> QED
    BY <1>1, <1>2, <1>3, PTL DEF Spec

\* Whatever blacklists are published, every value of the domain is inside
\* exactly one gap of the server's list, or is revoked and inside none:
\* SignedRevocationList::sign_blacklist, handles beyond the domain included.
THEOREM GapsAlwaysExact == Spec => []GapsExact
  <1>1. Init => RevocationInv
    BY InitialList
  <1>2. RevocationInv /\ [Next]_vars => RevocationInv'
    BY RevocationStep
  <1>3. RevocationInv => GapsExact
    <2> SUFFICES ASSUME RevocationInv, NEW e \in 1..(DomainMax - 1)
                 PROVE  Cardinality({gap \in list.gaps : Inside(gap, e)})
                            = IF e \in list.revoked THEN 0 ELSE 1
      BY DEF GapsExact
    <2> DEFINE around == {gap \in list.gaps : Inside(gap, e)}
    <2>1. list.revoked \in Blacklists /\ list.gaps = SignedGaps(list.revoked)
      BY DEF RevocationInv, ListSigned
    <2>2. e \in Nat
      BY DomainAssumption
    <2>3. CASE e \in list.revoked
      <3>1. around = {}
        BY <2>1, <2>2, <2>3, SignedGapsExact
      <3> QED
        BY <2>3, <3>1, FS_EmptySet
    <2>4. CASE e \notin list.revoked
      <3>1. PICK gap \in list.gaps : Inside(gap, e)
        BY <2>1, <2>2, <2>4, SignedGapsExact
      <3>2. \A other \in list.gaps : Inside(other, e) => other = gap
        BY <2>1, <2>2, <3>1, SignedGapsExact
      <3>3. around = {gap}
        BY <3>1, <3>2
      <3> QED
        BY <2>4, <3>3, FS_Singleton
    <2> QED
      BY <2>3, <2>4
  <1> QED
    BY <1>1, <1>2, <1>3, PTL DEF Spec

\* Every blacklisted expiry is one that proofs can be about.
HandlesInDomain == \A b \in Blacklists : b \subseteq 0..DomainMax

\* If no blacklisted handle is beyond the domain, then a subscriber who is not
\* revoked finds a gap to prove with in any copy of the server's version,
\* however old its signature: find_gap, witness_inputs.
THEOREM UnrevokedCanProve ==
    ASSUME HandlesInDomain
    PROVE  Spec => []NotRevokedCanProve
  <1>1. Init => RevocationInv
    BY InitialList
  <1>2. RevocationInv /\ [Next]_vars => RevocationInv'
    BY RevocationStep
  <1>3. RevocationInv => NotRevokedCanProve
    <2> SUFFICES ASSUME RevocationInv, NEW u \in User,
                        copy[u].version = list.version,
                        Emax(u) \in 1..(DomainMax - 1), Emax(u) \notin list.revoked,
                        now <= Emax(u)
                 PROVE  ProvableGaps(copy[u], Emax(u)) # {}
      BY DEF NotRevokedCanProve
    <2> USE DEF RevocationInv
    <2>1. copy[u].gaps = SignedGaps(list.revoked) /\ copy[u].revoked = list.revoked
      BY DEF CopiesBehind, ListSigned
    <2>2. list.revoked \in Blacklists /\ list.revoked \subseteq 0..DomainMax
      BY HandlesInDomain DEF ListSigned, HandlesInDomain
    <2>3. PICK gap \in copy[u].gaps : Inside(gap, Emax(u))
      BY <2>1, <2>2, DomainAssumption, SignedGapsExact
    <2>4. gap[1] <= DomainMax /\ gap[2] <= DomainMax
      <3>1. gap[1] \in {0} \cup list.revoked /\ gap[2] \in list.revoked \cup {DomainMax}
        BY <2>1, <2>2, DomainAssumption, SignedGapsExact
      <3> QED
        BY <2>2, <3>1, DomainAssumption
    <2>5. gap \in FindGap(copy[u], Emax(u))
      BY <2>1, <2>3 DEF FindGap
    <2>6. copy[u].now <= Emax(u) /\ Emax(u) <= DomainMax
      BY DomainAssumption DEF SignedInThePast
    <2>7. ValidateGap(Emax(u), gap, copy[u].now)
      BY <2>3, <2>4, <2>6 DEF ValidateGap
    <2> QED
      BY <2>5, <2>7 DEF ProvableGaps
  <1> QED
    BY <1>1, <1>2, <1>3, PTL DEF Spec
=============================================================================
