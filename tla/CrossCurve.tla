----------------------------- MODULE CrossCurve -----------------------------
(***************************************************************************)
(* The proofs that a Ristretto and a BLS12-381 commitment hold the same    *)
(* integer: of a balance (src/batched_eq.rs), of the three distances of a  *)
(* revocation gap (src/v3_zkp/batched_eq.rs) and of the ownership secret   *)
(* (src/same_x_bridge.rs).  Each answers a short challenge c with one      *)
(* integer z = u + c * value that both curves read modulo their own order; *)
(* they differ in the widths, in the arithmetic and in the bound on z.     *)
(*                                                                         *)
(* A commitment is the residue of the value it holds: blinders take part   *)
(* in no bound and their equation has the same form, so they are left out. *)
(* The Fiat-Shamir challenge is any value, one to an announcement: a proof *)
(* matches its challenge only if the verifier recovers what was announced. *)
(***************************************************************************)
EXTENDS Integers, Sequences, FiniteSets, SequencesExt

CONSTANTS
    Q, R,           \* the orders of Ristretto and of BLS12-381's scalars
    LimbBase,       \* 2^64: balances and distances are below it
    HalfRange,      \* 2^32: the values of the short range proof
    Challenge,      \* 2^128: challenges are below it
    Weight,         \* 2^80: the weights gamma that combine the distances
    Secret,         \* 2^248: canonical secrets are below it
    BalanceBlind, DistanceBlind, SecretBlind,   \* 2^240, 2^432, 2^384
    DistanceBound, SecretBound                  \* 2^433, 2^385: bounds on z

\* Four limbs hold numbers below this.
Wide == LimbBase * LimbBase * LimbBase * LimbBase

CrossCurveAssumption ==
    /\ {Q, R, LimbBase, HalfRange, Challenge, Weight, Secret, BalanceBlind,
        DistanceBlind, SecretBlind, DistanceBound, SecretBound} \subseteq Nat \ {0, 1}
    /\ Q < R /\ R < Wide
    /\ \A a, b \in 1..(R - 1) : (a * b) % R # 0     \* R is prime
    /\ HalfRange < LimbBase
    /\ (Challenge - 1) * (LimbBase - 1) < Q
    /\ Secret < Q

\* What honest provers count on: the widths of blinder, challenge and value
\* leave a balance's response below Q, and the others' below their bounds.
ResponsesFit ==
    /\ BalanceBlind + (Challenge - 1) * (LimbBase - 1) <= Q
    /\ DistanceBlind + (Challenge - 1)
           * ((LimbBase - 1) * (1 + (Weight - 1) + (Weight - 1) * (Weight - 1))) <= DistanceBound
    /\ SecretBlind + (Challenge - 1) * (Secret - 1) <= SecretBound

VARIABLES
    statement,  \* what the commitments hold, a residue of each order
    proof       \* the proof made of it

vars == <<statement, proof>>

NoProof == [kind |-> "none"]
Refused == [kind |-> "refused"]

Values == 0..(LimbBase - 1)
Challenges == 0..(Challenge - 1)

-----------------------------------------------------------------------------
(* Four limbs, the least significant first (src/batched_eq.rs).            *)

Limbs(n) ==
    <<n % LimbBase, (n \div LimbBase) % LimbBase, ((n \div LimbBase) \div LimbBase) % LimbBase,
      (((n \div LimbBase) \div LimbBase) \div LimbBase) % LimbBase>>
Integer(a) == a[1] + LimbBase * (a[2] + LimbBase * (a[3] + LimbBase * a[4]))

\* Mutant: the carry out of a limb is dropped.
TakeLimbDropped(acc, n) ==
    [limbs |-> Append(acc.limbs, (n + acc.carry) % LimbBase), carry |-> 0]

\* One limb of a sum or a product is kept, the rest is carried.
TakeLimb(acc, n) ==
    [limbs |-> Append(acc.limbs, (n + acc.carry) % LimbBase),
     carry |-> (n + acc.carry) \div LimbBase]

\* A carry out of the fourth limb is lost (release builds check nothing).
Carried(sums) == FoldLeft(TakeLimb, [limbs |-> <<>>, carry |-> 0], sums).limbs

LimbMul(a, b) == Carried([i \in 1..4 |-> a[i] * b])
LimbAdd(a, b) == Carried([i \in 1..4 |-> a[i] + b[i]])

\* The most significant limb that differs decides.
LimbLess(a, b) ==
    \E i \in 1..4 : a[i] < b[i] /\ \A j \in (i + 1)..4 : a[j] = b[j]

-----------------------------------------------------------------------------
(* The balance: one value, limbs, and a range proof on the Ristretto side. *)

RangeFor(m) == IF m < HalfRange THEN HalfRange ELSE LimbBase

ProveBalance(m, u, c) ==
    [kind  |-> "balance",
     r     |-> [q |-> u % Q, r |-> u % R],
     c     |-> c,
     z     |-> LimbAdd(Limbs(u), LimbMul(Limbs(c), m)),
     range |-> RangeFor(m)]

\* Mutant: any 32 bytes are taken for a response.
ResponseInField(z) == TRUE

ResponseBelowOrder(z) == LimbLess(z, Limbs(Q))

\* The announcement that a response to a challenge stands for.
Announced(st, c, z) == [q |-> (z - c * st.q) % Q, r |-> (z - c * st.r) % R]

VerifyBalance(st, pf) ==
    /\ ResponseBelowOrder(pf.z)
    /\ pf.range \in {HalfRange, LimbBase}
    /\ Announced(st, pf.c, Integer(pf.z)) = pf.r
    /\ st.q < pf.range

-----------------------------------------------------------------------------
(* The distances e, ea and eb of a gap, combined with the powers of a      *)
(* weight: the prover combines the integers, the verifier the residues.    *)

Combine(v, gamma) == v[1] + gamma * v[2] + gamma * gamma * v[3]

\* Mutant: the prover answers with a residue instead of an integer.
DistanceResponseReduced(v, gamma, k, c) == (k + c * Combine(v, gamma)) % R

DistanceResponse(v, gamma, k, c) == k + c * Combine(v, gamma)

ProveDistances(v, gamma, k, c) ==
    [kind |-> "distances", gamma |-> gamma,
     r |-> [q |-> k % Q, r |-> k % R],
     c |-> c,
     z |-> DistanceResponse(v, gamma, k, c)]

CombinedCommitment(st, gamma) ==
    [q |-> Combine(st.q, gamma % Q) % Q, r |-> Combine(st.r, gamma % R) % R]

VerifyDistances(st, pf) ==
    /\ pf.z < DistanceBound
    /\ Announced(CombinedCommitment(st, pf.gamma), pf.c, pf.z) = pf.r

-----------------------------------------------------------------------------
(* The ownership secret: a canonical integer below both orders.  The file  *)
(* tag is not blinded, so zero would make it the identity.                 *)

ValidStatement(st) == st.q # 0

\* CanonicalX::random turns zero into one.
CanonicalX == 1..(Secret - 1)

ProveSecret(x, u, c) ==
    [kind |-> "secret",
     r |-> [q |-> u % Q, r |-> u % R],
     c |-> c,
     z |-> u + c * x]

VerifySecret(st, pf) ==
    /\ ValidStatement(st)
    /\ pf.z < SecretBound
    /\ Announced(st, pf.c, pf.z) = pf.r

-----------------------------------------------------------------------------
\* A balance that passed its range proof, and anything on the other curve; the
\* distances and the secret of a holder who committed the same on both: of
\* unequal ones nothing is said, since their bounds exceed both orders.
Init ==
    /\ proof = NoProof
    /\ statement \in
         [kind : {"balance"}, q : Values, r : 0..(R - 1)]
           \cup {[kind |-> "distances", q |-> v, r |-> v] : v \in [1..3 -> Values]}
           \cup {[kind |-> "secret", q |-> x, r |-> x] : x \in CanonicalX}

MakeBalance ==
    /\ statement.kind = "balance"
    /\ \E u \in 0..(BalanceBlind - 1), c \in Challenges :
         proof' = ProveBalance(statement.q, u, c)

MakeDistances ==
    /\ statement.kind = "distances"
    /\ \E gamma \in 0..(Weight - 1), k \in 0..(DistanceBlind - 1), c \in Challenges :
         proof' = ProveDistances(statement.q, gamma, k, c)

\* The prover refuses a statement with an identity point, and to send a
\* response beyond the bound.
MakeSecret ==
    /\ statement.kind = "secret"
    /\ \E u \in 0..(SecretBlind - 1), c \in Challenges :
         LET pf == ProveSecret(statement.q, u, c) IN
         proof' = IF ValidStatement(statement) /\ pf.z < SecretBound THEN pf ELSE Refused

\* An honest holder commits one integer on both curves and proves it.
Prove ==
    /\ proof = NoProof
    /\ statement.q = statement.r
    /\ MakeBalance \/ MakeDistances \/ MakeSecret
    /\ UNCHANGED statement

Next == Prove

Spec == Init /\ [][Next]_vars

-----------------------------------------------------------------------------
(* Properties                                                              *)

Accepted(st, pf) ==
    CASE pf.kind = "balance"   -> VerifyBalance(st, pf)
      [] pf.kind = "distances" -> VerifyDistances(st, pf)
      [] pf.kind = "secret"    -> VerifySecret(st, pf)
      [] OTHER                 -> FALSE

\* Whatever the blinder and the challenge, the prover does not refuse, no limb
\* overflows, and the verifier accepts on both curves: a response may exceed
\* either order (a gap's, a secret's) or must not (a balance's).
HonestAccepted == proof # NoProof => Accepted(statement, proof)

\* A challenge, and a response to it within the verifier's bound.
Answers == {a \in Challenges \X (0..(Wide - 1)) : ResponseBelowOrder(Limbs(a[2]))}

\* Commitments to different integers: whatever the prover announces, at most two
\* challenges have a response (one below the wrap around Q and one above), so
\* the proof of equality convinces of the balance the range proof is about.
\* (It is enough to look at announcements with a response to challenge zero:
\* moving an announcement by c commitments moves its challenges down by c.)
TwoAnswers ==
    proof = NoProof /\ statement.kind = "balance" /\ statement.q # statement.r =>
        LET announced == [a \in Answers |-> Announced(statement, a[1], a[2])] IN
        \A first \in {a \in DOMAIN announced : a[1] = 0} :
            LET alike == {a \in DOMAIN announced : announced[a] = announced[first]} IN
            Cardinality({a[1] : a \in alike}) <= 2
=============================================================================
