--------------------------- MODULE RevocationList ---------------------------
(***************************************************************************)
(* Signed-gap revocation (src/revocation.rs): a server publishes versions  *)
(* of a signed blacklist of expiries, clients keep copies of it and prove  *)
(* from a copy that their expiry is in a signed gap, and the server checks *)
(* such a proof against the list it holds by then.                         *)
(*                                                                         *)
(* A zero-knowledge proof is represented by what its equations bind: the   *)
(* value proven, the gap and its signature, and the refresh or spend proof *)
(* it accompanies, of which only the hidden expiry and the second matter.  *)
(* A signature is the gap and the context it was signed under.             *)
(***************************************************************************)
EXTENDS Integers, Sequences, FiniteSets, SequencesExt

CONSTANTS
    User,           \* subscribers
    Emax(_),        \* the expiry of a subscriber's tokens, its handle on the list
    DomainMax,      \* REVOCATION_DOMAIN_MAX_V1 (u32::MAX)
    MaxValue,       \* the largest handle (u64::MAX)
    Blacklists,     \* bound: the blacklists a server may sign
    MaxVersion,     \* bound on revocation_list_version
    MaxProofs,      \* bound on the proofs made
    MaxTime         \* bound on the clocks

ASSUME DomainAssumption ==
    /\ DomainMax \in Nat \ {0}
    /\ MaxValue \in Nat
    /\ DomainMax <= MaxValue
    /\ Blacklists \subseteq SUBSET (0..MaxValue)
    /\ {} \in Blacklists
    /\ \A u \in User : Emax(u) \in 0..MaxValue

VARIABLES
    now,        \* seconds
    list,       \* the server's SignedRevocationList
    copy,       \* the list each client fetched last
    proofs,     \* proofs made so far; delivered at any later time
    accepted    \* history: verified proofs, with the blacklist of that moment

vars == <<now, list, copy, proofs, accepted>>

-----------------------------------------------------------------------------
(* Signing and searching a list                                            *)

\* Mutant: the left end moves only past a gap that was signed.
SkipEmptyGaps(acc, right) ==
    IF right > acc.left + 1
    THEN [left |-> right, gaps |-> acc.gaps \cup {<<acc.left, right>>}]
    ELSE acc

\* One round of the loop over the sorted handles: an open gap with nothing in
\* it is not signed.
SignGap(acc, right) ==
    [left |-> right,
     gaps |-> IF right > acc.left + 1 THEN acc.gaps \cup {<<acc.left, right>>} ELSE acc.gaps]

\* The loop over the sorted handles: each one after all the smaller ones.
SignInOrder(handles) ==
    MapThenFoldSet(LAMBDA right, acc : SignGap(acc, right), [left |-> 0, gaps |-> {}],
                   LAMBDA handle : handle, LAMBDA rest : Max(rest), handles)

\* The gaps sign_blacklist signs, from 0 to the largest handle, and from that
\* to the end of the domain unless the handle is at or beyond it.
SignedGaps(blacklisted) ==
    LET end == SignInOrder(blacklisted) IN
    IF DomainMax > end.left + 1 THEN end.gaps \cup {<<end.left, DomainMax>>} ELSE end.gaps

SignBlacklist(version, at, blacklisted) ==
    [version |-> version, now |-> at, revoked |-> blacklisted, gaps |-> SignedGaps(blacklisted)]

Inside(gap, e) == gap[1] < e /\ e < gap[2]

\* find_gap: an explicitly revoked handle is refused before the search.
FindGap(l, e) == IF e \in l.revoked THEN {} ELSE {gap \in l.gaps : Inside(gap, e)}

\* Mutant: the end of the domain is not accepted as a right endpoint.
ValidateGapBelowMax(e, gap, at) ==
    e < DomainMax /\ gap[1] < DomainMax /\ gap[2] < DomainMax /\ Inside(gap, e) /\ at <= e

\* validate_gap_interval.
ValidateGap(e, gap, at) ==
    e <= DomainMax /\ gap[1] <= DomainMax /\ gap[2] <= DomainMax /\ Inside(gap, e) /\ at <= e

\* What witness_inputs lets a client prove with its copy.
ProvableGaps(l, e) == {gap \in FindGap(l, e) : ValidateGap(e, gap, l.now)}

\* Mutant: the list version is left out of the hash.
GapContextWithoutVersion(l) == 0

\* gap_context_scalar: the second of the list is not part of it.
GapContext(l) == l.version

-----------------------------------------------------------------------------
(* Proofs                                                                  *)

\* sign_interval_with_context: a random point and its multiple.
Signature(gap, ctx) == <<gap, ctx>>

\* The pair of identity points, which is nobody's signature.
IdentityPair == <<>>

\* GapProof: the pairing equation for the committed endpoints and the context.
\* It holds for their signature, and for the identity pair whatever they are.
GapProofHolds(p, ctx) == p.signature \in {Signature(p.gap, ctx), IdentityPair}

\* The range proof: both differences, less one, are 64-bit numbers.
RangesHold(p) == p.value - p.gap[1] - 1 \in 0..MaxValue /\ p.gap[2] - p.value - 1 \in 0..MaxValue

\* What the caller's commitment C_delta + at*h5 holds: the companion proof
\* committed to Emax less its own second, and the two seconds are not compared.
Rebuilt(p, at) == Emax(p.x) - p.at + at

\* What verify_non_membership_proof checks against the rebuilt commitment.
NonMembershipHolds(p, ctx, at) ==
    /\ p.value = Rebuilt(p, at)
    /\ GapProofHolds(p, ctx)
    /\ RangesHold(p)

-----------------------------------------------------------------------------
Init ==
    /\ now = 0
    /\ list = SignBlacklist(0, 0, {})
    /\ copy = [u \in User |-> list]
    /\ proofs = {}
    /\ accepted = {}

\* A new blacklist is signed under a new version.
Publish(blacklisted) ==
    /\ list.version < MaxVersion
    /\ blacklisted # list.revoked
    /\ list' = SignBlacklist(list.version + 1, now, blacklisted)
    /\ UNCHANGED <<now, copy, proofs, accepted>>

\* The same blacklist under the same version, at the present second: a
\* verifier rebuilds the commitment to Emax with the second of its list.
Resign ==
    /\ list.now # now
    /\ list' = SignBlacklist(list.version, now, list.revoked)
    /\ UNCHANGED <<now, copy, proofs, accepted>>

Fetch(u) ==
    /\ copy' = [copy EXCEPT ![u] = list]
    /\ UNCHANGED <<now, list, proofs, accepted>>

\* prove_emax_with_bases from the client's copy, as companion of a refresh or
\* spend proof it made for the second `at`, to be checked against a list of the
\* second s: the value is what that check rebuilds.  prove_refresh_client and
\* prove_spend_client are the case s = at, in which it is Emax.
Prove(u, at, s) ==
    LET value == Emax(u) - at + s IN
    /\ Cardinality(proofs) < MaxProofs
    /\ at <= Emax(u)
    /\ \E gap \in ProvableGaps(copy[u], value) :
         proofs' = proofs \cup
             {[x |-> u, at |-> at, value |-> value, gap |-> gap,
               signature |-> Signature(gap, GapContext(copy[u]))]}
    /\ UNCHANGED <<now, list, copy, accepted>>

\* verify_refresh_not_revoked_from_client_proof and its spend twin, under the
\* context and at the second of the list.  A failure changes nothing.
Verify(p) ==
    /\ NonMembershipHolds(p, GapContext(list), list.now)
    /\ accepted' = accepted \cup {[proof |-> p, at |-> list.now, revoked |-> list.revoked]}
    /\ UNCHANGED <<now, list, copy, proofs>>

Tick ==
    /\ now < MaxTime
    /\ now' = now + 1
    /\ UNCHANGED <<list, copy, proofs, accepted>>

Next ==
    \/ \E b \in Blacklists : Publish(b)
    \/ Resign
    \/ \E u \in User : Fetch(u)
    \/ \E u \in User, at, s \in 0..MaxTime : Prove(u, at, s)
    \/ \E p \in proofs : Verify(p)
    \/ Tick

Spec == Init /\ [][Next]_vars

-----------------------------------------------------------------------------
(* Properties                                                              *)

\* A proof that verifies shows that its value is not revoked by the list it is
\* verified against, whichever copy it was made from; and the value is the
\* expiry of its subscriber if the list is of the second the companion proof
\* binds, which the caller has to see to.  This is about proofs that the code's
\* prover makes from signed gaps, not about others the equations may admit.
AcceptedNotRevoked ==
    \A a \in accepted :
        /\ a.proof.value \notin a.revoked
        /\ a.proof.at = a.at => Emax(a.proof.x) \notin a.revoked

\* The gaps cover every handle of the domain that is not revoked exactly once,
\* and no revoked one: what the sorting loop computes, stated without a loop.
GapsExact ==
    \A e \in 1..(DomainMax - 1) :
        Cardinality({gap \in list.gaps : Inside(gap, e)})
            = IF e \in list.revoked THEN 0 ELSE 1

\* src/revocation.rs:237, "A client proves non-membership by finding the unique
\* signed gap containing its hidden Emax": with a copy of the server's list,
\* any subscriber of the domain who is not revoked and not expired can prove it.
NotRevokedCanProve ==
    \A u \in User :
        /\ copy[u].version = list.version
        /\ Emax(u) \in 1..(DomainMax - 1)
        /\ Emax(u) \notin list.revoked
        /\ now <= Emax(u)
        => ProvableGaps(copy[u], Emax(u)) # {}
=============================================================================
