------------------------ MODULE RedemptionInvariant ------------------------
(***************************************************************************)
(* Why RedemptionServer keeps its promises: the facts that together are    *)
(* preserved by every step.  The proof modules show it.                    *)
(***************************************************************************)
EXTENDS RedemptionServer

\* The deployment conditions the promises rest on: a nullifier set outlives
\* the time during which some process accepts what it records.  A daily token
\* is granted in its own epoch only, a spend in the token's and the next one.
RefreshWindowCovered ==
    \A e \in Epoch : EpochStart(e + 1) + RolloverLag < EpochStart(e) + NullifierTTL

SpendWindowCovered ==
    \A e \in Epoch : EpochStart(e + 2) + RolloverLag < EpochStart(e) + NullifierTTL

\* Every process is in an epoch the calendar allows.
EpochsTimely ==
    \A p \in Server :
        /\ EpochStart(epoch[p]) <= now
        /\ now <= EpochStart(epoch[p] + 1) + RolloverLag

\* A signed request exists; only signed requests are cached, answered, held.
AnswersSigned ==
    /\ \A k \in Key : issued[k] > 0 => requests[k].kind # "none"
    /\ \A k \in Key : idemKey[k] # NoString => issued[k] > 0
    /\ \A k \in replies : issued[k] > 0
    /\ \A k \in Key : wallet[k] = "held" => k \in replies
    /\ \A h \in Task : task[h].pc = "store" => issued[task[h].key] > 0

\* A refresh commits to c_max; a spend names a signed token, of the same
\* account, and commits to what it leaves of that token's balance.
RequestsHonest ==
    /\ \A k \in Key : requests[k].kind = "refresh" => requests[k].bal = CMax
    /\ \A k \in Key : requests[k].kind = "spend" =>
         LET r == requests[k] IN
         /\ r.tok \in Key
         /\ issued[r.tok] > 0
         /\ r.x = requests[r.tok].x
         /\ r.t = requests[r.tok].t
         /\ r.s > 0
         /\ r.bal + r.s = requests[r.tok].bal

\* What a handler knows at each label.
TasksConsistent ==
    \A h \in Task : task[h].pc # "idle" =>
        /\ Proof(h).kind # "none"
        /\ task[h].pc \in {"nonce", "insert"} => Proof(h).kind = "spend"
        /\ task[h].pc = "verify" => task[h].fresh
        /\ task[h].pc \in {"expire", "verify"} /\ Proof(h).kind = "spend" =>
             \/ Proof(h).t = epoch[Home(h)]
             \/ Proof(h).t + 1 = epoch[Home(h)]

\* What holds of any deployment, however long its nullifier sets live.
Coherent ==
    /\ TypeOK
    /\ EpochsTimely
    /\ AnswersSigned
    /\ RequestsHonest
    /\ TasksConsistent

(* Daily tokens *)

\* A handler that found the account's nullifier new and has yet to verify.
ClaimsDaily(h) ==
    /\ task[h].pc \in {"expire", "verify"}
    /\ task[h].fresh
    /\ Proof(h).kind = "refresh"
    /\ Proof(h).t = epoch[Home(h)]

EpochSetsLast ==
    \A e \in Epoch :
        \/ epochSet[e].exp = NoTTL
        \/ epochSet[e].exp > EpochStart(e + 1) + RolloverLag

DailyRecorded ==
    /\ \A h \in Task : ClaimsDaily(h) => AccountOf(Proof(h)) \in epochSet[Proof(h).t].members
    /\ \A k \in Key : SignedRefresh(k) =>
         AccountOf(requests[k]) \in epochSet[requests[k].t].members

\* Claims and signed requests of one account exclude each other.
DailyExclusive ==
    /\ \A h1, h2 \in Task :
         ClaimsDaily(h1) /\ ClaimsDaily(h2)
             /\ AccountOf(Proof(h1)) = AccountOf(Proof(h2)) => h1 = h2
    /\ \A h \in Task, k \in Key :
         ClaimsDaily(h) /\ SignedRefresh(k) => AccountOf(Proof(h)) # AccountOf(requests[k])

DailySafe ==
    /\ EpochSetsLast
    /\ DailyRecorded
    /\ DailyExclusive
    /\ OneDailyToken

(* Redemptions *)

ClaimsToken(h) ==
    /\ task[h].pc \in {"expire", "verify"}
    /\ task[h].fresh
    /\ Proof(h).kind = "spend"

SpendSetsLast ==
    \A e \in Epoch :
        \/ spendSet[e].exp = NoTTL
        \/ spendSet[e].exp > EpochStart(e + 2) + RolloverLag

TokensRecorded ==
    /\ \A h \in Task : ClaimsToken(h) => Proof(h).tok \in spendSet[Proof(h).t].members
    /\ \A k \in Key : SignedSpend(k) => requests[k].tok \in spendSet[requests[k].t].members

TokensExclusive ==
    /\ \A h1, h2 \in Task :
         ClaimsToken(h1) /\ ClaimsToken(h2) /\ Proof(h1).tok = Proof(h2).tok => h1 = h2
    /\ \A h \in Task, k \in Key :
         ClaimsToken(h) /\ SignedSpend(k) => Proof(h).tok # requests[k].tok

SpendSafe ==
    /\ SpendSetsLast
    /\ TokensRecorded
    /\ TokensExclusive
    /\ SingleRedemption

(* Balances *)

\* A signed token that no signed spend names.
Live(k) ==
    /\ issued[k] > 0
    /\ \A r \in Key : SignedSpend(r) => requests[r].tok # k

\* An account has signed tokens only after its daily token, then at most one
\* live one, whose balance is all that is left of the allowance.
BalancesExact ==
    /\ \A a \in Account : spent[a] <= CMax
    /\ \A a \in Account : spent[a] > 0 =>
         \E r \in Key : SignedRefresh(r) /\ AccountOf(requests[r]) = a
    /\ \A k \in Key : issued[k] > 0 =>
         \E r \in Key : SignedRefresh(r) /\ AccountOf(requests[r]) = AccountOf(requests[k])
    /\ \A k1, k2 \in Key :
         Live(k1) /\ Live(k2) /\ AccountOf(requests[k1]) = AccountOf(requests[k2]) => k1 = k2
    /\ \A k \in Key : Live(k) => requests[k].bal = CMax - spent[AccountOf(requests[k])]

(* Subscriptions *)

\* Every signed token carries the expiry of a master token of its owner.
MastersBehind == \A k \in Key : issued[k] > 0 => Master(requests[k]) \in masters

(* Nonces *)

\* Every spend has a nonce.
NoncesCarried == \A k \in Key : requests[k].kind = "spend" => requests[k].nonce \in Nonce

\* A handler that took its nonce out of Redis and may still sign.
HoldsNonce(h) ==
    /\ task[h].pc \in {"nullify", "expire", "verify"}
    /\ task[h].use.by = "redis"

\* A spend signed by a handler that took its nonce out of Redis.
SpentNonce(k) == SignedSpend(k) /\ uses[k].by = "redis"

\* Both keep the nonce from others for its lifetime.
NoncesHeld ==
    /\ \A h \in Task : HoldsNonce(h) =>
         /\ Proof(h).kind = "spend"
         /\ task[h].use.at + NonceTTL <= nonceKey[Proof(h).nonce]
    /\ \A k \in Key : SpentNonce(k) =>
         uses[k].at + NonceTTL <= nonceKey[requests[k].nonce]

Apart(u1, u2) == u1.at + NonceTTL <= u2.at \/ u2.at + NonceTTL <= u1.at

NoncesApart ==
    /\ \A g, h \in Task :
         HoldsNonce(g) /\ HoldsNonce(h) /\ g # h /\ Proof(g).nonce = Proof(h).nonce
         => Apart(task[g].use, task[h].use)
    /\ \A h \in Task, k \in Key :
         HoldsNonce(h) /\ SpentNonce(k) /\ Proof(h).nonce = requests[k].nonce
         => Apart(task[h].use, uses[k])
    /\ NonceSpacing

NoncesSafe ==
    /\ NoncesCarried
    /\ NoncesHeld
    /\ NoncesApart

\* Everything, under both deployment conditions.
IInv ==
    /\ Coherent
    /\ DailySafe
    /\ SpendSafe
    /\ BalancesExact
=============================================================================
