-------------------------- MODULE RedemptionServer --------------------------
(***************************************************************************)
(* The mint, refresh and spend handlers of src/server.rs running           *)
(* concurrently over one shared Redis, with the clients that talk to them. *)
(*                                                                         *)
(* A task is one running handler.  It moves from one await to the next:    *)
(* between two awaits the code is sequential, so each action below is one  *)
(* Redis command (or the blocking verification) with the code around it.   *)
(* Any number of tasks, of any number of server processes, interleave.     *)
(*                                                                         *)
(* A proof commits to a fresh nullifier key k (k_daily or k_star), so a    *)
(* request, the token its answer carries and that token's nullifier are    *)
(* all named by k.  Requests are never consumed: a client or a proxy may   *)
(* deliver one any number of times, at any later time.                     *)
(***************************************************************************)
EXTENDS RedisKeys

CONSTANTS
    User,           \* hidden subscriber secrets x
    Key,            \* nullifier scalars k
    ZeroKey,        \* the scalar zero, which is no token's key
    Nonce,          \* 16-byte spend nonces
    NoNonce,        \* a refresh carries no nonce
    Server,         \* server processes
    Task,           \* handler invocations that may run at the same time
    Home(_),        \* the process a task runs in
    CMax,           \* c_max, the allowance of one epoch
    Expiry,         \* the values of e_max master tokens are minted with
    MaxEpoch,       \* bound: epochs are 0..MaxEpoch
    EpochStart(_),  \* when the calendar enters an epoch
    RolloverLag,    \* how late after that the process is restarted into it
    Grace,          \* epoch_grace_period_secs
    Day,            \* 86400
    IdempotencyTTL, \* idempotency_ttl_secs
    NonceTTL,       \* nonce_ttl_secs
    MaxTime,        \* bound on the clocks
    ProofEpoch(_),  \* bound: the epochs clients make proofs for at a given second,
    ProofTime(_)    \* and the seconds

Epoch == 0..MaxEpoch
Account == User \X Epoch

\* Mutant: the grace period is left out.
NullifierTTLWithoutGrace == Day

\* How long a nullifier set lives after the last command on it.
NullifierTTL == Grace + Day

ASSUME NamesDistinct ==
    /\ User # {}
    /\ ZeroKey \notin Key
    /\ NoNonce \notin Nonce

ASSUME NumbersNatural ==
    /\ CMax \in Nat \ {0}
    /\ MaxEpoch \in Nat
    /\ RolloverLag \in Nat
    /\ Grace \in Nat
    /\ Day \in Nat \ {0}
    /\ IdempotencyTTL \in Nat \ {0}
    /\ NonceTTL \in Nat \ {0}
    /\ MaxTime \in Nat

ASSUME HomesKnown == \A h \in Task : Home(h) \in Server

ASSUME ExpiriesKnown == Expiry \subseteq Nat

\* Epochs start one after the other, the first at time 0.
ASSUME CalendarMonotone ==
    /\ EpochStart(0) = 0
    /\ \A e \in 0..(MaxEpoch + 2) : EpochStart(e) \in Nat
    /\ \A e \in 0..(MaxEpoch + 1) : EpochStart(e) < EpochStart(e + 1)

VARIABLES
    now,        \* seconds, on the clocks of the servers and of Redis
    requests,   \* the proof a client made for each key, once it has one
    replies,    \* keys for which a success response has been sent
    wallet,     \* which tokens the clients hold, or have replaced by a refund
    masters,    \* the master tokens signed so far: whose, and their expiry
    epoch,      \* config.current_epoch of each process
    bloom,      \* the nonces in the Bloom filter of each process
    task,       \* where each handler is
    epochSet,   \* Redis act:epoch:{e}:nullifiers
    spendSet,   \* Redis act:spend:{e}:nullifiers
    nonceKey,   \* Redis act:nonce:{n}
    idemKey,    \* Redis act:idem:{proof}
    issued,     \* history: how often each request was signed
    spent,      \* history: what each subscriber has spent of each epoch
    uses        \* history: how the handler that signed a spend took its nonce

client == <<requests, wallet, masters>>
redis == <<epochSet, spendSet, nonceKey, idemKey>>
history == <<issued, spent, uses>>
vars == <<now, requests, replies, wallet, masters, epoch, bloom, task,
          epochSet, spendSet, nonceKey, idemKey, issued, spent, uses>>

-----------------------------------------------------------------------------
(* Requests and proof verification                                         *)

\* x, t, e and bal are what the new token commits to: owner, epoch, expiry and
\* balance.  tok, s and nonce belong to a spend: the nullifier it reveals, the
\* amount, the nonce it is bound to.  at is the second the proof binds.
Request ==
    [kind : {"none", "refresh", "spend"}, x : User, t : Epoch, e : Nat,
     tok : Key \cup {ZeroKey}, s : 0..CMax, bal : 0..CMax, at : Nat,
     nonce : Nonce \cup {NoNonce}]

NoRequest ==
    [kind |-> "none", x |-> CHOOSE u \in User : TRUE, t |-> 0, e |-> 0,
     tok |-> ZeroKey, s |-> 0, bal |-> 0, at |-> 0, nonce |-> NoNonce]

AccountOf(r) == <<r.x, r.t>>

Master(r) == [x |-> r.x, e |-> r.e]

\* Mutant: the epoch is not in the challenge.
RefreshProofHoldsAnyEpoch(r, e, at) ==
    /\ Master(r) \in masters
    /\ r.at = at
    /\ at <= r.e
    /\ r.bal = CMax

\* Mutant: the expiry is compared with the client's clock.
RefreshProofHoldsAtProofTime(r, e, at) ==
    /\ Master(r) \in masters
    /\ r.t = e
    /\ r.at <= r.e
    /\ r.bal = CMax

\* What verify_refresh establishes for a server in epoch e whose clock read
\* `at`: both are hashed into the challenge, so they must be the prover's own.
\* The prover holds a signed master token, and at + delta is its expiry.
RefreshProofHolds(r, e, at) ==
    /\ Master(r) \in masters
    /\ r.t = e
    /\ r.at = at
    /\ at <= r.e
    /\ r.bal = CMax

\* What verify_spend establishes: the spent token carries the server's
\* signature, has not expired, and the refund commits to its owner, epoch,
\* expiry and balance less s.
SpendProofHolds(r, e, at) ==
    /\ r.s > 0
    /\ r.t = e \/ r.t + 1 = e
    /\ r.at = at
    /\ at <= r.e
    /\ r.tok \in Key
    /\ issued[r.tok] > 0
    /\ AccountOf(requests[r.tok]) = AccountOf(r)
    /\ requests[r.tok].e = r.e
    /\ r.bal + r.s = requests[r.tok].bal

-----------------------------------------------------------------------------
(* Tasks                                                                   *)

Label == {"idle", "nonce", "insert", "nullify", "expire", "verify", "store"}

\* History: what let a nonce pass, and when it was act:nonce that did.
Use == [by : {"nothing", "redis", "bloom"}, at : Nat]

NoUse == [by |-> "nothing", at |-> 0]

ByRedis(s) == [by |-> "redis", at |-> s]

ByBloom == [by |-> "bloom", at |-> 0]

\* fresh: SADD said the nullifier was new.  at: the second now_unix() read.
Busy == [pc : Label \ {"idle"}, key : Key, fresh : BOOLEAN, at : Nat, use : Use]

Idle == [pc |-> "idle", key |-> ZeroKey, fresh |-> FALSE, at |-> 0, use |-> NoUse]

At(h, label, kind) ==
    /\ task[h].pc = label
    /\ requests[task[h].key].kind = kind

Goto(h, label) == task' = [task EXCEPT ![h].pc = label]

\* The nonce is accepted and the handler goes on to the nullifier.
TakeNonce(h, use) == task' = [task EXCEPT ![h].pc = "nullify", ![h].use = use]

\* Every error return, and every success return, ends the handler.
Return(h) == task' = [task EXCEPT ![h] = Idle]

Proof(h) == requests[task[h].key]

-----------------------------------------------------------------------------
Init ==
    /\ now = 0
    /\ requests = [k \in Key |-> NoRequest]
    /\ replies = {}
    /\ wallet = [k \in Key |-> "absent"]
    /\ masters = {}
    /\ epoch = [p \in Server |-> 0]
    /\ bloom = [p \in Server |-> {}]
    /\ task = [h \in Task |-> Idle]
    /\ epochSet = [e \in Epoch |-> NoSet]
    /\ spendSet = [e \in Epoch |-> NoSet]
    /\ nonceKey = [n \in Nonce |-> NoString]
    /\ idemKey = [k \in Key |-> NoString]
    /\ issued = [k \in Key |-> 0]
    /\ spent = [a \in Account |-> 0]
    /\ uses = [k \in Key |-> NoUse]

-----------------------------------------------------------------------------
(* Clients                                                                 *)

Send(k, r) ==
    /\ requests[k].kind = "none"
    /\ requests' = [requests EXCEPT ![k] = r]
    /\ UNCHANGED <<now, replies, wallet, masters, epoch, bloom, task, redis, history>>

\* RefreshProver::prove with a master token.  The epoch and the second the proof
\* binds are the caller's, and may be any.
SendRefresh(u, e, t, at, k) ==
    /\ [x |-> u, e |-> e] \in masters
    /\ at <= e
    /\ Send(k, [kind |-> "refresh", x |-> u, t |-> t, e |-> e, tok |-> ZeroKey,
                s |-> 0, bal |-> CMax, at |-> at, nonce |-> NoNonce])

\* Mutant: the balance is not compared with the amount.
SendSpendOverdrawn(tok, s, n, at, k) ==
    LET old == requests[tok] IN
    /\ wallet[tok] = "held"
    /\ s > 0
    /\ at <= old.e
    /\ Send(k, [kind |-> "spend", x |-> old.x, t |-> old.t, e |-> old.e, tok |-> tok,
                s |-> s, bal |-> old.bal - s, at |-> at, nonce |-> n])

\* SpendProver::prove on a token in the wallet, for any second the caller names.
\* The token stays there until its refund arrives, so a client without an answer
\* can prove again.
SendSpend(tok, s, n, at, k) ==
    LET old == requests[tok] IN
    /\ wallet[tok] = "held"
    /\ s > 0
    /\ s <= old.bal
    /\ at <= old.e
    /\ Send(k, [kind |-> "spend", x |-> old.x, t |-> old.t, e |-> old.e, tok |-> tok,
                s |-> s, bal |-> old.bal - s, at |-> at, nonce |-> n])

\* finalize: the new token enters the wallet, once, and replaces the spent one.
Receive(k) ==
    /\ k \in replies
    /\ wallet[k] = "absent"
    /\ wallet' = [w \in Key |-> IF w = k THEN "held"
                                ELSE IF w = requests[k].tok THEN "replaced"
                                ELSE wallet[w]]
    /\ UNCHANGED <<now, requests, replies, masters, epoch, bloom, task, redis, history>>

-----------------------------------------------------------------------------
(* The handlers                                                            *)

\* handle_master_mint.  It keeps no state and consults none, so a repeated or
\* retried request is signed again, for whatever expiry it asks.
Mint(u, e) ==
    /\ masters' = masters \cup {[x |-> u, e |-> e]}
    /\ UNCHANGED <<now, requests, replies, wallet, epoch, bloom, task, redis, history>>

\* Step 1, a hit: the cached response is returned whatever else has changed.
AnswerFromCache(h, k) ==
    /\ task[h] = Idle
    /\ requests[k].kind # "none"
    /\ Exists(idemKey[k], now)
    /\ replies' = replies \cup {k}
    /\ UNCHANGED <<now, client, epoch, bloom, task, redis, history>>

\* Step 1, a miss.  A refresh goes on to its nullifier, a spend to its nonce;
\* a spend of the zero key is refused (an error return that changes nothing).
Begin(h, k) ==
    LET first == IF requests[k].kind = "refresh" THEN "nullify" ELSE "nonce" IN
    /\ task[h] = Idle
    /\ requests[k].kind # "none"
    /\ requests[k].kind = "spend" => requests[k].tok # ZeroKey
    /\ ~Exists(idemKey[k], now)
    /\ task' = [task EXCEPT ![h] = [pc |-> first, key |-> k, fresh |-> FALSE, at |-> 0,
                                   use |-> NoUse]]
    /\ UNCHANGED <<now, client, replies, epoch, bloom, redis, history>>

\* Mutant: SETEX without EXISTS.
ConsumeNonceUnseen(h) ==
    LET n == Proof(h).nonce IN
    /\ At(h, "nonce", "spend")
    /\ TakeNonce(h, ByRedis(now))
    /\ nonceKey' = [nonceKey EXCEPT ![n] = SetEx(NonceTTL, now)]
    /\ UNCHANGED <<now, client, replies, epoch, bloom, epochSet, spendSet, idemKey, history>>

\* verify_and_consume: one Lua script, EXISTS and SETEX together.  Any nonce
\* sent without a Merkle proof comes here, a published one too.
ConsumeNonce(h) ==
    LET n == Proof(h).nonce IN
    /\ At(h, "nonce", "spend")
    /\ IF Exists(nonceKey[n], now)
       THEN Return(h) /\ UNCHANGED nonceKey
       ELSE /\ TakeNonce(h, ByRedis(now))
            /\ nonceKey' = [nonceKey EXCEPT ![n] = SetEx(NonceTTL, now)]
    /\ UNCHANGED <<now, client, replies, epoch, bloom, epochSet, spendSet, idemKey, history>>

\* verify_merkle_nonce up to the end of its lock.  The Merkle proof and the root
\* it is checked against both come with the call and are not bound by the spend
\* proof, so any nonce may come this way, one issued directly too.  A Bloom
\* filter that is not empty may also claim a nonce it never saw.
CheckBatchNonce(h) ==
    LET seen == bloom[Home(h)] IN
    /\ At(h, "nonce", "spend")
    /\ \/ Proof(h).nonce \notin seen /\ Goto(h, "insert")
       \/ seen # {} /\ Return(h)
    /\ UNCHANGED <<now, client, replies, epoch, bloom, redis, history>>

\* ... and its last statement, after the lock is dropped.
InsertBatchNonce(h) ==
    /\ At(h, "insert", "spend")
    /\ bloom' = [bloom EXCEPT ![Home(h)] = @ \cup {Proof(h).nonce}]
    /\ TakeNonce(h, ByBloom)
    /\ UNCHANGED <<now, client, replies, epoch, redis, history>>

\* check_epoch_nullifier, SADD.  The set is the server's epoch's; the member
\* n_t = x * H(t) is the same in every proof of that subscriber and epoch.
AddEpochNullifier(h) ==
    LET e   == epoch[Home(h)]
        n_t == AccountOf(Proof(h))
    IN
    /\ At(h, "nullify", "refresh")
    /\ task' = [task EXCEPT ![h].pc = "expire",
                            ![h].fresh = n_t \notin Members(epochSet[e], now)]
    /\ epochSet' = [epochSet EXCEPT ![e] = Sadd(@, n_t, now)]
    /\ UNCHANGED <<now, client, replies, epoch, bloom, spendSet, nonceKey, idemKey, history>>

\* Mutant: every nullifier goes into the set of the server's own epoch.
AddSpendNullifierToServerEpoch(h) ==
    LET e   == epoch[Home(h)]
        t   == Proof(h).t
        tok == Proof(h).tok
    IN
    /\ At(h, "nullify", "spend")
    /\ IF t = e \/ t + 1 = e
       THEN /\ task' = [task EXCEPT ![h].pc = "expire",
                                    ![h].fresh = tok \notin Members(spendSet[e], now)]
            /\ spendSet' = [spendSet EXCEPT ![e] = Sadd(@, tok, now)]
       ELSE Return(h) /\ UNCHANGED spendSet
    /\ UNCHANGED <<now, client, replies, epoch, bloom, epochSet, nonceKey, idemKey, history>>

\* check_spend_nullifier, SADD.  Tokens of the server's epoch and of the one
\* before are accepted, each in the set of its own epoch.
AddSpendNullifier(h) ==
    LET e   == epoch[Home(h)]
        t   == Proof(h).t
        tok == Proof(h).tok
    IN
    /\ At(h, "nullify", "spend")
    /\ IF t = e \/ t + 1 = e
       THEN /\ task' = [task EXCEPT ![h].pc = "expire",
                                    ![h].fresh = tok \notin Members(spendSet[t], now)]
            /\ spendSet' = [spendSet EXCEPT ![t] = Sadd(@, tok, now)]
       ELSE Return(h) /\ UNCHANGED spendSet
    /\ UNCHANGED <<now, client, replies, epoch, bloom, epochSet, nonceKey, idemKey, history>>

\* Mutant: the answer of SADD is ignored.
AfterExpireOfAny(h) == task' = [task EXCEPT ![h].pc = "verify", ![h].at = now]

\* Mutant: a handler whose nullifier is taken waits instead of failing.
AfterExpireOrWait(h) ==
    IF task[h].fresh
    THEN task' = [task EXCEPT ![h].pc = "verify", ![h].at = now]
    ELSE UNCHANGED task

\* After EXPIRE: a nullifier that was there already is an error, a new one
\* goes on to verification with the clock read here.
AfterExpire(h) ==
    IF task[h].fresh
    THEN task' = [task EXCEPT ![h].pc = "verify", ![h].at = now]
    ELSE Return(h)

\* check_epoch_nullifier, EXPIRE: on every call, whether or not SADD added.
ExpireEpochSet(h) ==
    LET e == epoch[Home(h)] IN
    /\ At(h, "expire", "refresh")
    /\ epochSet' = [epochSet EXCEPT ![e] = Expire(@, NullifierTTL, now)]
    /\ AfterExpire(h)
    /\ UNCHANGED <<now, client, replies, epoch, bloom, spendSet, nonceKey, idemKey, history>>

\* check_spend_nullifier, EXPIRE.
ExpireSpendSet(h) ==
    LET t == Proof(h).t IN
    /\ At(h, "expire", "spend")
    /\ spendSet' = [spendSet EXCEPT ![t] = Expire(@, NullifierTTL, now)]
    /\ AfterExpire(h)
    /\ UNCHANGED <<now, client, replies, epoch, bloom, epochSet, nonceKey, idemKey, history>>

\* verify_refresh succeeds: the daily token is signed.
SignDaily(h) ==
    /\ At(h, "verify", "refresh")
    /\ RefreshProofHolds(Proof(h), epoch[Home(h)], task[h].at)
    /\ issued' = [issued EXCEPT ![task[h].key] = @ + 1]
    /\ Goto(h, "store")
    /\ UNCHANGED <<now, client, replies, epoch, bloom, redis, spent, uses>>

\* verify_spend succeeds: the amount is granted and the refund token signed.
SignRefund(h) ==
    /\ At(h, "verify", "spend")
    /\ SpendProofHolds(Proof(h), epoch[Home(h)], task[h].at)
    /\ issued' = [issued EXCEPT ![task[h].key] = @ + 1]
    /\ spent' = [spent EXCEPT ![AccountOf(Proof(h))] = @ + Proof(h).s]
    /\ uses' = [uses EXCEPT ![task[h].key] = task[h].use]
    /\ Goto(h, "store")
    /\ UNCHANGED <<now, client, replies, epoch, bloom, redis>>

\* Verification fails.  The nullifier and the nonce stay consumed.
RejectProof(h) ==
    LET e  == epoch[Home(h)]
        at == task[h].at
    IN
    /\ task[h].pc = "verify"
    /\ IF Proof(h).kind = "refresh"
       THEN ~RefreshProofHolds(Proof(h), e, at)
       ELSE ~SpendProofHolds(Proof(h), e, at)
    /\ Return(h)
    /\ UNCHANGED <<now, client, replies, epoch, bloom, redis, history>>

\* The response is cached and sent; whether it arrives is up to Receive.
StoreAndReply(h) ==
    LET k == task[h].key IN
    /\ task[h].pc = "store"
    /\ idemKey' = [idemKey EXCEPT ![k] = SetEx(IdempotencyTTL, now)]
    /\ replies' = replies \cup {k}
    /\ Return(h)
    /\ UNCHANGED <<now, client, epoch, bloom, epochSet, spendSet, nonceKey, history>>

-----------------------------------------------------------------------------
(* Failures, restarts and time                                             *)

\* A Redis error, a panic of the blocking task or a dropped connection ends
\* the handler at an await.  A command that took effect but whose answer was
\* lost is that command's action followed by this one.
Abort(h) ==
    /\ task[h].pc # "idle"
    /\ Return(h)
    /\ UNCHANGED <<now, client, replies, epoch, bloom, redis, history>>

\* A process stops and starts again with a configuration for epoch e: the
\* configuration is cloned into the managers, so this is the only way to
\* change the epoch.  Its tasks and its Bloom filter are gone.
Restart(p, e) ==
    /\ epoch[p] <= e
    /\ EpochStart(e) <= now
    /\ now <= EpochStart(e + 1) + RolloverLag
    /\ epoch' = [epoch EXCEPT ![p] = e]
    /\ bloom' = [bloom EXCEPT ![p] = {}]
    /\ task' = [h \in Task |-> IF Home(h) = p THEN Idle ELSE task[h]]
    /\ UNCHANGED <<now, client, replies, redis, history>>

\* Time passes; no process is left in an epoch longer than RolloverLag after
\* the next one started.
Tick ==
    /\ now < MaxTime
    /\ \A p \in Server : now < EpochStart(epoch[p] + 1) + RolloverLag
    /\ now' = now + 1
    /\ UNCHANGED <<client, replies, epoch, bloom, task, redis, history>>

-----------------------------------------------------------------------------
\* What the clients' own calendars and clocks may say.
EpochsSeen == ProofEpoch(now) \cap Epoch
SecondsSeen == ProofTime(now) \cap 0..MaxTime

Handle(h) ==
    \/ ConsumeNonce(h)
    \/ CheckBatchNonce(h)
    \/ InsertBatchNonce(h)
    \/ AddEpochNullifier(h)
    \/ AddSpendNullifier(h)
    \/ ExpireEpochSet(h)
    \/ ExpireSpendSet(h)
    \/ SignDaily(h)
    \/ SignRefund(h)
    \/ RejectProof(h)
    \/ StoreAndReply(h)

Next ==
    \/ \E u \in User, e \in Expiry : Mint(u, e)
    \/ \E u \in User, e \in Expiry, t \in EpochsSeen, at \in SecondsSeen, k \in Key :
         SendRefresh(u, e, t, at, k)
    \/ \E tok \in Key, s \in 1..CMax, n \in Nonce, at \in SecondsSeen, k \in Key :
         SendSpend(tok, s, n, at, k)
    \/ \E k \in Key : Receive(k)
    \/ \E h \in Task, k \in Key : AnswerFromCache(h, k) \/ Begin(h, k)
    \/ \E h \in Task : Handle(h) \/ Abort(h)
    \/ \E p \in Server, e \in Epoch : Restart(p, e)
    \/ Tick

Spec == Init /\ [][Next]_vars

\* A started task keeps being scheduled; clients, failures, restarts and the
\* clock owe nothing.
FairSpec == Spec /\ \A h \in Task : WF_vars(Handle(h))

-----------------------------------------------------------------------------
(* Properties                                                              *)

TypeOK ==
    /\ now \in Nat
    /\ requests \in [Key -> Request]
    /\ replies \subseteq Key
    /\ wallet \in [Key -> {"absent", "held", "replaced"}]
    /\ masters \subseteq [x : User, e : Expiry]
    /\ epoch \in [Server -> Epoch]
    /\ bloom \in [Server -> SUBSET (Nonce \cup {NoNonce})]
    /\ task \in [Task -> Busy \cup {Idle}]
    /\ epochSet \in [Epoch -> [members : SUBSET Account, exp : Int]]
    /\ spendSet \in [Epoch -> [members : SUBSET (Key \cup {ZeroKey}), exp : Int]]
    /\ nonceKey \in [Nonce -> Nat]
    /\ idemKey \in [Key -> Nat]
    /\ issued \in [Key -> Nat]
    /\ spent \in [Account -> Nat]
    /\ uses \in [Key -> Use]

SignedSpend(k) == requests[k].kind = "spend" /\ issued[k] > 0
SignedRefresh(k) == requests[k].kind = "refresh" /\ issued[k] > 0

\* A token is redeemed at most once, over every task, process, restart and
\* expiry: no request is signed twice and no two signed spends name one token.
SingleRedemption ==
    /\ \A k \in Key : issued[k] <= 1
    /\ \A k1, k2 \in Key :
         SignedSpend(k1) /\ SignedSpend(k2) /\ requests[k1].tok = requests[k2].tok => k1 = k2

\* A subscriber gets at most one daily token for an epoch.
OneDailyToken ==
    \A k1, k2 \in Key :
        SignedRefresh(k1) /\ SignedRefresh(k2)
            /\ AccountOf(requests[k1]) = AccountOf(requests[k2]) => k1 = k2

\* A subscriber never gets more than c_max out of an epoch.
RateLimit == \A a \in Account : spent[a] <= CMax

\* A nonce sent without a Merkle proof is spent at most once per lifetime: the
\* handlers of two signed spends that took one nonce out of Redis took it at
\* least NonceTTL apart, whatever seconds the proofs bind and whether or not
\* other requests were refused, aborted or went through the Bloom filter between.
NonceSpacing ==
    \A k1, k2 \in Key :
        /\ SignedSpend(k1) /\ SignedSpend(k2) /\ k1 # k2
        /\ requests[k1].nonce = requests[k2].nonce
        /\ uses[k1].by = "redis" /\ uses[k2].by = "redis"
        => \/ uses[k1].at + NonceTTL <= uses[k2].at
           \/ uses[k2].at + NonceTTL <= uses[k1].at

\* Whatever a client's clock says and however late a request is delivered, a
\* token is signed only at a server time at which some master token of its
\* owner has not expired; a refund inherits that of the token it replaces.
WithinSubscription ==
    [][\A k \in Key : issued'[k] > issued[k] =>
         \E h \in Task, m \in masters :
           /\ task[h].pc = "verify" /\ task[h].key = k
           /\ m.x = requests[k].x
           /\ task[h].at <= m.e]_vars

\* While some process would still accept a token's epoch, the nullifier of
\* every redeemed token is in the live set that process consults.
NullifierRemembered ==
    \A k \in Key, p \in Server :
        SignedSpend(k) /\ requests[k].t \in {epoch[p], epoch[p] - 1}
            => requests[k].tok \in Members(spendSet[requests[k].t], now)

\* A handler that has started does not stay in the middle for ever: it ends
\* with an answer or an error.
HandlersFinish == \A h \in Task : task[h].pc # "idle" ~> task[h].pc = "idle"

(* The allowances the tokens stand for. *)
Allowance ==
    [a \in Account |->
        IF \E k \in Key : SignedRefresh(k) /\ AccountOf(requests[k]) = a
        THEN CMax - spent[a]
        ELSE -1]

Ledger == INSTANCE ActLedger WITH allowance <- Allowance

\* Concurrent handlers, retries, restarts and expiring keys together do no
\* more than the ledger: grant an allowance once, and lower it.
ImplementsLedger == Ledger!Spec

-----------------------------------------------------------------------------
(* What the source's comments claim and the code does not do.  Each is      *)
(* refuted by a run of its own.                                            *)

\* src/server.rs:5, "Idempotency caching to handle retried requests safely":
\* a held token is not refused for ever (its nullifier recorded) unless a
\* redemption of it was signed or is still under way.
RetrySafe ==
    \A k \in Key :
        wallet[k] = "held" /\ k \in Members(spendSet[requests[k].t], now)
        => \/ \E r \in Key : SignedSpend(r) /\ requests[r].tok = k
           \/ \E h \in Task : task[h].pc # "idle" /\ Proof(h).tok = k

\* src/server.rs:54, "Grace period in seconds after epoch rollover during
\* which the previous epoch's spend nullifiers are still accepted".
GraceRespected ==
    \A k \in Key : SignedSpend(k) =>
        requests[k].at <= EpochStart(requests[k].t + 1) + RolloverLag + Grace

\* src/server.rs:485, "any duplicate that slips through will be caught by the
\* downstream Redis spend-nullifier SADD": of the handlers of one process that
\* took a nonce through its Bloom filter, two with the same nonce are not both
\* granted their spends.
BatchNonceOnce ==
    \A g, h \in Task :
        /\ g # h /\ Home(g) = Home(h)
        /\ At(g, "store", "spend") /\ At(h, "store", "spend")
        /\ task[g].use.by = "bloom" /\ task[h].use.by = "bloom"
        => Proof(g).nonce # Proof(h).nonce
=============================================================================
