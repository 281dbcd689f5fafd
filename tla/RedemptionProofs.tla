-------------------------- MODULE RedemptionProofs --------------------------
(***************************************************************************)
(* The promises of RedemptionServer, proved for any number of subscribers, *)
(* tokens, processes, tasks and epochs: types and single redemption; from  *)
(* those and the honesty of the committed balances the rate limit and the  *)
(* refinement of the allowance ledger; then the spacing of spends under    *)
(* one nonce and the end of subscriptions.  Each group of facts has one    *)
(* lemma with a step per action that can disturb it.                       *)
(***************************************************************************)
EXTENDS RedemptionInvariant, TLAPS

-----------------------------------------------------------------------------
(* Type correctness                                                        *)

\* The blank request every key starts with is a request.
LEMMA BlankRequest == NoRequest \in Request /\ NoRequest.kind = "none"
  BY NamesDistinct, NumbersNatural DEF NoRequest, Request, Epoch

\* The epochs and seconds that proofs are made for.
LEMMA ClientsSee == EpochsSeen \subseteq Epoch /\ SecondsSeen \subseteq Nat
  BY NumbersNatural DEF EpochsSeen, SecondsSeen

\* A task that has started holds a key and a label other than "idle".
LEMMA StartedTask ==
  ASSUME TypeOK, NEW h \in Task, task[h].pc # "idle"
  PROVE  /\ task[h] \in Busy
         /\ task[h].key \in Key
         /\ Proof(h) \in Request
  BY DEF TypeOK, Idle, Busy, Proof

\* Moving to another label and returning keep a task a task.
LEMMA TaskMoves ==
  ASSUME TypeOK, NEW h \in Task, task[h] \in Busy
  PROVE  /\ \A label \in Label \ {"idle"} :
              Goto(h, label) => task' \in [Task -> Busy \cup {Idle}]
         /\ \A use \in Use : TakeNonce(h, use) => task' \in [Task -> Busy \cup {Idle}]
         /\ Return(h) => task' \in [Task -> Busy \cup {Idle}]
         /\ AfterExpire(h) => task' \in [Task -> Busy \cup {Idle}]
         /\ \A b \in BOOLEAN :
              task' = [task EXCEPT ![h].pc = "expire", ![h].fresh = b]
                => task' \in [Task -> Busy \cup {Idle}]
  <1> USE DEF TypeOK
  <1>1. ASSUME NEW label \in Label \ {"idle"}, Goto(h, label)
        PROVE  task' \in [Task -> Busy \cup {Idle}]
    <2>1. [task[h] EXCEPT !.pc = label] \in Busy
      BY DEF Busy
    <2>2. QED
      BY <1>1, <2>1 DEF Goto
  <1>2. ASSUME Return(h) PROVE task' \in [Task -> Busy \cup {Idle}]
    BY <1>2 DEF Return
  <1>3. ASSUME AfterExpire(h) PROVE task' \in [Task -> Busy \cup {Idle}]
    <2>1. [[task[h] EXCEPT !.pc = "verify"] EXCEPT !.at = now] \in Busy
      BY DEF Busy, Label
    <2>2. QED
      BY <1>2, <1>3, <2>1 DEF AfterExpire
  <1>4. ASSUME NEW b \in BOOLEAN, task' = [task EXCEPT ![h].pc = "expire", ![h].fresh = b]
        PROVE  task' \in [Task -> Busy \cup {Idle}]
    <2>1. [[task[h] EXCEPT !.pc = "expire"] EXCEPT !.fresh = b] \in Busy
      BY DEF Busy, Label
    <2>2. QED
      BY <1>4, <2>1
  <1>5. ASSUME NEW use \in Use, TakeNonce(h, use) PROVE task' \in [Task -> Busy \cup {Idle}]
    <2>1. [[task[h] EXCEPT !.pc = "nullify"] EXCEPT !.use = use] \in Busy
      BY DEF Busy, Label
    <2>2. QED
      BY <1>5, <2>1 DEF TakeNonce
  <1>6. QED
    BY <1>1, <1>2, <1>3, <1>4, <1>5

\* SADD and EXPIRE keep a set key a set key.
LEMMA SetKeys ==
  ASSUME NEW S, NEW key \in [members : SUBSET S, exp : Int], NEW time \in Nat
  PROVE  /\ \A m \in S : Sadd(key, m, time) \in [members : SUBSET S, exp : Int]
         /\ Expire(key, NullifierTTL, time) \in [members : SUBSET S, exp : Int]
  BY NumbersNatural DEF Sadd, Expire, Members, NullifierTTL, NoTTL

\* The same for the sets of spent tokens.
LEMMA SpendSetKeys ==
  ASSUME TypeOK, NEW t \in Epoch
  PROVE  /\ \A m \in Key \cup {ZeroKey} :
              Sadd(spendSet[t], m, now) \in [members : SUBSET (Key \cup {ZeroKey}), exp : Int]
         /\ Expire(spendSet[t], NullifierTTL, now)
              \in [members : SUBSET (Key \cup {ZeroKey}), exp : Int]
  <1>1. spendSet[t] \in [members : SUBSET (Key \cup {ZeroKey}), exp : Int] /\ now \in Nat
    BY DEF TypeOK
  <1>2. QED
    BY <1>1, NumbersNatural DEF Sadd, Expire, Members, NullifierTTL, NoTTL

\* Every step keeps every variable in its set (the types of src/server.rs's
\* structures and of the Redis keys it writes).
LEMMA TypeStep == TypeOK /\ [Next]_vars => TypeOK'
  <1> SUFFICES ASSUME TypeOK, [Next]_vars PROVE TypeOK'
    OBVIOUS
  <1> USE NamesDistinct, NumbersNatural, HomesKnown, ExpiriesKnown
  <1>1. ASSUME NEW u \in User, NEW e \in Expiry, NEW t \in EpochsSeen,
               NEW at \in SecondsSeen, NEW k \in Key, SendRefresh(u, e, t, at, k)
        PROVE  TypeOK'
    <2>1. [kind |-> "refresh", x |-> u, t |-> t, e |-> e, tok |-> ZeroKey,
           s |-> 0, bal |-> CMax, at |-> at, nonce |-> NoNonce] \in Request
      BY ClientsSee DEF Request, TypeOK
    <2>2. QED
      BY <1>1, <2>1 DEF TypeOK, SendRefresh, Send, redis, history
  <1>2. ASSUME NEW tok \in Key, NEW s \in 1..CMax, NEW n \in Nonce,
               NEW at \in SecondsSeen, NEW k \in Key, SendSpend(tok, s, n, at, k)
        PROVE  TypeOK'
    <2> DEFINE old == requests[tok]
    <2>1. old \in Request /\ s <= old.bal
      BY <1>2 DEF TypeOK, SendSpend
    <2>2. [kind |-> "spend", x |-> old.x, t |-> old.t, e |-> old.e, tok |-> tok,
           s |-> s, bal |-> old.bal - s, at |-> at, nonce |-> n] \in Request
      BY <2>1, ClientsSee DEF Request, TypeOK
    <2>3. QED
      BY <1>2, <2>2 DEF TypeOK, SendSpend, Send, redis, history
  <1>3. ASSUME NEW k \in Key, Receive(k) PROVE TypeOK'
    BY <1>3 DEF TypeOK, Receive, redis, history
  <1>4. ASSUME NEW h \in Task, NEW k \in Key, AnswerFromCache(h, k) PROVE TypeOK'
    BY <1>4 DEF TypeOK, AnswerFromCache, client, redis, history
  <1>5. ASSUME NEW h \in Task, NEW k \in Key, Begin(h, k) PROVE TypeOK'
    BY <1>5 DEF TypeOK, Begin, client, redis, history, Busy, Label, Use, NoUse
  <1>6. ASSUME NEW h \in Task, Handle(h) \/ Abort(h) PROVE TypeOK'
    <2>1. task[h].pc # "idle"
      BY <1>6 DEF Handle, ConsumeNonce, CheckBatchNonce, InsertBatchNonce, AddEpochNullifier,
                  AddSpendNullifier, ExpireEpochSet, ExpireSpendSet, SignDaily, SignRefund,
                  RejectProof, StoreAndReply, Abort, At
    <2> DEFINE k == task[h].key
               r == Proof(h)
    <2>2. task[h] \in Busy /\ k \in Key /\ r \in Request /\ r = requests[k]
      BY <2>1, StartedTask DEF Proof
    <2> HIDE DEF k, r
    <2>u. ByRedis(now) \in Use /\ ByBloom \in Use
      BY DEF ByRedis, ByBloom, Use, TypeOK
    <2>3. task' \in [Task -> Busy \cup {Idle}]
      BY <1>6, <2>2, <2>u, TaskMoves
      DEF Handle, ConsumeNonce, CheckBatchNonce, InsertBatchNonce, AddEpochNullifier,
          AddSpendNullifier, ExpireEpochSet, ExpireSpendSet, SignDaily, SignRefund,
          RejectProof, StoreAndReply, Abort, Label
    <2>4. CASE ConsumeNonce(h)
      <3>1. nonceKey' \in [Nonce -> Nat]
        <4>1. SetEx(NonceTTL, now) \in Nat
          BY DEF TypeOK, SetEx
        <4>2. \/ UNCHANGED nonceKey
              \/ nonceKey' = [nonceKey EXCEPT ![r.nonce] = SetEx(NonceTTL, now)]
          BY <2>4 DEF ConsumeNonce, r
        <4>3. QED
          BY <4>1, <4>2 DEF TypeOK
      <3>2. QED
        BY <2>3, <2>4, <3>1 DEF TypeOK, ConsumeNonce, client, history
    <2>5. CASE CheckBatchNonce(h)
      BY <2>3, <2>5 DEF TypeOK, CheckBatchNonce, client, redis, history
    <2>6. CASE InsertBatchNonce(h)
      BY <2>2, <2>3, <2>6 DEF TypeOK, InsertBatchNonce, client, redis, history, Request, r
    <2> DEFINE e == epoch[Home(h)]
    <2>e. e \in Epoch /\ r.t \in Epoch /\ now \in Nat
      BY <2>2 DEF TypeOK, Request
    <2>7. CASE AddEpochNullifier(h)
      <3>1. AccountOf(r) \in Account
        BY <2>2 DEF AccountOf, Account, Request
      <3>2. Sadd(epochSet[e], AccountOf(r), now) \in [members : SUBSET Account, exp : Int]
        BY <2>e, <3>1, SetKeys DEF TypeOK
      <3>3. QED
        BY <2>3, <2>7, <2>e, <3>2 DEF TypeOK, AddEpochNullifier, client, history, r
    <2>8. CASE AddSpendNullifier(h)
      <3>1. r.tok \in Key \cup {ZeroKey}
        BY <2>2 DEF Request
      <3>2. Sadd(spendSet[r.t], r.tok, now) \in [members : SUBSET (Key \cup {ZeroKey}), exp : Int]
        BY <2>e, <3>1, SpendSetKeys
      <3>3. spendSet' \in [Epoch -> [members : SUBSET (Key \cup {ZeroKey}), exp : Int]]
        <4>1. UNCHANGED spendSet \/ spendSet' = [spendSet EXCEPT ![r.t] = Sadd(@, r.tok, now)]
          BY <2>8 DEF AddSpendNullifier, r
        <4>2. QED
          BY <2>e, <3>2, <4>1 DEF TypeOK
      <3>4. QED
        BY <2>3, <2>8, <3>3 DEF TypeOK, AddSpendNullifier, client, history
    <2>9. CASE ExpireEpochSet(h)
      <3>1. Expire(epochSet[e], NullifierTTL, now) \in [members : SUBSET Account, exp : Int]
        BY <2>e, SetKeys DEF TypeOK
      <3>2. QED
        BY <2>3, <2>9, <2>e, <3>1 DEF TypeOK, ExpireEpochSet, client, history
    <2>10. CASE ExpireSpendSet(h)
      <3>1. Expire(spendSet[r.t], NullifierTTL, now)
               \in [members : SUBSET (Key \cup {ZeroKey}), exp : Int]
        BY <2>e, SpendSetKeys
      <3>2. spendSet' \in [Epoch -> [members : SUBSET (Key \cup {ZeroKey}), exp : Int]]
        BY <2>10, <3>1 DEF TypeOK, ExpireSpendSet, r
      <3>3. QED
        BY <2>3, <2>10, <3>2 DEF TypeOK, ExpireSpendSet, client, history
    <2>11. CASE SignDaily(h)
      BY <2>2, <2>3, <2>11 DEF TypeOK, SignDaily, client, redis, k
    <2>12. CASE SignRefund(h)
      <3>1. AccountOf(r) \in Account /\ r.s \in Nat /\ task[h].use \in Use
        BY <2>2 DEF AccountOf, Account, Request, Busy
      <3>2. QED
        BY <2>2, <2>3, <2>12, <3>1 DEF TypeOK, SignRefund, client, redis, k, r
    <2>13. CASE RejectProof(h) \/ Abort(h)
      BY <2>3, <2>13 DEF TypeOK, RejectProof, Abort, client, redis, history
    <2>14. CASE StoreAndReply(h)
      BY <2>2, <2>3, <2>14 DEF TypeOK, StoreAndReply, client, history, SetEx, k
    <2>15. QED
      BY <1>6, <2>4, <2>5, <2>6, <2>7, <2>8, <2>9, <2>10, <2>11, <2>12, <2>13, <2>14
      DEF Handle
  <1>7. ASSUME NEW p \in Server, NEW e \in Epoch, Restart(p, e) PROVE TypeOK'
    BY <1>7 DEF TypeOK, Restart, client, redis, history
  <1>8. CASE Tick
    BY <1>8 DEF TypeOK, Tick, client, redis, history
  <1>9. ASSUME NEW u \in User, NEW e \in Expiry, Mint(u, e) PROVE TypeOK'
    BY <1>9 DEF TypeOK, Mint, redis, history
  <1>10. CASE UNCHANGED vars
    BY <1>10 DEF TypeOK, vars
  <1>11. QED
    BY <1>1, <1>2, <1>3, <1>4, <1>5, <1>6, <1>7, <1>8, <1>9, <1>10 DEF Next

\* Type correctness, for any number of tasks, processes, keys and epochs.
THEOREM TypeCorrect == Spec => []TypeOK
  <1>1. Init => TypeOK
    BY BlankRequest, NumbersNatural
    DEF Init, TypeOK, Epoch, NoSet, NoTTL, NoString, Account, Use, NoUse
  <1>2. QED
    BY <1>1, TypeStep, PTL DEF Spec

-----------------------------------------------------------------------------
(* Frames: what each action leaves alone                                   *)

\* A client never proves a second time under the same key.
LEMMA SendFrame ==
  ASSUME TypeOK, NEW k \in Key, NEW r \in Request, Send(k, r)
  PROVE  /\ requests[k].kind = "none"
         /\ requests'[k] = r
         /\ \A j \in Key : j # k => requests'[j] = requests[j]
         /\ \A j \in Key : requests[j].kind # "none" => requests'[j] = requests[j]
  BY DEF Send, TypeOK

\* What the clients send is a request.
LEMMA SendsAreRequests ==
  ASSUME TypeOK, NEW k \in Key
  PROVE  /\ \A u \in User, e \in Expiry, t \in EpochsSeen, at \in SecondsSeen :
              SendRefresh(u, e, t, at, k) => \E r \in Request : r.kind = "refresh" /\ Send(k, r)
         /\ \A tok \in Key, s \in 1..CMax, n \in Nonce, at \in SecondsSeen :
              SendSpend(tok, s, n, at, k) => \E r \in Request : r.kind = "spend" /\ Send(k, r)
  <1>1. ASSUME NEW u \in User, NEW e \in Expiry, NEW t \in EpochsSeen, NEW at \in SecondsSeen,
               SendRefresh(u, e, t, at, k)
        PROVE  \E r \in Request : r.kind = "refresh" /\ Send(k, r)
    <2> DEFINE r == [kind |-> "refresh", x |-> u, t |-> t, e |-> e, tok |-> ZeroKey,
                     s |-> 0, bal |-> CMax, at |-> at, nonce |-> NoNonce]
    <2>1. r \in Request /\ r.kind = "refresh"
      BY NumbersNatural, ExpiriesKnown, ClientsSee DEF Request, TypeOK
    <2>2. Send(k, r)
      BY <1>1 DEF SendRefresh
    <2>3. QED
      BY <2>1, <2>2
  <1>2. ASSUME NEW tok \in Key, NEW s \in 1..CMax, NEW n \in Nonce, NEW at \in SecondsSeen,
               SendSpend(tok, s, n, at, k)
        PROVE  \E r \in Request : r.kind = "spend" /\ Send(k, r)
    <2> DEFINE old == requests[tok]
               r == [kind |-> "spend", x |-> old.x, t |-> old.t, e |-> old.e, tok |-> tok,
                     s |-> s, bal |-> old.bal - s, at |-> at, nonce |-> n]
    <2>1. old \in Request /\ s <= old.bal
      BY <1>2 DEF TypeOK, SendSpend
    <2>2. r \in Request /\ r.kind = "spend"
      BY <2>1, NumbersNatural, ClientsSee DEF Request, TypeOK
    <2>3. Send(k, r)
      BY <1>2 DEF SendSpend
    <2>4. QED
      BY <2>2, <2>3
  <1>3. QED
    BY <1>1, <1>2

\* A step of the handler h touches no other task, and never the request it
\* handles.
LEMMA HandleFrame ==
  ASSUME TypeOK, NEW h \in Task, Handle(h) \/ Abort(h)
  PROVE  /\ task[h] \in Busy
         /\ task[h].key \in Key
         /\ Proof(h) \in Request
         /\ UNCHANGED <<now, requests, wallet, epoch>>
         /\ \A g \in Task : g # h => task'[g] = task[g]
         /\ task'[h] = Idle \/ task'[h].key = task[h].key
  <1>1. task[h].pc # "idle"
    BY DEF Handle, ConsumeNonce, CheckBatchNonce, InsertBatchNonce, AddEpochNullifier,
           AddSpendNullifier, ExpireEpochSet, ExpireSpendSet, SignDaily, SignRefund,
           RejectProof, StoreAndReply, Abort, At
  <1>2. task[h] \in Busy /\ task[h].key \in Key /\ Proof(h) \in Request
    BY <1>1, StartedTask
  <1>3. UNCHANGED <<now, requests, wallet, epoch>>
    BY DEF Handle, ConsumeNonce, CheckBatchNonce, InsertBatchNonce, AddEpochNullifier,
           AddSpendNullifier, ExpireEpochSet, ExpireSpendSet, SignDaily, SignRefund,
           RejectProof, StoreAndReply, Abort, client
  <1>4. /\ \A g \in Task : g # h => task'[g] = task[g]
        /\ task'[h] = Idle \/ task'[h].key = task[h].key
    BY <1>2 DEF Handle, ConsumeNonce, CheckBatchNonce, InsertBatchNonce, AddEpochNullifier,
           AddSpendNullifier, ExpireEpochSet, ExpireSpendSet, SignDaily, SignRefund,
           RejectProof, StoreAndReply, Abort, Goto, TakeNonce, Return, AfterExpire, TypeOK, Busy
  <1>5. QED
    BY <1>2, <1>3, <1>4

-----------------------------------------------------------------------------
(* What holds of any deployment                                            *)

\* The epochs of the calendar are natural numbers in order.
LEMMA Calendar ==
  ASSUME NEW e \in Epoch
  PROVE  /\ EpochStart(e) \in Nat /\ EpochStart(e + 1) \in Nat /\ EpochStart(e + 2) \in Nat
         /\ EpochStart(e) < EpochStart(e + 1)
         /\ EpochStart(e + 1) < EpochStart(e + 2)
  <1>1. /\ e \in 0..(MaxEpoch + 1) /\ e + 1 \in 0..(MaxEpoch + 1)
        /\ e \in 0..(MaxEpoch + 2) /\ e + 1 \in 0..(MaxEpoch + 2) /\ e + 2 \in 0..(MaxEpoch + 2)
        /\ (e + 1) + 1 = e + 2
    BY NumbersNatural DEF Epoch
  <1>2. QED
    BY <1>1, CalendarMonotone

\* A process is always in an epoch the calendar allows.
LEMMA EpochsTimelyStep == Coherent /\ [Next]_vars => EpochsTimely'
  <1> SUFFICES ASSUME Coherent, [Next]_vars PROVE EpochsTimely'
    OBVIOUS
  <1>1. ASSUME UNCHANGED <<now, epoch>> PROVE EpochsTimely'
    BY <1>1 DEF Coherent, EpochsTimely
  <1>2. ASSUME NEW p \in Server, NEW e \in Epoch, Restart(p, e) PROVE EpochsTimely'
    BY <1>2 DEF Coherent, EpochsTimely, Restart, TypeOK
  <1>3. CASE Tick
    <2> SUFFICES ASSUME NEW p \in Server
                 PROVE  EpochStart(epoch[p]) <= now + 1 /\ now + 1 <= EpochStart(epoch[p] + 1) + RolloverLag
      BY <1>3 DEF EpochsTimely, Tick
    <2>1. epoch[p] \in Epoch /\ now \in Nat
      BY DEF Coherent, TypeOK
    <2>2. now < EpochStart(epoch[p] + 1) + RolloverLag /\ EpochStart(epoch[p]) <= now
      BY <1>3 DEF Coherent, EpochsTimely, Tick
    <2>3. QED
      BY <2>1, <2>2, Calendar, NumbersNatural
  <1>4. ASSUME NEW h \in Task, Handle(h) \/ Abort(h) PROVE UNCHANGED <<now, epoch>>
    BY <1>4, HandleFrame DEF Coherent
  <1>5. QED
    BY <1>1, <1>2, <1>3, <1>4
    DEF Next, vars, SendRefresh, SendSpend, Send, Receive, AnswerFromCache, Begin, Mint

\* Nothing is cached, sent or held that was not signed.
LEMMA AnswersSignedStep == Coherent /\ [Next]_vars => AnswersSigned'
  <1> SUFFICES ASSUME Coherent, [Next]_vars PROVE AnswersSigned'
    OBVIOUS
  <1> USE DEF Coherent
  <1>1. ASSUME NEW k \in Key, NEW r, r.kind # "none", Send(k, r) PROVE AnswersSigned'
    BY <1>1 DEF AnswersSigned, Send, TypeOK, redis, history
  <1>2. ASSUME NEW k \in Key, Receive(k) PROVE AnswersSigned'
    BY <1>2 DEF AnswersSigned, Receive, TypeOK, redis, history
  <1>3. ASSUME NEW h \in Task, NEW k \in Key, AnswerFromCache(h, k) PROVE AnswersSigned'
    <2>1. issued[k] > 0
      BY <1>3 DEF AnswerFromCache, Exists, AnswersSigned, NoString, TypeOK
    <2>2. QED
      BY <1>3, <2>1 DEF AnswersSigned, AnswerFromCache, TypeOK, client, redis, history
  <1>4. ASSUME NEW h \in Task, NEW k \in Key, Begin(h, k) PROVE AnswersSigned'
    BY <1>4 DEF AnswersSigned, Begin, TypeOK, client, redis, history
  <1>5. ASSUME NEW h \in Task, Handle(h) \/ Abort(h) PROVE AnswersSigned'
    <2>1. task[h] \in Busy /\ task[h].key \in Key
      BY <1>5, HandleFrame
    <2>2. CASE SignDaily(h) \/ SignRefund(h)
      <3> DEFINE k == task[h].key
      <3>1. /\ issued' = [issued EXCEPT ![k] = @ + 1]
            /\ requests[k].kind # "none"
            /\ task' = [task EXCEPT ![h].pc = "store"]
            /\ UNCHANGED <<requests, replies, wallet, idemKey>>
        BY <2>2 DEF SignDaily, SignRefund, Goto, At, client, redis
      <3>2. \A j \in Key : issued'[j] > 0 <=> issued[j] > 0 \/ j = k
        BY <2>1, <3>1 DEF TypeOK
      <3>3. /\ task'[h].key = k
            /\ \A g \in Task : g # h => task'[g] = task[g]
        BY <2>1, <3>1 DEF TypeOK, Busy
      <3>4. replies \subseteq Key /\ \A g \in Task : task[g].pc = "store" => task[g].key \in Key
        BY StartedTask DEF TypeOK
      <3>5. QED
        BY <2>1, <3>1, <3>2, <3>3, <3>4 DEF AnswersSigned
    <2>3. CASE StoreAndReply(h)
      BY <2>1, <2>3 DEF AnswersSigned, StoreAndReply, Return, Idle, TypeOK, client, history
    <2>4. ASSUME /\ UNCHANGED <<requests, replies, wallet, idemKey, issued>>
                 /\ \A g \in Task : g # h => task'[g] = task[g]
                 /\ task'[h].pc # "store"
          PROVE  AnswersSigned'
      BY <2>4 DEF AnswersSigned
    <2>5. /\ UNCHANGED <<requests, wallet>>
          /\ \A g \in Task : g # h => task'[g] = task[g]
      BY <1>5, HandleFrame
    <2>6. CASE \/ ConsumeNonce(h) \/ CheckBatchNonce(h) \/ InsertBatchNonce(h)
               \/ RejectProof(h) \/ Abort(h)
      <3>1. task'[h].pc # "store"
        BY <2>1, <2>6
        DEF ConsumeNonce, CheckBatchNonce, InsertBatchNonce, RejectProof, Abort, Return, Goto, TakeNonce,
            Idle, Busy, TypeOK
      <3>2. UNCHANGED <<replies, idemKey, issued>>
        BY <2>6 DEF ConsumeNonce, CheckBatchNonce, InsertBatchNonce, RejectProof, Abort,
                    redis, history
      <3>3. QED
        BY <2>4, <2>5, <3>1, <3>2
    <2>7. CASE \/ AddEpochNullifier(h) \/ AddSpendNullifier(h)
               \/ ExpireEpochSet(h) \/ ExpireSpendSet(h)
      <3>1. task'[h].pc # "store"
        BY <2>1, <2>7
        DEF AddEpochNullifier, AddSpendNullifier, ExpireEpochSet, ExpireSpendSet, AfterExpire,
            Return, Idle, Busy, TypeOK
      <3>2. UNCHANGED <<replies, idemKey, issued>>
        BY <2>7 DEF AddEpochNullifier, AddSpendNullifier, ExpireEpochSet, ExpireSpendSet, history
      <3>3. QED
        BY <2>4, <2>5, <3>1, <3>2
    <2>8. QED
      BY <1>5, <2>2, <2>3, <2>6, <2>7 DEF Handle
  <1>6. ASSUME NEW p \in Server, NEW e \in Epoch, Restart(p, e) PROVE AnswersSigned'
    BY <1>6 DEF AnswersSigned, Restart, Idle, TypeOK, client, redis, history
  <1>7. CASE Tick \/ UNCHANGED vars \/ \E u \in User, e \in Expiry : Mint(u, e)
    BY <1>7 DEF AnswersSigned, Tick, Mint, vars, client, redis, history
  <1>8. QED
    BY <1>1, <1>2, <1>3, <1>4, <1>5, <1>6, <1>7 DEF Next, SendRefresh, SendSpend

\* Signatures are never withdrawn.
LEMMA IssuedGrows ==
  ASSUME TypeOK, [Next]_vars, NEW k \in Key
  PROVE  issued'[k] \in Nat /\ issued'[k] >= issued[k]
  <1>1. issued[k] \in Nat
    BY DEF TypeOK
  <1>2. ASSUME NEW h \in Task, SignDaily(h) \/ SignRefund(h)
        PROVE  issued' = [issued EXCEPT ![task[h].key] = @ + 1]
    BY <1>2 DEF SignDaily, SignRefund
  <1>3. \/ UNCHANGED issued
        \/ \E h \in Task : SignDaily(h) \/ SignRefund(h)
    BY DEF Next, Handle, vars, history, SendRefresh, SendSpend, Send, Receive,
           AnswerFromCache, Begin, Abort, Restart, Tick, Mint, ConsumeNonce, CheckBatchNonce,
           InsertBatchNonce, AddEpochNullifier, AddSpendNullifier, ExpireEpochSet,
           ExpireSpendSet, RejectProof, StoreAndReply
  <1>4. QED
    BY <1>1, <1>2, <1>3 DEF TypeOK

\* Clients commit to what they own: c_max, or what a spend leaves.
LEMMA RequestsHonestStep == Coherent /\ [Next]_vars => RequestsHonest'
  <1> SUFFICES ASSUME Coherent, [Next]_vars PROVE RequestsHonest'
    OBVIOUS
  <1> USE DEF Coherent
  <1>1. ASSUME UNCHANGED requests PROVE RequestsHonest'
    BY <1>1, IssuedGrows DEF RequestsHonest, TypeOK
  <1>2. ASSUME NEW u \in User, NEW e \in Expiry, NEW t \in EpochsSeen,
               NEW at \in SecondsSeen, NEW k \in Key, SendRefresh(u, e, t, at, k)
        PROVE  RequestsHonest'
    BY <1>2, IssuedGrows DEF SendRefresh, Send, RequestsHonest, AnswersSigned, TypeOK, history
  <1>3. ASSUME NEW tok \in Key, NEW s \in 1..CMax, NEW n \in Nonce,
               NEW at \in SecondsSeen, NEW k \in Key, SendSpend(tok, s, n, at, k)
        PROVE  RequestsHonest'
    <2>1. issued[tok] > 0 /\ requests[tok].kind # "none" /\ tok # k
      BY <1>3 DEF SendSpend, Send, AnswersSigned, TypeOK
    <2>2. requests[tok].bal \in Int
      BY NumbersNatural DEF TypeOK, Request
    <2>3. QED
      BY <1>3, <2>1, <2>2 DEF SendSpend, Send, RequestsHonest, AnswersSigned, TypeOK, history
  <1>4. ASSUME NEW h \in Task, Handle(h) \/ Abort(h) PROVE UNCHANGED requests
    BY <1>4, HandleFrame
  <1>5. QED
    BY <1>1, <1>2, <1>3, <1>4
    DEF Next, vars, Receive, AnswerFromCache, Begin, Restart, Tick, Mint, client

\* A handler's knowledge stays right: about its request, which does not
\* change, and about its process's epoch, which changes only by a restart.
LEMMA TasksConsistentStep == Coherent /\ [Next]_vars => TasksConsistent'
  <1> SUFFICES ASSUME Coherent, [Next]_vars PROVE TasksConsistent'
    OBVIOUS
  <1> USE DEF Coherent
  <1>1. ASSUME NEW k \in Key, NEW r \in Request, Send(k, r) PROVE TasksConsistent'
    <2>1. UNCHANGED <<epoch, task>>
      BY <1>1 DEF Send
    <2>2. ASSUME NEW h \in Task, task[h].pc # "idle" PROVE Proof(h)' = Proof(h)
      <3>1. task[h].key \in Key /\ requests[task[h].key].kind # "none"
        BY <2>2, StartedTask DEF TasksConsistent, Proof
      <3>2. QED
        BY <1>1, <2>1, <3>1, SendFrame DEF Proof
    <2>3. QED
      BY <2>1, <2>2 DEF TasksConsistent
  <1>2. ASSUME NEW k \in Key, Receive(k) PROVE TasksConsistent'
    BY <1>2 DEF TasksConsistent, Receive, Proof
  <1>3. ASSUME NEW h \in Task, NEW k \in Key, AnswerFromCache(h, k) PROVE TasksConsistent'
    BY <1>3 DEF TasksConsistent, AnswerFromCache, Proof, client
  <1>4. ASSUME NEW h \in Task, NEW k \in Key, Begin(h, k) PROVE TasksConsistent'
    <2>1. /\ UNCHANGED <<requests, epoch>>
          /\ \A g \in Task : g # h => task'[g] = task[g]
          /\ task'[h].key = k
          /\ task'[h].pc = IF requests[k].kind = "refresh" THEN "nullify" ELSE "nonce"
          /\ requests[k].kind # "none"
          /\ requests[k].kind \in {"none", "refresh", "spend"}
      BY <1>4 DEF Begin, client, TypeOK, Request
    <2>2. QED
      BY <2>1 DEF TasksConsistent, Proof
  <1>5. ASSUME NEW h \in Task, Handle(h) \/ Abort(h) PROVE TasksConsistent'
    <2>1. /\ task[h] \in Busy /\ task[h].key \in Key
          /\ UNCHANGED <<requests, epoch>>
          /\ \A g \in Task : g # h => task'[g] = task[g]
          /\ task'[h] = Idle \/ task'[h].key = task[h].key
      BY <1>5, HandleFrame
    <2>2. SUFFICES ASSUME task'[h] # Idle, task'[h].pc # "idle"
          PROVE  /\ task'[h].pc \in {"nonce", "insert"} => Proof(h).kind = "spend"
                 /\ task'[h].pc = "verify" => task'[h].fresh
                 /\ task'[h].pc \in {"expire", "verify"} /\ Proof(h).kind = "spend" =>
                       Proof(h).t = epoch[Home(h)] \/ Proof(h).t + 1 = epoch[Home(h)]
      BY <2>1 DEF TasksConsistent, Proof, Busy, Idle, Label
    <2>3. CASE ConsumeNonce(h) \/ CheckBatchNonce(h) \/ InsertBatchNonce(h)
      BY <2>1, <2>2, <2>3
      DEF ConsumeNonce, CheckBatchNonce, InsertBatchNonce, At, Goto, TakeNonce, Return, Proof,
          Busy, TypeOK
    <2>4. CASE AddEpochNullifier(h) \/ AddSpendNullifier(h)
      BY <2>1, <2>2, <2>4
      DEF AddEpochNullifier, AddSpendNullifier, At, Return, Proof, Busy, TypeOK
    <2>5. CASE ExpireEpochSet(h) \/ ExpireSpendSet(h)
      BY <2>1, <2>2, <2>5
      DEF ExpireEpochSet, ExpireSpendSet, AfterExpire, At, Return, Proof, Busy, TypeOK, TasksConsistent
    <2>6. CASE SignDaily(h) \/ SignRefund(h)
      BY <2>1, <2>2, <2>6 DEF SignDaily, SignRefund, Goto, Busy, TypeOK
    <2>7. CASE RejectProof(h) \/ StoreAndReply(h) \/ Abort(h)
      BY <2>1, <2>2, <2>7 DEF RejectProof, StoreAndReply, Abort, Return, TypeOK
    <2>8. QED
      BY <1>5, <2>3, <2>4, <2>5, <2>6, <2>7 DEF Handle
  <1>6. ASSUME NEW p \in Server, NEW e \in Epoch, Restart(p, e) PROVE TasksConsistent'
    BY <1>6, HomesKnown DEF TasksConsistent, Restart, Proof, Idle, TypeOK, client
  <1>7. CASE Tick \/ UNCHANGED vars \/ \E u \in User, e \in Expiry : Mint(u, e)
    BY <1>7 DEF TasksConsistent, Tick, Mint, vars, client, Proof
  <1>8. QED
    BY <1>1, <1>2, <1>3, <1>4, <1>5, <1>6, <1>7, SendsAreRequests DEF Next

\* The facts that need no assumption on how long a nullifier set lives.
LEMMA CoherentInit == Init => Coherent
  <1> SUFFICES ASSUME Init PROVE Coherent
    OBVIOUS
  <1>1. TypeOK
    BY BlankRequest, NumbersNatural
    DEF Init, TypeOK, Epoch, NoSet, NoTTL, NoString, Account, Use, NoUse
  <1>2. EpochsTimely
    <2>1. 0 \in Epoch /\ EpochStart(0) = 0 /\ EpochStart(0 + 1) \in Nat
      BY Calendar, CalendarMonotone, NumbersNatural DEF Epoch
    <2>2. QED
      BY <2>1, NumbersNatural DEF Init, EpochsTimely
  <1>3. AnswersSigned /\ RequestsHonest /\ TasksConsistent
    BY BlankRequest DEF Init, AnswersSigned, RequestsHonest, TasksConsistent, Idle
  <1>4. QED
    BY <1>1, <1>2, <1>3 DEF Coherent

\* Every step keeps them.
LEMMA CoherentStep == Coherent /\ [Next]_vars => Coherent'
  BY TypeStep, EpochsTimelyStep, AnswersSignedStep, RequestsHonestStep, TasksConsistentStep
  DEF Coherent

-----------------------------------------------------------------------------
(* Daily tokens                                                            *)

\* While the calendar is still in an epoch some process may be in, the set of
\* that epoch has not expired, so SADD sees every member.
LEMMA EpochSetAlive ==
  ASSUME Coherent, EpochSetsLast, NEW p \in Server
  PROVE  /\ Alive(epochSet[epoch[p]], now)
         /\ Members(epochSet[epoch[p]], now) = epochSet[epoch[p]].members
  <1>1. epoch[p] \in Epoch /\ now \in Nat /\ epochSet[epoch[p]].exp \in Int
    BY DEF Coherent, TypeOK
  <1>2. now <= EpochStart(epoch[p] + 1) + RolloverLag
    BY DEF Coherent, EpochsTimely
  <1>3. Alive(epochSet[epoch[p]], now)
    BY <1>1, <1>2, Calendar, NumbersNatural DEF EpochSetsLast, Alive
  <1>4. QED
    BY <1>3 DEF Members

\* EXPIRE gives a set a time to live that reaches past its epoch.
LEMMA EpochSetsLastStep ==
  RefreshWindowCovered /\ Coherent /\ EpochSetsLast /\ [Next]_vars => EpochSetsLast'
  <1> SUFFICES ASSUME RefreshWindowCovered, Coherent, EpochSetsLast, [Next]_vars
               PROVE  EpochSetsLast'
    OBVIOUS
  <1>1. ASSUME UNCHANGED epochSet PROVE EpochSetsLast'
    BY <1>1 DEF EpochSetsLast
  <1>2. ASSUME NEW h \in Task, AddEpochNullifier(h) PROVE EpochSetsLast'
    BY <1>2 DEF AddEpochNullifier, Sadd, EpochSetsLast, Coherent, TypeOK, NoTTL
  <1>3. ASSUME NEW h \in Task, ExpireEpochSet(h) PROVE EpochSetsLast'
    <2> DEFINE e == epoch[Home(h)]
    <2>1. e \in Epoch /\ EpochStart(e) <= now /\ now \in Nat
      BY HomesKnown DEF Coherent, TypeOK, EpochsTimely
    <2>2. now + NullifierTTL > EpochStart(e + 1) + RolloverLag
      BY <2>1, Calendar, NumbersNatural DEF RefreshWindowCovered, NullifierTTL
    <2> HIDE DEF e
    <2>3. epochSet' = [epochSet EXCEPT ![e] = Expire(@, NullifierTTL, now)]
      BY <1>3 DEF ExpireEpochSet, e
    <2>4. \/ Expire(epochSet[e], NullifierTTL, now) = epochSet[e]
          \/ Expire(epochSet[e], NullifierTTL, now).exp = now + NullifierTTL
      BY DEF Expire
    <2>5. QED
      BY <2>1, <2>2, <2>3, <2>4 DEF EpochSetsLast, Coherent, TypeOK
  <1>4. QED
    BY <1>1, <1>2, <1>3
    DEF Next, Handle, vars, redis, SendRefresh, SendSpend, Send, Receive, AnswerFromCache,
        Begin, Abort, Restart, Tick, Mint, ConsumeNonce, CheckBatchNonce, InsertBatchNonce,
        AddSpendNullifier, ExpireSpendSet, SignDaily, SignRefund, RejectProof, StoreAndReply

\* Only SADD changes who is in an epoch's set, and it only adds.
LEMMA EpochMembersKept ==
  ASSUME Coherent, EpochSetsLast, [Next]_vars, NEW e \in Epoch
  PROVE  epochSet[e].members \subseteq epochSet'[e].members
  <1>1. ASSUME NEW h \in Task, AddEpochNullifier(h)
        PROVE  epochSet[e].members \subseteq epochSet'[e].members
    BY <1>1, EpochSetAlive, HomesKnown DEF AddEpochNullifier, Sadd, Coherent, TypeOK
  <1>2. ASSUME NEW h \in Task, ExpireEpochSet(h)
        PROVE  epochSet[e].members \subseteq epochSet'[e].members
    <2>1. Expire(epochSet[epoch[Home(h)]], NullifierTTL, now).members
            = epochSet[epoch[Home(h)]].members
      BY DEF Expire
    <2>2. QED
      BY <1>2, <2>1 DEF ExpireEpochSet, Coherent, TypeOK
  <1>3. QED
    BY <1>1, <1>2
    DEF Next, Handle, vars, redis, SendRefresh, SendSpend, Send, Receive, AnswerFromCache,
        Begin, Abort, Restart, Tick, Mint, ConsumeNonce, CheckBatchNonce, InsertBatchNonce,
        AddSpendNullifier, ExpireSpendSet, SignDaily, SignRefund, RejectProof, StoreAndReply

\* A claim on a daily token is never made by a step other than the SADD that
\* found the nullifier new, and a request is signed only by its claimant.
LEMMA DailyOrigins ==
  ASSUME Coherent, [Next]_vars
  PROVE  /\ \A h \in Task : ClaimsDaily(h)' =>
              \/ ClaimsDaily(h) /\ Proof(h)' = Proof(h)
              \/ /\ AddEpochNullifier(h)
                 /\ Proof(h)' = Proof(h)
                 /\ Proof(h).t = epoch[Home(h)]
                 /\ AccountOf(Proof(h)) \notin Members(epochSet[Proof(h).t], now)
         /\ \A k \in Key : SignedRefresh(k)' =>
              /\ requests'[k] = requests[k]
              /\ \/ SignedRefresh(k)
                 \/ \E h \in Task : /\ ClaimsDaily(h)
                                    /\ task[h].key = k
                                    /\ ~ClaimsDaily(h)'
  <1> USE DEF Coherent
  <1>1. ASSUME NEW h \in Task, ClaimsDaily(h)'
        PROVE  \/ ClaimsDaily(h) /\ Proof(h)' = Proof(h)
               \/ /\ AddEpochNullifier(h)
                  /\ Proof(h)' = Proof(h)
                  /\ Proof(h).t = epoch[Home(h)]
                  /\ AccountOf(Proof(h)) \notin Members(epochSet[Proof(h).t], now)
    <2>1. ASSUME NEW k \in Key, NEW r \in Request, Send(k, r)
          PROVE  ClaimsDaily(h) /\ Proof(h)' = Proof(h)
      <3>1. UNCHANGED <<task, epoch>>
        BY <2>1 DEF Send
      <3>2. task[h].pc # "idle"
        BY <1>1, <3>1 DEF ClaimsDaily
      <3>3. Proof(h).kind # "none" /\ task[h].key \in Key
        BY <3>2, StartedTask DEF TasksConsistent
      <3>4. Proof(h)' = Proof(h)
        BY <2>1, <3>1, <3>3, SendFrame DEF Proof
      <3>5. QED
        BY <1>1, <3>1, <3>4 DEF ClaimsDaily
    <2>2. ASSUME NEW g \in Task, Handle(g) \/ Abort(g), g # h
          PROVE  ClaimsDaily(h) /\ Proof(h)' = Proof(h)
      BY <1>1, <2>2, HandleFrame DEF ClaimsDaily, Proof
    <2>3. ASSUME Handle(h) \/ Abort(h)
          PROVE  \/ ClaimsDaily(h) /\ Proof(h)' = Proof(h)
                 \/ /\ AddEpochNullifier(h)
                    /\ Proof(h)' = Proof(h)
                    /\ Proof(h).t = epoch[Home(h)]
                    /\ AccountOf(Proof(h)) \notin Members(epochSet[Proof(h).t], now)
      <3>1. /\ task[h] \in Busy
            /\ UNCHANGED <<requests, epoch>>
            /\ task'[h] = Idle \/ task'[h].key = task[h].key
        BY <2>3, HandleFrame
      <3>2. task'[h].pc \in {"expire", "verify"} /\ task'[h].fresh /\ Proof(h)' = Proof(h)
        BY <1>1, <3>1 DEF ClaimsDaily, Proof, Idle
      <3>3. Proof(h).kind = "refresh" /\ Proof(h).t = epoch[Home(h)]
        BY <1>1, <3>1, <3>2 DEF ClaimsDaily
      <3>4. CASE AddEpochNullifier(h)
        BY <3>1, <3>2, <3>3, <3>4 DEF AddEpochNullifier, TypeOK, Busy
      <3>5. CASE ExpireEpochSet(h)
        BY <3>1, <3>2, <3>3, <3>5 DEF ExpireEpochSet, AfterExpire, Return, At, ClaimsDaily, TypeOK, Idle
      <3>6. CASE \/ ConsumeNonce(h) \/ CheckBatchNonce(h) \/ InsertBatchNonce(h)
                 \/ SignDaily(h) \/ SignRefund(h) \/ RejectProof(h) \/ StoreAndReply(h) \/ Abort(h)
        <4>1. \/ Return(h) \/ Goto(h, "insert") \/ Goto(h, "store")
              \/ TakeNonce(h, ByRedis(now)) \/ TakeNonce(h, ByBloom)
          BY <3>6 DEF ConsumeNonce, CheckBatchNonce, InsertBatchNonce, SignDaily, SignRefund,
                      RejectProof, StoreAndReply, Abort
        <4>2. QED
          BY <3>1, <3>2, <4>1 DEF Goto, TakeNonce, Return, TypeOK, Idle, Busy
      <3>7. CASE AddSpendNullifier(h) \/ ExpireSpendSet(h)
        BY <3>3, <3>7 DEF AddSpendNullifier, ExpireSpendSet, At, Proof
      <3>8. QED
        BY <2>3, <3>4, <3>5, <3>6, <3>7 DEF Handle
    <2>4. ASSUME NEW g \in Task, NEW k \in Key, Begin(g, k)
          PROVE  ClaimsDaily(h) /\ Proof(h)' = Proof(h)
      BY <1>1, <2>4 DEF Begin, ClaimsDaily, Proof, TypeOK, client
    <2>5. ASSUME NEW p \in Server, NEW e \in Epoch, Restart(p, e)
          PROVE  ClaimsDaily(h) /\ Proof(h)' = Proof(h)
      BY <1>1, <2>5, HomesKnown DEF Restart, ClaimsDaily, Proof, Idle, TypeOK, client
    <2>6. CASE UNCHANGED <<requests, task, epoch>>
      BY <1>1, <2>6 DEF ClaimsDaily, Proof
    <2>7. QED
      BY <2>1, <2>2, <2>3, <2>4, <2>5, <2>6, SendsAreRequests
      DEF Next, vars, Receive, AnswerFromCache, Tick, Mint, client
  <1>2. ASSUME NEW k \in Key, SignedRefresh(k)'
        PROVE  /\ requests'[k] = requests[k]
               /\ \/ SignedRefresh(k)
                  \/ \E h \in Task : ClaimsDaily(h) /\ task[h].key = k /\ ~ClaimsDaily(h)'
    <2>1. CASE UNCHANGED <<requests, issued>>
      BY <1>2, <2>1 DEF SignedRefresh
    <2>2. ASSUME NEW j \in Key, NEW r \in Request, Send(j, r)
          PROVE  requests'[k] = requests[k] /\ SignedRefresh(k)
      <3>1. issued[k] > 0
        BY <1>2, <2>2 DEF SignedRefresh, Send, history
      <3>2. requests'[k] = requests[k]
        BY <2>2, <3>1, SendFrame DEF AnswersSigned
      <3>3. QED
        BY <1>2, <3>1, <3>2 DEF SignedRefresh
    <2>3. ASSUME NEW h \in Task, SignDaily(h)
          PROVE  /\ requests'[k] = requests[k]
                 /\ \/ SignedRefresh(k)
                    \/ ClaimsDaily(h) /\ task[h].key = k /\ ~ClaimsDaily(h)'
      <3>1. /\ task[h] \in Busy /\ task[h].key \in Key /\ UNCHANGED requests
        BY <2>3, HandleFrame DEF Handle
      <3>2. CASE task[h].key # k
        BY <1>2, <2>3, <3>1, <3>2 DEF SignedRefresh, SignDaily, TypeOK
      <3>3. CASE task[h].key = k
        <4>1. ClaimsDaily(h)
          BY <2>3, <3>1 DEF SignDaily, At, RefreshProofHolds, ClaimsDaily, TasksConsistent, Proof
        <4>2. task'[h].pc = "store"
          BY <2>3, <3>1 DEF SignDaily, Goto, TypeOK
        <4>3. QED
          BY <3>1, <3>3, <4>1, <4>2 DEF ClaimsDaily
      <3>4. QED
        BY <3>2, <3>3
    <2>4. ASSUME NEW h \in Task, SignRefund(h)
          PROVE  requests'[k] = requests[k] /\ SignedRefresh(k)
      <3>1. /\ task[h] \in Busy /\ task[h].key \in Key /\ UNCHANGED requests
        BY <2>4, HandleFrame DEF Handle
      <3>2. task[h].key # k
        BY <1>2, <2>4, <3>1 DEF SignedRefresh, SignRefund, At
      <3>3. QED
        BY <1>2, <2>4, <3>1, <3>2 DEF SignedRefresh, SignRefund, TypeOK
    <2>5. QED
      BY <2>1, <2>2, <2>3, <2>4, SendsAreRequests
      DEF Next, Handle, vars, client, redis, history, Receive, AnswerFromCache,
          Begin, Abort, Restart, Tick, Mint, ConsumeNonce, CheckBatchNonce, InsertBatchNonce,
          AddEpochNullifier, AddSpendNullifier, ExpireEpochSet, ExpireSpendSet,
          RejectProof, StoreAndReply
  <1>3. QED
    BY <1>1, <1>2

\* What a claim or a signature needs is in the set, and stays there.
LEMMA DailyRecordedStep ==
  Coherent /\ EpochSetsLast /\ DailyRecorded /\ [Next]_vars => DailyRecorded'
  <1> SUFFICES ASSUME Coherent, EpochSetsLast, DailyRecorded, [Next]_vars
               PROVE  DailyRecorded'
    OBVIOUS
  <1>1. ASSUME NEW h \in Task, ClaimsDaily(h)
        PROVE  /\ Proof(h).t \in Epoch
               /\ AccountOf(Proof(h)) \in epochSet'[Proof(h).t].members
    <2>1. Proof(h) \in Request
      BY <1>1, StartedTask DEF ClaimsDaily, Coherent
    <2>2. QED
      BY <1>1, <2>1, EpochMembersKept DEF DailyRecorded, Request
  <1>2. ASSUME NEW h \in Task, ClaimsDaily(h)'
        PROVE  (AccountOf(Proof(h)) \in epochSet[Proof(h).t].members)'
    <2>1. CASE ClaimsDaily(h) /\ Proof(h)' = Proof(h)
      BY <1>1, <2>1 DEF AccountOf
    <2>2. CASE AddEpochNullifier(h) /\ Proof(h)' = Proof(h) /\ Proof(h).t = epoch[Home(h)]
      <3>1. epoch[Home(h)] \in Epoch
        BY HomesKnown DEF Coherent, TypeOK
      <3>2. epochSet'[epoch[Home(h)]] = Sadd(epochSet[epoch[Home(h)]], AccountOf(Proof(h)), now)
        BY <2>2, <3>1 DEF AddEpochNullifier, Coherent, TypeOK
      <3>3. QED
        BY <2>2, <3>2 DEF Sadd, AccountOf
    <2>3. QED
      BY <1>2, <2>1, <2>2, DailyOrigins
  <1>3. ASSUME NEW k \in Key, SignedRefresh(k)'
        PROVE  (AccountOf(requests[k]) \in epochSet[requests[k].t].members)'
    <2>1. requests[k].t \in Epoch /\ requests'[k] = requests[k]
      BY <1>3, DailyOrigins DEF Coherent, TypeOK, Request
    <2>2. CASE SignedRefresh(k)
      BY <2>1, <2>2, EpochMembersKept DEF DailyRecorded, AccountOf
    <2>3. ASSUME NEW h \in Task, ClaimsDaily(h), task[h].key = k
          PROVE  AccountOf(requests[k]) \in epochSet'[requests[k].t].members
      BY <1>1, <2>3 DEF Proof
    <2>4. QED
      BY <1>3, <2>1, <2>2, <2>3, DailyOrigins DEF AccountOf
  <1>4. QED
    BY <1>2, <1>3 DEF DailyRecorded

\* A new claim is of an account nobody claims or was signed for; a claim that
\* turns into a signature was the account's only one.
LEMMA DailyExclusiveStep ==
  /\ Coherent /\ EpochSetsLast /\ DailyRecorded /\ DailyExclusive /\ OneDailyToken
  /\ [Next]_vars
  => DailyExclusive' /\ OneDailyToken'
  <1> SUFFICES ASSUME Coherent, EpochSetsLast, DailyRecorded, DailyExclusive, OneDailyToken,
                      [Next]_vars
               PROVE  DailyExclusive' /\ OneDailyToken'
    OBVIOUS
  <1> DEFINE Old(h) == ClaimsDaily(h) /\ Proof(h)' = Proof(h)
             New(h) == /\ AddEpochNullifier(h)
                       /\ Proof(h)' = Proof(h)
                       /\ Proof(h).t = epoch[Home(h)]
                       /\ AccountOf(Proof(h)) \notin Members(epochSet[Proof(h).t], now)
             Signs(h, k) == ClaimsDaily(h) /\ task[h].key = k /\ ~ClaimsDaily(h)'
  <1>1. \A h \in Task : ClaimsDaily(h)' => Old(h) \/ New(h)
    BY DailyOrigins
  <1>2. \A k \in Key : SignedRefresh(k)' =>
          /\ requests'[k] = requests[k]
          /\ SignedRefresh(k) \/ \E h \in Task : Signs(h, k)
    BY DailyOrigins
  <1>3. ASSUME NEW h \in Task, New(h), NEW r \in Request,
               AccountOf(r) \in epochSet[r.t].members
        PROVE  AccountOf(Proof(h)) # AccountOf(r)
    BY <1>3, EpochSetAlive, HomesKnown DEF AccountOf
  <1>4. \A h \in Task : ClaimsDaily(h) =>
          Proof(h) \in Request /\ AccountOf(Proof(h)) \in epochSet[Proof(h).t].members
    BY StartedTask DEF ClaimsDaily, Coherent, DailyRecorded
  <1>5. \A k \in Key : SignedRefresh(k) =>
          requests[k] \in Request /\ AccountOf(requests[k]) \in epochSet[requests[k].t].members
    BY DEF Coherent, TypeOK, DailyRecorded
  <1>6. ASSUME NEW h1 \in Task, NEW h2 \in Task, ClaimsDaily(h1)', ClaimsDaily(h2)',
               AccountOf(Proof(h1))' = AccountOf(Proof(h2))'
        PROVE  h1 = h2
    <2>1. AccountOf(Proof(h1)) = AccountOf(Proof(h2))
      BY <1>1, <1>6 DEF AccountOf
    <2>2. CASE Old(h1) /\ Old(h2)
      BY <2>1, <2>2 DEF DailyExclusive
    <2>3. CASE \/ New(h1) /\ Old(h2)
               \/ New(h2) /\ Old(h1)
      BY <1>3, <1>4, <2>1, <2>3
    <2>4. CASE New(h1) /\ New(h2)
      <3>1. h1 # h2 => task'[h2] = task[h2]
        BY <2>4, HandleFrame DEF Handle, Coherent
      <3>2. task[h2].pc = "nullify" /\ task'[h2].pc \in {"expire", "verify"}
        BY <1>6, <2>4 DEF AddEpochNullifier, At, ClaimsDaily
      <3>3. QED
        BY <3>1, <3>2
    <2>5. QED
      BY <1>1, <1>6, <2>2, <2>3, <2>4
  <1>7. ASSUME NEW h \in Task, NEW k \in Key, ClaimsDaily(h)', SignedRefresh(k)'
        PROVE  AccountOf(Proof(h))' # AccountOf(requests[k])'
    <2>1. /\ AccountOf(Proof(h))' = AccountOf(Proof(h))
          /\ AccountOf(requests[k])' = AccountOf(requests[k])
      BY <1>1, <1>2, <1>7 DEF AccountOf
    <2>2. CASE Old(h) /\ SignedRefresh(k)
      BY <2>1, <2>2 DEF DailyExclusive
    <2>3. CASE New(h) /\ SignedRefresh(k)
      BY <1>3, <1>5, <2>1, <2>3
    <2>4. ASSUME NEW g \in Task, Signs(g, k), New(h)
          PROVE  AccountOf(Proof(h)) # AccountOf(requests[k])
      BY <1>3, <1>4, <2>4 DEF Proof
    <2>5. ASSUME NEW g \in Task, Signs(g, k), Old(h)
          PROVE  AccountOf(Proof(h)) # AccountOf(requests[k])
      <3>1. g # h
        BY <1>7, <2>5
      <3>2. QED
        BY <2>5, <3>1 DEF DailyExclusive, Proof
    <2>6. QED
      BY <1>1, <1>2, <1>7, <2>1, <2>2, <2>3, <2>4, <2>5
  <1>8. ASSUME NEW k1 \in Key, NEW k2 \in Key, SignedRefresh(k1)', SignedRefresh(k2)',
               AccountOf(requests[k1])' = AccountOf(requests[k2])'
        PROVE  k1 = k2
    <2>1. AccountOf(requests[k1]) = AccountOf(requests[k2])
      BY <1>2, <1>8 DEF AccountOf
    <2>2. CASE SignedRefresh(k1) /\ SignedRefresh(k2)
      BY <2>1, <2>2 DEF OneDailyToken
    <2>3. ASSUME NEW g \in Task, \/ Signs(g, k1) /\ SignedRefresh(k2)
                                 \/ Signs(g, k2) /\ SignedRefresh(k1)
          PROVE  FALSE
      BY <2>1, <2>3 DEF DailyExclusive, Proof
    <2>4. ASSUME NEW g1 \in Task, NEW g2 \in Task, Signs(g1, k1), Signs(g2, k2)
          PROVE  k1 = k2
      BY <2>1, <2>4 DEF DailyExclusive, Proof
    <2>5. QED
      BY <1>2, <1>8, <2>2, <2>3, <2>4
  <1>9. QED
    BY <1>6, <1>7, <1>8 DEF DailyExclusive, OneDailyToken

\* One daily token for each subscriber and epoch, whatever the interleaving of
\* handlers, restarts, retries and expiring keys, provided a nullifier set
\* lives past the end of its epoch (check_epoch_nullifier, handle_refresh).
THEOREM DailyTokenOnce == RefreshWindowCovered => (Spec => []OneDailyToken)
  <1> SUFFICES ASSUME RefreshWindowCovered PROVE Spec => []OneDailyToken
    OBVIOUS
  <1>1. Init => Coherent /\ DailySafe
    BY CoherentInit
    DEF Init, DailySafe, EpochSetsLast, DailyRecorded, DailyExclusive, OneDailyToken,
        ClaimsDaily, SignedRefresh, Idle, NoSet
  <1>2. Coherent /\ DailySafe /\ [Next]_vars => (Coherent /\ DailySafe)'
    BY CoherentStep, EpochSetsLastStep, DailyRecordedStep, DailyExclusiveStep DEF DailySafe
  <1>3. DailySafe => OneDailyToken
    BY DEF DailySafe
  <1>4. QED
    BY <1>1, <1>2, <1>3, PTL DEF Spec

-----------------------------------------------------------------------------
(* Redemptions                                                             *)

\* While some process accepts tokens of an epoch, that epoch's set has not
\* expired, so SADD sees every spent token.
LEMMA SpendSetAlive ==
  ASSUME Coherent, SpendSetsLast, NEW p \in Server, NEW t \in Epoch,
         t = epoch[p] \/ t + 1 = epoch[p]
  PROVE  /\ Alive(spendSet[t], now)
         /\ Members(spendSet[t], now) = spendSet[t].members
  <1>1. epoch[p] \in Epoch /\ now \in Nat /\ spendSet[t].exp \in Int /\ t \in Nat
    BY DEF Coherent, TypeOK, Epoch
  <1>2. now <= EpochStart(epoch[p] + 1) + RolloverLag
    BY DEF Coherent, EpochsTimely
  <1>3. EpochStart(epoch[p] + 1) <= EpochStart(t + 2)
    <2>1. CASE t = epoch[p]
      BY <1>1, <2>1, Calendar
    <2>2. CASE t + 1 = epoch[p]
      <3>1. epoch[p] + 1 = t + 2
        BY <1>1, <2>2
      <3>2. QED
        BY <3>1, Calendar
    <2>3. QED
      BY <2>1, <2>2
  <1>4. EpochStart(t + 2) \in Nat /\ EpochStart(epoch[p] + 1) \in Nat
    BY <1>1, Calendar
  <1>5. Alive(spendSet[t], now)
    BY <1>1, <1>2, <1>3, <1>4, NumbersNatural DEF SpendSetsLast, Alive
  <1>6. QED
    BY <1>5 DEF Members

\* A handler past its SADD has a token whose epoch its process accepts.
LEMMA TokenEpoch ==
  ASSUME Coherent, NEW h \in Task, task[h].pc \in {"expire", "verify"}, Proof(h).kind = "spend"
  PROVE  /\ Proof(h) \in Request
         /\ Proof(h).t \in Epoch
         /\ Proof(h).t = epoch[Home(h)] \/ Proof(h).t + 1 = epoch[Home(h)]
  <1>1. task[h].pc # "idle"
    OBVIOUS
  <1>2. Proof(h) \in Request
    BY <1>1, StartedTask DEF Coherent
  <1>3. QED
    BY <1>1, <1>2 DEF Coherent, TasksConsistent, Request

\* EXPIRE gives a set a time to live that reaches past the next epoch.
LEMMA SpendSetsLastStep ==
  SpendWindowCovered /\ Coherent /\ SpendSetsLast /\ [Next]_vars => SpendSetsLast'
  <1> SUFFICES ASSUME SpendWindowCovered, Coherent, SpendSetsLast, [Next]_vars
               PROVE  SpendSetsLast'
    OBVIOUS
  <1>1. ASSUME UNCHANGED spendSet PROVE SpendSetsLast'
    BY <1>1 DEF SpendSetsLast
  <1>2. ASSUME NEW h \in Task, AddSpendNullifier(h) PROVE SpendSetsLast'
    BY <1>2 DEF AddSpendNullifier, Sadd, SpendSetsLast, Coherent, TypeOK, NoTTL
  <1>3. ASSUME NEW h \in Task, ExpireSpendSet(h) PROVE SpendSetsLast'
    <2> DEFINE t == Proof(h).t
    <2>1. t \in Epoch /\ (t = epoch[Home(h)] \/ t + 1 = epoch[Home(h)])
      BY <1>3, TokenEpoch DEF ExpireSpendSet, At, Proof
    <2>2. EpochStart(t) <= now /\ now \in Nat
      <3>1. EpochStart(epoch[Home(h)]) <= now /\ now \in Nat
        BY HomesKnown DEF Coherent, TypeOK, EpochsTimely
      <3>2. EpochStart(t) \in Nat /\ EpochStart(t) < EpochStart(t + 1) /\ EpochStart(t + 1) \in Nat
        BY <2>1, Calendar
      <3>3. QED
        BY <2>1, <3>1, <3>2
    <2>3. now + NullifierTTL > EpochStart(t + 2) + RolloverLag
      BY <2>1, <2>2, Calendar, NumbersNatural DEF SpendWindowCovered, NullifierTTL
    <2> HIDE DEF t
    <2>4. spendSet' = [spendSet EXCEPT ![t] = Expire(@, NullifierTTL, now)]
      BY <1>3 DEF ExpireSpendSet, t
    <2>5. \/ Expire(spendSet[t], NullifierTTL, now) = spendSet[t]
          \/ Expire(spendSet[t], NullifierTTL, now).exp = now + NullifierTTL
      BY DEF Expire
    <2>6. QED
      BY <2>1, <2>3, <2>4, <2>5 DEF SpendSetsLast, Coherent, TypeOK
  <1>4. QED
    BY <1>1, <1>2, <1>3
    DEF Next, Handle, vars, redis, SendRefresh, SendSpend, Send, Receive, AnswerFromCache,
        Begin, Abort, Restart, Tick, Mint, ConsumeNonce, CheckBatchNonce, InsertBatchNonce,
        AddEpochNullifier, ExpireEpochSet, SignDaily, SignRefund, RejectProof, StoreAndReply

\* SADD for a spend: the only step that makes a claim on a token.
LEMMA SpendAdds ==
  ASSUME Coherent, SpendSetsLast, NEW h \in Task, AddSpendNullifier(h),
         task'[h] # Idle
  PROVE  /\ task[h] \in Busy
         /\ Proof(h).t \in Epoch
         /\ task'[h].pc = "expire"
         /\ task'[h].fresh = (Proof(h).tok \notin spendSet[Proof(h).t].members)
         /\ spendSet'[Proof(h).t].members = spendSet[Proof(h).t].members \cup {Proof(h).tok}
         /\ \A e \in Epoch : e # Proof(h).t => spendSet'[e] = spendSet[e]
  <1>1. task[h] \in Busy /\ Proof(h) \in Request /\ Proof(h).t \in Epoch
    BY HandleFrame DEF Handle, Coherent, Request
  <1>2. /\ Proof(h).t = epoch[Home(h)] \/ Proof(h).t + 1 = epoch[Home(h)]
        /\ task' = [task EXCEPT ![h].pc = "expire",
                                ![h].fresh = Proof(h).tok \notin Members(spendSet[Proof(h).t], now)]
        /\ spendSet' = [spendSet EXCEPT ![Proof(h).t] = Sadd(@, Proof(h).tok, now)]
    BY DEF AddSpendNullifier, Return, Coherent, TypeOK
  <1>3. Members(spendSet[Proof(h).t], now) = spendSet[Proof(h).t].members
    BY <1>1, <1>2, SpendSetAlive, HomesKnown
  <1>4. QED
    BY <1>1, <1>2, <1>3 DEF Coherent, TypeOK, Busy, Sadd

\* Only SADD changes who is in a spend set, and it only adds.
LEMMA SpendMembersKept ==
  ASSUME Coherent, SpendSetsLast, [Next]_vars, NEW e \in Epoch
  PROVE  spendSet[e].members \subseteq spendSet'[e].members
  <1>1. ASSUME NEW h \in Task, AddSpendNullifier(h)
        PROVE  spendSet[e].members \subseteq spendSet'[e].members
    <2>1. CASE task'[h] # Idle
      BY <1>1, <2>1, SpendAdds
    <2>2. CASE task'[h] = Idle
      <3>1. task[h] \in Busy
        BY <1>1, HandleFrame DEF Handle, Coherent
      <3>2. UNCHANGED spendSet
        BY <1>1, <2>2, <3>1 DEF AddSpendNullifier, Idle, Busy, Coherent, TypeOK
      <3>3. QED
        BY <3>2
    <2>3. QED
      BY <2>1, <2>2
  <1>2. ASSUME NEW h \in Task, ExpireSpendSet(h)
        PROVE  spendSet[e].members \subseteq spendSet'[e].members
    <2>1. Expire(spendSet[Proof(h).t], NullifierTTL, now).members = spendSet[Proof(h).t].members
      BY DEF Expire
    <2>2. QED
      BY <1>2, <2>1 DEF ExpireSpendSet, Coherent, TypeOK
  <1>3. QED
    BY <1>1, <1>2
    DEF Next, Handle, vars, redis, SendRefresh, SendSpend, Send, Receive, AnswerFromCache,
        Begin, Abort, Restart, Tick, Mint, ConsumeNonce, CheckBatchNonce, InsertBatchNonce,
        AddEpochNullifier, ExpireEpochSet, SignDaily, SignRefund, RejectProof, StoreAndReply

\* A claim on a token is made only by the SADD that found it unspent, and a
\* spend is signed only by the handler that claims its token.
LEMMA TokenOrigins ==
  ASSUME Coherent, SpendSetsLast, [Next]_vars
  PROVE  /\ \A h \in Task : ClaimsToken(h)' =>
              \/ ClaimsToken(h) /\ Proof(h)' = Proof(h)
              \/ /\ AddSpendNullifier(h)
                 /\ task'[h] # Idle
                 /\ Proof(h)' = Proof(h)
                 /\ Proof(h).tok \notin spendSet[Proof(h).t].members
         /\ \A k \in Key : SignedSpend(k)' =>
              /\ requests'[k] = requests[k]
              /\ \/ SignedSpend(k)
                 \/ \E h \in Task : /\ ClaimsToken(h)
                                    /\ task[h].key = k
                                    /\ ~ClaimsToken(h)'
  <1> USE DEF Coherent
  <1>1. ASSUME NEW h \in Task, ClaimsToken(h)'
        PROVE  \/ ClaimsToken(h) /\ Proof(h)' = Proof(h)
               \/ /\ AddSpendNullifier(h)
                  /\ task'[h] # Idle
                  /\ Proof(h)' = Proof(h)
                  /\ Proof(h).tok \notin spendSet[Proof(h).t].members
    <2>1. ASSUME NEW k \in Key, NEW r \in Request, Send(k, r)
          PROVE  ClaimsToken(h) /\ Proof(h)' = Proof(h)
      <3>1. UNCHANGED task
        BY <2>1 DEF Send
      <3>2. task[h].pc # "idle"
        BY <1>1, <3>1 DEF ClaimsToken
      <3>3. Proof(h).kind # "none" /\ task[h].key \in Key
        BY <3>2, StartedTask DEF TasksConsistent
      <3>4. Proof(h)' = Proof(h)
        BY <2>1, <3>1, <3>3, SendFrame DEF Proof
      <3>5. QED
        BY <1>1, <3>1, <3>4 DEF ClaimsToken
    <2>2. ASSUME NEW g \in Task, Handle(g) \/ Abort(g), g # h
          PROVE  ClaimsToken(h) /\ Proof(h)' = Proof(h)
      BY <1>1, <2>2, HandleFrame DEF ClaimsToken, Proof
    <2>3. ASSUME Handle(h) \/ Abort(h)
          PROVE  \/ ClaimsToken(h) /\ Proof(h)' = Proof(h)
                 \/ /\ AddSpendNullifier(h)
                    /\ task'[h] # Idle
                    /\ Proof(h)' = Proof(h)
                    /\ Proof(h).tok \notin spendSet[Proof(h).t].members
      <3>1. /\ task[h] \in Busy
            /\ UNCHANGED <<requests, epoch>>
            /\ task'[h] = Idle \/ task'[h].key = task[h].key
        BY <2>3, HandleFrame
      <3>2. /\ task'[h].pc \in {"expire", "verify"} /\ task'[h].fresh
            /\ task'[h] # Idle
            /\ Proof(h)' = Proof(h)
        BY <1>1, <3>1 DEF ClaimsToken, Proof, Idle
      <3>3. Proof(h).kind = "spend"
        BY <1>1, <3>1, <3>2 DEF ClaimsToken
      <3>4. CASE AddSpendNullifier(h)
        BY <3>2, <3>4, SpendAdds
      <3>5. CASE ExpireSpendSet(h)
        BY <3>1, <3>2, <3>3, <3>5 DEF ExpireSpendSet, AfterExpire, Return, At, ClaimsToken, TypeOK, Idle
      <3>6. CASE \/ ConsumeNonce(h) \/ CheckBatchNonce(h) \/ InsertBatchNonce(h)
                 \/ SignDaily(h) \/ SignRefund(h) \/ RejectProof(h) \/ StoreAndReply(h) \/ Abort(h)
        <4>1. \/ Return(h) \/ Goto(h, "insert") \/ Goto(h, "store")
              \/ TakeNonce(h, ByRedis(now)) \/ TakeNonce(h, ByBloom)
          BY <3>6 DEF ConsumeNonce, CheckBatchNonce, InsertBatchNonce, SignDaily, SignRefund,
                      RejectProof, StoreAndReply, Abort
        <4>2. QED
          BY <3>1, <3>2, <4>1 DEF Goto, TakeNonce, Return, TypeOK, Idle, Busy
      <3>7. CASE AddEpochNullifier(h) \/ ExpireEpochSet(h)
        BY <3>3, <3>7 DEF AddEpochNullifier, ExpireEpochSet, At, Proof
      <3>8. QED
        BY <2>3, <3>4, <3>5, <3>6, <3>7 DEF Handle
    <2>4. ASSUME NEW g \in Task, NEW k \in Key, Begin(g, k)
          PROVE  ClaimsToken(h) /\ Proof(h)' = Proof(h)
      BY <1>1, <2>4 DEF Begin, ClaimsToken, Proof, TypeOK, client
    <2>5. ASSUME NEW p \in Server, NEW e \in Epoch, Restart(p, e)
          PROVE  ClaimsToken(h) /\ Proof(h)' = Proof(h)
      BY <1>1, <2>5, HomesKnown DEF Restart, ClaimsToken, Proof, Idle, TypeOK, client
    <2>6. CASE UNCHANGED <<requests, task>>
      BY <1>1, <2>6 DEF ClaimsToken, Proof
    <2>7. QED
      BY <2>1, <2>2, <2>3, <2>4, <2>5, <2>6, SendsAreRequests
      DEF Next, vars, Receive, AnswerFromCache, Tick, Mint, client
  <1>2. ASSUME NEW k \in Key, SignedSpend(k)'
        PROVE  /\ requests'[k] = requests[k]
               /\ \/ SignedSpend(k)
                  \/ \E h \in Task : ClaimsToken(h) /\ task[h].key = k /\ ~ClaimsToken(h)'
    <2>1. CASE UNCHANGED <<requests, issued>>
      BY <1>2, <2>1 DEF SignedSpend
    <2>2. ASSUME NEW j \in Key, NEW r \in Request, Send(j, r)
          PROVE  requests'[k] = requests[k] /\ SignedSpend(k)
      <3>1. issued[k] > 0
        BY <1>2, <2>2 DEF SignedSpend, Send, history
      <3>2. requests'[k] = requests[k]
        BY <2>2, <3>1, SendFrame DEF AnswersSigned
      <3>3. QED
        BY <1>2, <3>1, <3>2 DEF SignedSpend
    <2>3. ASSUME NEW h \in Task, SignRefund(h)
          PROVE  /\ requests'[k] = requests[k]
                 /\ \/ SignedSpend(k)
                    \/ ClaimsToken(h) /\ task[h].key = k /\ ~ClaimsToken(h)'
      <3>1. /\ task[h] \in Busy /\ task[h].key \in Key /\ UNCHANGED requests
        BY <2>3, HandleFrame DEF Handle
      <3>2. CASE task[h].key # k
        BY <1>2, <2>3, <3>1, <3>2 DEF SignedSpend, SignRefund, TypeOK
      <3>3. CASE task[h].key = k
        <4>1. ClaimsToken(h)
          BY <2>3, <3>1 DEF SignRefund, At, ClaimsToken, TasksConsistent, Proof
        <4>2. task'[h].pc = "store"
          BY <2>3, <3>1 DEF SignRefund, Goto, TypeOK
        <4>3. QED
          BY <3>1, <3>3, <4>1, <4>2 DEF ClaimsToken
      <3>4. QED
        BY <3>2, <3>3
    <2>4. ASSUME NEW h \in Task, SignDaily(h)
          PROVE  requests'[k] = requests[k] /\ SignedSpend(k)
      <3>1. /\ task[h] \in Busy /\ task[h].key \in Key /\ UNCHANGED requests
        BY <2>4, HandleFrame DEF Handle
      <3>2. task[h].key # k
        BY <1>2, <2>4, <3>1 DEF SignedSpend, SignDaily, At
      <3>3. QED
        BY <1>2, <2>4, <3>1, <3>2 DEF SignedSpend, SignDaily, TypeOK
    <2>5. QED
      BY <2>1, <2>2, <2>3, <2>4, SendsAreRequests
      DEF Next, Handle, vars, client, redis, history, Receive, AnswerFromCache,
          Begin, Abort, Restart, Tick, Mint, ConsumeNonce, CheckBatchNonce, InsertBatchNonce,
          AddEpochNullifier, AddSpendNullifier, ExpireEpochSet, ExpireSpendSet,
          RejectProof, StoreAndReply
  <1>3. QED
    BY <1>1, <1>2

\* What a claim or a signature needs is in the set, and stays there.
LEMMA TokensRecordedStep ==
  Coherent /\ SpendSetsLast /\ TokensRecorded /\ [Next]_vars => TokensRecorded'
  <1> SUFFICES ASSUME Coherent, SpendSetsLast, TokensRecorded, [Next]_vars
               PROVE  TokensRecorded'
    OBVIOUS
  <1>1. ASSUME NEW h \in Task, ClaimsToken(h)
        PROVE  /\ Proof(h).t \in Epoch
               /\ Proof(h).tok \in spendSet'[Proof(h).t].members
    <2>1. Proof(h).t \in Epoch
      BY <1>1, TokenEpoch DEF ClaimsToken
    <2>2. QED
      BY <1>1, <2>1, SpendMembersKept DEF TokensRecorded
  <1>2. ASSUME NEW h \in Task, ClaimsToken(h)'
        PROVE  (Proof(h).tok \in spendSet[Proof(h).t].members)'
    <2>1. CASE ClaimsToken(h) /\ Proof(h)' = Proof(h)
      BY <1>1, <2>1
    <2>2. CASE AddSpendNullifier(h) /\ task'[h] # Idle /\ Proof(h)' = Proof(h)
      BY <2>2, SpendAdds
    <2>3. QED
      BY <1>2, <2>1, <2>2, TokenOrigins
  <1>3. ASSUME NEW k \in Key, SignedSpend(k)'
        PROVE  (requests[k].tok \in spendSet[requests[k].t].members)'
    <2>1. requests[k].t \in Epoch /\ requests'[k] = requests[k]
      BY <1>3, TokenOrigins DEF Coherent, TypeOK, Request
    <2>2. CASE SignedSpend(k)
      BY <2>1, <2>2, SpendMembersKept DEF TokensRecorded
    <2>3. ASSUME NEW h \in Task, ClaimsToken(h), task[h].key = k
          PROVE  requests[k].tok \in spendSet'[requests[k].t].members
      BY <1>1, <2>3 DEF Proof
    <2>4. QED
      BY <1>3, <2>1, <2>2, <2>3, TokenOrigins
  <1>4. QED
    BY <1>2, <1>3 DEF TokensRecorded

\* A new claim is on a token nobody claims or has redeemed; a claim that turns
\* into a redemption was the token's only one.
LEMMA TokensExclusiveStep ==
  /\ Coherent /\ SpendSetsLast /\ TokensRecorded /\ TokensExclusive /\ SingleRedemption
  /\ [Next]_vars
  => /\ TokensExclusive'
     /\ \A k1, k2 \in Key :
          (SignedSpend(k1) /\ SignedSpend(k2) /\ requests[k1].tok = requests[k2].tok)' => k1 = k2
  <1> SUFFICES ASSUME Coherent, SpendSetsLast, TokensRecorded, TokensExclusive, SingleRedemption,
                      [Next]_vars
               PROVE  /\ TokensExclusive'
                      /\ \A k1, k2 \in Key :
                           (SignedSpend(k1) /\ SignedSpend(k2)
                              /\ requests[k1].tok = requests[k2].tok)' => k1 = k2
    OBVIOUS
  <1> DEFINE Old(h) == ClaimsToken(h) /\ Proof(h)' = Proof(h)
             New(h) == /\ AddSpendNullifier(h)
                       /\ task'[h] # Idle
                       /\ Proof(h)' = Proof(h)
                       /\ Proof(h).tok \notin spendSet[Proof(h).t].members
             Signs(h, k) == ClaimsToken(h) /\ task[h].key = k /\ ~ClaimsToken(h)'
  <1>1. \A h \in Task : ClaimsToken(h)' => Old(h) \/ New(h)
    BY TokenOrigins
  <1>2. \A k \in Key : SignedSpend(k)' =>
          /\ requests'[k] = requests[k]
          /\ SignedSpend(k) \/ \E h \in Task : Signs(h, k)
    BY TokenOrigins
  <1>3. \A k \in Key : requests[k].kind = "spend" => requests[k].t = requests[requests[k].tok].t
    BY DEF Coherent, RequestsHonest
  <1>4. \A h \in Task : ClaimsToken(h) \/ New(h) =>
          /\ task[h].key \in Key
          /\ Proof(h).kind = "spend"
          /\ Proof(h).t = requests[Proof(h).tok].t
    <2> SUFFICES ASSUME NEW h \in Task, ClaimsToken(h) \/ New(h)
                 PROVE  task[h].key \in Key /\ Proof(h).kind = "spend"
      BY <1>3 DEF Proof
    <2>1. task[h].pc # "idle" /\ Proof(h).kind = "spend"
      BY DEF ClaimsToken, AddSpendNullifier, At, Proof
    <2>2. QED
      BY <2>1, StartedTask DEF Coherent
  <1>5. ASSUME NEW h1 \in Task, NEW h2 \in Task, ClaimsToken(h1)', ClaimsToken(h2)',
               Proof(h1)'.tok = Proof(h2)'.tok
        PROVE  h1 = h2
    <2>1. Proof(h1).tok = Proof(h2).tok /\ Proof(h1).t = Proof(h2).t
      BY <1>1, <1>4, <1>5
    <2>2. CASE Old(h1) /\ Old(h2)
      BY <2>1, <2>2 DEF TokensExclusive
    <2>3. CASE \/ New(h1) /\ Old(h2)
               \/ New(h2) /\ Old(h1)
      BY <2>1, <2>3 DEF TokensRecorded
    <2>4. CASE New(h1) /\ New(h2)
      <3>1. h1 # h2 => task'[h2] = task[h2]
        BY <2>4, HandleFrame DEF Handle, Coherent
      <3>2. task[h2].pc = "nullify" /\ task'[h2].pc \in {"expire", "verify"}
        BY <1>5, <2>4 DEF AddSpendNullifier, At, ClaimsToken
      <3>3. QED
        BY <3>1, <3>2
    <2>5. QED
      BY <1>1, <1>5, <2>2, <2>3, <2>4
  <1>6. ASSUME NEW h \in Task, NEW k \in Key, ClaimsToken(h)', SignedSpend(k)'
        PROVE  Proof(h)'.tok # requests'[k].tok
    <2>1. Proof(h)' = Proof(h) /\ requests'[k] = requests[k]
      BY <1>1, <1>2, <1>6
    <2>2. CASE Old(h) /\ SignedSpend(k)
      BY <2>1, <2>2 DEF TokensExclusive
    <2>3. CASE New(h) /\ SignedSpend(k)
      BY <1>3, <1>4, <2>1, <2>3 DEF TokensRecorded, SignedSpend
    <2>4. ASSUME NEW g \in Task, Signs(g, k), New(h)
          PROVE  Proof(h).tok # requests[k].tok
      BY <1>4, <2>4 DEF TokensRecorded, Proof
    <2>5. ASSUME NEW g \in Task, Signs(g, k), Old(h)
          PROVE  Proof(h).tok # requests[k].tok
      <3>1. g # h
        BY <1>6, <2>5
      <3>2. QED
        BY <2>5, <3>1 DEF TokensExclusive, Proof
    <2>6. QED
      BY <1>1, <1>2, <1>6, <2>1, <2>2, <2>3, <2>4, <2>5
  <1>7. ASSUME NEW k1 \in Key, NEW k2 \in Key, SignedSpend(k1)', SignedSpend(k2)',
               requests'[k1].tok = requests'[k2].tok
        PROVE  k1 = k2
    <2>1. requests[k1].tok = requests[k2].tok
      BY <1>2, <1>7
    <2>2. CASE SignedSpend(k1) /\ SignedSpend(k2)
      BY <2>1, <2>2 DEF SingleRedemption
    <2>3. ASSUME NEW g \in Task, \/ Signs(g, k1) /\ SignedSpend(k2)
                                 \/ Signs(g, k2) /\ SignedSpend(k1)
          PROVE  FALSE
      BY <2>1, <2>3 DEF TokensExclusive, Proof
    <2>4. ASSUME NEW g1 \in Task, NEW g2 \in Task, Signs(g1, k1), Signs(g2, k2)
          PROVE  k1 = k2
      BY <2>1, <2>4 DEF TokensExclusive, Proof
    <2>5. QED
      BY <1>2, <1>7, <2>2, <2>3, <2>4
  <1>8. QED
    BY <1>5, <1>6, <1>7 DEF TokensExclusive

\* No request is signed a second time: its handler's claim excludes that.
LEMMA IssuedOnceStep ==
  Coherent /\ DailyExclusive /\ TokensExclusive /\ SingleRedemption /\ [Next]_vars
    => \A k \in Key : issued'[k] <= 1
  <1> SUFFICES ASSUME Coherent, DailyExclusive, TokensExclusive, SingleRedemption, [Next]_vars,
                      NEW k \in Key
               PROVE  issued'[k] <= 1
    OBVIOUS
  <1>1. issued[k] \in Nat /\ issued[k] <= 1
    BY DEF Coherent, TypeOK, SingleRedemption
  <1>2. ASSUME NEW h \in Task, SignDaily(h) \/ SignRefund(h)
        PROVE  issued'[k] <= 1
    <2>1. /\ task[h].key \in Key
          /\ issued' = [issued EXCEPT ![task[h].key] = @ + 1]
      BY <1>2, HandleFrame DEF Handle, SignDaily, SignRefund, Coherent
    <2>2. task[h].fresh /\ task[h].pc = "verify"
      BY <1>2, <2>1 DEF SignDaily, SignRefund, At, Coherent, TasksConsistent
    <2>3. issued[task[h].key] \in Nat /\ ~(issued[task[h].key] > 0)
      <3>1. CASE SignDaily(h)
        <4>1. ClaimsDaily(h) /\ Proof(h).kind = "refresh"
          BY <2>2, <3>1 DEF ClaimsDaily, SignDaily, At, Proof, RefreshProofHolds
        <4>2. QED
          BY <2>1, <4>1 DEF DailyExclusive, SignedRefresh, Proof, Coherent, TypeOK
      <3>2. CASE SignRefund(h)
        <4>1. ClaimsToken(h) /\ Proof(h).kind = "spend"
          BY <2>2, <3>2 DEF ClaimsToken, SignRefund, At, Proof
        <4>2. QED
          BY <2>1, <4>1 DEF TokensExclusive, SignedSpend, Proof, Coherent, TypeOK
      <3>3. QED
        BY <1>2, <3>1, <3>2
    <2>4. QED
      BY <1>1, <2>1, <2>3 DEF Coherent, TypeOK
  <1>3. \/ UNCHANGED issued
        \/ \E h \in Task : SignDaily(h) \/ SignRefund(h)
    BY DEF Next, Handle, vars, history, SendRefresh, SendSpend, Send, Receive,
           AnswerFromCache, Begin, Abort, Restart, Tick, Mint, ConsumeNonce, CheckBatchNonce,
           InsertBatchNonce, AddEpochNullifier, AddSpendNullifier, ExpireEpochSet,
           ExpireSpendSet, RejectProof, StoreAndReply
  <1>4. QED
    BY <1>1, <1>2, <1>3

\* A set that outlives two epochs outlives one.
LEMMA SpendWindowIsLonger == SpendWindowCovered => RefreshWindowCovered
  BY Calendar, NumbersNatural DEF SpendWindowCovered, RefreshWindowCovered, NullifierTTL

\* The facts behind both promises hold at the start ...
LEMMA SafeInit == Init => Coherent /\ DailySafe /\ SpendSafe
  BY CoherentInit
  DEF Init, DailySafe, EpochSetsLast, DailyRecorded, DailyExclusive, OneDailyToken,
      ClaimsDaily, SignedRefresh, SpendSafe, SpendSetsLast, TokensRecorded, TokensExclusive,
      SingleRedemption, ClaimsToken, SignedSpend, Idle, NoSet

\* ... and every step keeps them, if the sets live long enough.
LEMMA SafeStep ==
  SpendWindowCovered /\ Coherent /\ DailySafe /\ SpendSafe /\ [Next]_vars
    => (Coherent /\ DailySafe /\ SpendSafe)'
  <1> SUFFICES ASSUME SpendWindowCovered, Coherent, DailySafe, SpendSafe, [Next]_vars
               PROVE  (Coherent /\ DailySafe /\ SpendSafe)'
    OBVIOUS
  <1>1. Coherent' /\ DailySafe'
    BY SpendWindowIsLonger, CoherentStep, EpochSetsLastStep, DailyRecordedStep,
       DailyExclusiveStep DEF DailySafe
  <1>2. SpendSetsLast' /\ TokensRecorded' /\ TokensExclusive'
    BY SpendSetsLastStep, TokensRecordedStep, TokensExclusiveStep DEF SpendSafe
  <1>3. SingleRedemption'
    <2>1. \A k \in Key : issued'[k] <= 1
      BY IssuedOnceStep DEF DailySafe, SpendSafe
    <2>2. \A k1, k2 \in Key :
            (SignedSpend(k1) /\ SignedSpend(k2) /\ requests[k1].tok = requests[k2].tok)' => k1 = k2
      BY TokensExclusiveStep DEF SpendSafe
    <2>3. QED
      BY <2>1, <2>2 DEF SingleRedemption
  <1>4. QED
    BY <1>1, <1>2, <1>3 DEF SpendSafe

\* No token is redeemed twice and no request signed twice, whatever the
\* interleaving of handlers, restarts, retries and expiring keys, provided a
\* nullifier set outlives the two epochs in which its tokens are accepted
\* (check_spend_nullifier, handle_spend).
THEOREM TokenRedeemedOnce == SpendWindowCovered => (Spec => []SingleRedemption)
  <1> SUFFICES ASSUME SpendWindowCovered PROVE Spec => []SingleRedemption
    OBVIOUS
  <1>1. SpendSafe => SingleRedemption
    BY DEF SpendSafe
  <1>2. QED
    BY <1>1, SafeInit, SafeStep, PTL DEF Spec

\* The nullifier of a redeemed token is in the live set of every process that
\* still accepts the token's epoch, under the same condition.
THEOREM RedeemedTokensRemembered == SpendWindowCovered => (Spec => []NullifierRemembered)
  <1> SUFFICES ASSUME SpendWindowCovered PROVE Spec => []NullifierRemembered
    OBVIOUS
  <1>1. Coherent /\ SpendSafe => NullifierRemembered
    <2> SUFFICES ASSUME Coherent, SpendSafe, NEW k \in Key, NEW p \in Server, SignedSpend(k),
                        requests[k].t \in {epoch[p], epoch[p] - 1}
                 PROVE  requests[k].tok \in Members(spendSet[requests[k].t], now)
      BY DEF NullifierRemembered
    <2>1. requests[k].t \in Epoch /\ epoch[p] \in Epoch
      BY DEF Coherent, TypeOK, Request
    <2>2. requests[k].t = epoch[p] \/ requests[k].t + 1 = epoch[p]
      BY <2>1 DEF Epoch
    <2>3. Members(spendSet[requests[k].t], now) = spendSet[requests[k].t].members
      BY <2>1, <2>2, SpendSetAlive DEF SpendSafe
    <2>4. QED
      BY <2>3 DEF SpendSafe, TokensRecorded
  <1>2. QED
    BY <1>1, SafeInit, SafeStep, PTL DEF Spec

-----------------------------------------------------------------------------
(* The rate limit and the ledger                                           *)

\* All steps but the two signatures leave signed requests, signatures and
\* spending alone.
LEMMA OnlySigningCounts ==
  ASSUME Coherent, [Next]_vars
  PROVE  \/ /\ UNCHANGED <<issued, spent>>
            /\ \A k \in Key : issued[k] > 0 => requests'[k] = requests[k]
         \/ \E h \in Task : SignDaily(h) \/ SignRefund(h)
  <1>1. ASSUME NEW k \in Key, NEW r \in Request, Send(k, r)
        PROVE  /\ UNCHANGED <<issued, spent>>
               /\ \A j \in Key : issued[j] > 0 => requests'[j] = requests[j]
    BY <1>1, SendFrame DEF Coherent, AnswersSigned, Send, history
  <1>2. \/ UNCHANGED <<requests, issued, spent>>
        \/ \E k \in Key, r \in Request : Send(k, r)
        \/ \E h \in Task : SignDaily(h) \/ SignRefund(h)
    BY SendsAreRequests
    DEF Next, Handle, vars, client, history, Receive, AnswerFromCache, Coherent,
        Begin, Abort, Restart, Tick, Mint, ConsumeNonce, CheckBatchNonce, InsertBatchNonce,
        AddEpochNullifier, AddSpendNullifier, ExpireEpochSet, ExpireSpendSet,
        RejectProof, StoreAndReply
  <1>3. QED
    BY <1>1, <1>2

\* The handler that signs a daily token signs the first token of its account.
LEMMA DailyIsFirst ==
  ASSUME IInv, NEW h \in Task, SignDaily(h)
  PROVE  /\ task[h].key \in Key
         /\ requests[task[h].key] \in Request
         /\ requests[task[h].key].kind = "refresh"
         /\ spent[AccountOf(requests[task[h].key])] = 0
         /\ \A k \in Key : issued[k] > 0 =>
              AccountOf(requests[k]) # AccountOf(requests[task[h].key])
         /\ issued[task[h].key] = 0
         /\ issued' = [issued EXCEPT ![task[h].key] = 1]
         /\ UNCHANGED <<requests, spent>>
  <1> DEFINE k == task[h].key
             a == AccountOf(requests[k])
  <1>1. k \in Key /\ requests[k] \in Request /\ a \in Account
    BY HandleFrame DEF IInv, Coherent, Handle, Proof, AccountOf, Request, Account
  <1>2. ClaimsDaily(h)
    BY <1>1 DEF SignDaily, At, RefreshProofHolds, ClaimsDaily, IInv, Coherent, TasksConsistent, Proof
  <1>3. \A r \in Key : SignedRefresh(r) => AccountOf(requests[r]) # a
    BY <1>2 DEF IInv, DailySafe, DailyExclusive, Proof
  <1>4. spent[a] = 0
    BY <1>1, <1>3 DEF IInv, BalancesExact, Coherent, TypeOK
  <1>5. \A j \in Key : issued[j] > 0 => AccountOf(requests[j]) # a
    BY <1>3 DEF IInv, BalancesExact
  <1>6. issued[k] = 0
    BY <1>1, <1>5 DEF IInv, Coherent, TypeOK
  <1>7. QED
    BY <1>1, <1>4, <1>5, <1>6 DEF SignDaily, At, client

\* The handler that signs a refund replaces its account's one live token.
LEMMA RefundReplacesLive ==
  ASSUME IInv, NEW h \in Task, SignRefund(h)
  PROVE  LET k == task[h].key
             r == requests[k]
         IN
         /\ k \in Key
         /\ r \in Request /\ r.kind = "spend"
         /\ AccountOf(r) \in Account
         /\ r.tok \in Key /\ r.tok # k
         /\ Live(r.tok)
         /\ AccountOf(requests[r.tok]) = AccountOf(r)
         /\ r.s > 0
         /\ r.bal = CMax - (spent[AccountOf(r)] + r.s)
         /\ issued[k] = 0
         /\ issued' = [issued EXCEPT ![k] = 1]
         /\ spent' = [spent EXCEPT ![AccountOf(r)] = @ + r.s]
         /\ UNCHANGED requests
  <1> DEFINE k == task[h].key
             r == requests[k]
  <1>1. k \in Key /\ r \in Request /\ AccountOf(r) \in Account /\ r = Proof(h)
    BY HandleFrame DEF IInv, Coherent, Handle, Proof, AccountOf, Request, Account
  <1>2. r.kind = "spend" /\ ClaimsToken(h)
    BY <1>1 DEF SignRefund, At, ClaimsToken, IInv, Coherent, TasksConsistent
  <1>3. /\ r.tok \in Key /\ issued[r.tok] > 0 /\ r.s > 0
        /\ AccountOf(requests[r.tok]) = AccountOf(r)
        /\ r.bal + r.s = requests[r.tok].bal
    BY <1>1 DEF SignRefund, SpendProofHolds
  <1>4. \A j \in Key : SignedSpend(j) => requests[j].tok # r.tok
    BY <1>1, <1>2 DEF IInv, SpendSafe, TokensExclusive
  <1>5. Live(r.tok)
    BY <1>3, <1>4 DEF Live
  <1>6. issued[k] = 0
    <2>1. issued[k] \in Nat
      BY <1>1 DEF IInv, Coherent, TypeOK
    <2>2. ~SignedSpend(k)
      BY <1>1, <1>4
    <2>3. QED
      BY <1>2, <2>1, <2>2 DEF SignedSpend
  <1>7. r.tok # k
    BY <1>3, <1>6
  <1>8. r.bal = CMax - (spent[AccountOf(r)] + r.s)
    <2>1. requests[r.tok].bal = CMax - spent[AccountOf(r)]
      BY <1>3, <1>5 DEF IInv, BalancesExact
    <2>2. r.bal \in Int /\ r.s \in Int /\ spent[AccountOf(r)] \in Int /\ CMax \in Int
      BY <1>1, NumbersNatural DEF Request, IInv, Coherent, TypeOK
    <2>3. QED
      BY <1>3, <2>1, <2>2
  <1>9. /\ issued' = [issued EXCEPT ![k] = 1]
        /\ spent' = [spent EXCEPT ![AccountOf(r)] = @ + r.s]
        /\ UNCHANGED requests
    BY <1>1, <1>6 DEF SignRefund, client, Proof
  <1>10. QED
    BY <1>1, <1>2, <1>3, <1>5, <1>6, <1>7, <1>8, <1>9

\* Every account's live token is worth exactly what it has not spent.
LEMMA BalancesExactStep == IInv /\ [Next]_vars => BalancesExact'
  <1> SUFFICES ASSUME IInv, [Next]_vars PROVE BalancesExact'
    OBVIOUS
  <1>1. CASE /\ UNCHANGED <<issued, spent>>
             /\ \A k \in Key : issued[k] > 0 => requests'[k] = requests[k]
    <2>1. \A k \in Key : /\ SignedRefresh(k)' <=> SignedRefresh(k)
                         /\ SignedSpend(k)' <=> SignedSpend(k)
      BY <1>1 DEF SignedRefresh, SignedSpend
    <2>2. \A k \in Key : issued[k] > 0 => AccountOf(requests[k])' = AccountOf(requests[k])
      BY <1>1 DEF AccountOf
    <2>3. \A k \in Key : Live(k)' <=> Live(k)
      BY <1>1, <2>1 DEF Live, SignedSpend
    <2>4. /\ \A a \in Account : spent'[a] <= CMax
          /\ \A a \in Account : spent'[a] > 0 =>
               \E r \in Key : SignedRefresh(r)' /\ AccountOf(requests[r])' = a
          /\ \A k \in Key : issued'[k] > 0 =>
               \E r \in Key : SignedRefresh(r)' /\ AccountOf(requests[r])' = AccountOf(requests[k])'
      BY <1>1, <2>1, <2>2 DEF IInv, BalancesExact, SignedRefresh
    <2>5. /\ \A k1, k2 \in Key :
               Live(k1)' /\ Live(k2)' /\ AccountOf(requests[k1])' = AccountOf(requests[k2])'
                 => k1 = k2
          /\ \A k \in Key : Live(k)' => requests'[k].bal = CMax - spent'[AccountOf(requests[k])']
      BY <1>1, <2>2, <2>3 DEF IInv, BalancesExact, Live
    <2>6. QED
      BY <2>4, <2>5 DEF BalancesExact
  <1>2. ASSUME NEW h \in Task, SignDaily(h) PROVE BalancesExact'
    <2> DEFINE k == task[h].key
               a == AccountOf(requests[k])
    <2>1. /\ k \in Key /\ requests[k] \in Request /\ requests[k].kind = "refresh"
          /\ spent[a] = 0
          /\ \A j \in Key : issued[j] > 0 => AccountOf(requests[j]) # a
          /\ issued[k] = 0
          /\ issued' = [issued EXCEPT ![k] = 1]
          /\ UNCHANGED <<requests, spent>>
      BY <1>2, DailyIsFirst
    <2>2. requests[k].bal = CMax
      BY <2>1 DEF IInv, Coherent, RequestsHonest
    <2> HIDE DEF k
    <2>3. \A j \in Key : issued'[j] > 0 <=> issued[j] > 0 \/ j = k
      BY <2>1 DEF IInv, Coherent, TypeOK
    <2>4. \A j \in Key : /\ SignedSpend(j)' <=> SignedSpend(j)
                         /\ SignedRefresh(j)' <=> SignedRefresh(j) \/ j = k
                         /\ AccountOf(requests[j])' = AccountOf(requests[j])
      BY <2>1, <2>3 DEF SignedSpend, SignedRefresh, AccountOf
    <2>5. \A j \in Key : SignedSpend(j) => requests[j].tok # k
      BY <2>1 DEF SignedSpend, IInv, Coherent, RequestsHonest
    <2>6. \A j \in Key : Live(j)' <=> Live(j) \/ j = k
      BY <2>1, <2>3, <2>4, <2>5 DEF Live
    <2>7. /\ \A b \in Account : spent'[b] <= CMax
          /\ \A b \in Account : spent'[b] > 0 =>
               \E r \in Key : SignedRefresh(r)' /\ AccountOf(requests[r])' = b
          /\ \A j \in Key : issued'[j] > 0 =>
               \E r \in Key : SignedRefresh(r)' /\ AccountOf(requests[r])' = AccountOf(requests[j])'
      BY <2>1, <2>3, <2>4 DEF IInv, BalancesExact
    <2>8. \A k1, k2 \in Key :
            Live(k1)' /\ Live(k2)' /\ AccountOf(requests[k1])' = AccountOf(requests[k2])'
              => k1 = k2
      BY <2>1, <2>4, <2>6 DEF IInv, BalancesExact, Live
    <2>9. \A j \in Key : Live(j)' => requests'[j].bal = CMax - spent'[AccountOf(requests[j])']
      <3>1. requests'[k].bal = CMax - spent'[a]
        BY <2>1, <2>2, NumbersNatural
      <3>2. QED
        BY <2>1, <2>4, <2>6, <3>1 DEF IInv, BalancesExact
    <2>10. QED
      BY <2>7, <2>8, <2>9 DEF BalancesExact
  <1>3. ASSUME NEW h \in Task, SignRefund(h) PROVE BalancesExact'
    <2> DEFINE k == task[h].key
               r == requests[k]
               a == AccountOf(r)
    <2>1. /\ k \in Key /\ r \in Request /\ r.kind = "spend" /\ a \in Account
          /\ r.tok \in Key /\ r.tok # k /\ Live(r.tok)
          /\ AccountOf(requests[r.tok]) = a
          /\ r.bal = CMax - (spent[a] + r.s)
          /\ issued[k] = 0
          /\ issued' = [issued EXCEPT ![k] = 1]
          /\ spent' = [spent EXCEPT ![a] = @ + r.s]
          /\ UNCHANGED requests
      BY <1>3, RefundReplacesLive
    <2>2. r.s \in Nat /\ r.bal \in Nat /\ spent[a] \in Nat /\ CMax \in Nat
      BY <2>1, NumbersNatural DEF Request, IInv, Coherent, TypeOK
    <2> HIDE DEF k
    <2>3. \A j \in Key : issued'[j] > 0 <=> issued[j] > 0 \/ j = k
      BY <2>1 DEF IInv, Coherent, TypeOK
    <2>4. \A j \in Key : /\ SignedSpend(j)' <=> SignedSpend(j) \/ j = k
                         /\ SignedRefresh(j)' <=> SignedRefresh(j)
                         /\ AccountOf(requests[j])' = AccountOf(requests[j])
      BY <2>1, <2>3 DEF SignedSpend, SignedRefresh, AccountOf
    <2>5. \A j \in Key : SignedSpend(j) => requests[j].tok # k
      BY <2>1 DEF SignedSpend, IInv, Coherent, RequestsHonest
    <2>6. \A j \in Key : Live(j)' <=> (Live(j) /\ j # r.tok) \/ j = k
      BY <2>1, <2>3, <2>4, <2>5 DEF Live
    <2>7. spent'[a] = spent[a] + r.s /\ \A b \in Account : b # a => spent'[b] = spent[b]
      BY <2>1 DEF IInv, Coherent, TypeOK
    <2>8. \E q \in Key : SignedRefresh(q) /\ AccountOf(requests[q]) = a
      BY <2>1 DEF IInv, BalancesExact, Live
    <2>9. \A b \in Account : spent'[b] <= CMax
      <3>1. spent'[a] <= CMax
        BY <2>1, <2>2, <2>7
      <3>2. QED
        BY <2>7, <3>1 DEF IInv, BalancesExact
    <2>10. /\ \A b \in Account : spent'[b] > 0 =>
                \E q \in Key : SignedRefresh(q)' /\ AccountOf(requests[q])' = b
           /\ \A j \in Key : issued'[j] > 0 =>
                \E q \in Key : SignedRefresh(q)' /\ AccountOf(requests[q])' = AccountOf(requests[j])'
      BY <2>1, <2>3, <2>4, <2>7, <2>8 DEF IInv, BalancesExact
    <2>11. \A j \in Key : Live(j) /\ AccountOf(requests[j]) = a => j = r.tok
      BY <2>1 DEF IInv, BalancesExact
    <2>12. \A k1, k2 \in Key :
             Live(k1)' /\ Live(k2)' /\ AccountOf(requests[k1])' = AccountOf(requests[k2])'
               => k1 = k2
      BY <2>4, <2>6, <2>11 DEF IInv, BalancesExact
    <2>13. \A j \in Key : Live(j)' => requests'[j].bal = CMax - spent'[AccountOf(requests[j])']
      <3> SUFFICES ASSUME NEW j \in Key, Live(j)'
                   PROVE  requests[j].bal = CMax - spent'[AccountOf(requests[j])]
        BY <2>1, <2>4
      <3>1. CASE j = k
        BY <2>1, <2>7, <3>1
      <3>2. CASE j # k
        <4>1. Live(j) /\ AccountOf(requests[j]) # a
          BY <2>6, <2>11, <3>2
        <4>2. AccountOf(requests[j]) \in Account
          BY DEF AccountOf, Account, Request, IInv, Coherent, TypeOK
        <4>3. QED
          BY <2>7, <4>1, <4>2 DEF IInv, BalancesExact
      <3>3. QED
        BY <3>1, <3>2
    <2>14. QED
      BY <2>9, <2>10, <2>12, <2>13 DEF BalancesExact
  <1>4. QED
    BY <1>1, <1>2, <1>3, OnlySigningCounts DEF IInv

\* The inductive invariant holds at the start ...
LEMMA InvariantHolds == Init => IInv
  <1> SUFFICES ASSUME Init PROVE BalancesExact
    BY SafeInit DEF IInv
  <1>1. QED
    BY NumbersNatural DEF Init, BalancesExact, Live, SignedRefresh

\* ... and every step keeps it, if the sets live long enough.
LEMMA InvariantKept == SpendWindowCovered /\ IInv /\ [Next]_vars => IInv'
  BY SafeStep, BalancesExactStep DEF IInv

\* No subscriber is granted more than c_max of an epoch, over any number of
\* refunds, processes and retries, provided a nullifier set outlives the two
\* epochs in which its tokens are accepted (handle_refresh, handle_spend).
THEOREM RateLimited == SpendWindowCovered => (Spec => []RateLimit)
  <1> SUFFICES ASSUME SpendWindowCovered PROVE Spec => []RateLimit
    OBVIOUS
  <1>1. IInv => RateLimit
    BY DEF IInv, BalancesExact, RateLimit
  <1>2. QED
    BY <1>1, InvariantHolds, InvariantKept, PTL DEF Spec

-----------------------------------------------------------------------------
(* Refinement                                                              *)

\* What an account has: a grant, once some daily token of it is signed.
Granted(a) == \E k \in Key : SignedRefresh(k) /\ AccountOf(requests[k]) = a

\* The ledger's variable, before and after a step.
LEMMA AllowanceOf ==
  /\ Allowance = [a \in Account |-> IF Granted(a) THEN CMax - spent[a] ELSE -1]
  /\ Allowance' = [a \in Account |-> IF Granted(a)' THEN CMax - spent'[a] ELSE -1]
  BY DEF Allowance, Granted

\* Signing a daily token grants the allowance, signing a refund takes the
\* amount from it, and every other step leaves it alone.
LEMMA LedgerStep ==
  ASSUME IInv, IInv', [Next]_vars
  PROVE  [Ledger!Next]_Allowance
  <1>1. CASE /\ UNCHANGED <<issued, spent>>
             /\ \A k \in Key : issued[k] > 0 => requests'[k] = requests[k]
    <2>1. \A k \in Key : SignedRefresh(k)' <=> SignedRefresh(k)
      BY <1>1 DEF SignedRefresh
    <2>2. \A a \in Account : Granted(a)' <=> Granted(a)
      BY <1>1, <2>1 DEF Granted, SignedRefresh, AccountOf
    <2>3. QED
      BY <1>1, <2>2, AllowanceOf
  <1>2. ASSUME NEW h \in Task, SignDaily(h) PROVE Ledger!Next
    <2> DEFINE k == task[h].key
               a == AccountOf(requests[k])
    <2>1. /\ k \in Key /\ requests[k] \in Request /\ requests[k].kind = "refresh"
          /\ spent[a] = 0
          /\ \A j \in Key : issued[j] > 0 => AccountOf(requests[j]) # a
          /\ issued[k] = 0
          /\ issued' = [issued EXCEPT ![k] = 1]
          /\ UNCHANGED <<requests, spent>>
      BY <1>2, DailyIsFirst
    <2> HIDE DEF k
    <2>2. a \in Account
      BY <2>1 DEF AccountOf, Account, Request
    <2>3. \A j \in Key : SignedRefresh(j)' <=> SignedRefresh(j) \/ j = k
      BY <2>1 DEF SignedRefresh, IInv, Coherent, TypeOK
    <2>4. ~Granted(a) /\ \A b \in Account : Granted(b)' <=> Granted(b) \/ b = a
      BY <2>1, <2>3 DEF Granted, SignedRefresh, AccountOf
    <2>5. Allowance[a] = -1 /\ Allowance' = [Allowance EXCEPT ![a] = CMax]
      <3>1. CMax - spent[a] = CMax
        BY <2>1, NumbersNatural
      <3>2. QED
        BY <2>1, <2>2, <2>4, <3>1, AllowanceOf
    <2>6. Ledger!Grant(a) /\ a \in Ledger!Account
      BY <2>2, <2>5 DEF Ledger!Grant, Ledger!NotGranted, Ledger!Account, Account
    <2>7. QED
      BY <2>6 DEF Ledger!Next
  <1>3. ASSUME NEW h \in Task, SignRefund(h) PROVE Ledger!Next
    <2> DEFINE k == task[h].key
               r == requests[k]
               a == AccountOf(r)
    <2>1. /\ k \in Key /\ r \in Request /\ r.kind = "spend" /\ a \in Account
          /\ r.tok \in Key /\ Live(r.tok)
          /\ AccountOf(requests[r.tok]) = a
          /\ r.s > 0
          /\ r.bal = CMax - (spent[a] + r.s)
          /\ issued' = [issued EXCEPT ![k] = 1]
          /\ spent' = [spent EXCEPT ![a] = @ + r.s]
          /\ UNCHANGED requests
      BY <1>3, RefundReplacesLive
    <2>2. r.s \in 1..CMax /\ r.bal \in Nat /\ spent[a] \in Nat /\ CMax \in Nat
      BY <2>1, NumbersNatural DEF Request, IInv, Coherent, TypeOK
    <2> HIDE DEF k
    <2>3. \A j \in Key : SignedRefresh(j)' <=> SignedRefresh(j)
      BY <2>1 DEF SignedRefresh, IInv, Coherent, TypeOK
    <2>4. Granted(a) /\ \A b \in Account : Granted(b)' <=> Granted(b)
      BY <2>1, <2>3 DEF Granted, AccountOf, IInv, BalancesExact, Live
    <2>5. /\ Allowance[a] = CMax - spent[a]
          /\ Allowance' = [Allowance EXCEPT ![a] = (CMax - spent[a]) - r.s]
      <3>1. \A b \in Account : spent'[b] = IF b = a THEN spent[a] + r.s ELSE spent[b]
        BY <2>1 DEF IInv, Coherent, TypeOK
      <3>2. CMax - (spent[a] + r.s) = (CMax - spent[a]) - r.s
        BY <2>2
      <3>3. QED
        BY <2>1, <2>4, <3>1, <3>2, AllowanceOf
    <2>6. r.s <= CMax - spent[a]
      BY <2>1, <2>2
    <2>7. Ledger!Spend(a, r.s) /\ a \in Ledger!Account
      BY <2>1, <2>5, <2>6 DEF Ledger!Spend, Ledger!Account, Account
    <2>8. QED
      BY <2>2, <2>7 DEF Ledger!Next
  <1>4. QED
    BY <1>1, <1>2, <1>3, OnlySigningCounts DEF IInv

\* Concurrent handlers, retries, restarts and expiring keys together are no
\* more than the ledger, under the same condition on the nullifier sets.
THEOREM LedgerImplemented == SpendWindowCovered => (Spec => ImplementsLedger)
  <1> SUFFICES ASSUME SpendWindowCovered PROVE Spec => Ledger!Spec
    BY DEF ImplementsLedger
  <1>1. Init => Ledger!Init
    <2> SUFFICES ASSUME Init PROVE Ledger!Init
      OBVIOUS
    <2>1. \A a \in Account : ~Granted(a)
      BY DEF Init, Granted, SignedRefresh
    <2>2. QED
      BY <2>1, AllowanceOf DEF Ledger!Init, Ledger!Account, Ledger!NotGranted, Account
  <1>2. IInv /\ IInv' /\ [Next]_vars => [Ledger!Next]_Allowance
    BY LedgerStep
  <1>3. QED
    BY <1>1, <1>2, InvariantHolds, InvariantKept, PTL DEF Spec, Ledger!Spec

-----------------------------------------------------------------------------
(* What rests on the second a proof binds: a direct nonce separates spends *)
(* by its lifetime, and nothing is signed after the subscription's end.    *)
(* Neither needs a condition on how long nullifier sets live.              *)

\* A request that exists is not changed by any step.
LEMMA RequestsKept ==
  ASSUME TypeOK, [Next]_vars, NEW k \in Key, requests[k].kind # "none"
  PROVE  requests'[k] = requests[k]
  <1>1. ASSUME NEW j \in Key, NEW r \in Request, Send(j, r) PROVE requests'[k] = requests[k]
    BY <1>1, SendFrame
  <1>2. ASSUME NEW h \in Task, Handle(h) \/ Abort(h) PROVE UNCHANGED requests
    BY <1>2, HandleFrame
  <1>3. QED
    BY <1>1, <1>2, SendsAreRequests
    DEF Next, vars, Receive, AnswerFromCache, Begin, Restart, Tick, Mint, client

\* A request is signed only by its own handler, whose proof holds.
LEMMA SigningOrigins ==
  ASSUME Coherent, [Next]_vars, NEW k \in Key, issued'[k] > issued[k]
  PROVE  \E h \in Task :
           /\ task[h].key = k
           /\ task[h].pc = "verify"
           /\ \/ SignDaily(h) /\ RefreshProofHolds(requests[k], epoch[Home(h)], task[h].at)
              \/ SignRefund(h) /\ SpendProofHolds(requests[k], epoch[Home(h)], task[h].at)
           /\ UNCHANGED <<requests, masters>>
  <1>1. issued[k] \in Nat
    BY DEF Coherent, TypeOK
  <1>2. PICK h \in Task : SignDaily(h) \/ SignRefund(h)
    <2>1. \/ UNCHANGED issued
          \/ \E h \in Task : SignDaily(h) \/ SignRefund(h)
      BY DEF Next, Handle, vars, history, SendRefresh, SendSpend, Send, Receive,
             AnswerFromCache, Begin, Abort, Restart, Tick, Mint, ConsumeNonce, CheckBatchNonce,
             InsertBatchNonce, AddEpochNullifier, AddSpendNullifier, ExpireEpochSet,
             ExpireSpendSet, RejectProof, StoreAndReply
    <2>2. QED
      BY <1>1, <2>1
  <1>3. issued' = [issued EXCEPT ![task[h].key] = @ + 1]
    BY <1>2 DEF SignDaily, SignRefund
  <1>4. task[h].key = k
    BY <1>1, <1>3 DEF Coherent, TypeOK
  <1>5. QED
    BY <1>2, <1>4 DEF SignDaily, SignRefund, At, Proof, client

-----------------------------------------------------------------------------
(* Subscriptions                                                           *)

\* Master tokens are never withdrawn.
LEMMA MastersGrow == [Next]_vars => masters \subseteq masters'
  BY DEF Next, Handle, vars, client, SendRefresh, SendSpend, Send, Receive,
         AnswerFromCache, Begin, Abort, Restart, Tick, Mint, ConsumeNonce, CheckBatchNonce,
         InsertBatchNonce, AddEpochNullifier, AddSpendNullifier, ExpireEpochSet,
         ExpireSpendSet, SignDaily, SignRefund, RejectProof, StoreAndReply

\* A daily token shows a master token, a refund the token it replaces.
LEMMA MastersBehindStep == Coherent /\ MastersBehind /\ [Next]_vars => MastersBehind'
  <1> SUFFICES ASSUME Coherent, MastersBehind, [Next]_vars, NEW k \in Key, issued'[k] > 0
               PROVE  Master(requests'[k]) \in masters'
    BY DEF MastersBehind, Master
  <1>1. CASE issued[k] > 0
    <2>1. requests'[k] = requests[k]
      BY <1>1, RequestsKept DEF Coherent, AnswersSigned
    <2>2. QED
      BY <1>1, <2>1, MastersGrow DEF MastersBehind
  <1>2. CASE ~(issued[k] > 0)
    <2>1. issued'[k] > issued[k]
      BY <1>2, IssuedGrows DEF Coherent, TypeOK
    <2>2. PICK h \in Task :
            /\ \/ RefreshProofHolds(requests[k], epoch[Home(h)], task[h].at)
               \/ SpendProofHolds(requests[k], epoch[Home(h)], task[h].at)
            /\ UNCHANGED <<requests, masters>>
      BY <2>1, SigningOrigins
    <2>3. CASE RefreshProofHolds(requests[k], epoch[Home(h)], task[h].at)
      BY <2>2, <2>3 DEF RefreshProofHolds
    <2>4. CASE SpendProofHolds(requests[k], epoch[Home(h)], task[h].at)
      <3> DEFINE r == requests[k]
      <3>1. r.tok \in Key /\ issued[r.tok] > 0
            /\ AccountOf(requests[r.tok]) = AccountOf(r) /\ requests[r.tok].e = r.e
        BY <2>4 DEF SpendProofHolds
      <3>2. Master(requests[r.tok]) = Master(r)
        BY <3>1 DEF AccountOf, Master
      <3>3. QED
        BY <2>2, <3>1, <3>2 DEF MastersBehind
    <2>5. QED
      BY <2>2, <2>3, <2>4
  <1>3. QED
    BY <1>1, <1>2

\* A signature at a server time past every expiry the subscriber was minted
\* does not happen, whatever is delivered late or retried (handle_refresh,
\* handle_spend, handle_master_mint).
THEOREM NothingAfterExpiry == Spec => WithinSubscription
  <1>1. Init => Coherent /\ MastersBehind
    BY CoherentInit DEF Init, MastersBehind
  <1>2. Coherent /\ MastersBehind /\ [Next]_vars => (Coherent /\ MastersBehind)'
    BY CoherentStep, MastersBehindStep
  <1> DEFINE Signing == \A k \in Key : issued'[k] > issued[k] =>
                  \E h \in Task, m \in masters :
                    /\ task[h].pc = "verify" /\ task[h].key = k
                    /\ m.x = requests[k].x
                    /\ task[h].at <= m.e
  <1>3. Coherent /\ MastersBehind /\ [Next]_vars => Signing
    <2> SUFFICES ASSUME Coherent, MastersBehind, [Next]_vars,
                        NEW k \in Key, issued'[k] > issued[k]
                 PROVE  \E h \in Task, m \in masters :
                          /\ task[h].pc = "verify" /\ task[h].key = k
                          /\ m.x = requests[k].x
                          /\ task[h].at <= m.e
      OBVIOUS
    <2>1. PICK h \in Task :
            /\ task[h].key = k
            /\ task[h].pc = "verify"
            /\ \/ RefreshProofHolds(requests[k], epoch[Home(h)], task[h].at)
               \/ SpendProofHolds(requests[k], epoch[Home(h)], task[h].at)
      BY SigningOrigins
    <2> DEFINE m == Master(requests[k])
    <2>2. task[h].at <= m.e /\ m.x = requests[k].x
      BY <2>1 DEF RefreshProofHolds, SpendProofHolds, Master
    <2>3. m \in masters
      <3>1. CASE RefreshProofHolds(requests[k], epoch[Home(h)], task[h].at)
        BY <3>1 DEF RefreshProofHolds
      <3>2. CASE SpendProofHolds(requests[k], epoch[Home(h)], task[h].at)
        <4> DEFINE tok == requests[k].tok
        <4>1. /\ tok \in Key /\ issued[tok] > 0
              /\ AccountOf(requests[tok]) = AccountOf(requests[k])
              /\ requests[tok].e = requests[k].e
          BY <3>2 DEF SpendProofHolds
        <4>2. QED
          BY <4>1 DEF MastersBehind, AccountOf, Master
      <3>3. QED
        BY <2>1, <3>1, <3>2
    <2>4. QED
      BY <2>1, <2>2, <2>3
  <1>4. Coherent /\ MastersBehind /\ [Next]_vars => [Signing]_vars
    BY <1>3
  <1>5. QED
    BY <1>1, <1>2, <1>4, PTL DEF Spec, WithinSubscription

-----------------------------------------------------------------------------
(* Nonces                                                                  *)

\* Every spend a client proves has a nonce, and a proof is never replaced.
LEMMA NoncesCarriedStep == Coherent /\ NoncesCarried /\ [Next]_vars => NoncesCarried'
  <1> SUFFICES ASSUME Coherent, NoncesCarried, [Next]_vars PROVE NoncesCarried'
    OBVIOUS
  <1>1. ASSUME NEW u \in User, NEW e \in Expiry, NEW t \in EpochsSeen,
               NEW at \in SecondsSeen, NEW k \in Key, SendRefresh(u, e, t, at, k)
        PROVE  NoncesCarried'
    BY <1>1 DEF SendRefresh, Send, NoncesCarried, Coherent, TypeOK
  <1>2. ASSUME NEW tok \in Key, NEW s \in 1..CMax, NEW n \in Nonce,
               NEW at \in SecondsSeen, NEW k \in Key, SendSpend(tok, s, n, at, k)
        PROVE  NoncesCarried'
    BY <1>2 DEF SendSpend, Send, NoncesCarried, Coherent, TypeOK
  <1>3. CASE UNCHANGED requests
    BY <1>3 DEF NoncesCarried
  <1>4. ASSUME NEW h \in Task, Handle(h) \/ Abort(h) PROVE UNCHANGED requests
    BY <1>4, HandleFrame DEF Coherent
  <1>5. QED
    BY <1>1, <1>2, <1>3, <1>4
    DEF Next, vars, Receive, AnswerFromCache, Begin, Restart, Tick, Mint, client

\* The nonce key only ever moves to a later expiry.
LEMMA NonceKeyGrows ==
  ASSUME Coherent, [Next]_vars, NEW n \in Nonce
  PROVE  nonceKey[n] \in Nat /\ nonceKey'[n] \in Nat /\ nonceKey[n] <= nonceKey'[n]
  <1>1. nonceKey[n] \in Nat /\ now \in Nat
    BY DEF Coherent, TypeOK
  <1>2. ASSUME NEW h \in Task, ConsumeNonce(h)
        PROVE  nonceKey'[n] \in Nat /\ nonceKey[n] <= nonceKey'[n]
    <2>1. \/ UNCHANGED nonceKey
          \/ /\ ~Exists(nonceKey[Proof(h).nonce], now)
             /\ nonceKey' = [nonceKey EXCEPT ![Proof(h).nonce] = SetEx(NonceTTL, now)]
      BY <1>2 DEF ConsumeNonce
    <2>2. QED
      BY <1>1, <2>1, NumbersNatural DEF Exists, SetEx, Coherent, TypeOK
  <1>3. \/ UNCHANGED nonceKey
        \/ \E h \in Task : ConsumeNonce(h)
    BY DEF Next, Handle, vars, redis, SendRefresh, SendSpend, Send, Receive, AnswerFromCache,
           Begin, Abort, Restart, Tick, Mint, CheckBatchNonce, InsertBatchNonce,
           AddEpochNullifier, AddSpendNullifier, ExpireEpochSet, ExpireSpendSet, SignDaily,
           SignRefund, RejectProof, StoreAndReply
  <1>4. QED
    BY <1>1, <1>2, <1>3

\* A handler keeps what it holds of its nonce.
HolderKept(h) ==
  /\ HoldsNonce(h)
  /\ task'[h].use = task[h].use
  /\ task'[h].key = task[h].key
  /\ Proof(h)' = Proof(h)

\* A signed spend keeps what was recorded of its nonce.
SpenderKept(k) ==
  /\ SpentNonce(k)
  /\ uses'[k] = uses[k]
  /\ requests'[k] = requests[k]

\* h takes its nonce out of Redis.
Takes(h) ==
  /\ ConsumeNonce(h)
  /\ ~Exists(nonceKey[Proof(h).nonce], now)
  /\ nonceKey' = [nonceKey EXCEPT ![Proof(h).nonce] = SetEx(NonceTTL, now)]
  /\ task'[h].use = ByRedis(now)
  /\ task'[h].key = task[h].key

\* A handler holds a nonce only from the step in which it took it.
LEMMA HolderOrigins ==
  ASSUME Coherent, [Next]_vars, NEW h \in Task, HoldsNonce(h)'
  PROVE  HolderKept(h) \/ (Takes(h) /\ Proof(h)' = Proof(h))
  <1> USE DEF Coherent
  <1>0. task'[h].pc \in {"nullify", "expire", "verify"} /\ task'[h].use.by = "redis"
    BY DEF HoldsNonce
  <1>1. ASSUME NEW g \in Task, Handle(g) \/ Abort(g), g # h PROVE HolderKept(h)
    <2>1. task'[h] = task[h] /\ UNCHANGED requests
      BY <1>1, HandleFrame
    <2>2. QED
      BY <2>1, <1>0 DEF HolderKept, HoldsNonce, Proof
  <1>2. ASSUME Handle(h) \/ Abort(h)
        PROVE  HolderKept(h) \/ (Takes(h) /\ Proof(h)' = Proof(h))
    <2>1. /\ task[h] \in Busy
          /\ UNCHANGED requests
          /\ task'[h] = Idle \/ task'[h].key = task[h].key
      BY <1>2, HandleFrame
    <2>2. task'[h] # Idle /\ task'[h].key = task[h].key /\ Proof(h)' = Proof(h)
      BY <1>0, <2>1 DEF Idle, Proof
    <2>3. CASE ConsumeNonce(h)
      <3>1. /\ ~Exists(nonceKey[Proof(h).nonce], now)
            /\ nonceKey' = [nonceKey EXCEPT ![Proof(h).nonce] = SetEx(NonceTTL, now)]
            /\ task' = [task EXCEPT ![h].pc = "nullify", ![h].use = ByRedis(now)]
        BY <2>2, <2>3 DEF ConsumeNonce, Return, TakeNonce, TypeOK
      <3>2. task'[h].use = ByRedis(now)
        BY <2>1, <3>1 DEF TypeOK, Busy
      <3>3. QED
        BY <2>2, <2>3, <3>1, <3>2 DEF Takes
    <2>4. CASE InsertBatchNonce(h)
      <3>1. task'[h].use = ByBloom
        BY <2>1, <2>4 DEF InsertBatchNonce, TakeNonce, TypeOK, Busy
      <3>2. QED
        BY <1>0, <3>1 DEF ByBloom
    <2>5. CASE CheckBatchNonce(h) \/ SignDaily(h) \/ SignRefund(h)
      BY <1>0, <2>1, <2>2, <2>5
      DEF CheckBatchNonce, SignDaily, SignRefund, Goto, Return, TypeOK, Busy
    <2>6. CASE AddEpochNullifier(h) \/ AddSpendNullifier(h)
      <3>1. task[h].pc = "nullify" /\ task'[h].use = task[h].use
        BY <2>1, <2>2, <2>6 DEF AddEpochNullifier, AddSpendNullifier, At, Return, TypeOK, Busy
      <3>2. QED
        BY <1>0, <2>2, <3>1 DEF HolderKept, HoldsNonce
    <2>7. CASE ExpireEpochSet(h) \/ ExpireSpendSet(h)
      <3>1. task[h].pc = "expire" /\ task'[h].use = task[h].use
        BY <2>1, <2>2, <2>7
        DEF ExpireEpochSet, ExpireSpendSet, At, AfterExpire, Return, TypeOK, Busy
      <3>2. QED
        BY <1>0, <2>2, <3>1 DEF HolderKept, HoldsNonce
    <2>8. CASE RejectProof(h) \/ StoreAndReply(h) \/ Abort(h)
      BY <2>1, <2>2, <2>8 DEF RejectProof, StoreAndReply, Abort, Return, TypeOK
    <2>9. QED
      BY <1>2, <2>3, <2>4, <2>5, <2>6, <2>7, <2>8 DEF Handle
  <1>3. ASSUME NEW k \in Key, NEW r \in Request, Send(k, r) PROVE HolderKept(h)
    <2>1. UNCHANGED task /\ task[h].pc # "idle"
      BY <1>0, <1>3 DEF Send
    <2>2. task[h].key \in Key /\ requests[task[h].key].kind # "none"
      BY <2>1, StartedTask DEF TasksConsistent, Proof
    <2>3. Proof(h)' = Proof(h)
      BY <1>3, <2>1, <2>2, SendFrame DEF Proof
    <2>4. QED
      BY <1>0, <2>1, <2>3 DEF HolderKept, HoldsNonce
  <1>4. ASSUME NEW g \in Task, NEW k \in Key, Begin(g, k) PROVE HolderKept(h)
    <2>1. g # h
      BY <1>0, <1>4 DEF Begin, NoUse, TypeOK
    <2>2. task'[h] = task[h] /\ UNCHANGED requests
      BY <1>4, <2>1 DEF Begin, TypeOK, client
    <2>3. QED
      BY <1>0, <2>2 DEF HolderKept, HoldsNonce, Proof
  <1>5. ASSUME NEW p \in Server, NEW e \in Epoch, Restart(p, e) PROVE HolderKept(h)
    BY <1>0, <1>5 DEF HolderKept, HoldsNonce, Proof, Restart, Idle, TypeOK, client
  <1>6. CASE UNCHANGED <<requests, task>>
    BY <1>0, <1>6 DEF HolderKept, HoldsNonce, Proof
  <1>7. QED
    BY <1>1, <1>2, <1>3, <1>4, <1>5, <1>6, SendsAreRequests
    DEF Next, vars, Receive, AnswerFromCache, Tick, Mint, client

\* A spend has a nonce on record only from the step in which a handler that
\* held it signed.
LEMMA SpenderOrigins ==
  ASSUME Coherent, [Next]_vars, NEW k \in Key, SpentNonce(k)'
  PROVE  \/ SpenderKept(k)
         \/ \E h \in Task : /\ SignRefund(h) /\ HoldsNonce(h)
                            /\ task[h].key = k
                            /\ uses'[k] = task[h].use
                            /\ requests'[k] = Proof(h)
  <1> USE DEF Coherent
  <1>0. requests'[k].kind = "spend" /\ issued'[k] > 0 /\ uses'[k].by = "redis"
    BY DEF SpentNonce, SignedSpend
  <1>1. ASSUME NEW h \in Task, SignRefund(h), task[h].key = k
        PROVE  /\ HoldsNonce(h)
               /\ uses'[k] = task[h].use
               /\ requests'[k] = Proof(h)
    <2>1. UNCHANGED requests /\ task[h].pc = "verify"
      BY <1>1 DEF SignRefund, At, client
    <2>2. uses'[k] = task[h].use
      BY <1>1 DEF SignRefund, TypeOK
    <2>3. QED
      BY <1>0, <1>1, <2>1, <2>2 DEF HoldsNonce, Proof
  <1>2. ASSUME UNCHANGED <<uses, issued>>, requests'[k] = requests[k] PROVE SpenderKept(k)
    BY <1>0, <1>2 DEF SpenderKept, SpentNonce, SignedSpend
  <1>3. ASSUME NEW h \in Task, SignDaily(h) \/ SignRefund(h), ~(SignRefund(h) /\ task[h].key = k)
        PROVE  SpenderKept(k)
    <2>1. UNCHANGED requests /\ task[h].key # k
      BY <1>0, <1>3 DEF SignDaily, SignRefund, At, client
    <2>2. uses'[k] = uses[k] /\ issued'[k] = issued[k]
      BY <1>3, <2>1 DEF SignDaily, SignRefund, TypeOK
    <2>3. QED
      BY <1>0, <2>1, <2>2 DEF SpenderKept, SpentNonce, SignedSpend
  <1>4. ASSUME NEW j \in Key, NEW r \in Request, Send(j, r) PROVE SpenderKept(k)
    <2>1. UNCHANGED <<uses, issued>> /\ requests[k].kind # "none"
      BY <1>0, <1>4 DEF Send, history, AnswersSigned
    <2>2. QED
      BY <1>2, <1>4, <2>1, SendFrame
  <1>5. \/ \E j \in Key, r \in Request : Send(j, r)
        \/ \E h \in Task : SignDaily(h) \/ SignRefund(h)
        \/ UNCHANGED <<requests, uses, issued>>
    BY SendsAreRequests
    DEF Next, Handle, vars, client, history, Receive, AnswerFromCache, Begin, Abort, Restart,
        Tick, Mint, ConsumeNonce, CheckBatchNonce, InsertBatchNonce, AddEpochNullifier,
        AddSpendNullifier, ExpireEpochSet, ExpireSpendSet, RejectProof, StoreAndReply
  <1>6. QED
    BY <1>1, <1>2, <1>3, <1>4, <1>5

\* In one step at most one handler takes its nonce or signs, and one that
\* signs holds nothing afterwards.
LEMMA OneHandlerActs ==
  ASSUME Coherent, [Next]_vars, NEW h \in Task, Takes(h) \/ SignRefund(h)
  PROVE  /\ \A g \in Task : g # h => ~Takes(g) /\ ~SignRefund(g)
         /\ Takes(h) => ~SignRefund(h) /\ ~HoldsNonce(h)
         /\ SignRefund(h) => ~HoldsNonce(h)'
  <1> USE DEF Coherent
  <1>1. ASSUME NEW g \in Task, Takes(g) \/ SignRefund(g)
        PROVE  /\ task'[g] # task[g]
               /\ \A f \in Task : f # g => task'[f] = task[f]
    <2>1. /\ task[g] \in Busy
          /\ \A f \in Task : f # g => task'[f] = task[f]
      BY <1>1, HandleFrame DEF Takes, Handle
    <2>2. CASE Takes(g)
      <3>1. /\ task[g].pc = "nonce"
            /\ Return(g) \/ TakeNonce(g, ByRedis(now))
        BY <2>2 DEF Takes, ConsumeNonce, At
      <3>2. task'[g].pc # "nonce"
        BY <2>1, <3>1 DEF Return, TakeNonce, Idle, TypeOK, Busy
      <3>3. QED
        BY <2>1, <3>1, <3>2
    <2>3. CASE SignRefund(g)
      BY <2>1, <2>3 DEF SignRefund, At, Goto, TypeOK, Busy
    <2>4. QED
      BY <1>1, <2>1, <2>2, <2>3
  <1>2. \A g \in Task : g # h => ~Takes(g) /\ ~SignRefund(g)
    BY <1>1
  <1>3. Takes(h) => ~SignRefund(h) /\ ~HoldsNonce(h)
    BY DEF Takes, ConsumeNonce, SignRefund, At, HoldsNonce
  <1>4. SignRefund(h) => ~HoldsNonce(h)'
    <2>1. task[h] \in Busy
      BY StartedTask DEF Takes, ConsumeNonce, SignRefund, At
    <2>2. QED
      BY <2>1 DEF SignRefund, Goto, HoldsNonce, TypeOK, Busy
  <1>5. QED
    BY <1>2, <1>3, <1>4

\* Who takes a nonce finds every earlier holder's lifetime over.
LEMMA NoncesSafeStep == Coherent /\ NoncesSafe /\ [Next]_vars => NoncesSafe'
  <1> SUFFICES ASSUME Coherent, NoncesSafe, [Next]_vars PROVE NoncesSafe'
    OBVIOUS
  <1> USE DEF NoncesSafe
  <1>1. NoncesCarried'
    BY NoncesCarriedStep
  <1>2. \A h \in Task : HoldsNonce(h)' => HolderKept(h) \/ (Takes(h) /\ Proof(h)' = Proof(h))
    BY HolderOrigins
  <1>3. \A k \in Key : SpentNonce(k)' =>
          \/ SpenderKept(k)
          \/ \E h \in Task : /\ SignRefund(h) /\ HoldsNonce(h)
                             /\ task[h].key = k
                             /\ uses'[k] = task[h].use
                             /\ requests'[k] = Proof(h)
    BY SpenderOrigins
  <1>4. ASSUME NEW h \in Task, HoldsNonce(h)
        PROVE  /\ Proof(h).kind = "spend"
               /\ Proof(h).nonce \in Nonce
               /\ task[h].use.at \in Nat
               /\ task[h].use.at + NonceTTL <= nonceKey[Proof(h).nonce]
    <2>1. task[h] \in Busy /\ task[h].key \in Key
      BY <1>4, StartedTask DEF HoldsNonce, Coherent
    <2>2. QED
      BY <1>4, <2>1 DEF NoncesHeld, NoncesCarried, Proof, Busy, Use
  <1>5. ASSUME NEW k \in Key, SpentNonce(k)
        PROVE  /\ requests[k].nonce \in Nonce
               /\ uses[k].at \in Nat
               /\ uses[k].at + NonceTTL <= nonceKey[requests[k].nonce]
    BY <1>5 DEF SpentNonce, SignedSpend, NoncesHeld, NoncesCarried, Coherent, TypeOK, Use
  <1>6. ASSUME NEW h \in Task, Takes(h)
        PROVE  /\ Proof(h).kind = "spend"
               /\ Proof(h).nonce \in Nonce
               /\ task'[h].use.at = now
               /\ now \in Nat
               /\ nonceKey[Proof(h).nonce] \in Nat
               /\ nonceKey[Proof(h).nonce] <= now
               /\ nonceKey'[Proof(h).nonce] = now + NonceTTL
    <2>1. Proof(h).kind = "spend" /\ task[h].key \in Key
      BY <1>6, StartedTask DEF Takes, ConsumeNonce, At, Proof, Coherent
    <2>2. Proof(h).nonce \in Nonce
      BY <2>1 DEF NoncesCarried, Proof
    <2>3. nonceKey[Proof(h).nonce] \in Nat /\ now \in Nat
      BY <2>2 DEF Coherent, TypeOK
    <2>4. QED
      BY <1>6, <2>1, <2>2, <2>3 DEF Takes, Exists, SetEx, ByRedis, Coherent, TypeOK
  <1>7. \A n \in Nonce : nonceKey[n] \in Nat /\ nonceKey'[n] \in Nat /\ nonceKey[n] <= nonceKey'[n]
    BY NonceKeyGrows
  <1>8. NoncesHeld'
    <2>1. ASSUME NEW h \in Task, HoldsNonce(h)'
          PROVE  /\ Proof(h)'.kind = "spend"
                 /\ task'[h].use.at + NonceTTL <= nonceKey'[Proof(h)'.nonce]
      <3>1. CASE HolderKept(h)
        BY <1>4, <1>7, <3>1, NumbersNatural DEF HolderKept
      <3>2. CASE Takes(h) /\ Proof(h)' = Proof(h)
        BY <1>6, <3>2, NumbersNatural
      <3>3. QED
        BY <1>2, <2>1, <3>1, <3>2
    <2>2. ASSUME NEW k \in Key, SpentNonce(k)'
          PROVE  uses'[k].at + NonceTTL <= nonceKey'[requests'[k].nonce]
      <3>1. CASE SpenderKept(k)
        BY <1>5, <1>7, <3>1, NumbersNatural DEF SpenderKept
      <3>2. CASE ~SpenderKept(k)
        BY <1>3, <1>4, <1>7, <2>2, <3>2, NumbersNatural
      <3>3. QED
        BY <3>1, <3>2
    <2>3. QED
      BY <2>1, <2>2 DEF NoncesHeld
  <1>9. NoncesApart'
    <2>1. ASSUME NEW g \in Task, NEW h \in Task, HoldsNonce(g)', HoldsNonce(h)', g # h,
                 Proof(g)'.nonce = Proof(h)'.nonce
          PROVE  Apart(task[g].use, task[h].use)'
      <3>1. ASSUME NEW a \in Task, NEW b \in Task, Takes(a), HolderKept(b), Proof(a)' = Proof(a),
                   Proof(a)'.nonce = Proof(b)'.nonce
            PROVE  task'[b].use.at + NonceTTL <= task'[a].use.at
        BY <1>4, <1>6, <3>1, NumbersNatural DEF HolderKept
      <3>2. CASE HolderKept(g) /\ HolderKept(h)
        BY <2>1, <3>2 DEF HolderKept, NoncesApart, Apart
      <3>3. ~(Takes(g) /\ Takes(h))
        BY <2>1, OneHandlerActs
      <3>4. QED
        BY <1>2, <2>1, <3>1, <3>2, <3>3 DEF Apart
    <2>2. ASSUME NEW h \in Task, NEW k \in Key, HoldsNonce(h)', SpentNonce(k)',
                 Proof(h)'.nonce = requests'[k].nonce
          PROVE  Apart(task[h].use, uses[k])'
      <3>1. CASE HolderKept(h) /\ SpenderKept(k)
        BY <2>2, <3>1 DEF HolderKept, SpenderKept, NoncesApart, Apart
      <3>2. CASE Takes(h) /\ Proof(h)' = Proof(h) /\ SpenderKept(k)
        BY <1>5, <1>6, <2>2, <3>2, NumbersNatural DEF SpenderKept, Apart
      <3>3. ASSUME NEW g \in Task, SignRefund(g), HoldsNonce(g), uses'[k] = task[g].use,
                   requests'[k] = Proof(g)
            PROVE  Apart(task[h].use, uses[k])'
        <4>1. g # h /\ ~Takes(h) /\ HolderKept(h)
          BY <1>2, <2>2, <3>3, OneHandlerActs
        <4>2. QED
          BY <2>2, <3>3, <4>1 DEF HolderKept, NoncesApart, Apart
      <3>4. QED
        BY <1>2, <1>3, <2>2, <3>1, <3>2, <3>3
    <2>3. ASSUME NEW k1 \in Key, NEW k2 \in Key, SpentNonce(k1)', SpentNonce(k2)', k1 # k2,
                 requests'[k1].nonce = requests'[k2].nonce
          PROVE  Apart(uses[k1], uses[k2])'
      <3>1. CASE SpenderKept(k1) /\ SpenderKept(k2)
        BY <2>3, <3>1 DEF SpenderKept, SpentNonce, NoncesApart, NonceSpacing, Apart
      <3>2. ASSUME NEW a \in Key, NEW b \in Key, a # b, SpenderKept(a), ~SpenderKept(b),
                   SpentNonce(b)', requests'[a].nonce = requests'[b].nonce
            PROVE  Apart(uses[a], uses[b])'
        <4>1. PICK h \in Task : /\ HoldsNonce(h)
                                /\ uses'[b] = task[h].use
                                /\ requests'[b] = Proof(h)
          BY <1>3, <3>2
        <4>2. QED
          BY <3>2, <4>1 DEF SpenderKept, NoncesApart, Apart
      <3>3. SpenderKept(k1) \/ SpenderKept(k2)
        BY <1>3, <2>3, OneHandlerActs
      <3>4. QED
        BY <2>3, <3>1, <3>2, <3>3 DEF Apart
    <2>4. NonceSpacing'
      BY <2>3 DEF NonceSpacing, SpentNonce, SignedSpend, Apart
    <2>5. QED
      BY <2>1, <2>2, <2>4 DEF NoncesApart
  <1>10. QED
    BY <1>1, <1>8, <1>9

\* Signed spends whose handlers took one nonce out of Redis took it at least its
\* lifetime apart, whatever second the proofs bind and whatever is retried,
\* refused, restarted or sent through the Bloom filter between
\* (verify_and_consume, handle_spend).
THEOREM NoncesSeparateSpends == Spec => []NonceSpacing
  <1>1. Init => Coherent /\ NoncesSafe
    <2> SUFFICES ASSUME Init PROVE NoncesSafe
      BY CoherentInit
    <2>1. \A k \in Key : requests[k].kind = "none" /\ ~SpentNonce(k)
      BY BlankRequest DEF Init, SpentNonce, SignedSpend
    <2>2. \A h \in Task : ~HoldsNonce(h)
      BY DEF Init, Idle, HoldsNonce
    <2>3. NonceSpacing
      BY <2>1 DEF NonceSpacing, SignedSpend
    <2>4. QED
      BY <2>1, <2>2, <2>3 DEF NoncesSafe, NoncesCarried, NoncesHeld, NoncesApart
  <1>2. Coherent /\ NoncesSafe /\ [Next]_vars => (Coherent /\ NoncesSafe)'
    BY CoherentStep, NoncesSafeStep
  <1>3. NoncesSafe => NonceSpacing
    BY DEF NoncesSafe, NoncesApart
  <1>4. QED
    BY <1>1, <1>2, <1>3, PTL DEF Spec
=============================================================================
