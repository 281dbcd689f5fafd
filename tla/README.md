# EBUTv2 in TLA+

EBUTv2 is a Rust library and server for rate-limited anonymous tokens. A
subscriber with a hidden secret `x` and an expiry `Emax` exchanges its master
token once an epoch for a *daily token* worth `c_max`, spends amounts of it
(each spend answered by a *refund token* with what is left), may have to show
that its `Emax` is not on a revocation list, and may tie a spend to an upload
of an encrypted file whose blocks the server audits.

This directory models the parts of it that keep state, decide, or compute
something other than group algebra; checks them with TLC; and proves with TLAPS
the main safety properties of the redemption server for every number of users,
tokens, tasks, processes and epochs, those of the revocation list for every
blacklist, those of uploads and file audits for every file, layout, cut and
challenge, and what the algorithms compute (equality proofs, Merkle trees of nonces, tables of
multiples, selector streams, point encodings) for every width and size.

## 1. Inventory

### Redemption server (`src/src/server.rs`)

*State.* Redis: `act:epoch:{e}:nullifiers` and `act:spend:{e}:nullifiers` (sets
with a TTL), `act:nonce:{n}` and `act:idem:{proof}` (strings with a TTL). In
each process: `config.current_epoch`, cloned into the managers at start, and a
Bloom filter of used batch nonces. In each handler: where it is, the answer of
its last command, the second it read.
*Operations.* `handle_refresh` (look in the idempotency cache; record the epoch
nullifier; verify; sign; cache), `handle_spend` (the same with a nonce before
and a spend nullifier), `handle_master_mint` (signs a master token with the
expiry asked for; keeps no state).
*Interaction.* Handlers of any number of processes share one Redis and nothing
else; each `await` lets others run; verification runs in the blocking pool.
Requests and answers can be lost, delayed and delivered again.
*Hard.* Check and use are separated by awaits; sets expire while their epoch is
still accepted; the server's epoch and a token's epoch differ at the rollover;
any step may fail after the earlier ones took effect; a process restarts. An expiry is hidden in a
master token and handed down refreshes and refunds, and a subscriber may hold
several master tokens of one secret.
*Correct when* a token is redeemed once, a subscriber gets one daily token an
epoch and never more than `c_max` of it, a redeemed token's nullifier is
remembered while it could be used again, a nonce that Redis lets pass is used
once in its lifetime, nothing is signed past the subscription, and a started handler ends.

### High-privacy nonces (`MerkleTree`, `MerkleProof`, `BloomFilter` in `server.rs`)

A batch of nonces padded to a power of two, hashed **in place**; a path for each
nonce; a filter of used nonces. *Correct when* the root is the Merkle root of
the batch, every nonce has a path, and a path shows only its own nonce.

### Revocation list (`src/src/revocation.rs`)

*State.* The server's list (version, second, blacklist, signed gaps), the copy
each client fetched, proofs under way. *Operations.* sign a blacklist, find and
validate a gap, prove, verify. *Hard.* Copies and proofs go stale between any
two steps; adjacent, first and last handles; the list and the proof it
accompanies have a second each. *Correct when* a proof from a signed gap
verifies only for a value that is not revoked, that value is `Emax` if the two
seconds are equal, and everybody who is not revoked or expired can prove.

### File binding (`src/src/file_binding.rs`, `src/src/option1_file_binding.rs`)

Pure: cut a file into points and blocks (or take the caller's), put the bits of
a point's bytes into an encoding and fill the others until it is a point's, encrypt, hash into a Merkle tree whose
odd nodes move up, derive from a nonce which blocks to show, prove and verify
them, decrypt. *Hard.* Short last points and blocks, odd levels, the switch from
a full audit to a sample, the number of samples. *Correct when* a file comes
back byte for byte, an audited file is readable, and an audit by sample catches
a bad file with the confidence it promises.

### Upload (`src/src/upload.rs`, `src/src/same_x_bridge.rs`)

Composes a spend, a file audit and a proof that one `x` is behind both, bound to
a second and to a list version. *Hard.* The file proof, the list and the clock
move independently between proving and verifying. *Correct when* what is
accepted with a list comes from a spender who is not on it, the
file decrypts with the spender's secret, and an honest client is accepted.

### Refresh and spend proofs (`epoch_refresh.rs`, `spend.rs`)

Sequential functions between client and server. The models use what a verified
proof *binds*: for a refresh the subscriber, the epoch, the expiry and the
second; for a spend the token's key, its epoch (the server's or the one
before), the amount, the balance it leaves, the second and the nonce.

### Cross-curve equality (`batched_eq.rs`, `v3_zkp/batched_eq.rs`, `same_x_bridge.rs`)

Three proofs that a Ristretto and a BLS12-381 commitment hold one integer: a
balance or an expiry distance, the three distances of a revocation gap, the
ownership secret. Each answers a challenge with an integer that both curves
reduce by their own order. *Hard.* The widths of value, blinder and challenge
against both orders, the bound on the response, carries of the limb arithmetic
that release builds do not check, a combination computed over integers by one
side and over residues by the other. *Correct when* honest proofs are made and
accepted, and of a balance different integers on the two curves are answered
for two challenges at most.

### Multiples and selectors (`msm.rs`, `ristretto_elligator_codec.rs`)

A table of a generator's multiples and the product read from it, double-and-add
for amounts, and 3-bit selectors packed into bytes. *Hard.* Indices, shifts,
early returns, selectors that straddle bytes. *Correct when* products are
exact and selectors come back.

### Not modelled

The algebra of the signatures and proofs (`bbs_proof`, `commitments`, `setup`,
`v3_zkp` beyond the equality proof), hashing and transcripts (`hash`): group and
field arithmetic over 255-bit scalars has no small instance that says anything
about it. Encodings (`types`, `serde_utils`, `error`): wrappers around what the
curve libraries serialize. `g1_msm` and `batch_normalize`: calls to `blstrs`.
The elligator map between chunks and points: an external C library.
`verify_refresh_batch` and `verify_spend_batch`: no handler calls them. And
benchmarks, build script and vendored code.

## 2. Modules

| module | what it is | code |
|---|---|---|
| `RedisKeys` | SADD, EXPIRE, SETEX, EXISTS on one key | external; from the calls in `server.rs` |
| `RedemptionServer` | clients, handlers, failures, restarts, clock | `server.rs`, what `epoch_refresh.rs` and `spend.rs` bind |
| `ActLedger` | the abstract promise: allowances, granted once and lowered | specification |
| `RedemptionInvariant` | deployment conditions and the inductive invariant | for the proofs |
| `RedemptionProofs` | theorems: types and single use; allowances, expiries and nonces | |
| `RevocationList`, `RevocationProofs` | lists, copies, proofs under way; theorems | `revocation.rs` |
| `NonceBatch` | the in-place Merkle tree and its paths | `server.rs` |
| `FileBinding` | blocks, trees, challenges, audits, decryption | `file_binding.rs`, `option1_file_binding.rs`, codec |
| `FileProofs` | lemmas: what the operators of `FileBinding` compute | |
| `Upload`, `UploadProofs` | an upload session on top of `FileBinding`; theorems | `upload.rs`, `same_x_bridge.rs` |
| `PointEncoding` | the bits of a chunk in a point's encoding | `file_binding.rs` |
| `SelectorStream` | selectors packed into bytes | `ristretto_elligator_codec.rs` |
| `CrossCurve`, `CrossCurveProofs` | the three equality proofs; theorems | `batched_eq.rs`, `v3_zkp/batched_eq.rs`, `same_x_bridge.rs` |
| `FixedBase` | multiples from a table and by doubling | `msm.rs` |
| `AlgorithmProofs` | theorems about `PointEncoding`, `SelectorStream`, `NonceBatch` and `FixedBase` | |
| `Induction`, `Folding` | induction stated with sets, counting of subsets, and folds element by element: lemmas of the proofs | |
| `MCRedemption`, `MCRevocation`, `MCUpload`, `MCAlgorithms` | constants for TLC; the last runs the five modules of algorithms (`NonceBatch`, `PointEncoding`, `SelectorStream`, `CrossCurve`, `FixedBase`) side by side, the variables of the others idle | |

Operators named `...Overdrawn`, `...Unseen` and the like, marked *Mutant*, are
plausible wrong versions of the definition after them. No specification uses
them; putting one in place of its original must break a property (PROJECT.json
lists which).

### RedemptionServer and the code

A **task** is one running handler. Between two awaits the code is sequential,
so an action is one Redis command together with the code around it:

| label | action | code |
|---|---|---|
| `idle` | `AnswerFromCache`, `Begin` | idempotency lookup, hit or miss |
| `nonce` | `ConsumeNonce`; or `CheckBatchNonce` | Lua script of `verify_and_consume`; `verify_merkle_nonce` under its lock |
| `insert` | `InsertBatchNonce` | the filter insertion after that lock |
| `nullify` | `AddEpochNullifier`, `AddSpendNullifier` | `SADD` |
| `expire` | `ExpireEpochSet`, `ExpireSpendSet` | `EXPIRE`, then the "already used" return, then `now_unix()` |
| `verify` | `SignDaily`, `SignRefund`, `RejectProof` | the blocking task |
| `store` | `StoreAndReply` | cache the response and return it |

`SADD` and `EXPIRE` are two steps because the code issues two commands: a
handler stopped between them leaves a set without a TTL. `Abort` ends a handler
at any await (a Redis error, a panic in the pool, a dropped connection); a
command that took effect but whose answer was lost is the command's action
followed by `Abort`. `Restart` is the only way to change an epoch and empties
the Bloom filter; `Tick` lets time pass as long as every process is restarted at
most `RolloverLag` after the calendar entered its next epoch.

`Mint` is `handle_master_mint` with the client's side of it: a subscriber gets a
master token with an expiry, as often and with as many expiries as it likes. A
refresh is made from a master token (`Master(r)` is the one it shows), its daily
token carries that token's expiry, and every refund carries it on. Prover and
verifier compare it with the second the proof is bound to.

A nonce may come with or without a Merkle proof. The proof and the root it is
checked against come with the call and no spend proof binds them, so any nonce
may come either way: through the Bloom filter (`CheckBatchNonce`,
`InsertBatchNonce`), which never touches `act:nonce`, or through Redis
(`ConsumeNonce`), which never looks at the filter.

A proof commits to a fresh nullifier key, so a request, the token its answer
carries and that token's nullifier have one name `k`. Requests are never
consumed: each may be delivered any number of times at any later time, by the
client or by a proxy. `replies` holds the answers sent; a client may never
receive one, and keeps its token until it does, so it can prove again for
another amount.

Abstractions: a request is a record of what its proof binds, and verification
checks exactly that (soundness of the proof system is assumed); clients prove
only for tokens they hold. The epoch and the second a proof binds are arguments
of `prove`, so a client may name any; `ProofEpoch` and `ProofTime` bound which
ones an instance tries, and the theorems leave them open. Servers and Redis
share one clock.
A Bloom filter that is not empty may claim any nonce. The history variables
`issued` and `spent` count what was signed and granted; `uses`, and `use` in a
task, remember what let a nonce pass, and when.

### RevocationList, NonceBatch

`RevocationList` keeps the loop of `sign_blacklist` as a fold that takes the
handles in ascending order (`SignInOrder`). The context under which a gap is signed holds the version and not the
second, so `Resign` (the same blacklist, version and another second) is an
action of its own. A proof is the value it is about, its gap, the signature on
that gap and context, and the refresh or spend proof it accompanies, which
commits to `Emax` less its own second. A verifier adds the second of its list to
that commitment (`Rebuilt`) and compares no seconds, so a proof for another
second than the list's is about another value than `Emax`, and clients may make
one (`Prove(u, at, s)`). The pairing equation (`GapProofHolds`) holds for the
gap's signature, and also for a pair of identity points, which the code does not
refuse. Proofs are made by the code's prover, from a signed gap of the client's
copy: the properties speak of those, and claim nothing of others that the
equations may admit.
`NonceBatch` runs the in-place hashing pair by pair; `Tree` is the definition of
a Merkle tree, height by height, that its result is compared with. Hashes are free terms.

### FileBinding and Upload

A ciphertext point is a payload and the key it is encrypted under; decrypting
with another key gives garbage. A block's plaintext commitments are to its
payloads, and the batch proof shows that the key decrypts to what they commit
to; a client that commits to other bytes has committed to another file. Blocks
are cut by the code's own `*_commitment_auto` functions (`Commit`), some of them
(`strays`) under another key: a client that wants its upload accepted without a
readable file. `create_file_commitment` and `create_private_file_commitment`
take blocks of any lengths up to a point's payload (`CommitCut`). Decryption
derives lengths from the total, so such a file comes back if and only if every
block up to the last one with a byte in it is full (`CutFull`), and that is what
`Retrievable` says; no document of the code asks callers for full blocks. Four layouts: `plain` (the revealing `FileProof`, one point a
block, one proof a block or one for all from `BATCH_THRESHOLD` on), `single`
(the private proofs), `packed` (the accountable ones) and `elligator`
(`option1_file_binding.rs`). A `plain` proof shows what the key makes of a
block, and not that the block was made for that key: `AuditShowsContent` says
what an auditor gets from it, and `AcceptedRecoverable` and `AuditConfident` are
about the other three. A nonce is
what hashing makes of it: for each number of blocks and of challenges the set of
block indices drawn (`NonceAssumption`). The sample-count loop is kept, with exact fractions where the code
multiplies `f64`.
`Upload` lets a session's file proof be reused, the challenge be drawn again,
and list and clock move between any two steps. The spend proof may be for any
second and the revocation proof beside it for any value not on the list of that
moment, as in `RevocationList`; what ties that value to `Emax` is the comparison
of the list's second with the upload's (upload.rs:193), and `UploaderNotRevoked`
is about that.

### CrossCurve, FixedBase, SelectorStream, PointEncoding

In `CrossCurve` a commitment is the residue of the value it holds. Blinders are
left out: they take part in no bound, and their equation repeats that of the
value. A Fiat-Shamir challenge is any value, one to an announcement, and a
proof matches its challenge when the verifier recovers the announcement. The
limbs, their carries, the comparison with `q` and the three bounds are as in the
code; a carry out of the fourth limb is lost, as in a release build. `Init`
starts with what the two commitments hold, for a balance equal or not; `Prove`
is an honest prover with any blinder and challenge. `TwoAnswers` is about unequal
balances, and asks how many challenges any answer could fit: at most two out of
2^128. The bounds of the other two proofs (2^433, 2^385) exceed both orders, so
that argument does not carry over; for them only `HonestAccepted` is stated.

`FixedBase` represents a point by its exponent; `NextWindow` is one turn of the
loop of `FixedBaseTable::new`, and the products are read from the finished table.
`SelectorStream` and `PointEncoding` represent bytes by the sets of their bits.
Whether an encoding with its low and its top bit clear is one of a point is
nondeterministic, as is the hash that fills it.

## 3. What is checked

Runs that must hold:

| run | shows |
|---|---|
| `spend` | `SingleRedemption`, `NullifierRemembered`, `TypeOK`: two handlers, nonces with and without a Merkle proof, retries, aborts, failed `EXPIRE`s, restarts, the rollover |
| `nonce` | `NonceSpacing`: one nonce in several spends, through Redis and through the filter, with proofs for any second; `RateLimit`; `ImplementsLedger`: the whole server refines `ActLedger`, over chains of refunds |
| `refresh` | `OneDailyToken` with two processes that may be in different epochs, and a TTL of one epoch and a grace period only |
| `progress` | `HandlersFinish`: a started handler ends; `WithinSubscription`: nothing is signed past the latest expiry among the subscriber's master tokens, however it was refreshed, refunded or delayed |
| `revocation` | `AcceptedNotRevoked`, for proofs made from signed gaps, `GapsExact`, `NotRevokedCanProve`, for every blacklist of the domain |
| `algorithms` | `RootExact`, `PathsVerify`, for batches of 0 to 8 nonces, repeated ones included; `HonestAccepted`, `TwoAnswers` for the equality proofs; `MulExact`, `AmountExact` for every scalar, base and amount; `SelectorsReadBack`; `ChunkReadBack` |
| `upload` | `AcceptedRecoverable`, `AuditShowsContent`, `AuditConfident`, `UploaderNotRevoked`, `HonestUploadAccepted`, `Retrievable` |

Runs that find a disagreement between a comment of the code and the code
(PROJECT.json, `findings`, quotes both):

| run | what it shows |
|---|---|
| `lost_token` | the nullifier is recorded before the proof is verified and the answer cached; a failure in between leaves the client with a token that every later proof is refused for |
| `batch_nonce` | two handlers of one process look up one nonce in the filter before either inserts it, and both grant their spends, of two subscribers' tokens: the nullifier set separates tokens, not nonces |
| `forgotten` | with a TTL of one epoch and the grace period, a token accepted for two epochs is redeemed twice |
| `grace` | the grace period enters only the TTL; tokens of the previous epoch are accepted for all of the next even with none |
| `far_handle` | a blacklisted handle beyond `u32::MAX` closes the last gap at an endpoint that proofs refuse |

### Bounds, and why they are enough

*Redemption.* One subscriber: accounts do not interact except through nonces,
and the theorems hold for any number. Three keys are a daily token and two
spends, either competing for one token or chained, or two requests of one daily
token and a spend. `batch_nonce` has two subscribers and four keys, two daily
tokens that exist independently and a spend of each: what its property forbids
needs two handlers that are past signing at once. Two tasks are the two handlers
whose interleaving matters; `forgotten` and `grace` need one only.
Epochs are `0..1`, so a token can be used in its own and the next; `batch_nonce`
has one, since a batch nonce knows no epochs. `UnitEpochs` makes an epoch one tick, `TwoTickEpochs`
two, for what happens inside an epoch. `Grace` and `Day` give the TTL: 3 against
two one-tick epochs in `spend`, `nonce` and `lost_token`; in
`refresh` 3 against one two-tick epoch; in `forgotten` 3, longer
than one epoch and shorter than two. `IdempotencyTTL` runs out within the runs;
in `progress` and `batch_nonce` an answer stays cached. `CMax = 2` (in `nonce`,
`lost_token`, `forgotten`, `grace`) lets a token be spent in one or in
two steps; the others have `CMax = 1`, since what they check does not depend on
amounts. Two expiries in `progress` give a subscriber an expired, a current or
both master tokens.

Clients name any second of the run in their proofs in all but two instances, and
any epoch in most: in `spend` they prove for seconds 1 and 2, when a token is
accepted in its epoch and in the next, ahead of the server or not, and for the
epochs of the calendar; `nonce` has tokens of epoch 0, spent before and after the
rollover; `forgotten` needs no more than proofs for the present.
A proof for a second that never comes, or for another epoch than the server's
two, is refused, which only adds a refused request.
Keys and tasks are symmetric because no action or property distinguishes them;
the run with liveness uses no symmetry. No deadlock is excused in these runs:
clients, restarts or cache hits are always possible.

*Revocation.* A domain `0..4` with all 32 blacklists has every case of the loop
(nothing, adjacent handles, first, last, several gaps); two versions and three
seconds let a copy or a proof be one version or up to two seconds behind, a
handle be expired, and a proof be for a value up to two beside the handle; two
proofs (`MaxProofs`) let one be accepted before the other is made. `far_handle` adds two values beyond the domain.

*Algorithms.* Two nonces and up to eight leaves: three levels, every padding.
The orders 37 and 41 of the equality proofs are prime like the code's, four limbs
in base 3 hold them as four words hold 256 bits, and balances, challenges and
blinders are in the code's proportions: a balance's response stays below the
smaller order, those of the distances and of the secret exceed both. Scalars
of four two-bit windows modulo 251 give every digit in every window, and
doublings that wrap around the order; amounts of five bits include all ones.
Four selectors in two bytes straddle a byte; points have three two-bit bytes and
two free bits. Every algorithm ends, so deadlock is not checked.

*Upload.* Two-byte points, two-point blocks and five bytes as the full-audit
limit: sizes 0, 5, 6 and 11 are the empty file, the limit with a short last
point, the first size beyond it, and three packed (six single) blocks, with odd
levels in their trees. Up to two stray blocks, two nonces that draw different
blocks at every number of them, 0, 2 or 3 proved blocks, and a batch threshold of
2, so that plain proofs of both forms occur. An audit promises to notice a quarter
of bad blocks with confidence 3/4, at most three samples. The caller's cuts are
all sequences of up to three blocks of any lengths a point can hold: full, short
and empty ones in every order. The blacklist is empty or has
the spender; two seconds and two versions let a revocation proof be for a value
beside the handle, or of the list before. A session ends when every bound is
reached, so deadlock is not checked.

### Fairness

`FairSpec` has `WF_vars(Handle(h))` for each task: tokio keeps polling a started
handler and each of its awaits (a Redis command, the blocking pool) returns a
result or an error. Nothing is asked of clients, answers, restarts or the clock,
and a failed step (`Abort`) is never forced. In `HandlersFinish` the handler may
therefore end either way; that it cannot circle or wait is what is shown.

## 4. What is proved

| theorem | statement |
|---|---|
| `TypeCorrect` | `Spec => []TypeOK` |
| `DailyTokenOnce` | `RefreshWindowCovered => (Spec => []OneDailyToken)` |
| `TokenRedeemedOnce` | `SpendWindowCovered => (Spec => []SingleRedemption)` |
| `RedeemedTokensRemembered` | `SpendWindowCovered => (Spec => []NullifierRemembered)` |
| `RateLimited` | `SpendWindowCovered => (Spec => []RateLimit)` |
| `LedgerImplemented` | `SpendWindowCovered => (Spec => ImplementsLedger)` |
| `NothingAfterExpiry` | `Spec => WithinSubscription` |
| `NoncesSeparateSpends` | `Spec => []NonceSpacing` |
| `VerifiedNotRevoked` | `Spec => []AcceptedNotRevoked` |
| `GapsAlwaysExact` | `Spec => []GapsExact` |
| `UnrevokedCanProve` | `HandlesInDomain => (Spec => []NotRevokedCanProve)` |
| `UploadersNotRevoked` | `Spec => []UploaderNotRevoked` |
| `RetrievableAlways` | `Spec => []Retrievable` |
| `AcceptedRecoverableAlways` | `Spec => []AcceptedRecoverable` |
| `AuditShowsContentAlways` | `Spec => []AuditShowsContent` |
| `HonestUploadsAccepted` | `Spec => []HonestUploadAccepted` |
| `AuditsConfident` | `Spec => []AuditConfident` |
| `EncodedChunkReadBack` | `EncodingAssumption => (EncodingSpec => []ChunkReadBack)` |
| `PackedSelectorsReadBack` | `StreamAssumption => (StreamSpec => []SelectorsReadBack)` |
| `RootIsDefined` | `BatchAssumption => (BatchSpec => []RootExact)` |
| `NoncesShownAlone` | `BatchAssumption => (BatchSpec => []PathsVerify)` |
| `TableMultiplies` | `FixedBaseAssumption => (TableSpec => []MulExact)` |
| `AmountsMultiply` | `FixedBaseAssumption => (TableSpec => []AmountExact)` |
| `ChallengesAnswered` | `CrossCurveAssumption => (Spec => []TwoAnswers)` |
| `HonestProofsAccepted` | `CrossCurveAssumption /\ ResponsesFit => (Spec => []HonestAccepted)` |

*Assumptions.* The named ASSUMEs of `RedemptionServer`: names are distinct,
numbers are naturals, the calendar is strictly increasing. Those of `FileBinding`
and `Upload`: points and blocks hold something, the fractions are fractions
(`LayoutAssumption`, `FractionAssumption`), there are two secrets, and a nonce
draws as many different blocks as it is asked for (`UploadAssumption`,
`NonceAssumption`; `challenge_indices` draws until it has them). And the deployment
conditions, which are hypotheses and not assumptions because a configuration may
break them:

* `RefreshWindowCovered`: an epoch nullifier set, counted from the start of its
  epoch, outlives that epoch and the rollover lag. With `TTL = Grace + Day` and
  day-long epochs this is `RolloverLag < Grace`.
* `SpendWindowCovered`: a spend nullifier set outlives the token's epoch **and
  the next one**. Day-long epochs and the default grace period of 300 seconds do
  not satisfy it, which is what `forgotten` shows; `epoch_grace_period_secs` has
  to exceed an epoch and the lag.

*Argument* (`RedemptionInvariant`). None of the properties is inductive: a
handler that has found its nullifier new and has not signed yet could sign in a
state where another handler already did. The invariant is built in four layers.

1. `Coherent` holds of any deployment. Types; every process is in an epoch the
   calendar allows; only signed requests are cached, answered or held; a spend
   names a signed token of the same account and commits to what it leaves; what
   a handler knows at each label.
2. `DailySafe`. `EpochSetsLast`: under `RefreshWindowCovered` a set with a TTL
   outlives the last moment a process can be in its epoch, so a recorded member
   stays. `DailyRecorded`: the account of a *claim* (a handler whose SADD said
   "new" and that has yet to verify) and of a signed refresh is in the set.
   Hence a second SADD cannot say "new": `DailyExclusive`, and `OneDailyToken`.
3. `SpendSafe`, the same for tokens and `SpendWindowCovered`; here the set is
   the one of the token's epoch and the accepting process may be one ahead.
4. `BalancesExact`. An account has at most one *live* token (signed, named by no
   signed spend), and its balance is `CMax - spent`. A refresh creates the first
   (no token of the account can exist before its daily token); a spend replaces
   the live one, because the token it names is not named by another signed
   spend. So `RateLimit`, and every signing is one step of `ActLedger` under the
   mapping `Allowance`, every other action a stutter.

*Expiries and nonces* (`RedemptionProofs`, any deployment). A request that was signed
had its second compared with its expiry, and equals the second its handler read;
the expiry is one of a master token of its account, because a refresh shows a
master token and a spend names a token signed for one. For nonces (`NoncesSafe`):
a handler that took its nonce out of Redis and may still sign, and a signed spend
whose handler did, keep the nonce's key alive for `NonceTTL` seconds from the
second they took it (`NoncesHeld`); the key's expiry only grows, and nobody takes
a nonce whose key is alive. So whoever takes it later does so at least that much
later (`NoncesApart`). The seconds the proofs bind play no part, and what goes
through the Bloom filter leaves the key alone.

*Induction* (`Induction`, `Folding`). What a loop, a fold or a recursive
function computes is proved by induction over its rounds. The induction is
stated with a set, `0 \in S` and `n \in S => n + 1 \in S`, and not with an
operator, which the provers cannot instantiate. `Folding` gives the same for
`FoldLeft`: `After(start, seq, k)` is the accumulator after `k` elements. Its
operator is a CONSTANT, and a proof about a fold uses the instance of the module
with the operator it folds (`Joining == INSTANCE Folding WITH Op <- Join`);
operators that are folded therefore have names of their own in the modules.

*Revocation* (`RevocationProofs`). After the loop of `sign_blacklist` has taken
the handles up to some value, its left end is the largest of them, and each
smaller value that is no handle is strictly inside exactly one of its gaps: this
is shown by induction on a bound of the handles, for any set of them. So the gaps of
every published list are exact (`GapsAlwaysExact`). What is signed with a version
is a gap of one of the version's blacklists, which never changes while the version
does not; the gap of an accepted proof that carries a signature, as those of the
code's prover do, is therefore one of the list it is verified
against, and both comparisons put its value strictly inside; if the seconds of
list and companion proof are equal, the value is the expiry. `UnrevokedCanProve`
needs `HandlesInDomain`, no blacklisted handle beyond the domain; `far_handle`
shows that it cannot do without. `VerifiedNotRevoked` and `GapsAlwaysExact` have
no such condition.

*Files* (`FileProofs`). What `FileBinding` computes is proved for any session: a
layout, lengths of blocks, a key, and blocks under another key.

* *Decryption.* `Starts` are the places where blocks begin, the sums of the
  lengths before them; `Pieces` are the intervals between. Followed round by round
  (`ReadBackSteps`), the fold of decryption has after `n` blocks the file up to
  the place where the next begins. The packed layouts read each block by its own
  length (`ReadPacked`). The others derive lengths from the total and read every
  point whole, a short one with the zero bytes of its padding (`ReadPadded`);
  since the bytes of the modelled file are not zero, what comes back is the file
  *only if* `CutFull` holds.
* *Challenges.* `ChallengeIndices` are as many numbers as are asked for,
  ascending; as many as there are blocks are all of them in order (`AskedAll`).
* *Trees.* An odd node at the end of a level moves up as it is. A path that
  leads from a block to its place in a level leads, with the sibling if there is
  one, to the place above (`ClimbIs`); so every block's path leads to the root
  (`PathsLead`).
* *Samples.* The numbers of subsets are counted from
  `(k + 1) * C(n, k + 1) = (n - k) * C(n, k)` (`WaysGrow`). Hence the share of
  `k`-subsets that lie within `good` of `n` blocks is at most `Missed(n, good, k)`,
  the product that the sample-count loop lowers until it is small enough
  (`SamplesCatch`); the loop stops there or at the cap (`SampleCatches`). The
  samples that pass an audit are such subsets, of the blocks the key opens
  (`PassingReadable`).

*Uploads* (`UploadProofs`). That an accepted file is readable is not inductive:
file proofs are kept and reused, and acceptance is remembered after the session's
nonce has changed. `FileInv` adds that before a session nothing exists (`Idle`); that a session holds a layout and
lengths it can have and that sum up to its size, nonces are ones that can be drawn,
and an upload proof is of a packed file and of a second not past the expiry
(`SoundSession`, `SoundState`); and that a small file that was accepted is
encrypted, in every point, under the key it was audited under (`AcceptedKeyed`).
A full audit asks for every block in order; decryption with that
key then gives the file (`AcceptedRecoverable`), and what the revealing proof
showed is what the key makes of the blocks (`AuditShowsContent`). `Retrievable`,
`AuditConfident` and `HonestUploadAccepted` follow from a sound session and the
lemmas on files. For `UploaderNotRevoked` (`ContextInv`): a revocation proof is of
an earlier version, or for a value that the list does not have; the verifier's
version is the one signed, and since upload, spend proof and list are of one
second the value is the expiry.

*Point encodings* (`AlgorithmProofs`, as the next three). The payload's bits end
where the filler's begin, and clearing the top bit does not reach them.

*Selectors.* `PackedSoFar` says of every byte which bits it has after `next`
selectors: those that a packed selector's bit index puts there. Bit indices of
different selectors or bits differ, so reading finds the bits of one selector only.

*Nonce batches.* `HashingSound` is the invariant of the in-place tree: while the
level of height `d` is read, the slots below `i` hold nodes of height `d + 1`, and
those from `2 * i` on still hold nodes of height `d`. A parent is written to a
slot at or before its left child, so nothing is lost. For `PathsVerify`, a path's
siblings are the neighbours of the leaf's ancestors (induction up the levels),
and since hashes are free terms, folding a path onto a hash gives the root if and
only if the hash is the leaf's.

*Multiples.* `TableSound`: the table so far holds `digit * 2^(WindowBits * w) *
base` for its windows, each a fold of additions, and `baseExp` is the next window's
base. The sum that `Mul` folds is, after `w` windows, the product with the scalar's
lowest `w` windows; bytes hold two windows each. The order must not exceed what
the windows hold (`Order <= 2^(WindowBits * NumWindows)`): scalars are 32 bytes, and
the table has 64 windows of four bits. `HalvingSound` is the invariant of double-and-add,
`result + n * addend = amount * point`.

*Equality proofs* (`CrossCurveProofs`). A response that passes the bound is below
`Q` (the limb comparison is shown to be the order of the numbers), and `c` times a
balance is too, so on the Ristretto side it is the announcement plus `c * m`, or
`Q` less. Of three answered challenges two wrapped alike; on the other side the
product of the differences of challenges and of balances is a multiple of the
prime `R`, both factors being smaller: the challenges are equal.
Honest proofs: four limbs with their carries are the limbs of the sum they stand
for (`CarriedSums`, a fold of four steps), so `LimbMul` and `LimbAdd` multiply and
add, and no carry is lost below 2^256; the verifier's combination of residues and
the prover's of integers differ by a multiple of the order. `ResponsesFit` says
that blinders leave room below the bounds: `2^240 + (2^128-1) * (2^64-1) <= q`, and
the same for `2^433` and `2^385`.
`CrossCurveAssumption` (`(2^128-1) * (2^64-1) < q`, `q < r < 2^256`, `r` prime) and
`ResponsesFit` hold of the code's constants and are evaluated by TLC for the small
ones.

*Only model-checked.* `HandlersFinish`: liveness is out of the prover's reach.
Every invariant and action property of the passing runs has a theorem.

## 5. Notes for a reader of the code

Behaviour met while modelling that no document contradicts, so that it is no
finding:

* A proof is bound to a second and the server reads its clock after four
  awaits; a request delayed over the turn of the second fails after its
  nullifier was recorded. This is one of the ways to `lost_token`.
* `publish_high_privacy_batch` replaces the current root, which no handler
  reads: the caller of `verify_merkle_nonce` names the root. A nonce can so be
  taken once through the Bloom filter and once through Redis, and the filter is
  empty after a restart. No property forbids either: `NonceSpacing` is about
  what Redis let pass, `SingleRedemption` about tokens, whatever their nonces.
* `verify_refresh_not_revoked` and `verify_spend_not_revoked` do not compare the
  second of the list with that of the companion proof. Their callers have to;
  `verify_upload_spend_with_revocation` does.
* The verifier of a gap proof does not compare the blinded signature with the
  identity (gap.rs:178-202), with which its equation no longer depends on the
  gap. The models keep that disjunct and make no such proof, so
  `AcceptedNotRevoked` and `UploaderNotRevoked` say nothing of one.
* Nothing is stated about unequal distances or secrets in the equality proofs
  with bounds above both orders: what their challenges leave open would have to
  be counted over residues at full width.
* An empty file can be committed to, expects no challenge, and is refused by the
  batch proof, which wants a block; `HonestUploadAccepted` asks for a byte. The
  revealing layout accepts it, with a proof of no blocks.
* The commitment functions that take the caller's blocks accept a short block
  before the last one, and decryption then gives as many bytes as the file has,
  but not the file (`Retrievable`).
* The sample count multiplies in `f64` where the model has exact fractions: for
  the default fraction both give the same count for files of up to three million
  blocks, which was computed outside this project.
* The upload verifiers consult no nullifier store and do not compare the
  challenge nonce with an issued one. Both are left to a caller that is not in
  this repository; `Audit` models one that passes the nonce issued last.
* Padding leaves of a nonce batch are ordinary leaves, and the zero nonce has a
  path in a padded batch.

## 6. Plan

Done, in order: redemption server with master mint and its proofs, revocation
list, nonce batch, file binding with caller-cut blocks, upload, equality proofs,
multiples, selector stream, point encoding, and proofs about all of them. What is
left waits for code:

1. Compose `Upload` and `RevocationList` with `RedemptionServer` once the
   repository has the caller that records an upload's nullifier and asks for
   a revocation proof; today it has none, and a model of it would be invention.
2. The batch verifiers of refreshes and spends, once a handler calls them.
