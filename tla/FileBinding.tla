----------------------------- MODULE FileBinding -----------------------------
(***************************************************************************)
(* Accountable file binding: a file is cut into blocks, every block is     *)
(* encrypted under the key of its owner, the blocks are hashed into a      *)
(* Merkle tree, and an audit asks for a proof about some of them.  Four    *)
(* layouts share this: "plain" and "single" (the revealing and the private *)
(* proofs of src/file_binding.rs, one point a block), "packed" (its        *)
(* accountable proofs, several points a block) and "elligator"             *)
(* (src/option1_file_binding.rs, packed, with the selectors of a block's   *)
(* points hidden under the block's place).                                 *)
(*                                                                         *)
(* A secret x stands for its public key as well.  A ciphertext point is    *)
(* the payload and the key it is encrypted under; a point decrypted with   *)
(* another key is garbage.  The plaintext commitment that a block carries  *)
(* for a point is to that payload.  Hashes are free terms.                 *)
(***************************************************************************)
EXTENDS Integers, Sequences, FiniteSets, SequencesExt

CONSTANTS
    PointBytes,     \* payload bytes of one point (17; 31 in the elligator layout)
    PointsPerBlock, \* points of a packed block (16)
    FullAuditBytes, \* FULL_AUDIT_FILE_BYTES
    MaxChallenges,  \* MAX_AUDIT_CHALLENGES
    BatchThreshold, \* BATCH_THRESHOLD
    BadFraction,    \* DEFAULT_AUDIT_BAD_FRACTION, as <<numerator, denominator>>
    Confidence      \* DEFAULT_FILE_AUDIT_CONFIDENCE, likewise

ASSUME LayoutAssumption ==
    /\ PointBytes \in Nat \ {0}
    /\ PointsPerBlock \in Nat \ {0}
    /\ FullAuditBytes \in Nat
    /\ MaxChallenges \in Nat \ {0}
    /\ BatchThreshold \in Nat

ASSUME FractionAssumption ==
    /\ BadFraction[1] \in Nat \ {0} /\ BadFraction[2] \in Nat /\ BadFraction[1] <= BadFraction[2]
    /\ Confidence[1] \in Nat \ {0} /\ Confidence[2] \in Nat /\ Confidence[1] < Confidence[2]

Layout == {"plain", "single", "packed", "elligator"}
OnePoint == {"plain", "single"}

CeilDiv(a, b) == (a + b - 1) \div b
Least(a, b) == IF a <= b THEN a ELSE b

-----------------------------------------------------------------------------
(* Points and blocks                                                       *)

\* slice::chunks: pieces of n elements, the last one shorter.
Chunks(s, n) ==
    [c \in 1..CeilDiv(Len(s), n) |-> SubSeq(s, (c - 1) * n + 1, Least(c * n, Len(s)))]

\* A chunk is padded with zero bytes to the payload of a point ...
Encode(chunk) == [b \in 1..PointBytes |-> IF b <= Len(chunk) THEN chunk[b] ELSE 0]

\* ... and read back with its length.
Decode(payload, len) == SubSeq(payload, 1, len)

Garbage == [b \in 1..PointBytes |-> -1]

Encrypt(chunk, key) == [plain |-> Encode(chunk), key |-> key]

Decrypted(point, x) == IF point.key = x THEN point.plain ELSE Garbage

\* c1 names the block's fresh randomness.  Only packed blocks store lengths.
SingleBlock(c1, chunk, key) ==
    [c1 |-> c1, points |-> <<Encrypt(chunk, key)>>, lens |-> <<>>]

PackedBlock(c1, group, key) ==
    LET chunks == Chunks(group, PointBytes) IN
    [c1     |-> c1,
     points |-> [j \in 1..Len(chunks) |-> Encrypt(chunks[j], key)],
     lens   |-> [j \in 1..Len(chunks) |-> Len(chunks[j])]]

BlockBytes(layout) == IF layout \in OnePoint THEN PointBytes ELSE PointBytes * PointsPerBlock

\* How long the blocks of a file of a size are: as long as they can be but for
\* the last one.
BlockLengths(layout, size) ==
    LET n == BlockBytes(layout) IN
    [g \in 1..CeilDiv(size, n) |-> Least(n, size - (g - 1) * n)]

\* Where pieces of given lengths, one after the other, begin, and the last ends.
NextStart(starts, len) == Append(starts, starts[Len(starts)] + len)
Starts(lengths) == FoldLeft(NextStart, <<0>>, lengths)

TotalLength(lengths) == Starts(lengths)[Len(lengths) + 1]

Pieces(file, lengths) ==
    LET starts == Starts(lengths) IN
    [g \in 1..Len(lengths) |-> SubSeq(file, starts[g] + 1, starts[g + 1])]

\* Blocks of a file in pieces; those with an index in `strays` under another key.
Blocks(layout, pieces, key, strays, other) ==
    LET keyOf(i) == IF i \in strays THEN other ELSE key IN
    [i \in 1..Len(pieces) |->
        IF layout \in OnePoint THEN SingleBlock(i, pieces[i], keyOf(i))
                              ELSE PackedBlock(i, pieces[i], keyOf(i))]

-----------------------------------------------------------------------------
(* The Merkle tree over the blocks                                         *)

LeafHash(block) == <<block>>
NodeHash(l, r) == <<l, r>>
NoRoot == <<>>      \* the root of no leaves, thirty-two zero bytes

\* The last hash of an odd level moves up as it is.
NextLevel(level) ==
    [c \in 1..CeilDiv(Len(level), 2) |->
        IF 2 * c <= Len(level) THEN NodeHash(level[2 * c - 1], level[2 * c]) ELSE level[2 * c - 1]]

\* The next level on top of a tree, while the last one is not the root alone.
Grow(tree, leaf) ==
    LET level == tree[Len(tree)] IN
    IF Len(level) > 1 THEN Append(tree, NextLevel(level)) ELSE tree

\* The levels of the tree, from the leaves to the root: fewer than leaves.
Tree(leaves) ==
    IF leaves = <<>> THEN <<<<NoRoot>>>>
    ELSE FoldLeft(Grow, <<[i \in 1..Len(leaves) |-> LeafHash(leaves[i])]>>, leaves)

Root(leaves) == LET tree == Tree(leaves) IN tree[Len(tree)][1]

\* Mutant: the side of a sibling is the node's.
ClimbBesideSelf(at, level) ==
    LET sibling == IF at.idx % 2 = 0 THEN at.idx + 1 ELSE at.idx - 1 IN
    [idx  |-> at.idx \div 2,
     path |-> IF sibling < Len(level)
              THEN Append(at.path, [left |-> at.idx < sibling, hash |-> level[sibling + 1]])
              ELSE at.path]

\* One level up: the sibling, with the side it is on, if there is one.
Climb(at, level) ==
    LET sibling == IF at.idx % 2 = 0 THEN at.idx + 1 ELSE at.idx - 1 IN
    [idx  |-> at.idx \div 2,
     path |-> IF sibling < Len(level)
              THEN Append(at.path, [left |-> sibling < at.idx, hash |-> level[sibling + 1]])
              ELSE at.path]

\* The siblings of a leaf, counted from 0 as in the code.
MerklePath(tree, index) == FoldLeft(Climb, [idx |-> index, path |-> <<>>], Front(tree)).path

Join(hash, s) == IF s.left THEN NodeHash(s.hash, hash) ELSE NodeHash(hash, s.hash)

PathLeadsTo(block, path, root) == FoldLeft(Join, LeafHash(block), path) = root

-----------------------------------------------------------------------------
(* Commitments and decryption                                              *)

Commitment(layout, file, blocks) ==
    [layout |-> layout, root |-> Root(blocks), blocks |-> Len(blocks), size |-> Len(file)]

\* Mutant: a point gives a full payload whatever its length.
ReadPointWhole(read, p) ==
    [bytes |-> read.bytes \o p.plain, left |-> read.left - Least(read.left, p.len)]

\* A point gives as many bytes as it has, unless the file has fewer left.
ReadPoint(read, p) ==
    LET len == Least(read.left, p.len) IN
    [bytes |-> read.bytes \o Decode(p.plain, len), left |-> read.left - len]

ReadBlock(read, points) == FoldLeft(ReadPoint, read, points)

\* The bytes of a file of a size, from the decrypted points of its blocks.
ReadBack(opened, size) == FoldLeft(ReadBlock, [bytes |-> <<>>, left |-> size], opened).bytes

\* decrypt_file_from_ciphertexts: a point is a whole chunk but for the last.
DecryptSingle(blocks, c, x) ==
    ReadBack([i \in 1..Len(blocks) |->
                <<[plain |-> Decrypted(blocks[i].points[1], x), len |-> PointBytes]>>], c.size)

\* decrypt_accountable_file_from_ciphertexts: each point has its length.
DecryptPacked(blocks, c, x) ==
    ReadBack([i \in 1..Len(blocks) |->
                [j \in 1..Len(blocks[i].points) |->
                    [plain |-> Decrypted(blocks[i].points[j], x), len |-> blocks[i].lens[j]]]], c.size)

\* decrypt_option1_file_from_ciphertexts: a block out of its place has the
\* wrong selector mask, so its points decode to something else.
DecryptElligator(blocks, c, x) ==
    DecryptPacked([i \in 1..Len(blocks) |->
        IF blocks[i].c1 = i THEN blocks[i]
        ELSE [blocks[i] EXCEPT !.points =
                [j \in 1..Len(blocks[i].points) |-> [plain |-> Garbage, key |-> x]]]], c, x)

DecryptFile(blocks, c, x) ==
    CASE c.layout \in OnePoint  -> DecryptSingle(blocks, c, x)
      [] c.layout = "packed"    -> DecryptPacked(blocks, c, x)
      [] c.layout = "elligator" -> DecryptElligator(blocks, c, x)

-----------------------------------------------------------------------------
(* Audits                                                                  *)

\* How many of n blocks count as bad.
BadBlocks(n) == Least(n, CeilDiv(n * BadFraction[1], BadFraction[2]))

\* One sample more misses the bad blocks too; fractions are <<numerator, denominator>>.
MissAgain(miss, odds) == <<miss[1] * odds[1], miss[2] * odds[2]>>

\* How likely k samples without replacement are to be among the good ones of n blocks.
Missed(n, good, k) ==
    FoldLeft(MissAgain, <<1, 1>>, [j \in 1..k |-> <<good - (j - 1), n - (j - 1)>>])

\* Whether k samples meet a bad block with the confidence asked for.
Catches(n, k) ==
    LET good == n - BadBlocks(n)
        miss == Missed(n, good, k)
    IN \/ good - (k - 1) <= 0
       \/ (miss[2] - miss[1]) * Confidence[2] >= Confidence[1] * miss[2]

\* Mutant: one sample too few.
SampleCountShort(n) ==
    LET max == Least(MaxChallenges, n)
        enough == {k \in 1..max : Catches(n, k)}
    IN IF enough = {} THEN max ELSE (CHOOSE k \in enough : \A j \in enough : k <= j) - 1

\* The first k that is enough, or the cap.
SampleCount(n) ==
    LET max == Least(MaxChallenges, n)
        enough == {k \in 1..max : Catches(n, k)}
    IN IF enough = {} THEN max ELSE CHOOSE k \in enough : \A j \in enough : k <= j

ExpectedCount(c) ==
    IF c.blocks = 0 THEN 0 ELSE IF c.size <= FullAuditBytes THEN c.blocks ELSE SampleCount(c.blocks)

\* A set of numbers as a sequence.
Ascending(S) ==
    [j \in 1..Cardinality(S) |-> CHOOSE i \in S : Cardinality({h \in S : h < i}) = j - 1]

\* The blocks a nonce asks for, in ascending order from 0.  Hashing the nonce,
\* the number of blocks and how many are wanted with a counter draws indices
\* until there are enough; a nonce is represented by the sets drawn so.
ChallengeIndices(nonce, n, count) ==
    LET target == Least(count, n) IN
    Ascending(IF target = n THEN 0..(n - 1) ELSE nonce[<<n, target>>])

\* create_*_file_proof, for the file key and the context the prover claims.
\* A plain proof shows what its key makes of each block, and is one proof of
\* all of them from BatchThreshold blocks on.
FileProof(blocks, c, nonce, count, key, ctx) ==
    LET asked == ChallengeIndices(nonce, Len(blocks), count)
        tree  == Tree(blocks)
    IN
    [root   |-> c.root,
     key    |-> key,
     ctx    |-> ctx,
     batch  |-> Len(asked) >= BatchThreshold,
     blocks |-> [j \in 1..Len(asked) |->
                    [index    |-> asked[j],
                     block    |-> blocks[asked[j] + 1],
                     revealed |-> Decrypted(blocks[asked[j] + 1].points[1], key),
                     path     |-> MerklePath(tree, asked[j])]]]

\* The shape a packed block must have.
WellFormed(block) ==
    /\ Len(block.points) \in 1..PointsPerBlock
    /\ Len(block.lens) = Len(block.points)
    /\ \A j \in 1..Len(block.lens) : block.lens[j] \in 1..PointBytes

\* The key decrypts every point to the payload its commitment is to.
OpensTo(block, key) ==
    \A p \in 1..Len(block.points) : Decrypted(block.points[p], key) = block.points[p].plain

\* Coefficients and challenge are hashed from the key and the context.
BoundTo(proof, key, ctx) == proof.key = key /\ proof.ctx = ctx

\* The batch equation, about a random combination of all the points.
BatchHolds(proof, layout, key, ctx) ==
    /\ proof.blocks # <<>>
    /\ BoundTo(proof, key, ctx)
    /\ \A j \in 1..Len(proof.blocks) :
         LET block == proof.blocks[j].block IN
         /\ layout \notin OnePoint => WellFormed(block)
         /\ OpensTo(block, key)

\* The DLEQ proofs of a plain file: what was shown of a block is what the key
\* behind the tag makes of it, whichever key it was encrypted under.
RevealsHold(proof, key) ==
    /\ proof.batch \/ proof.blocks # <<>> => proof.key = key
    /\ \A j \in 1..Len(proof.blocks) :
         proof.blocks[j].revealed = Decrypted(proof.blocks[j].block.points[1], key)

\* verify_*_file_proof.
FileProofHolds(proof, c, nonce, key, ctx) ==
    LET expected == ChallengeIndices(nonce, c.blocks, Len(proof.blocks)) IN
    /\ proof.root = c.root
    /\ Len(proof.blocks) <= c.blocks
    /\ c.blocks > 0 => proof.blocks # <<>>
    /\ \A j \in 1..Least(Len(proof.blocks), Len(expected)) :
         LET b == proof.blocks[j] IN b.index = expected[j] /\ PathLeadsTo(b.block, b.path, c.root)
    /\ IF c.layout = "plain" THEN RevealsHold(proof, key)
                             ELSE BatchHolds(proof, c.layout, key, ctx)

\* Mutant: the number of blocks is left to the prover.
AuditHoldsAnyCount(proof, c, nonce, key, ctx) == FileProofHolds(proof, c, nonce, key, ctx)

\* verify_*_file_proof_with_confidence.
AuditHolds(proof, c, nonce, key, ctx) ==
    /\ Len(proof.blocks) = ExpectedCount(c)
    /\ FileProofHolds(proof, c, nonce, key, ctx)
=============================================================================
