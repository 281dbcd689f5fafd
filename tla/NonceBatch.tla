----------------------------- MODULE NonceBatch -----------------------------
(***************************************************************************)
(* High-privacy nonces (src/server.rs): a batch of nonces is hashed into a *)
(* Merkle tree in place, its root is published, and a client shows with a  *)
(* path that its nonce is in the batch.                                    *)
(*                                                                         *)
(* Hashes are free terms: <<n>> is the hash of the leaf n and <<a, b>> the *)
(* hash of the pair a, b, so two hashes are equal only when their          *)
(* preimages are.  Rust's arrays are functions from 0.                     *)
(***************************************************************************)
EXTENDS Integers, Sequences, FiniteSets, SequencesExt

CONSTANTS
    Nonce,      \* 16-byte nonces
    Zero,       \* the nonce of sixteen zero bytes, with which batches are padded
    MaxDepth    \* bound: batches of 0..2^MaxDepth nonces

BatchAssumption ==
    /\ MaxDepth \in Nat
    /\ Zero \notin Nonce

VARIABLES
    leaves,     \* the nonces of the batch
    hashes,     \* the array the tree is computed in
    levelSize,  \* how many hashes the level being read has
    i           \* the next pair of that level

batchVars == <<leaves, hashes, levelSize, i>>

LeafHash(n) == <<n>>
PairHash(a, b) == <<a, b>>

\* next_power_of_two; of zero it is one.
PaddedLen(n) == CHOOSE p \in {2^d : d \in 0..MaxDepth} :
                    n <= p /\ \A q \in {2^d : d \in 0..MaxDepth} : n <= q => p <= q

\* The leaf hashes of a batch, padded with zero nonces.
PaddedHashes(batch) ==
    [j \in 0..(PaddedLen(Len(batch)) - 1) |->
        LeafHash(IF j < Len(batch) THEN batch[j + 1] ELSE Zero)]

-----------------------------------------------------------------------------
(* MerkleTree::build                                                       *)

BatchInit ==
    /\ leaves \in UNION {[1..n -> Nonce] : n \in 0..(2^MaxDepth)}
    /\ hashes = PaddedHashes(leaves)
    /\ levelSize = PaddedLen(Len(leaves))
    /\ i = 0

\* Mutant: neighbours are paired from the wrong side of the level.
HashAdjacent(j) == hashes' = [hashes EXCEPT ![j] = PairHash(hashes[j], hashes[j + 1])]

\* Parent j overwrites the hash at j, which the level has read by then.
HashPair(j) == hashes' = [hashes EXCEPT ![j] = PairHash(hashes[2 * j], hashes[2 * j + 1])]

NextPair ==
    /\ levelSize > 1
    /\ i < levelSize \div 2
    /\ HashPair(i)
    /\ i' = i + 1
    /\ UNCHANGED <<leaves, levelSize>>

NextLevel ==
    /\ levelSize > 1
    /\ i = levelSize \div 2
    /\ levelSize' = levelSize \div 2
    /\ i' = 0
    /\ UNCHANGED <<leaves, hashes>>

Built == levelSize = 1

BatchNext == NextPair \/ NextLevel

BatchSpec == BatchInit /\ [][BatchNext]_batchVars

Root == hashes[0]

-----------------------------------------------------------------------------
(* MerkleTree::prove and MerkleProof::verify                               *)

Sibling(idx) == IF idx % 2 = 0 THEN idx + 1 ELSE idx - 1

\* One level up: the siblings so far, the index there and the level's hashes.
Climb(at, level) ==
    LET size == Cardinality(DOMAIN at.level) IN
    [siblings |-> Append(at.siblings, at.level[Sibling(at.idx)]),
     idx      |-> at.idx \div 2,
     level    |-> [j \in 0..(size \div 2 - 1) |->
                      PairHash(at.level[2 * j], at.level[2 * j + 1])]]

Depth == CHOOSE d \in 0..MaxDepth : 2^d = PaddedLen(Len(leaves))

\* The path of the nonce at an index of the batch (prove gives none beyond it).
\* The levels are hashed anew from the leaves, not read from the array.
MerkleProof(index) ==
    LET top == FoldLeft(Climb,
                        [siblings |-> <<>>, idx |-> index, level |-> PaddedHashes(leaves)],
                        [d \in 1..Depth |-> d])
    IN [leaf |-> leaves[index + 1], siblings |-> top.siblings, index |-> index]

\* Mutant: every sibling is hashed on the right.
JoinRight(at, sibling) == [idx |-> at.idx \div 2, hash |-> PairHash(at.hash, sibling)]

Join(at, sibling) ==
    [idx  |-> at.idx \div 2,
     hash |-> IF at.idx % 2 = 0 THEN PairHash(at.hash, sibling) ELSE PairHash(sibling, at.hash)]

Verify(proof, root) ==
    FoldLeft(Join, [idx |-> proof.index, hash |-> LeafHash(proof.leaf)], proof.siblings).hash = root

-----------------------------------------------------------------------------
(* Properties                                                              *)

\* The Merkle tree by its definition: the nodes of each height.
Tree[d \in 0..Depth] ==
    [j \in 0..(2^(Depth - d) - 1) |->
        IF d = 0
        THEN LeafHash(IF j < Len(leaves) THEN leaves[j + 1] ELSE Zero)
        ELSE PairHash(Tree[d - 1][2 * j], Tree[d - 1][2 * j + 1])]

\* Hashing in place never overwrites what it has yet to read: the root is the
\* one the definition gives.
RootExact == Built => Root = Tree[Depth][0]

\* Every nonce of a published batch has a path to the root, and the same path
\* shows no other nonce.
PathsVerify ==
    Built => \A index \in 0..(Len(leaves) - 1) :
        LET proof == MerkleProof(index) IN
        /\ Verify(proof, Root)
        /\ \A n \in Nonce \cup {Zero} :
             Verify([proof EXCEPT !.leaf = n], Root) => n = leaves[index + 1]
=============================================================================
