---------------------------- MODULE UploadProofs ----------------------------
(***************************************************************************)
(* Uploads and audits of files, for every size, layout, cut, nonce and     *)
(* number of users: what is accepted can be decrypted by the one it was    *)
(* accepted from, what an auditor is shown is what the key reads, samples  *)
(* catch bad blocks with the confidence asked for, a client that follows   *)
(* the code is accepted, and an upload is accepted with a revocation list  *)
(* only from a spender who is not on it.                                   *)
(***************************************************************************)
EXTENDS Upload, FileProofs

-----------------------------------------------------------------------------
(* The committed file                                                      *)

\* A session holds a file of its size in pieces of its lengths, which a packed
\* file's are the library's.
SoundSession(s) ==
    /\ s.layout \in Layout /\ s.size \in Nat
    /\ s.lengths \in Seq(Nat) /\ TotalLength(s.lengths) = s.size
    /\ s.layout \in OnePoint => s.lengths \in Seq(0..PointBytes)
    /\ s.layout \notin OnePoint => s.lengths = BlockLengths(s.layout, s.size)
    /\ Len(s.lengths) \in BlockCounts

\* The pieces of a session's file.
PiecesOf(s) == Pieces(File(s.size), s.lengths)

LEMMA FileIs ==
    ASSUME NEW size \in Nat
    PROVE  /\ File(size) \in Seq(Nat) /\ Len(File(size)) = size
           /\ \A b \in 1..size : File(size)[b] # 0
  <1>1. File(size) \in [1..size -> Nat] /\ \A b \in 1..size : File(size)[b] # 0
    BY DEF File
  <1> QED
    BY <1>1, SequenceOf

LEMMA PiecesOfAre ==
    ASSUME NEW s, SoundSession(s)
    PROVE  /\ Len(PiecesOf(s)) = Len(s.lengths) /\ Len(s.lengths) \in Nat
           /\ \A i \in 1..Len(s.lengths) :
                PiecesOf(s)[i] \in Seq(Nat) /\ Len(PiecesOf(s)[i]) = s.lengths[i]
  <1> DEFINE n == Len(s.lengths)
  <1>1. s.lengths \in Seq(Nat) /\ s.size \in Nat /\ TotalLength(s.lengths) = s.size
    BY DEF SoundSession
  <1>2. n \in Nat /\ Len(PiecesOf(s)) = n
    BY <1>1 DEF PiecesOf, Pieces
  <1>3. TotalLength(s.lengths) = Len(File(s.size)) /\ File(s.size) \in Seq(Nat)
    BY <1>1, FileIs
  <1>4. ASSUME NEW i \in 1..n
        PROVE  PiecesOf(s)[i] \in Seq(Nat) /\ Len(PiecesOf(s)[i]) = s.lengths[i]
    BY <1>1, <1>3, PieceIs DEF PiecesOf
  <1> QED
    BY <1>2, <1>4

LEMMA CiphertextsAre ==
    ASSUME LayoutAssumption, NEW s, SoundSession(s)
    PROVE  LET blocks == CiphertextsOf(s)
               c == CommitmentOf(s)
               n == Len(s.lengths)
           IN /\ n \in Nat /\ DOMAIN blocks = 1..n /\ Len(blocks) = n
              /\ HoldingPieces(blocks, s.layout, PiecesOf(s))
              /\ s.strays = {} => Keyed(blocks, s.key)
              /\ c.layout = s.layout /\ c.root = Root(blocks) /\ c.blocks = n /\ c.size = s.size
              /\ c = Commitment(s.layout, File(s.size), blocks)
  <1> DEFINE blocks == CiphertextsOf(s)
             pieces == PiecesOf(s)
             n == Len(s.lengths)
  <1>1. /\ Len(pieces) = n /\ n \in Nat
        /\ \A i \in 1..n : pieces[i] \in Seq(Nat)
    BY PiecesOfAre
  <1>2. blocks = Blocks(s.layout, pieces, s.key, s.strays, Other(s.key))
    BY DEF CiphertextsOf, PiecesOf
  <1> HIDE DEF pieces, n, blocks
  <1>3. \A i \in 1..Len(pieces) : Len(pieces[i]) \in Nat
    BY <1>1
  <1>4. HoldingPieces(blocks, s.layout, pieces) /\ (s.strays = {} => Keyed(blocks, s.key))
    BY <1>1, <1>2, <1>3, BlocksAre
  <1>5. DOMAIN blocks = 1..n /\ Len(blocks) = n
    BY <1>1, <1>4 DEF HoldingPieces
  <1>6. CommitmentOf(s) = Commitment(s.layout, File(s.size), blocks)
    BY DEF CommitmentOf, blocks
  <1>7. /\ CommitmentOf(s).layout = s.layout /\ CommitmentOf(s).root = Root(blocks)
        /\ CommitmentOf(s).blocks = n /\ CommitmentOf(s).size = s.size
    <2>1. Len(File(s.size)) = s.size
      BY FileIs DEF SoundSession
    <2> QED
      BY <1>5, <1>6, <2>1 DEF Commitment
  <1> QED
    BY <1>1, <1>4, <1>5, <1>6, <1>7 DEF blocks, pieces, n

\* A nonce draws blocks of any file that can be committed to.
LEMMA NoncesDraw ==
    ASSUME NonceAssumption, NEW s, SoundSession(s), NEW draw \in Nonces
    PROVE  Draws(draw, Len(s.lengths))
  BY DEF NonceAssumption, SoundSession, Draws

-----------------------------------------------------------------------------
(* Decryption                                                              *)

\* With all its points under a key, a file of one point a block decrypts to as
\* many bytes, and to itself just if its blocks are full; a packed one always.
LEMMA DecryptsOwn ==
    ASSUME LayoutAssumption, NEW s, SoundSession(s), NEW x, Keyed(CiphertextsOf(s), x)
    PROVE  LET bytes == DecryptFile(CiphertextsOf(s), CommitmentOf(s), x)
           IN /\ Len(bytes) = s.size
              /\ bytes = File(s.size) <=> FullUpToLast(s.lengths, BlockBytes(s.layout))
  <1> DEFINE blocks == CiphertextsOf(s)
             file == File(s.size)
             bytes == DecryptFile(blocks, CommitmentOf(s), x)
  <1>1. /\ file \in Seq(Nat) /\ Len(file) = s.size /\ \A b \in 1..Len(file) : file[b] # 0
    BY FileIs DEF SoundSession
  <1>2. /\ s.layout \in Layout /\ s.size \in Nat /\ s.lengths \in Seq(Nat)
        /\ TotalLength(s.lengths) = Len(file)
    BY <1>1 DEF SoundSession
  <1>3. /\ HoldingPieces(blocks, s.layout, Pieces(file, s.lengths))
        /\ CommitmentOf(s) = Commitment(s.layout, file, blocks)
    BY CiphertextsAre DEF PiecesOf
  <1> HIDE DEF blocks, file
  <1>4. Keyed(blocks, x) /\ bytes = DecryptFile(blocks, Commitment(s.layout, file, blocks), x)
    BY <1>3 DEF blocks
  <1> HIDE DEF bytes
  <1>5. CASE s.layout \in OnePoint
    <2>1. s.lengths \in Seq(0..PointBytes) /\ BlockBytes(s.layout) = PointBytes
      BY <1>5, BlockBytesIs DEF SoundSession
    <2>2. /\ Len(bytes) = Len(file)
          /\ FullUpToLast(s.lengths, PointBytes) => bytes = file
          /\ (\A b \in 1..Len(file) : file[b] # 0) /\ bytes = file
                => FullUpToLast(s.lengths, PointBytes)
      BY <1>1, <1>2, <1>3, <1>4, <1>5, <2>1, DecryptsSingle
    <2> QED
      BY <1>1, <2>1, <2>2 DEF bytes, blocks, file
  <1>6. CASE s.layout \notin OnePoint
    <2>1. s.layout \in {"packed", "elligator"}
      BY <1>2, <1>6 DEF Layout, OnePoint
    <2>2. bytes = file
      BY <1>1, <1>2, <1>3, <1>4, <2>1, DecryptsPacked
    <2>3. FullUpToLast(s.lengths, BlockBytes(s.layout))
      BY <1>2, <1>6, BlockLengthsAre DEF SoundSession
    <2> QED
      BY <1>1, <2>2, <2>3 DEF bytes, blocks, file
  <1> QED
    BY <1>5, <1>6

\* Two readings of the same points are one.
LEMMA ReadingsAgree ==
    ASSUME LayoutAssumption, NEW n \in Nat, NEW plains, NEW size \in Nat, size <= n * PointBytes,
           NEW a, WholeRead(a, n, plains, size), NEW b, WholeRead(b, n, plains, size)
    PROVE  a = b
  <1>1. a \in Seq(Int) /\ b \in Seq(Int) /\ Len(a) = size /\ Len(b) = size
    BY DEF WholeRead
  <1>2. PointBytes \in Nat \ {0}
    BY DEF LayoutAssumption
  <1>3. ASSUME NEW i \in 1..size
        PROVE  a[i] = b[i]
    <2>1. PICK g \in Nat \ {0}, r \in 1..PointBytes : i = (g - 1) * PointBytes + r
      <3>1. i \in Nat \ {0}
        OBVIOUS
      <3> QED
        BY <1>2, <3>1, PlaceIs
    <2> DEFINE nm == n * PointBytes
    <2>2. i = Before(g) + r /\ Before(g) \in Nat /\ nm \in Nat /\ size <= nm
      BY <1>2, <2>1, ProductOrder DEF Before
    <2>3. Before(g) < nm
      <3> HIDE DEF nm
      <3> QED
        BY <1>2, <2>2
    <2>4. g \in 1..n
      <3>1. g - 1 \in Nat
        OBVIOUS
      <3>2. g - 1 < n
        BY <1>2, <2>3, <3>1, ProductOrder DEF Before
      <3> QED
        BY <3>2
    <2>5. Before(g) + r <= size
      BY <2>2
    <2>6. a[Before(g) + r] = plains[g][r] /\ b[Before(g) + r] = plains[g][r]
      BY <2>4, <2>5 DEF WholeRead
    <2> QED
      BY <2>2, <2>6
  <1> QED
    BY <1>1, <1>3, SeqEqual

Extending == INSTANCE Folding WITH Op <- Extend

\* What has been shown after k blocks.
ShownAfter(entries, k) == Extending!After(<<>>, entries, k)

LEMMA ShownSteps ==
    ASSUME NEW entries, NEW n \in Nat, DOMAIN entries = 1..n
    PROVE  /\ ShownAfter(entries, 0) = <<>>
           /\ FoldLeft(Extend, <<>>, entries) = ShownAfter(entries, n)
           /\ \A k \in 1..n : ShownAfter(entries, k)
                                = ShownAfter(entries, k - 1) \o entries[k].revealed
  <1>1. FoldLeft(Extend, <<>>, entries) = Extending!Fold(<<>>, entries)
    BY Zenon DEF Extending!Fold, Extending!FoldLeft, FoldLeft, Extending!MapThenFoldSet,
                 MapThenFoldSet, Extending!Max, Max
  <1>2. \A k \in 1..n : ShownAfter(entries, k) = Extend(ShownAfter(entries, k - 1), entries[k])
    BY Extending!FoldSteps DEF ShownAfter
  <1> QED
    BY <1>1, <1>2, Extending!FoldSteps DEF ShownAfter, Extend

\* Payloads one after the other.
LEMMA ShownIs ==
    ASSUME LayoutAssumption, NEW n \in Nat, NEW plains \in [1..n -> [1..PointBytes -> Int]],
           NEW entries, DOMAIN entries = 1..n, \A i \in 1..n : entries[i].revealed = plains[i]
    PROVE  WholeRead(FoldLeft(Extend, <<>>, entries), n, plains, n * PointBytes)
  <1> DEFINE m == PointBytes
             at(k) == ShownAfter(entries, k)
             Sound(k) == WholeRead(at(k), k, plains, k * m)
             S == {k \in Nat : k <= n => Sound(k)}
  <1>1. m \in Nat \ {0}
    BY DEF LayoutAssumption
  <1>2. at(0) = <<>> /\ FoldLeft(Extend, <<>>, entries) = at(n)
    BY ShownSteps
  <1>3. ASSUME NEW k \in 1..n
        PROVE  at(k) = at(k - 1) \o plains[k]
    BY ShownSteps
  <1> HIDE DEF at, Sound
  <1>4. 0 \in S
    <2>1. <<>> \in Seq(Int) /\ Len(<<>>) = 0 /\ \A i : i \notin 1..0
      OBVIOUS
    <2>2. 0 * m = 0
      BY <1>1
    <2>3. WholeRead(<<>>, 0, plains, 0)
      BY <2>1 DEF WholeRead
    <2> QED
      BY <1>2, <2>2, <2>3 DEF Sound
  <1>5. ASSUME NEW k \in Nat, k \in S
        PROVE  k + 1 \in S
    <2> SUFFICES ASSUME k + 1 <= n PROVE Sound(k + 1)
      OBVIOUS
    <2> DEFINE km == k * m
               old == at(k)
               more == plains[k + 1]
               new == at(k + 1)
    <2>1. k + 1 \in 1..n /\ (k + 1) - 1 = k /\ k <= n
      OBVIOUS
    <2>2. WholeRead(old, k, plains, km)
      BY <1>5, <2>1 DEF Sound
    <2>3. new = old \o more
      BY <1>3, <2>1
    <2>4. km \in Nat /\ (k + 1) * m = km + m
      BY <1>1, ProductOrder
    <2>5. more \in [1..m -> Int]
      BY <2>1
    <2> HIDE DEF old, more, new, km
    <2>6. more \in Seq(Int) /\ Len(more) = m
      BY <1>1, <2>5, SequenceOf
    <2>7. old \in Seq(Int) /\ Len(old) = km
      BY <2>2 DEF WholeRead
    <2>8. /\ new \in Seq(Int) /\ Len(new) = km + m
          /\ \A b \in 1..(km + m) : new[b] = IF b <= km THEN old[b] ELSE more[b - km]
      <3>1. /\ old \o more \in Seq(Int) /\ Len(old \o more) = Len(old) + Len(more)
            /\ \A b \in 1..(Len(old) + Len(more)) :
                 (old \o more)[b] = IF b <= Len(old) THEN old[b] ELSE more[b - Len(old)]
        BY <2>6, <2>7, ConcatProperties, Zenon
      <3>2. Len(old) = km /\ Len(more) = m
        BY <2>6, <2>7
      <3> QED
        BY <2>3, <3>1, <3>2, Zenon
    <2>9. ASSUME NEW i \in 1..(k + 1), NEW r \in 1..m, Before(i) + r <= km + m
          PROVE  new[Before(i) + r] = plains[i][r]
      <3>1. CASE i = k + 1
        <4>1. Before(i) = km
          BY <2>1, <3>1 DEF Before, km
        <4>2. km + r \in 1..(km + m) /\ ~(km + r <= km) /\ (km + r) - km = r
          BY <1>1, <2>4
        <4> QED
          BY <2>8, <3>1, <4>1, <4>2 DEF more
      <3>2. CASE i \in 1..k
        <4>1. i - 1 \in Nat /\ (i - 1) + 1 = i
          OBVIOUS
        <4>2. Before(i) \in Nat /\ i * m = Before(i) + m
          BY <1>1, <4>1, ProductOrder DEF Before
        <4>3. i * m <= km
          BY <1>1, <3>2, ProductOrder DEF km
        <4>4. Before(i) + m <= km
          BY <4>2, <4>3
        <4>5. Before(i) + r \in 1..(km + m) /\ Before(i) + r <= km
          BY <1>1, <2>4, <4>2, <4>4
        <4>6. old[Before(i) + r] = plains[i][r]
          BY <2>2, <3>2, <4>5 DEF WholeRead
        <4> QED
          BY <2>8, <4>5, <4>6
      <3> QED
        BY <3>1, <3>2
    <2>10. WholeRead(new, k + 1, plains, km + m)
      BY <2>8, <2>9 DEF WholeRead
    <2> QED
      BY <2>4, <2>10 DEF Sound, new
  <1>6. Sound(n)
    <2> HIDE DEF S
    <2>1. n \in S
      BY <1>4, <1>5, SetInduction
    <2> QED
      BY <2>1 DEF S
  <1> QED
    BY <1>2, <1>6 DEF Sound

\* What is shown of a file's points, cut to its size, is what is read from them.
LEMMA ShownCut ==
    ASSUME LayoutAssumption, NEW n \in Nat, NEW plains, NEW bytes,
           WholeRead(bytes, n, plains, n * PointBytes), NEW size \in Nat, size <= n * PointBytes
    PROVE  WholeRead(SubSeq(bytes, 1, Least(size, Len(bytes))), n, plains, size)
  <1> DEFINE nm == n * PointBytes
             cut == SubSeq(bytes, 1, size)
  <1>1. bytes \in Seq(Int) /\ Len(bytes) = nm /\ size <= nm /\ nm \in Nat /\ PointBytes \in Nat
    BY ProductOrder DEF WholeRead, LayoutAssumption
  <1> HIDE DEF nm
  <1>2. Least(size, Len(bytes)) = size
    BY <1>1 DEF Least
  <1>3. cut \in Seq(Int) /\ Len(cut) = size /\ \A b \in 1..size : cut[b] = bytes[b]
    <2>1. \A i \in 1..size : bytes[i] \in Int
      BY <1>1
    <2>2. 1 \in Int /\ size \in Int /\ size - 1 + 1 = size /\ (1 <= size <=> size # 0)
      OBVIOUS
    <2>3. cut \in Seq(Int) /\ Len(cut) = size /\ \A b \in 1..size : cut[b] = bytes[1 + b - 1]
      BY <2>1, <2>2, SubSeqProperties
    <2>4. \A b \in 1..size : 1 + b - 1 = b
      OBVIOUS
    <2> QED
      BY <2>3, <2>4
  <1> HIDE DEF cut
  <1>4. ASSUME NEW i \in 1..n, NEW r \in 1..PointBytes, Before(i) + r <= size
        PROVE  cut[Before(i) + r] = plains[i][r]
    <2>1. i - 1 \in Nat
      OBVIOUS
    <2>2. Before(i) \in Nat
      BY <1>1, <2>1, ProductOrder DEF Before
    <2>3. Before(i) + r \in 1..size /\ Before(i) + r <= nm
      BY <1>1, <1>4, <2>2
    <2>4. bytes[Before(i) + r] = plains[i][r]
      BY <2>3 DEF WholeRead, nm
    <2> QED
      BY <1>3, <2>3, <2>4
  <1>5. WholeRead(cut, n, plains, size)
    BY <1>3, <1>4 DEF WholeRead
  <1> QED
    BY <1>2, <1>5 DEF cut

-----------------------------------------------------------------------------
(* Audits of a file                                                        *)

\* The proof of a session's file that the client makes.
ProofOf(s, draw, count) ==
    FileProof(CiphertextsOf(s), CommitmentOf(s), draw, count, s.key, SameXContext)

PassesAs(s, draw, count, drawn, x) ==
    AuditHolds(ProofOf(s, draw, count), CommitmentOf(s), drawn, x, SameXContext)

LEMMA PiecesFit ==
    ASSUME LayoutAssumption, NEW s, SoundSession(s)
    PROVE  AllFit(s.layout, PiecesOf(s))
  <1> DEFINE pieces == PiecesOf(s)
             n == Len(s.lengths)
  <1>1. ASSUME NEW i \in 1..n
        PROVE  Fits(s.layout, pieces[i])
    <2>1. Len(pieces) = n /\ pieces[i] \in Seq(Nat) /\ Len(pieces[i]) = s.lengths[i]
      BY PiecesOfAre
    <2>2. s.layout \in OnePoint => s.lengths[i] \in 0..PointBytes
      BY DEF SoundSession
    <2> HIDE DEF pieces
    <2> QED
      BY <2>1, <2>2 DEF LayoutAssumption, Fits
  <1>2. Len(pieces) = n /\ n \in Nat
    BY PiecesOfAre
  <1> HIDE DEF pieces, n
  <1> QED
    BY <1>1, <1>2 DEF AllFit, pieces

\* An audit in full of a file whose proof is about a key shows that the key
\* opens every block; whatever the nonces, the audit asks for all of them.
LEMMA FullAuditOpens ==
    ASSUME LayoutAssumption, NonceAssumption, NEW s, SoundSession(s), s.size <= FullAuditBytes,
           NEW draw \in Nonces, NEW count \in Nat, NEW drawn, NEW x,
           PassesAs(s, draw, count, drawn, x)
    PROVE  /\ s.layout # "plain" => Keyed(CiphertextsOf(s), x)
           /\ s.layout = "plain" =>
                \A i \in 1..Len(s.lengths) :
                  /\ DOMAIN ProofOf(s, draw, count).blocks = 1..Len(s.lengths)
                  /\ ProofOf(s, draw, count).blocks[i].revealed
                       = Decrypted(CiphertextsOf(s)[i].points[1], x)
  <1> DEFINE blocks == CiphertextsOf(s)
             c == CommitmentOf(s)
             n == Len(s.lengths)
             p == ProofOf(s, draw, count)
  <1>1. /\ n \in Nat /\ DOMAIN blocks = 1..n /\ Len(blocks) = n
        /\ HoldingPieces(blocks, s.layout, PiecesOf(s))
        /\ c.layout = s.layout /\ c.blocks = n /\ c.size = s.size
    BY CiphertextsAre
  <1>2. Draws(draw, n)
    BY NoncesDraw
  <1>3. c.size \in Nat /\ c.size <= FullAuditBytes
    BY <1>1 DEF SoundSession
  <1>4. p = FileProof(blocks, c, draw, count, s.key, SameXContext)
    BY DEF ProofOf
  <1>5. AuditHolds(FileProof(blocks, c, draw, count, s.key, SameXContext), c, drawn, x, SameXContext)
    BY <1>4 DEF PassesAs
  <1> HIDE DEF blocks, c, n, p
  <1>6. ASSUME NEW i \in 1..n
        PROVE  /\ c.layout # "plain" => OpensTo(blocks[i], x)
               /\ c.layout = "plain" =>
                    Decrypted(blocks[i].points[1], s.key) = Decrypted(blocks[i].points[1], x)
               /\ p.blocks[i].revealed = Decrypted(blocks[i].points[1], s.key)
               /\ DOMAIN p.blocks = 1..n
    BY <1>1, <1>2, <1>3, <1>4, <1>5, AuditOpens
  <1>7. CASE s.layout # "plain"
    <2> DEFINE pieces == PiecesOf(s)
    <2>1. AllOpen(blocks, x)
      BY <1>1, <1>6, <1>7 DEF AllOpen
    <2>4. HoldingPieces(blocks, s.layout, pieces)
      BY <1>1
    <2> HIDE DEF pieces
    <2>5. AllFit(s.layout, pieces)
      BY PiecesFit DEF pieces
    <2>6. Keyed(blocks, x)
      BY <2>1, <2>4, <2>5, OpensAll
    <2> QED
      BY <1>7, <2>6 DEF blocks
  <1>8. CASE s.layout = "plain"
    <2>1. ASSUME NEW i \in 1..n
          PROVE  /\ DOMAIN p.blocks = 1..n
                 /\ p.blocks[i].revealed = Decrypted(blocks[i].points[1], x)
      BY <1>1, <1>6, <1>8
    <2> QED
      BY <1>8, <2>1 DEF blocks, n, p
  <1> QED
    BY <1>7, <1>8

\* What a plain file's point decrypts to is a payload, or garbage.
LEMMA PlainsAre ==
    ASSUME LayoutAssumption, NEW s, SoundSession(s), s.layout = "plain", NEW x
    PROVE  LET blocks == CiphertextsOf(s) IN
           [i \in 1..Len(s.lengths) |-> Decrypted(blocks[i].points[1], x)]
              \in [1..Len(s.lengths) -> [1..PointBytes -> Int]]
  <1> DEFINE blocks == CiphertextsOf(s)
             n == Len(s.lengths)
             pieces == PiecesOf(s)
  <1>1. HoldingPieces(blocks, s.layout, pieces) /\ s.layout \in OnePoint
    BY CiphertextsAre DEF OnePoint
  <1> HIDE DEF blocks
  <1>2. ASSUME NEW i \in 1..n
        PROVE  Decrypted(blocks[i].points[1], x) \in [1..PointBytes -> Int]
    <2>1. Len(pieces) = n /\ pieces[i] \in Seq(Nat) /\ Len(pieces[i]) = s.lengths[i]
      BY PiecesOfAre
    <2>2. s.lengths[i] \in 0..PointBytes
      BY <1>1 DEF SoundSession
    <2> HIDE DEF pieces
    <2>3. blocks[i].points[1].plain = Encode(pieces[i])
      BY <1>1, <2>1 DEF HoldingPieces
    <2>4. Len(pieces[i]) <= PointBytes
      BY <2>1, <2>2 DEF LayoutAssumption
    <2>5. Encode(pieces[i]) \in [1..PointBytes -> Nat]
      BY <2>1, <2>4, EncodeIs
    <2>6. Encode(pieces[i]) \in [1..PointBytes -> Int]
      BY <2>5
    <2>7. Garbage \in [1..PointBytes -> Int]
      BY DEF Garbage
    <2> QED
      BY <2>3, <2>6, <2>7 DEF Decrypted
  <1> QED
    BY <1>2 DEF blocks

\* The bytes an audit in full of a plain file has shown are those the key reads.
LEMMA FullAuditShows ==
    ASSUME LayoutAssumption, NonceAssumption, NEW s, SoundSession(s), s.size <= FullAuditBytes,
           s.layout = "plain", NEW draw \in Nonces, NEW count \in Nat, NEW drawn, NEW x,
           PassesAs(s, draw, count, drawn, x)
    PROVE  Shown(ProofOf(s, draw, count), CommitmentOf(s))
             = DecryptFile(CiphertextsOf(s), CommitmentOf(s), x)
  <1> DEFINE blocks == CiphertextsOf(s)
             c == CommitmentOf(s)
             n == Len(s.lengths)
             entries == ProofOf(s, draw, count).blocks
             plains == [i \in 1..n |-> Decrypted(blocks[i].points[1], x)]
             opened == [i \in 1..n |-> <<[plain |-> plains[i], len |-> PointBytes]>>]
             bytes == FoldLeft(Extend, <<>>, entries)
  <1>1. /\ n \in Nat /\ Len(blocks) = n /\ c.layout = s.layout /\ c.size = s.size
    BY CiphertextsAre
  <1>2. plains \in [1..n -> [1..PointBytes -> Int]]
    BY PlainsAre
  <1>3. s.size \in Nat /\ s.size <= n * PointBytes
    <2>1. /\ s.lengths \in Seq(Nat) /\ s.size \in Nat /\ TotalLength(s.lengths) = s.size
          /\ s.lengths \in Seq(0..PointBytes) /\ PointBytes \in Nat
      BY DEF SoundSession, OnePoint, LayoutAssumption
    <2>2. \A i \in 1..Len(s.lengths) : s.lengths[i] <= PointBytes
      <3> TAKE i \in 1..Len(s.lengths)
      <3>1. s.lengths[i] \in 0..PointBytes
        BY <2>1
      <3> QED
        BY <2>1, <3>1
    <2>3. n + 1 \in 1..(Len(s.lengths) + 1) /\ (n + 1) - 1 = n
      BY <1>1
    <2>4. Starts(s.lengths)[n + 1] <= ((n + 1) - 1) * PointBytes
      BY <2>1, <2>2, <2>3, StartsBounded
    <2>5. Starts(s.lengths)[n + 1] = s.size
      BY <2>1 DEF TotalLength
    <2> QED
      BY <2>1, <2>3, <2>4, <2>5
  <1>4. WholeRead(bytes, n, plains, n * PointBytes)
    <2>1. CASE n = 0
      <3>1. DOMAIN entries = 1..n
        <4>1. c.blocks = n /\ ExpectedCount(c) \in 0..c.blocks
          <5>1. c.blocks = n /\ c.blocks \in Nat /\ c.size \in Nat
            BY <1>1, <1>3, CiphertextsAre
          <5> HIDE DEF c
          <5> QED
            BY <5>1, ExpectedIs
        <4>2. Draws(draw, n)
          BY NoncesDraw
        <4>3. Entries(ProofOf(s, draw, count), blocks, n, ChallengeIndices(draw, n, count),
                      Least(count, n), s.key)
          BY <1>1, <4>2, FileProofIs DEF ProofOf
        <4>4. Least(count, n) = 0
          BY <2>1 DEF Least
        <4> QED
          BY <2>1, <4>3, <4>4 DEF Entries
      <3>2. \A i \in 1..n : entries[i].revealed = plains[i]
        BY <2>1
      <3> HIDE DEF entries, plains, n
      <3> QED
        BY <1>1, <1>2, <3>1, <3>2, ShownIs
    <2>2. CASE n # 0
      <3>1. \A i \in 1..n : DOMAIN entries = 1..n
                              /\ entries[i].revealed = Decrypted(blocks[i].points[1], x)
        BY FullAuditOpens
      <3>2. 1 \in 1..n
        BY <1>1, <2>2
      <3>3. DOMAIN entries = 1..n /\ \A i \in 1..n : entries[i].revealed = plains[i]
        BY <3>1, <3>2
      <3> HIDE DEF entries, plains, n
      <3> QED
        BY <1>1, <1>2, <3>3, ShownIs
    <2> QED
      BY <2>1, <2>2
  <1>5. Shown(ProofOf(s, draw, count), c) = SubSeq(bytes, 1, Least(s.size, Len(bytes)))
    BY <1>1 DEF Shown
  <1>6. DecryptFile(blocks, c, x) = ReadBack(opened, s.size)
    <2>1. c.layout \in OnePoint /\ c.layout # "packed" /\ c.layout # "elligator"
      BY <1>1 DEF OnePoint
    <2>2. [i \in 1..Len(blocks) |->
              <<[plain |-> Decrypted(blocks[i].points[1], x), len |-> PointBytes]>>] = opened
      BY <1>1
    <2> HIDE DEF c, blocks, opened
    <2>3. DecryptFile(blocks, c, x) = DecryptSingle(blocks, c, x)
      BY <2>1 DEF DecryptFile
    <2>4. DecryptSingle(blocks, c, x) = ReadBack(opened, c.size)
      BY <2>2, Zenon DEF DecryptSingle
    <2> QED
      BY <1>1, <2>3, <2>4 DEF c
  <1>7. HoldingWhole(opened, n, plains)
    BY DEF HoldingWhole
  <1> HIDE DEF blocks, c, n, entries, plains, opened, bytes
  <1>8. WholeRead(ReadBack(opened, s.size), n, plains, s.size)
    BY <1>1, <1>2, <1>3, <1>7, ReadWhole
  <1>9. WholeRead(SubSeq(bytes, 1, Least(s.size, Len(bytes))), n, plains, s.size)
    BY <1>1, <1>3, <1>4, ShownCut
  <1>10. SubSeq(bytes, 1, Least(s.size, Len(bytes))) = ReadBack(opened, s.size)
    BY <1>1, <1>3, <1>8, <1>9, ReadingsAgree
  <1> QED
    BY <1>5, <1>6, <1>10 DEF blocks, c

\* The owner of a packed file that is not empty passes its audit.
LEMMA OwnAuditHolds ==
    ASSUME LayoutAssumption, NonceAssumption, NEW s, SoundSession(s), s.layout = "packed",
           s.size > 0, s.strays = {}, NEW draw \in Nonces
    PROVE  PassesAs(s, draw, ExpectedCount(CommitmentOf(s)), draw, s.key)
  <1> DEFINE blocks == CiphertextsOf(s)
             c == CommitmentOf(s)
             n == Len(s.lengths)
             pieces == PiecesOf(s)
  <1>1. /\ n \in Nat /\ DOMAIN blocks = 1..n /\ Len(blocks) = n
        /\ HoldingPieces(blocks, s.layout, pieces) /\ Keyed(blocks, s.key)
        /\ c.layout = s.layout /\ c.root = Root(blocks) /\ c.blocks = n /\ c.size = s.size
    BY CiphertextsAre
  <1>2. Draws(draw, n)
    BY NoncesDraw
  <1>3. s.size \in Nat /\ s.lengths = BlockLengths(s.layout, s.size) /\ s.layout \notin OnePoint
    BY DEF SoundSession, OnePoint
  <1>4. n # 0 /\ s.lengths \in Seq(1..BlockBytes(s.layout))
    <2> DEFINE m == BlockBytes(s.layout)
    <2>1. m \in Nat \ {0}
      BY BlockBytesIs
    <2>2. /\ Len(s.lengths) = CeilDiv(s.size, m)
          /\ s.lengths \in Seq(1..m)
      BY <1>3, BlockLengthsAre
    <2> HIDE DEF m
    <2>3. CeilDiv(s.size, m) # 0
      <3>1. PICK size \in Nat : size = s.size /\ size > 0
        BY <1>3
      <3>2. CeilDiv(size, m) = 0 <=> size = 0
        BY <2>1, CeilDivIs
      <3> QED
        BY <3>1, <3>2
    <2> QED
      BY <2>2, <2>3 DEF m
  <1>5. ASSUME NEW i \in 1..n
        PROVE  WellFormed(blocks[i])
    <2>1. Len(pieces) = n /\ pieces[i] \in Seq(Nat) /\ Len(pieces[i]) = s.lengths[i]
      BY PiecesOfAre
    <2>2. s.lengths[i] \in 1..BlockBytes(s.layout)
      <3> DEFINE m == BlockBytes(s.layout)
      <3>1. m \in Nat \ {0} /\ s.lengths \in Seq(1..m) /\ i \in 1..Len(s.lengths)
        BY <1>4, BlockBytesIs
      <3> HIDE DEF m
      <3> QED
        BY <3>1 DEF m
    <2> HIDE DEF pieces, blocks, n
    <2> QED
      BY <1>1, <2>1, <2>2, BlocksWellFormed
  <1> HIDE DEF blocks, c, n, pieces
  <1>6. n \in Nat \ {0} /\ c.size \in Nat /\ c.layout \in {"packed", "elligator"}
    BY <1>1, <1>3, <1>4
  <1>7. AuditHolds(FileProof(blocks, c, draw, ExpectedCount(c), s.key, SameXContext),
                   c, draw, s.key, SameXContext)
    BY <1>1, <1>2, <1>5, <1>6, HonestAuditHolds
  <1> QED
    BY <1>7 DEF PassesAs, ProofOf, blocks, c

-----------------------------------------------------------------------------
(* The client's file, its proofs and their audits                          *)

\* Before a file is committed to, nothing has happened.
Idle == session = NoSession =>
    /\ nonce = NoNonce /\ fileProof = NoFileProof
    /\ proof = NoProof /\ accepted = NoUpload

SoundFileProof(p) == p.nonce \in Nonces /\ p.count \in Nat

SoundState ==
    /\ session # NoSession => SoundSession(session)
    /\ nonce # NoNonce => nonce \in Nonces
    /\ fileProof # NoFileProof => SoundFileProof(fileProof)
    /\ proof # NoProof =>
         proof.at <= Emax /\ session.layout = "packed" /\ SoundFileProof(proof.file)

\* A file that was accepted after an audit in full is encrypted, in every point,
\* under the key it was audited under.
AcceptedKeyed ==
    accepted.kind # "none" /\ session.size <= FullAuditBytes /\ session.layout # "plain" =>
        Keyed(CiphertextsOf(session), AuditKey(session))

FileInv == Idle /\ SoundState /\ AcceptedKeyed /\ AuditShowsContent

LEMMA InitialFile == Init => FileInv
  BY DEF Init, FileInv, Idle, SoundState, AcceptedKeyed, AuditShowsContent, NoUpload

\* A new session has seen no challenge, and no proof of it is accepted.
LEMMA NewSession ==
    ASSUME FileInv, session = NoSession, SoundSession(session'),
           UNCHANGED <<now, list, nonce, fileProof, proof, accepted>>
    PROVE  FileInv'
  <1>1. /\ nonce' = NoNonce /\ fileProof' = NoFileProof
        /\ proof' = NoProof /\ accepted' = NoUpload
    BY DEF FileInv, Idle
  <1>2. accepted'.kind = "none"
    BY <1>1 DEF NoUpload
  <1>3. Idle' /\ SoundState'
    BY <1>1 DEF Idle, SoundState
  <1>4. AcceptedKeyed' /\ AuditShowsContent'
    BY <1>2 DEF AcceptedKeyed, AuditShowsContent
  <1> QED
    BY <1>3, <1>4 DEF FileInv

LEMMA CommitStep ==
    ASSUME LayoutAssumption, UploadAssumption, FileInv, NEW layout \in Layout, NEW size \in Sizes,
           NEW key, Commit(layout, size, key)
    PROVE  FileInv'
  <1> DEFINE lengths == BlockLengths(layout, size)
             m == BlockBytes(layout)
  <1>1. /\ session = NoSession /\ UNCHANGED <<now, list, nonce, fileProof, proof, accepted>>
        /\ session'.layout = layout /\ session'.size = size /\ session'.lengths = lengths
    BY DEF Commit
  <1>2. size \in Nat
    BY DEF UploadAssumption
  <1>3. /\ Len(lengths) = CeilDiv(size, m) /\ lengths \in Seq(Nat) /\ TotalLength(lengths) = size
        /\ lengths \in Seq(1..m)
    BY <1>2, BlockLengthsAre
  <1>4. Len(lengths) \in BlockCounts
    BY <1>3 DEF BlockCounts
  <1>5. m \in Nat \ {0} /\ (layout \in OnePoint => m = PointBytes)
    BY BlockBytesIs
  <1> HIDE DEF lengths, m
  <1>6. layout \in OnePoint => lengths \in Seq(0..PointBytes)
    <2>1. lengths \in Seq(0..m)
      <3>1. PICK s \in Seq(1..m) : s = lengths
        BY <1>3
      <3>2. Len(s) \in Nat /\ s \in [1..Len(s) -> 0..m]
        BY <1>5, LenProperties
      <3> QED
        BY <3>1, <3>2, SequenceOf
    <2> QED
      BY <1>5, <2>1
  <1>7. SoundSession(session')
    BY <1>1, <1>2, <1>3, <1>4, <1>6 DEF SoundSession, lengths
  <1> QED
    BY <1>1, <1>7, NewSession

LEMMA CommitCutStep ==
    ASSUME LayoutAssumption, UploadAssumption, FileInv, NEW layout \in OnePoint,
           NEW lengths \in Cuts, NEW key, CommitCut(layout, lengths, key)
    PROVE  FileInv'
  <1>1. /\ session = NoSession /\ UNCHANGED <<now, list, nonce, fileProof, proof, accepted>>
        /\ session'.layout = layout /\ session'.size = TotalLength(lengths)
        /\ session'.lengths = lengths
    BY DEF CommitCut
  <1>2. lengths \in Seq(0..PointBytes) /\ PointBytes \in Nat
    BY DEF UploadAssumption, LayoutAssumption
  <1>3. lengths \in Seq(Nat) /\ Len(lengths) \in Nat
    BY <1>2
  <1>4. TotalLength(lengths) \in Nat
    BY <1>3, StartsAre DEF TotalLength
  <1>5. Len(lengths) \in BlockCounts
    BY DEF BlockCounts
  <1>6. layout \in Layout
    BY DEF Layout, OnePoint
  <1>7. SoundSession(session')
    BY <1>1, <1>2, <1>3, <1>4, <1>5, <1>6 DEF SoundSession
  <1> QED
    BY <1>1, <1>7, NewSession

\* What was accepted stays so while the session does.
LEMMA StillAccepted ==
    ASSUME FileInv, UNCHANGED <<session, accepted>>
    PROVE  AcceptedKeyed' /\ AuditShowsContent'
  BY DEF FileInv, AcceptedKeyed, AuditShowsContent

LEMMA ChallengeStep ==
    ASSUME FileInv, NEW n \in Nonces, Challenge(n)
    PROVE  FileInv'
  BY StillAccepted DEF FileInv, Idle, SoundState, Challenge

LEMMA ProveFileStep ==
    ASSUME UploadAssumption, FileInv, NEW count \in Counts, ProveFile(count)
    PROVE  FileInv'
  <1>1. fileProof' = [nonce |-> nonce, count |-> count] /\ nonce # NoNonce
    BY DEF ProveFile
  <1>2. SoundFileProof(fileProof')
    BY <1>1 DEF SoundFileProof, FileInv, SoundState, UploadAssumption
  <1> QED
    BY <1>1, <1>2, StillAccepted DEF FileInv, Idle, SoundState, ProveFile

LEMMA ProveUploadFileStep ==
    ASSUME FileInv, NEW version, NEW at, NEW s, ProveUpload(version, at, s)
    PROVE  FileInv'
  <1>1. /\ proof'.at = at /\ proof'.file = fileProof /\ at <= Emax
        /\ fileProof # NoFileProof /\ session.layout = "packed"
        /\ UNCHANGED <<now, list, session, nonce, fileProof, accepted>>
    BY DEF ProveUpload
  <1>2. SoundState' /\ Idle'
    BY <1>1 DEF FileInv, Idle, SoundState
  <1> QED
    BY <1>1, <1>2, StillAccepted DEF FileInv

\* An upload that holds is of a file under the spender's key, once audited in full.
LEMMA UploadKeyed ==
    ASSUME LayoutAssumption, NonceAssumption, FileInv, proof # NoProof, NEW at, NEW version,
           UploadHolds(proof, at, version), session.size <= FullAuditBytes
    PROVE  Keyed(CiphertextsOf(session), AuditKey(session)) /\ session.layout # "plain"
  <1>1. session # NoSession
    BY DEF FileInv, Idle
  <1>2. SoundSession(session) /\ proof.file.nonce \in Nonces /\ proof.file.count \in Nat
    BY <1>1 DEF FileInv, SoundState, SoundFileProof
  <1>3. session.layout = "packed" /\ session.key = Spender
    BY DEF UploadHolds, SameX
  <1>4. PassesAs(session, proof.file.nonce, proof.file.count, proof.file.nonce, session.key)
    BY DEF UploadHolds, PassesAs, ProofOf
  <1>5. session.layout # "plain"
    BY <1>3
  <1>6. Keyed(CiphertextsOf(session), session.key)
    BY <1>2, <1>4, <1>5, FullAuditOpens
  <1>7. AuditKey(session) = session.key
    BY <1>3 DEF AuditKey
  <1> QED
    BY <1>5, <1>6, <1>7

\* A verification that succeeds leaves all but what was accepted alone.
LEMMA UploadAccepted ==
    ASSUME LayoutAssumption, NonceAssumption, FileInv, proof # NoProof, NEW at, NEW version,
           UploadHolds(proof, at, version), accepted'.kind = "upload",
           UNCHANGED <<now, list, session, nonce, fileProof, proof>>
    PROVE  FileInv'
  <1>1. session # NoSession
    BY DEF FileInv, Idle
  <1>2. Idle' /\ SoundState'
    BY <1>1 DEF FileInv, Idle, SoundState
  <1>3. AcceptedKeyed'
    BY UploadKeyed DEF AcceptedKeyed
  <1>4. AuditShowsContent'
    BY DEF AuditShowsContent
  <1> QED
    BY <1>2, <1>3, <1>4 DEF FileInv

LEMMA VerifyUploadFileStep ==
    ASSUME LayoutAssumption, NonceAssumption, FileInv, VerifyUpload
    PROVE  FileInv'
  <1>1. /\ proof # NoProof /\ UploadHolds(proof, now, 0)
        /\ UNCHANGED <<now, list, session, nonce, fileProof, proof>>
        /\ accepted'.kind = "upload"
    BY DEF VerifyUpload
  <1> QED
    BY <1>1, UploadAccepted

LEMMA VerifyWithRevocationFileStep ==
    ASSUME LayoutAssumption, NonceAssumption, FileInv, VerifyUploadWithRevocation
    PROVE  FileInv'
  <1>1. /\ proof # NoProof /\ UploadHolds(proof, now, list.version)
        /\ UNCHANGED <<now, list, session, nonce, fileProof, proof>>
        /\ accepted'.kind = "upload"
    BY DEF VerifyUploadWithRevocation
  <1> QED
    BY <1>1, UploadAccepted

\* An audit in full has met every block.
LEMMA AuditStep ==
    ASSUME LayoutAssumption, NonceAssumption, FileInv, Audit
    PROVE  FileInv'
  <1> DEFINE p == ProofOf(session, fileProof.nonce, fileProof.count)
             x == AuditKey(session)
  <1>1. /\ fileProof # NoFileProof
        /\ PassesAs(session, fileProof.nonce, fileProof.count, nonce, x)
        /\ accepted' = [kind |-> "audit", shown |-> Shown(p, CommitmentOf(session))]
        /\ UNCHANGED <<now, list, session, nonce, fileProof, proof>>
    BY DEF Audit, PassesAs, ProofOf
  <1>2. session # NoSession
    BY <1>1 DEF FileInv, Idle
  <1>3. SoundSession(session) /\ fileProof.nonce \in Nonces /\ fileProof.count \in Nat
    BY <1>1, <1>2 DEF FileInv, SoundState, SoundFileProof
  <1>4. Idle' /\ SoundState'
    BY <1>1, <1>2 DEF FileInv, Idle, SoundState
  <1>5. session.size <= FullAuditBytes /\ session.layout # "plain" => Keyed(CiphertextsOf(session), x)
    BY <1>1, <1>3, FullAuditOpens
  <1>6. session.size <= FullAuditBytes /\ session.layout = "plain" =>
          accepted'.shown = DecryptFile(CiphertextsOf(session), CommitmentOf(session), x)
    <2>1. accepted'.shown = Shown(p, CommitmentOf(session))
      BY <1>1
    <2> QED
      BY <1>1, <1>3, <2>1, FullAuditShows
  <1>7. AcceptedKeyed'
    BY <1>1, <1>5 DEF AcceptedKeyed
  <1>8. AuditShowsContent'
    BY <1>1, <1>6 DEF AuditShowsContent
  <1> QED
    BY <1>4, <1>7, <1>8 DEF FileInv

LEMMA FileStep ==
    ASSUME LayoutAssumption, UploadAssumption, NonceAssumption
    PROVE  FileInv /\ [Next]_vars => FileInv'
  <1> SUFFICES ASSUME FileInv, [Next]_vars PROVE FileInv'
    OBVIOUS
  <1>1. ASSUME NEW layout \in Layout, NEW size \in Sizes, NEW key, Commit(layout, size, key)
        PROVE  FileInv'
    BY <1>1, CommitStep
  <1>2. ASSUME NEW layout \in OnePoint, NEW lengths \in Cuts, CommitCut(layout, lengths, Spender)
        PROVE  FileInv'
    BY <1>2, CommitCutStep
  <1>3. ASSUME NEW n \in Nonces, Challenge(n)
        PROVE  FileInv'
    BY <1>3, ChallengeStep
  <1>4. ASSUME NEW count \in Counts, ProveFile(count)
        PROVE  FileInv'
    BY <1>4, ProveFileStep
  <1>5. ASSUME NEW version, NEW at, NEW s, ProveUpload(version, at, s)
        PROVE  FileInv'
    BY <1>5, ProveUploadFileStep
  <1>6. CASE VerifyUpload
    BY <1>6, VerifyUploadFileStep
  <1>7. CASE VerifyUploadWithRevocation
    BY <1>7, VerifyWithRevocationFileStep
  <1>8. CASE Audit
    BY <1>8, AuditStep
  <1>9. CASE UNCHANGED <<session, nonce, fileProof, proof, accepted>>
    BY <1>9, StillAccepted DEF FileInv, Idle, SoundState
  <1>10. ASSUME NEW revoked, Publish(revoked)
         PROVE  FileInv'
    BY <1>9, <1>10 DEF Publish
  <1>11. CASE Resign
    BY <1>9, <1>11 DEF Resign
  <1>12. CASE Tick
    BY <1>9, <1>12 DEF Tick
  <1>13. CASE UNCHANGED vars
    BY <1>9, <1>13 DEF vars
  <1> QED
    BY <1>1, <1>2, <1>3, <1>4, <1>5, <1>6, <1>7, <1>8, <1>10, <1>11, <1>12, <1>13 DEF Next

LEMMA FileAlways ==
    ASSUME LayoutAssumption, UploadAssumption, NonceAssumption
    PROVE  Spec => []FileInv
  <1>1. Init => FileInv
    BY InitialFile
  <1>2. FileInv /\ [Next]_vars => FileInv'
    BY FileStep
  <1> QED
    BY <1>1, <1>2, PTL DEF Spec

-----------------------------------------------------------------------------
(* Samples of a committed file                                             *)

\* The blocks of a session that a key opens, counted from 0.
Readable(s, x) == {i \in 0..(Len(s.lengths) - 1) : OpensTo(CiphertextsOf(s)[i + 1], x)}

\* The sets of blocks that a prover passes with.
Passing(s, x, count) ==
    {S \in kSubset(count, 0..(Len(s.lengths) - 1)) :
        AuditHolds(FileProof(CiphertextsOf(s), CommitmentOf(s), OneDraw(Len(s.lengths), S),
                             count, s.key, SameXContext),
                   CommitmentOf(s), OneDraw(Len(s.lengths), S), x, SameXContext)}

LEMMA PassingReadable ==
    ASSUME LayoutAssumption, NEW s, SoundSession(s), s.layout # "plain", Len(s.lengths) # 0,
           NEW x, NEW count
    PROVE  Passing(s, x, count) \subseteq kSubset(count, Readable(s, x))
  <1> DEFINE n == Len(s.lengths)
             blocks == CiphertextsOf(s)
             c == CommitmentOf(s)
  <1>1. n \in Nat \ {0} /\ Len(blocks) = n /\ c.layout # "plain"
    BY CiphertextsAre
  <1> SUFFICES ASSUME NEW S \in Passing(s, x, count)
               PROVE  S \in kSubset(count, Readable(s, x))
    OBVIOUS
  <1>2. /\ S \in SUBSET (0..(n - 1)) /\ Cardinality(S) = count
        /\ AuditHolds(FileProof(blocks, c, OneDraw(n, S), count, s.key, SameXContext),
                      c, OneDraw(n, S), x, SameXContext)
    BY DEF Passing, kSubset
  <1> HIDE DEF n, blocks, c
  <1>3. ASSUME NEW i \in S
        PROVE  OpensTo(blocks[i + 1], x)
    BY <1>1, <1>2, DrawnOpen
  <1>4. S \in SUBSET Readable(s, x)
    BY <1>2, <1>3 DEF Readable, n, blocks
  <1> QED
    BY <1>2, <1>4 DEF kSubset

\* With so many blocks that the key of the audit does not open, an audit that
\* samples enough passes at most a share of 1 - confidence of the samples.
LEMMA AuditCatches ==
    ASSUME LayoutAssumption, FractionAssumption, NEW s, SoundSession(s), s.layout # "plain",
           Len(s.lengths) # 0, NEW x, NEW unreadable \in Nat,
           Cardinality(Readable(s, x)) + unreadable = Len(s.lengths),
           unreadable >= BadBlocks(Len(s.lengths)),
           NEW count, count = ExpectedCount(CommitmentOf(s)),
           count < MaxChallenges \/ count = Len(s.lengths)
    PROVE  Cardinality(Passing(s, x, count)) * Confidence[2]
             <= (Confidence[2] - Confidence[1]) * Ways(count, 0..(Len(s.lengths) - 1))
  <1> DEFINE n == Len(s.lengths)
             c == CommitmentOf(s)
             R == Readable(s, x)
             A == 0..(n - 1)
             base == Confidence[2]
             rest == Confidence[2] - Confidence[1]
             p == Cardinality(Passing(s, x, count))
             a == Ways(count, R)
             b == Ways(count, A)
  <1>1. n \in Nat \ {0} /\ c.blocks = n /\ c.size \in Nat
    BY CiphertextsAre DEF SoundSession
  <1>2. count \in 1..n
    <2>1. ExpectedCount(c) \in 0..c.blocks /\ (c.blocks > 0 => ExpectedCount(c) > 0)
      BY <1>1, ExpectedIs
    <2> HIDE DEF c
    <2> QED
      BY <1>1, <2>1 DEF c
  <1>3. IsFiniteSet(A) /\ Cardinality(A) = n
    BY <1>1, NumbersBelow
  <1>4. R \in SUBSET A /\ IsFiniteSet(R) /\ Cardinality(R) \in Nat
    <2>1. R \in SUBSET A
      BY DEF Readable
    <2> QED
      BY <1>3, <2>1, FS_Subset, FS_CardinalityType
  <1>5. BadBlocks(n) \in 1..n
    BY <1>1, BadBlocksAre
  <1>6. Cardinality(R) + BadBlocks(n) <= n
    BY <1>1, <1>4, <1>5
  <1>7. p \in Nat /\ p <= a
    <2>1. Passing(s, x, count) \in SUBSET kSubset(count, R)
      BY PassingReadable
    <2>2. IsFiniteSet(kSubset(count, R))
      BY <1>4, SubsetsAreFinite
    <2>3. IsFiniteSet(Passing(s, x, count)) /\ p <= a
      BY <2>1, <2>2, FS_Subset DEF Ways
    <2> QED
      BY <2>3, FS_CardinalityType
  <1>8. base \in Nat /\ rest \in Nat
    BY DEF FractionAssumption
  <1>9. a \in Nat /\ b \in Nat
    BY <1>3, <1>4, SubsetsAreFinite
  <1> HIDE DEF n, c, R, A, p, a, b, base, rest
  <1>10. a * base <= rest * b
    <2>1. CASE count = n
      <3>1. Cardinality(R) < count /\ count \in Nat
        BY <1>1, <1>2, <1>4, <1>5, <1>6, <2>1
      <3>2. a = 0
        BY <1>4, <3>1, NoLargerSubset DEF a
      <3>3. rest * b \in Nat
        BY <1>8, <1>9
      <3> QED
        BY <1>8, <3>2, <3>3
    <2>2. CASE count # n
      <3>1. count = SampleCount(n) /\ count < MaxChallenges
        <4>1. ExpectedCount(c) = IF n = 0 THEN 0 ELSE IF c.size <= FullAuditBytes THEN n ELSE SampleCount(n)
          BY <1>1 DEF ExpectedCount
        <4> QED
          BY <1>1, <2>2, <4>1 DEF c, n
      <3>2. count # Least(MaxChallenges, n)
        BY <2>2, <3>1 DEF Least, LayoutAssumption
      <3>3. Catches(n, count)
        BY <1>1, <3>1, <3>2, SampleCatches
      <3>4. a * Confidence[2] <= (Confidence[2] - Confidence[1]) * b
        BY <1>1, <1>2, <1>4, <1>6, <3>3, SamplesCatch DEF a, b, A
      <3> QED
        BY <3>4 DEF base, rest
    <2> QED
      BY <2>1, <2>2
  <1>11. p * base <= a * base /\ p * base \in Nat /\ a * base \in Nat /\ rest * b \in Nat
    BY <1>7, <1>8, <1>9, ProductOrder
  <1>12. p * base <= rest * b
    BY <1>10, <1>11
  <1> QED
    BY <1>12 DEF p, base, rest, b, A, n

\* The blocks a key opens are those of which it made every point.
LEMMA ReadableIs ==
    ASSUME LayoutAssumption, NEW s, SoundSession(s), NEW x
    PROVE  LET blocks == CiphertextsOf(s)
               unreadable == {i \in 1..Len(blocks) :
                                \E j \in 1..Len(blocks[i].points) : blocks[i].points[j].key # x}
           IN /\ Cardinality(unreadable) \in Nat
              /\ Cardinality(Readable(s, x)) + Cardinality(unreadable) = Len(s.lengths)
  <1> DEFINE blocks == CiphertextsOf(s)
             n == Len(s.lengths)
             U == {i \in 1..Len(blocks) :
                      \E j \in 1..Len(blocks[i].points) : blocks[i].points[j].key # x}
             R == Readable(s, x)
             W == (1..n) \ U
  <1>1. n \in Nat /\ Len(blocks) = n /\ DOMAIN blocks = 1..n /\ HoldingPieces(blocks, s.layout, PiecesOf(s))
    BY CiphertextsAre
  <1>2. AllFit(s.layout, PiecesOf(s)) /\ Len(PiecesOf(s)) = n
    BY PiecesFit, PiecesOfAre
  <1>3. ASSUME NEW i \in 1..n
        PROVE  OpensTo(blocks[i], x) <=> \A j \in 1..Len(blocks[i].points) : blocks[i].points[j].key = x
    <2>1. OpensTo(blocks[i], x) => Owns(blocks[i], x)
      <3> DEFINE pieces == PiecesOf(s)
      <3>1. HoldingPieces(blocks, s.layout, pieces) /\ AllFit(s.layout, pieces) /\ i \in 1..Len(pieces)
        BY <1>1, <1>2
      <3> HIDE DEF pieces, blocks
      <3> QED
        BY <3>1, OpensFit
    <2>2. Owns(blocks[i], x) => OpensTo(blocks[i], x)
      BY DEF OpensTo, Decrypted, Owns
    <2> QED
      BY <2>1, <2>2 DEF Owns
  <1>4. R = {i \in 0..(n - 1) : OpensTo(blocks[i + 1], x)}
    BY DEF Readable
  <1> HIDE DEF blocks, n, R
  <1>5. \A i \in 1..n : i \in W <=> OpensTo(blocks[i], x)
    BY <1>1, <1>3
  <1>6. U \in SUBSET (1..n) /\ W \in SUBSET (1..n)
    BY <1>1
  <1> HIDE DEF U
  <1>7. IsFiniteSet(U) /\ Cardinality(U) \in Nat /\ IsFiniteSet(W) /\ Cardinality(W) = n - Cardinality(U)
    <2>1. IsFiniteSet(1..n) /\ Cardinality(1..n) = n
      BY <1>1, FS_Interval
    <2>2. IsFiniteSet(U) /\ Cardinality(U) \in Nat
      BY <1>6, <2>1, FS_Subset, FS_CardinalityType
    <2>3. (1..n) \cap U = U
      BY <1>6
    <2>4. IsFiniteSet(W) /\ Cardinality(W) = Cardinality(1..n) - Cardinality((1..n) \cap U)
      BY <2>1, FS_Difference
    <2> QED
      BY <2>1, <2>2, <2>3, <2>4
  <1> HIDE DEF W
  <1>8. ExistsBijection(W, R)
    <2> DEFINE f == [i \in W |-> i - 1]
    <2>1. \A i \in W : i \in 1..n /\ i - 1 \in 0..(n - 1) /\ (i - 1) + 1 = i
      BY <1>1, <1>6
    <2>2. f \in [W -> R]
      BY <1>4, <1>5, <2>1
    <2>3. \A g, h \in W : f[g] = f[h] => g = h
      BY <2>1
    <2>4. ASSUME NEW r \in R
          PROVE  \E i \in W : f[i] = r
      <3>1. r \in 0..(n - 1) /\ OpensTo(blocks[r + 1], x)
        BY <1>4
      <3>2. r + 1 \in 1..n /\ (r + 1) - 1 = r
        BY <1>1, <3>1
      <3>3. r + 1 \in W
        BY <1>5, <3>1, <3>2
      <3> QED
        BY <3>2, <3>3
    <2> HIDE DEF f
    <2>5. f \in Bijection(W, R)
      BY <2>2, <2>3, <2>4 DEF Bijection, Injection, Surjection, IsInjective
    <2> QED
      BY <2>5 DEF ExistsBijection
  <1>9. Cardinality(R) = n - Cardinality(U)
    BY <1>7, <1>8, FS_Bijection
  <1>10. Cardinality(U) \in Nat /\ Cardinality(R) + Cardinality(U) = n
    BY <1>1, <1>7, <1>9
  <1> QED
    BY <1>10, Zenon DEF U, R, n, blocks

\* A file with a byte in it has a block.
LEMMA SomeBlock ==
    ASSUME NEW s, SoundSession(s), s.size > 0
    PROVE  Len(s.lengths) # 0
  <1> SUFFICES ASSUME Len(s.lengths) = 0 PROVE FALSE
    OBVIOUS
  <1>1. s.lengths \in Seq(Nat) /\ TotalLength(s.lengths) = s.size
    BY DEF SoundSession
  <1>2. Starts(s.lengths)[1] = 0
    BY <1>1, StartsAre
  <1>3. TotalLength(s.lengths) = Starts(s.lengths)[1]
    BY DEF TotalLength
  <1> QED
    BY <1>1, <1>2, <1>3

-----------------------------------------------------------------------------
(* What follows                                                            *)

LEMMA CutFullIs ==
    ASSUME SoundSession(session)
    PROVE  CutFull <=> FullUpToLast(session.lengths, BlockBytes(session.layout))
  BY DEF CutFull, FullUpToLast

\* Whatever the layout, the lengths of the blocks and the size: a file committed
\* under one key decrypts with it to as many bytes as it has, and to the file
\* itself if and only if every block is full up to the last with a byte in it
\* (decrypt_file_from_ciphertexts cuts by the size alone; the packed layouts'
\* decryption reads the stored lengths).
THEOREM RetrievableAlways == Spec => []Retrievable
  <1>1. FileInv => Retrievable
    <2> SUFFICES ASSUME FileInv, session # NoSession, session.strays = {}
                 PROVE  LET file == DecryptFile(CiphertextsOf(session), CommitmentOf(session),
                                                session.key) IN
                        /\ Len(file) = session.size
                        /\ file = File(session.size) <=> CutFull
      BY DEF Retrievable
    <2>1. SoundSession(session)
      BY DEF FileInv, SoundState
    <2>2. Keyed(CiphertextsOf(session), session.key)
      BY <2>1, LayoutAssumption, CiphertextsAre
    <2> QED
      BY <2>1, <2>2, LayoutAssumption, DecryptsOwn, CutFullIs
  <1> QED
    BY <1>1, FileAlways, LayoutAssumption, UploadAssumption, NonceAssumption, PTL

\* Whatever was committed, challenged, proved and reused: a file accepted in an
\* upload or an audit that asks for all its blocks decrypts to its bytes with the
\* key the audit is about, in an upload the secret behind the spend
\* (verify_upload_spend_inner, verify_*_file_proof_with_confidence).
THEOREM AcceptedRecoverableAlways == Spec => []AcceptedRecoverable
  <1>1. FileInv => AcceptedRecoverable
    <2> SUFFICES ASSUME FileInv, accepted.kind # "none", session.size <= FullAuditBytes,
                        session.layout # "plain", CutFull
                 PROVE  DecryptFile(CiphertextsOf(session), CommitmentOf(session),
                                    AuditKey(session)) = File(session.size)
      BY DEF AcceptedRecoverable
    <2>1. session # NoSession
      BY DEF FileInv, Idle, NoUpload
    <2>2. SoundSession(session)
      BY <2>1 DEF FileInv, SoundState
    <2>3. Keyed(CiphertextsOf(session), AuditKey(session))
      BY DEF FileInv, AcceptedKeyed
    <2> QED
      BY <2>2, <2>3, LayoutAssumption, DecryptsOwn, CutFullIs
  <1> QED
    BY <1>1, FileAlways, LayoutAssumption, UploadAssumption, NonceAssumption, PTL

\* What an accepted revealing proof of all blocks shows, cut to the file's size,
\* is what the audited key makes of the ciphertexts, byte for byte and in order,
\* even of blocks under another key (verify_file_proof_with_confidence).
THEOREM AuditShowsContentAlways == Spec => []AuditShowsContent
  <1>1. FileInv => AuditShowsContent
    BY DEF FileInv
  <1> QED
    BY <1>1, FileAlways, LayoutAssumption, UploadAssumption, NonceAssumption, PTL

\* No challenge, number of blocks or padding makes the verifier refuse a client
\* that proves as many blocks of its own file as are asked for, at the second and
\* for the list version of its spend (create_upload_spend, verify_upload_spend).
THEOREM HonestUploadsAccepted == Spec => []HonestUploadAccepted
  <1>1. FileInv => HonestUploadAccepted
    <2> SUFFICES ASSUME FileInv, proof # NoProof, session.size > 0, session.key = Spender,
                        session.strays = {}, proof.file.count = ExpectedCount(CommitmentOf(session)),
                        proof.at = now
                 PROVE  UploadHolds(proof, now, proof.list)
      BY DEF HonestUploadAccepted
    <2>1. session # NoSession
      BY DEF FileInv, Idle
    <2>2. SoundSession(session) /\ session.layout = "packed" /\ now <= Emax
      BY <2>1 DEF FileInv, SoundState
    <2>3. proof.file.nonce \in Nonces
      BY DEF FileInv, SoundState, SoundFileProof
    <2>4. PassesAs(session, proof.file.nonce, proof.file.count, proof.file.nonce, session.key)
      BY <2>2, <2>3, LayoutAssumption, NonceAssumption, OwnAuditHolds
    <2>5. FileBindingGenerator(proof.at, proof.list, CommitmentOf(session))
            = FileBindingGenerator(now, proof.list, CommitmentOf(session))
      OBVIOUS
    <2> QED
      BY <2>2, <2>4, <2>5 DEF UploadHolds, SameX, PassesAs, ProofOf
  <1> QED
    BY <1>1, FileAlways, LayoutAssumption, UploadAssumption, NonceAssumption, PTL

\* Of a file of any number of blocks, as many of which are unreadable as count as
\* bad, at most a share of 1 - confidence of the samples that the sample count
\* asks for pass an audit, unless that count is the cap; for any fraction and
\* confidence (audit_sample_count_for_bad_fraction, expected_challenge_count).
THEOREM AuditsConfident == Spec => []AuditConfident
  <1>1. FileInv => AuditConfident
    <2> DEFINE n == Len(session.lengths)
               c == CommitmentOf(session)
               x == AuditKey(session)
               count == ExpectedCount(c)
    <2> SUFFICES ASSUME FileInv, session # NoSession, session.size > 0, session.layout # "plain",
                        Cardinality(Unreadable) >= BadBlocks(c.blocks),
                        count < MaxChallenges \/ count = c.blocks
                 PROVE  Cardinality({S \in kSubset(count, 0..(c.blocks - 1)) :
                            AuditHolds(FileProof(CiphertextsOf(session), c,
                                                 [p \in {<<c.blocks, count>>} |-> S],
                                                 count, session.key, SameXContext),
                                       c, [p \in {<<c.blocks, count>>} |-> S], x, SameXContext)})
                          * Confidence[2]
                          <= (Confidence[2] - Confidence[1])
                             * Cardinality(kSubset(count, 0..(c.blocks - 1)))
      BY Zenon DEF AuditConfident
    <2>1. SoundSession(session)
      BY DEF FileInv, SoundState
    <2>2. c.blocks = n
      BY <2>1, LayoutAssumption, CiphertextsAre
    <2>3. n # 0
      BY <2>1, SomeBlock
    <2>4. Cardinality(Unreadable) \in Nat /\ Cardinality(Readable(session, x)) + Cardinality(Unreadable) = n
      BY <2>1, LayoutAssumption, ReadableIs DEF Unreadable
    <2> HIDE DEF c, x, n, count
    <2>5. {S \in kSubset(count, 0..(c.blocks - 1)) :
              AuditHolds(FileProof(CiphertextsOf(session), c, [p \in {<<c.blocks, count>>} |-> S],
                                   count, session.key, SameXContext),
                         c, [p \in {<<c.blocks, count>>} |-> S], x, SameXContext)}
            = Passing(session, x, count)
      <3>1. \A S \in kSubset(count, 0..(n - 1)) :
               OneDraw(n, S) = [p \in {<<c.blocks, count>>} |-> S]
        BY <2>2 DEF kSubset, OneDraw
      <3> QED
        BY <2>2, <3>1 DEF Passing, c, n
    <2>6. Cardinality(Passing(session, x, count)) * Confidence[2]
             <= (Confidence[2] - Confidence[1]) * Ways(count, 0..(n - 1))
      BY <2>1, <2>2, <2>3, <2>4, LayoutAssumption, FractionAssumption, AuditCatches DEF c, n, count
    <2> QED
      BY <2>2, <2>5, <2>6 DEF Ways
  <1> QED
    BY <1>1, FileAlways, LayoutAssumption, UploadAssumption, NonceAssumption, PTL

-----------------------------------------------------------------------------
(* The context of an accepted upload                                       *)

ListVersioned == now \in Nat /\ list.version \in Nat

\* A revocation proof is of an earlier version, or for a value that the list
\* does not have; and its gap was signed.
NotRevokedBehind ==
    proof # NoProof /\ proof.notRevoked # NoProof =>
        /\ proof.notRevoked.signed \in 0..list.version
        /\ proof.notRevoked.signed = list.version => proof.notRevoked.value \notin list.revoked

ContextInv == ListVersioned /\ NotRevokedBehind /\ UploaderNotRevoked

\* In the second of an upload's spend proof the rebuilt value is the expiry.
LEMMA ValueIsExpiry ==
    ASSUME UploadAssumption, now \in Nat, NEW version, UploadHolds(proof, now, version),
           list.at = now, NotRevokedHolds(proof, version, list.at)
    PROVE  proof.notRevoked.value = Emax
  <1>1. proof.at = now /\ proof.notRevoked.value = Emax - proof.at + list.at
    BY DEF UploadHolds, NotRevokedHolds
  <1>2. Emax \in Nat
    BY DEF UploadAssumption
  <1> QED
    BY <1>1, <1>2

LEMMA InitialContext == Init => ContextInv
  BY DEF Init, NoUpload, ContextInv, ListVersioned, NotRevokedBehind, UploaderNotRevoked

\* A client proves for values that are not on the list.
LEMMA ProveUploadStep ==
    ASSUME ContextInv, NEW version, NEW at, NEW s, ProveUpload(version, at, s)
    PROVE  ContextInv'
  <1> DEFINE value == Emax - at + s
  <1>1. /\ proof'.notRevoked = IF Provable(value) THEN [signed |-> list.version, value |-> value]
                                                  ELSE NoProof
        /\ UNCHANGED <<now, list, session, nonce, fileProof, accepted>>
    BY DEF ProveUpload
  <1> HIDE DEF value
  <1>2. NotRevokedBehind'
    BY <1>1 DEF ContextInv, ListVersioned, NotRevokedBehind, Provable
  <1> QED
    BY <1>1, <1>2 DEF ContextInv, ListVersioned, UploaderNotRevoked

LEMMA VerifyUploadStep ==
    ASSUME ContextInv, VerifyUpload
    PROVE  ContextInv'
  BY DEF ContextInv, ListVersioned, NotRevokedBehind, UploaderNotRevoked, VerifyUpload

\* The revocation proof is of the verifier's version, so of its blacklist, and
\* its value is the expiry.
LEMMA VerifyWithRevocationStep ==
    ASSUME UploadAssumption, ContextInv, VerifyUploadWithRevocation
    PROVE  ContextInv'
  <1>1. /\ proof # NoProof /\ list.at = now /\ now \in Nat /\ list.version \in Nat
        /\ UploadHolds(proof, now, list.version)
        /\ NotRevokedHolds(proof, list.version, list.at)
    BY DEF ContextInv, ListVersioned, VerifyUploadWithRevocation
  <1>2. proof.notRevoked.value = Emax
    BY <1>1, ValueIsExpiry
  <1>3. proof.notRevoked # NoProof /\ proof.notRevoked.signed \in {list.version, Identity}
    BY <1>1 DEF NotRevokedHolds
  <1>4. proof.notRevoked.signed = list.version
    BY <1>1, <1>3 DEF ContextInv, NotRevokedBehind, Identity
  <1>5. Emax \notin list.revoked
    BY <1>1, <1>2, <1>3, <1>4 DEF ContextInv, NotRevokedBehind
  <1>6. accepted' = [kind |-> "upload", revoked |-> list.revoked]
    BY DEF VerifyUploadWithRevocation
  <1> QED
    BY <1>5, <1>6
    DEF ContextInv, ListVersioned, NotRevokedBehind, UploaderNotRevoked, VerifyUploadWithRevocation

\* A new version leaves the revocation proofs at hand behind.
LEMMA PublishStep ==
    ASSUME ContextInv, NEW revoked, Publish(revoked)
    PROVE  ContextInv'
  <1>1. list' = [version |-> list.version + 1, at |-> now, revoked |-> revoked] /\ now' = now
    BY DEF Publish
  <1>2. ListVersioned'
    BY <1>1 DEF ContextInv, ListVersioned
  <1>3. NotRevokedBehind'
    <2> SUFFICES ASSUME proof # NoProof, proof.notRevoked # NoProof
                 PROVE  /\ proof.notRevoked.signed \in 0..list'.version
                        /\ proof.notRevoked.signed # list'.version
      BY DEF Publish, NotRevokedBehind
    <2> QED
      BY <1>1 DEF ContextInv, ListVersioned, NotRevokedBehind
  <1> QED
    BY <1>2, <1>3 DEF ContextInv, UploaderNotRevoked, Publish

LEMMA ContextStep ==
    ASSUME UploadAssumption
    PROVE  ContextInv /\ [Next]_vars => ContextInv'
  <1> SUFFICES ASSUME ContextInv, [Next]_vars PROVE ContextInv'
    OBVIOUS
  <1> USE DEF ContextInv, ListVersioned, NotRevokedBehind, UploaderNotRevoked
  <1>1. ASSUME NEW layout, NEW size, NEW key, Commit(layout, size, key)
        PROVE  ContextInv'
    BY <1>1 DEF Commit
  <1>2. ASSUME NEW layout, NEW lengths, CommitCut(layout, lengths, Spender)
        PROVE  ContextInv'
    BY <1>2 DEF CommitCut
  <1>3. ASSUME NEW n, Challenge(n)
        PROVE  ContextInv'
    BY <1>3 DEF Challenge
  <1>4. ASSUME NEW count, ProveFile(count)
        PROVE  ContextInv'
    BY <1>4 DEF ProveFile
  <1>5. ASSUME NEW version, NEW at, NEW s, ProveUpload(version, at, s)
        PROVE  ContextInv'
    BY <1>5, ProveUploadStep
  <1>6. CASE VerifyUpload
    BY <1>6, VerifyUploadStep
  <1>7. CASE VerifyUploadWithRevocation
    BY <1>7, VerifyWithRevocationStep
  <1>8. CASE Audit
    <2>1. \E shown : accepted' = [kind |-> "audit", shown |-> shown]
      BY <1>8 DEF Audit
    <2>2. accepted'.kind # "upload"
      BY <2>1
    <2> QED
      BY <1>8, <2>2 DEF Audit
  <1>9. ASSUME NEW revoked, Publish(revoked)
        PROVE  ContextInv'
    BY <1>9, PublishStep
  <1>10. CASE Resign
    BY <1>10 DEF Resign
  <1>11. CASE Tick
    BY <1>11 DEF Tick
  <1>12. CASE UNCHANGED vars
    BY <1>12 DEF vars
  <1> QED
    BY <1>1, <1>2, <1>3, <1>4, <1>5, <1>6, <1>7, <1>8, <1>9, <1>10, <1>11, <1>12 DEF Next

\* Whatever the handles, the seconds proofs are made for, and the times at which
\* lists are published and signed again: an upload is accepted with a list only
\* from a spender whose handle it does not have, since the second of the list
\* is that of the upload (upload.rs, verify_upload_spend_with_revocation).  Said
\* of revocation proofs with a signed gap.
THEOREM UploadersNotRevoked == Spec => []UploaderNotRevoked
  <1>1. Init => ContextInv
    BY InitialContext
  <1>2. ContextInv /\ [Next]_vars => ContextInv'
    BY UploadAssumption, ContextStep
  <1>3. ContextInv => UploaderNotRevoked
    BY DEF ContextInv
  <1> QED
    BY <1>1, <1>2, <1>3, PTL DEF Spec
=============================================================================
