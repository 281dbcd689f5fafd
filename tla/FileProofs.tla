----------------------------- MODULE FileProofs -----------------------------
(***************************************************************************)
(* What the operators of FileBinding compute, for files of any size, any   *)
(* layout and any cut into blocks: where blocks begin, what decryption     *)
(* reads back, which blocks a challenge asks for, that Merkle paths lead   *)
(* to the root.  Folds are followed round by round.                        *)
(***************************************************************************)
EXTENDS FileBinding, Induction, SequenceTheorems

-----------------------------------------------------------------------------
(* Products and quotients                                                  *)

LEMMA ProductOrder ==
    ASSUME NEW m \in Nat, NEW a \in Nat, NEW b \in Nat
    PROVE  /\ a * m \in Nat
           /\ (a + 1) * m = a * m + m
           /\ a <= b => a * m <= b * m
           /\ a * m < b * m => a < b
  <1>1. ASSUME NEW x \in Nat, NEW y \in Nat, x <= y
        PROVE  x * m <= y * m
    <2>1. PICK k \in Nat : y = x + k
      <3>1. y - x \in Nat /\ y = x + (y - x)
        BY <1>1
      <3> QED
        BY <3>1
    <2>2. y * m = x * m + k * m /\ k * m \in Nat /\ x * m \in Nat
      BY <2>1
    <2> QED
      BY <2>2
  <1>2. a * m \in Nat /\ b * m \in Nat /\ (a + 1) * m = a * m + m
    OBVIOUS
  <1> QED
    BY <1>1, <1>2

\* The number of pieces of m elements is the least that covers them all.
LEMMA CeilDivIs ==
    ASSUME NEW m \in Nat \ {0}, NEW x \in Nat
    PROVE  /\ CeilDiv(x, m) \in Nat
           /\ x <= CeilDiv(x, m) * m /\ CeilDiv(x, m) * m < x + m
           /\ CeilDiv(x, m) = 0 <=> x = 0
           /\ \A b \in Nat : x <= b * m => CeilDiv(x, m) <= b
  <1>1. x + m - 1 \in Nat
    OBVIOUS
  <1>2. PICK q \in Nat, r \in 0..(m - 1) : x + m - 1 = m * q + r /\ (x + m - 1) \div m = q
    BY <1>1, Division
  <1>3. CeilDiv(x, m) = q
    BY <1>2 DEF CeilDiv
  <1>4. m * q = q * m /\ q * m \in Nat
    OBVIOUS
  <1>5. x <= q * m /\ q * m < x + m
    BY <1>2, <1>4
  <1>6. q = 0 <=> x = 0
    <2>1. q = 0 => q * m = 0
      OBVIOUS
    <2>2. q # 0 => q * m >= m
      <3>1. q # 0 => 1 * m <= q * m
        BY ProductOrder
      <3> QED
        BY <3>1
    <2> QED
      BY <1>4, <1>5, <2>1, <2>2
  <1>7. ASSUME NEW b \in Nat, x <= b * m
        PROVE  q <= b
    <2>1. b * m \in Nat /\ (b + 1) * m = b * m + m
      BY ProductOrder
    <2>2. q * m < (b + 1) * m
      BY <1>4, <1>5, <1>7, <2>1
    <2>3. q < b + 1
      BY <2>2, ProductOrder
    <2> QED
      BY <2>3
  <1> QED
    BY <1>3, <1>5, <1>6, <1>7

LEMMA LeastIs ==
    ASSUME NEW a \in Int, NEW b \in Int
    PROVE  Least(a, b) \in {a, b} /\ Least(a, b) <= a /\ Least(a, b) <= b
  BY DEF Least

\* A place in pieces of m elements: the number of its piece and the place there.
LEMMA PlaceIs ==
    ASSUME NEW m \in Nat \ {0}, NEW b \in Nat \ {0}
    PROVE  \E i \in Nat \ {0}, r \in 1..m : b = (i - 1) * m + r
  <1>1. PICK x \in Nat : x = b - 1
    OBVIOUS
  <1>2. PICK q \in Nat, r \in 0..(m - 1) : x = m * q + r
    BY Division
  <1>3. q + 1 \in Nat \ {0} /\ r + 1 \in 1..m /\ (q + 1) - 1 = q /\ m * q = q * m /\ q * m \in Nat
    OBVIOUS
  <1>4. b = ((q + 1) - 1) * m + (r + 1)
    BY <1>1, <1>2, <1>3
  <1> QED
    BY <1>3, <1>4

-----------------------------------------------------------------------------
(* Where blocks begin                                                      *)

Starting == INSTANCE Folding WITH Op <- NextStart

\* Pieces begin where the ones before them end, the first at 0.
LEMMA StartsAre ==
    ASSUME NEW lengths \in Seq(Nat)
    PROVE  /\ Len(lengths) \in Nat /\ Starts(lengths) \in [1..(Len(lengths) + 1) -> Nat]
           /\ Starts(lengths)[1] = 0
           /\ \A g \in 1..Len(lengths) :
                Starts(lengths)[g + 1] = Starts(lengths)[g] + lengths[g] /\ lengths[g] \in Nat
           /\ TotalLength(lengths) = Starts(lengths)[Len(lengths) + 1] /\ TotalLength(lengths) \in Nat
  <1> DEFINE n == Len(lengths)
             at(k) == Starting!After(<<0>>, lengths, k)
             Sound(k) == /\ at(k) \in Seq(Nat) /\ Len(at(k)) = k + 1 /\ at(k)[1] = 0
                         /\ \A g \in 1..k : at(k)[g + 1] = at(k)[g] + lengths[g]
             S == {k \in Nat : k <= n => Sound(k)}
  <1>1. n \in Nat /\ DOMAIN lengths = 1..n
    OBVIOUS
  <1>2. Starts(lengths) = Starting!Fold(<<0>>, lengths)
    BY Zenon DEF Starts, Starting!Fold, Starting!FoldLeft, FoldLeft, Starting!MapThenFoldSet,
                 MapThenFoldSet, Starting!Max, Max
  <1> HIDE DEF n
  <1>3. at(0) = <<0>> /\ Starting!Fold(<<0>>, lengths) = at(n)
    BY <1>1, Starting!FoldSteps
  <1>4. ASSUME NEW k \in 1..n
        PROVE  at(k) = Append(at(k - 1), at(k - 1)[Len(at(k - 1))] + lengths[k])
    <2>1. at(k) = NextStart(at(k - 1), lengths[k])
      BY <1>1, Starting!FoldSteps
    <2> QED
      BY <2>1 DEF NextStart
  <1> HIDE DEF at
  <1>5. 0 \in S
    <2>1. <<0>> \in Seq(Nat) /\ Len(<<0>>) = 1 /\ <<0>>[1] = 0
      OBVIOUS
    <2>2. \A g : g \notin 1..0
      OBVIOUS
    <2>3. at(0) = <<0>>
      BY <1>3
    <2>4. at(0) \in Seq(Nat) /\ Len(at(0)) = 1 /\ at(0)[1] = 0
      BY <2>1, <2>3, Zenon
    <2>5. Sound(0)
      BY <2>2, <2>4
    <2> QED
      BY <2>5
  <1>6. ASSUME NEW k \in Nat, k \in S
        PROVE  k + 1 \in S
    <2> SUFFICES ASSUME k + 1 <= n PROVE Sound(k + 1)
      OBVIOUS
    <2>1. Sound(k) /\ k + 1 \in 1..n /\ (k + 1) - 1 = k
      BY <1>1, <1>6
    <2>2. lengths[k + 1] \in Nat
      BY <1>1, <2>1 DEF n
    <2> DEFINE next == at(k)[k + 1] + lengths[k + 1]
    <2>3. at(k + 1) = Append(at(k), next)
      BY <1>4, <2>1
    <2>4. next \in Nat
      BY <2>1, <2>2
    <2> DEFINE old == at(k)
    <2> HIDE DEF next, old
    <2>41. old \in Seq(Nat) /\ Len(old) = k + 1 /\ k + 1 \in Nat
      BY <2>1 DEF old
    <2>42. /\ Append(old, next) \in Seq(Nat) /\ Len(Append(old, next)) = (k + 1) + 1
           /\ \A i \in 1..(k + 1) : Append(old, next)[i] = old[i]
           /\ Append(old, next)[(k + 1) + 1] = next
      BY <2>4, <2>41, AppendProperties
    <2>5. /\ at(k + 1) \in Seq(Nat) /\ Len(at(k + 1)) = k + 2
          /\ \A i \in 1..(k + 1) : at(k + 1)[i] = at(k)[i]
          /\ at(k + 1)[k + 2] = next
      <3>1. (k + 1) + 1 = k + 2
        OBVIOUS
      <3>2. at(k + 1) = Append(old, next)
        BY <2>3 DEF old
      <3>3. Len(Append(old, next)) = k + 2 /\ Append(old, next)[k + 2] = next
        BY <2>42, <3>1
      <3> QED
        BY <2>42, <3>2, <3>3 DEF old
    <2>6. \A g \in 1..(k + 1) : at(k + 1)[g + 1] = at(k + 1)[g] + lengths[g]
      <3> SUFFICES ASSUME NEW g \in 1..(k + 1)
                   PROVE  at(k + 1)[g + 1] = at(k + 1)[g] + lengths[g]
        OBVIOUS
      <3>1. CASE g = k + 1
        BY <2>5, <3>1 DEF next
      <3>2. CASE g \in 1..k
        <4>1. g + 1 \in 1..(k + 1) /\ g \in 1..(k + 1)
          BY <3>2
        <4> QED
          BY <2>1, <2>5, <3>2, <4>1
      <3> QED
        BY <3>1, <3>2
    <2> QED
      BY <2>1, <2>5, <2>6
  <1>7. Sound(n)
    <2> HIDE DEF S
    <2>1. n \in S
      BY <1>1, <1>5, <1>6, SetInduction
    <2> QED
      BY <2>1 DEF S
  <1>8. Starts(lengths) = at(n)
    BY <1>2, <1>3
  <1>9. TotalLength(lengths) = at(n)[n + 1]
    BY <1>8 DEF TotalLength, n
  <1>10. at(n) \in [1..(n + 1) -> Nat]
    <2>1. at(n) \in Seq(Nat) /\ Len(at(n)) = n + 1
      BY <1>7
    <2> QED
      BY <2>1, LenProperties, Zenon
  <1>11. at(n)[n + 1] \in Nat /\ \A g \in 1..n : lengths[g] \in Nat
    BY <1>1, <1>10 DEF n
  <1> QED
    BY <1>1, <1>7, <1>8, <1>9, <1>10, <1>11 DEF n

LEMMA StartsGrow ==
    ASSUME NEW lengths \in Seq(Nat), NEW g \in 1..(Len(lengths) + 1), NEW h \in g..(Len(lengths) + 1)
    PROVE  Starts(lengths)[g] <= Starts(lengths)[h] /\ Starts(lengths)[g] \in Nat
  <1> DEFINE n == Len(lengths)
             starts == Starts(lengths)
             S == {k \in Nat : g + k <= n + 1 => starts[g] <= starts[g + k]}
  <1>1. /\ n \in Nat /\ starts \in [1..(n + 1) -> Nat]
        /\ \A i \in 1..n : starts[i + 1] = starts[i] + lengths[i] /\ lengths[i] \in Nat
    BY StartsAre
  <1> HIDE DEF n, starts
  <1>2. g \in 1..(n + 1) /\ h \in g..(n + 1)
    BY DEF n
  <1>3. 0 \in S
    BY <1>1, <1>2
  <1>4. ASSUME NEW k \in Nat, k \in S
        PROVE  k + 1 \in S
    <2> SUFFICES ASSUME g + (k + 1) <= n + 1 PROVE starts[g] <= starts[g + (k + 1)]
      OBVIOUS
    <2>1. g + k \in 1..n /\ (g + k) + 1 = g + (k + 1)
      BY <1>1, <1>2
    <2>2. starts[g] <= starts[g + k]
      <3>1. g + k <= n + 1
        BY <1>1, <2>1
      <3> QED
        BY <1>4, <3>1
    <2>3. starts[g + (k + 1)] = starts[g + k] + lengths[g + k] /\ lengths[g + k] \in Nat
      BY <1>1, <2>1
    <2>4. starts[g] \in Nat /\ starts[g + k] \in Nat
      BY <1>1, <1>2, <2>1
    <2> QED
      BY <2>2, <2>3, <2>4
  <1>5. h - g \in Nat /\ g + (h - g) = h /\ h <= n + 1
    BY <1>1, <1>2
  <1>6. h - g \in S
    <2> HIDE DEF S
    <2> QED
      BY <1>3, <1>4, <1>5, SetInduction
  <1>7. starts[g] <= starts[h]
    BY <1>5, <1>6
  <1> QED
    BY <1>1, <1>2, <1>7 DEF starts

\* Pieces up to a length m begin no later than full ones would.
LEMMA StartsBounded ==
    ASSUME NEW m \in Nat, NEW lengths \in Seq(Nat), \A i \in 1..Len(lengths) : lengths[i] <= m,
           NEW g \in 1..(Len(lengths) + 1)
    PROVE  Starts(lengths)[g] <= (g - 1) * m /\ Starts(lengths)[g] \in Nat
  <1> DEFINE n == Len(lengths)
             starts == Starts(lengths)
             S == {k \in Nat : k <= n => starts[k + 1] <= k * m}
  <1>1. /\ n \in Nat /\ starts \in [1..(n + 1) -> Nat] /\ starts[1] = 0
        /\ \A i \in 1..n : starts[i + 1] = starts[i] + lengths[i] /\ lengths[i] \in Nat /\ lengths[i] <= m
    BY StartsAre
  <1>2. g - 1 \in Nat /\ (g - 1) + 1 = g /\ g - 1 <= n
    BY <1>1
  <1> HIDE DEF n, starts
  <1>3. 0 \in S
    BY <1>1
  <1>4. ASSUME NEW k \in Nat, k \in S
        PROVE  k + 1 \in S
    <2> SUFFICES ASSUME k + 1 <= n PROVE starts[(k + 1) + 1] <= (k + 1) * m
      OBVIOUS
    <2>1. k + 1 \in 1..n /\ k + 1 \in 1..(n + 1)
      BY <1>1
    <2>2. starts[(k + 1) + 1] = starts[k + 1] + lengths[k + 1] /\ lengths[k + 1] \in Nat /\ lengths[k + 1] <= m
      BY <1>1, <2>1
    <2>3. starts[k + 1] <= k * m /\ starts[k + 1] \in Nat
      BY <1>1, <1>4, <2>1
    <2>4. (k + 1) * m = k * m + m /\ k * m \in Nat
      BY ProductOrder
    <2> QED
      BY <2>2, <2>3, <2>4
  <1>5. g - 1 \in S
    <2> HIDE DEF S
    <2> QED
      BY <1>2, <1>3, <1>4, SetInduction
  <1>6. starts[g] <= (g - 1) * m
    BY <1>2, <1>5
  <1>7. starts[g] \in Nat
    BY <1>1 DEF n
  <1> QED
    BY <1>6, <1>7 DEF starts

\* Behind full pieces one begins where it should.
LEMMA StartsFull ==
    ASSUME NEW m \in Nat, NEW lengths \in Seq(Nat), NEW g \in 1..(Len(lengths) + 1),
           \A i \in 1..(g - 1) : lengths[i] = m
    PROVE  Starts(lengths)[g] = (g - 1) * m
  <1> DEFINE n == Len(lengths)
             starts == Starts(lengths)
             S == {k \in Nat : k < g => starts[k + 1] = k * m}
  <1>1. /\ n \in Nat /\ starts[1] = 0
        /\ \A i \in 1..n : starts[i + 1] = starts[i] + lengths[i]
    BY StartsAre
  <1>2. g - 1 \in Nat /\ (g - 1) + 1 = g /\ g \in 1..(n + 1)
    BY <1>1
  <1> HIDE DEF n, starts
  <1>3. 0 \in S
    BY <1>1
  <1>4. ASSUME NEW k \in Nat, k \in S
        PROVE  k + 1 \in S
    <2> SUFFICES ASSUME k + 1 < g PROVE starts[(k + 1) + 1] = (k + 1) * m
      OBVIOUS
    <2>1. k + 1 \in 1..n /\ k + 1 \in 1..(g - 1) /\ k < g
      BY <1>1, <1>2
    <2>2. starts[(k + 1) + 1] = starts[k + 1] + m
      BY <1>1, <2>1
    <2>3. starts[k + 1] = k * m
      BY <1>4, <2>1
    <2> QED
      BY <2>2, <2>3, ProductOrder
  <1>5. g - 1 \in S
    <2> HIDE DEF S
    <2> QED
      BY <1>2, <1>3, <1>4, SetInduction
  <1>6. starts[g] = (g - 1) * m
    BY <1>2, <1>5
  <1> QED
    BY <1>6 DEF starts

\* If bytes are left at a place, a piece from there on has one.
LEMMA StartsEnd ==
    ASSUME NEW lengths \in Seq(Nat), NEW g \in 1..(Len(lengths) + 1),
           Starts(lengths)[g] < TotalLength(lengths)
    PROVE  \E h \in g..Len(lengths) : lengths[h] > 0
  <1> DEFINE n == Len(lengths)
             starts == Starts(lengths)
             S == {k \in Nat : g + k <= n + 1 => starts[g + k] = starts[g]}
  <1> SUFFICES ASSUME \A h \in g..n : ~(lengths[h] > 0)
               PROVE  FALSE
    OBVIOUS
  <1>1. /\ n \in Nat /\ starts \in [1..(n + 1) -> Nat]
        /\ \A i \in 1..n : starts[i + 1] = starts[i] + lengths[i] /\ lengths[i] \in Nat
        /\ starts[g] < starts[n + 1] /\ g \in 1..(n + 1)
    BY StartsAre
  <1> HIDE DEF n, starts
  <1>2. \A h \in g..n : lengths[h] = 0 /\ starts[h + 1] = starts[h]
    <2> TAKE h \in g..n
    <2>1. h \in 1..n
      BY <1>1
    <2>2. lengths[h] = 0
      BY <1>1, <2>1
    <2>3. starts[h] \in Nat
      BY <1>1, <2>1
    <2> QED
      BY <1>1, <2>1, <2>2, <2>3
  <1>3. 0 \in S
    BY <1>1
  <1>4. ASSUME NEW k \in Nat, k \in S
        PROVE  k + 1 \in S
    <2> SUFFICES ASSUME g + (k + 1) <= n + 1 PROVE starts[g + (k + 1)] = starts[g]
      OBVIOUS
    <2>1. g + k \in g..n /\ (g + k) + 1 = g + (k + 1) /\ g + k <= n + 1
      BY <1>1
    <2> QED
      BY <1>2, <1>4, <2>1
  <1>5. n + 1 - g \in Nat /\ g + (n + 1 - g) = n + 1
    BY <1>1
  <1>6. n + 1 - g \in S
    <2> HIDE DEF S
    <2> QED
      BY <1>3, <1>4, <1>5, SetInduction
  <1>7. starts[n + 1] = starts[g] /\ starts[g] \in Nat
    BY <1>1, <1>5, <1>6
  <1> QED
    BY <1>1, <1>7

\* The bytes of a piece are those of the file from where it begins.
LEMMA PieceIs ==
    ASSUME NEW file \in Seq(Nat), NEW lengths \in Seq(Nat), TotalLength(lengths) = Len(file),
           NEW g \in 1..Len(lengths)
    PROVE  LET piece == Pieces(file, lengths)[g]
               start == Starts(lengths)[g]
           IN /\ piece \in Seq(Nat) /\ Len(piece) = lengths[g] /\ lengths[g] \in Nat
              /\ start \in Nat /\ Starts(lengths)[g + 1] = start + lengths[g]
              /\ start + lengths[g] <= Len(file)
              /\ piece = SubSeq(file, start + 1, start + lengths[g])
              /\ \A b \in 1..lengths[g] : piece[b] = file[start + b]
  <1> DEFINE n == Len(lengths)
             starts == Starts(lengths)
             start == starts[g]
             len == lengths[g]
  <1>1. /\ n \in Nat /\ starts \in [1..(n + 1) -> Nat] /\ starts[n + 1] = Len(file)
        /\ \A i \in 1..n : starts[i + 1] = starts[i] + lengths[i] /\ lengths[i] \in Nat
    BY StartsAre
  <1>2. Pieces(file, lengths)[g] = SubSeq(file, starts[g] + 1, starts[g + 1])
    BY DEF Pieces
  <1>3. g + 1 \in 1..(n + 1) /\ n + 1 \in (g + 1)..(n + 1) /\ g \in 1..(n + 1)
    BY <1>1
  <1>4. start \in Nat /\ len \in Nat /\ starts[g + 1] = start + len
    BY <1>1, <1>3
  <1>5. starts[g + 1] <= starts[n + 1]
    BY <1>3, StartsGrow
  <1>6. start + len <= Len(file) /\ Len(file) \in Nat
    BY <1>1, <1>4, <1>5
  <1>7. Pieces(file, lengths)[g] = SubSeq(file, start + 1, start + len)
    BY <1>2, <1>4
  <1> HIDE DEF start, len, n, starts
  <1>8. \A i \in (start + 1)..(start + len) : file[i] \in Nat
    BY <1>4, <1>6
  <1>9. start + 1 \in Int /\ start + len \in Int /\ (start + len) - (start + 1) + 1 = len
        /\ (start + 1 <= start + len <=> len # 0)
    BY <1>4
  <1>10. /\ SubSeq(file, start + 1, start + len) \in Seq(Nat)
         /\ Len(SubSeq(file, start + 1, start + len)) = len
         /\ \A b \in 1..len : SubSeq(file, start + 1, start + len)[b] = file[(start + 1) + b - 1]
    BY <1>4, <1>8, <1>9, SubSeqProperties
  <1>11. \A b \in 1..len : (start + 1) + b - 1 = start + b
    BY <1>4
  <1> QED
    BY <1>4, <1>6, <1>7, <1>10, <1>11 DEF start, len, starts

-----------------------------------------------------------------------------
(* What decryption reads back                                              *)

\* Where the j-th of pieces as long as a point's payload begins.
Before(j) == (j - 1) * PointBytes

ReadingPoints == INSTANCE Folding WITH Op <- ReadPoint
ReadingBlocks == INSTANCE Folding WITH Op <- ReadBlock

\* What has been read after k points.
PointsAfter(read, points, k) == ReadingPoints!After(read, points, k)

\* Points with these chunks, and points with these payloads, a block each.
Holding(points, chunks) ==
    /\ DOMAIN points = 1..Len(chunks)
    /\ \A j \in 1..Len(chunks) : points[j] = [plain |-> Encode(chunks[j]), len |-> Len(chunks[j])]

\* A slice of the file, and what has been read when a bytes of it were.
Slice(file, a, len) == SubSeq(file, a + 1, a + len)

ReadUpTo(read, file, a) == read.bytes = SubSeq(file, 1, a) /\ read.left = Len(file) - a

HoldingWhole(opened, n, plains) ==
    /\ DOMAIN opened = 1..n
    /\ \A i \in 1..n : opened[i] = <<[plain |-> plains[i], len |-> PointBytes]>>

WholeRead(bytes, n, plains, size) ==
    /\ bytes \in Seq(Int) /\ Len(bytes) = size
    /\ \A i \in 1..n, r \in 1..PointBytes :
          Before(i) + r <= size => bytes[Before(i) + r] = plains[i][r]

LEMMA ReadBlockSteps ==
    ASSUME NEW read, NEW points, NEW n \in Nat, DOMAIN points = 1..n
    PROVE  /\ PointsAfter(read, points, 0) = read
           /\ \A k \in 1..n : PointsAfter(read, points, k)
                                = ReadPoint(PointsAfter(read, points, k - 1), points[k])
           /\ ReadBlock(read, points) = PointsAfter(read, points, n)
  <1>1. ReadBlock(read, points) = ReadingPoints!Fold(read, points)
    BY Zenon DEF ReadBlock, ReadingPoints!Fold, ReadingPoints!FoldLeft, FoldLeft,
                 ReadingPoints!MapThenFoldSet, MapThenFoldSet, ReadingPoints!Max, Max
  <1> QED
    BY <1>1, ReadingPoints!FoldSteps DEF PointsAfter

LEMMA PointsStep ==
    ASSUME NEW read, NEW points, NEW n \in Nat, DOMAIN points = 1..n, NEW k \in 1..n
    PROVE  PointsAfter(read, points, k) = ReadPoint(PointsAfter(read, points, k - 1), points[k])
  BY ReadBlockSteps

\* A block of one point is read like the point.
LEMMA ReadSingle ==
    ASSUME NEW read, NEW p
    PROVE  ReadBlock(read, <<p>>) = ReadPoint(read, p)
  <1>1. DOMAIN <<p>> = 1..1 /\ <<p>>[1] = p /\ 1 \in Nat /\ 1 \in 1..1 /\ 1 - 1 = 0
    OBVIOUS
  <1>2. PointsAfter(read, <<p>>, 0) = read
    BY <1>1, ReadBlockSteps
  <1>3. PointsAfter(read, <<p>>, 1) = ReadPoint(PointsAfter(read, <<p>>, 1 - 1), <<p>>[1])
    BY <1>1, ReadBlockSteps
  <1>4. ReadBlock(read, <<p>>) = PointsAfter(read, <<p>>, 1)
    BY <1>1, ReadBlockSteps
  <1> QED
    BY <1>1, <1>2, <1>3, <1>4, Zenon

\* What has been read after k blocks.
BytesLeft(size) == [bytes |-> <<>>, left |-> size]
ReadAfter(opened, size, k) == ReadingBlocks!After(BytesLeft(size), opened, k)

LEMMA ReadBackSteps ==
    ASSUME NEW opened, NEW size, NEW n \in Nat, DOMAIN opened = 1..n
    PROVE  /\ ReadAfter(opened, size, 0) = BytesLeft(size)
           /\ \A k \in 1..n :
                ReadAfter(opened, size, k) = ReadBlock(ReadAfter(opened, size, k - 1), opened[k])
           /\ ReadBack(opened, size) = ReadAfter(opened, size, n).bytes
  <1>1. FoldLeft(ReadBlock, BytesLeft(size), opened) = ReadingBlocks!Fold(BytesLeft(size), opened)
    BY Zenon DEF ReadingBlocks!Fold, ReadingBlocks!FoldLeft, FoldLeft,
                 ReadingBlocks!MapThenFoldSet, MapThenFoldSet, ReadingBlocks!Max, Max
  <1>2. ReadBack(opened, size) = FoldLeft(ReadBlock, BytesLeft(size), opened).bytes
    BY Zenon DEF ReadBack, BytesLeft
  <1>3. /\ ReadingBlocks!After(BytesLeft(size), opened, 0) = BytesLeft(size)
        /\ \A k \in 1..n : ReadingBlocks!After(BytesLeft(size), opened, k)
                             = ReadBlock(ReadingBlocks!After(BytesLeft(size), opened, k - 1), opened[k])
        /\ ReadingBlocks!Fold(BytesLeft(size), opened) = ReadingBlocks!After(BytesLeft(size), opened, n)
    BY ReadingBlocks!FoldSteps
  <1> QED
    BY <1>1, <1>2, <1>3, Zenon DEF ReadAfter

LEMMA BlocksStep ==
    ASSUME NEW opened, NEW size, NEW n \in Nat, DOMAIN opened = 1..n, NEW k \in 1..n
    PROVE  ReadAfter(opened, size, k) = ReadBlock(ReadAfter(opened, size, k - 1), opened[k])
  BY ReadBackSteps

\* A point adds the bytes it has, or those that are left.
LEMMA ReadPointIs ==
    ASSUME LayoutAssumption, NEW read, read.bytes \in Seq(Int), read.left \in Nat,
           NEW plain \in [1..PointBytes -> Int], NEW len \in 0..PointBytes
    PROVE  LET p == [plain |-> plain, len |-> len]
               next == ReadPoint(read, p)
               got == Least(read.left, len)
               m == Len(read.bytes)
           IN /\ next.left = read.left - got /\ next.left \in Nat /\ got \in Nat
              /\ next.bytes \in Seq(Int) /\ Len(next.bytes) = m + got
              /\ \A b \in 1..m : next.bytes[b] = read.bytes[b]
              /\ \A r \in 1..got : next.bytes[m + r] = plain[r]
  <1> DEFINE p == [plain |-> plain, len |-> len]
             got == Least(read.left, len)
             m == Len(read.bytes)
             cut == SubSeq(plain, 1, got)
             bytes == read.bytes
  <1>1. PointBytes \in Nat
    BY DEF LayoutAssumption
  <1>2. got \in 0..PointBytes /\ got <= read.left
    BY <1>1 DEF Least
  <1>3. ReadPoint(read, p) = [bytes |-> bytes \o cut, left |-> read.left - got]
    BY DEF ReadPoint, Decode
  <1> HIDE DEF got
  <1>4. cut \in Seq(Int) /\ Len(cut) = got /\ \A r \in 1..got : cut[r] = plain[r]
    <2>1. \A i \in 1..got : plain[i] \in Int
      BY <1>1, <1>2
    <2>2. 1 \in Int /\ got \in Int
      BY <1>2
    <2>3. /\ cut \in Seq(Int)
          /\ Len(cut) = IF 1 <= got THEN got - 1 + 1 ELSE 0
          /\ \A r \in 1..(got - 1 + 1) : cut[r] = plain[1 + r - 1]
      BY <2>1, <2>2, SubSeqProperties
    <2> HIDE DEF cut
    <2> QED
      BY <1>2, <2>2, <2>3
  <1> HIDE DEF cut
  <1>5. m \in Nat /\ bytes \in Seq(Int) /\ m = Len(bytes)
    OBVIOUS
  <1> HIDE DEF m, bytes
  <1>6. /\ bytes \o cut \in Seq(Int) /\ Len(bytes \o cut) = m + got
        /\ \A b \in 1..(m + got) : (bytes \o cut)[b] = IF b <= m THEN bytes[b] ELSE cut[b - m]
    BY <1>4, <1>5, ConcatProperties
  <1>7. \A b \in 1..m : (bytes \o cut)[b] = bytes[b]
    BY <1>2, <1>5, <1>6
  <1>8. \A r \in 1..got : (bytes \o cut)[m + r] = plain[r]
    <2> TAKE r \in 1..got
    <2>1. m + r \in 1..(m + got) /\ ~(m + r <= m) /\ (m + r) - m = r
      BY <1>2, <1>5
    <2> QED
      BY <1>4, <1>6, <2>1
  <1>9. read.left - got \in Nat /\ got \in Nat
    BY <1>2
  <1> DEFINE next == ReadPoint(read, p)
  <1>10. next.left = read.left - got /\ next.bytes = bytes \o cut
    BY <1>3
  <1> HIDE DEF next
  <1>11. /\ next.left = read.left - got /\ next.left \in Nat /\ got \in Nat
         /\ next.bytes \in Seq(Int) /\ Len(next.bytes) = m + got
         /\ \A b \in 1..m : next.bytes[b] = bytes[b]
         /\ \A r \in 1..got : next.bytes[m + r] = plain[r]
    BY <1>6, <1>7, <1>8, <1>9, <1>10, Zenon
  <1> QED
    BY <1>11, Zenon DEF next, got, m, bytes

\* Points read whole: their bytes in order, up to the size of the file.
LEMMA ReadWhole ==
    ASSUME LayoutAssumption, NEW n \in Nat, NEW plains \in [1..n -> [1..PointBytes -> Int]],
           NEW opened, HoldingWhole(opened, n, plains), NEW size \in Nat, size <= n * PointBytes
    PROVE  WholeRead(ReadBack(opened, size), n, plains, size)
  <1> DEFINE m == PointBytes
             at(k) == ReadAfter(opened, size, k)
             Sound(k) == /\ at(k).left \in Nat /\ at(k).left = size - Least(size, k * m)
                         /\ at(k).bytes \in Seq(Int) /\ Len(at(k).bytes) = Least(size, k * m)
                         /\ \A i \in 1..k, r \in 1..m : (i - 1) * m + r <= size =>
                                at(k).bytes[(i - 1) * m + r] = plains[i][r]
             S == {k \in Nat : k <= n => Sound(k)}
  <1>1. m \in Nat \ {0} /\ DOMAIN opened = 1..n
    BY DEF LayoutAssumption, HoldingWhole
  <1>2. at(0) = BytesLeft(size) /\ ReadBack(opened, size) = at(n).bytes
    BY <1>1, ReadBackSteps
  <1>3. ASSUME NEW k \in 1..n
        PROVE  at(k) = ReadPoint(at(k - 1), [plain |-> plains[k], len |-> m])
    <2>1. at(k) = ReadBlock(at(k - 1), opened[k])
      BY <1>1, ReadBackSteps
    <2>2. opened[k] = <<[plain |-> plains[k], len |-> m]>>
      BY DEF HoldingWhole
    <2> QED
      BY <2>1, <2>2, ReadSingle
  <1> HIDE DEF at
  <1>4. 0 \in S
    <2>1. at(0).left = size /\ at(0).bytes = <<>>
      BY <1>2 DEF BytesLeft
    <2>2. Least(size, 0 * m) = 0
      BY <1>1 DEF Least
    <2>3. <<>> \in Seq(Int) /\ Len(<<>>) = 0 /\ \A i : i \notin 1..0
      OBVIOUS
    <2>4. at(0).left \in Nat /\ at(0).left = size - Least(size, 0 * m)
      BY <2>1, <2>2
    <2>5. at(0).bytes \in Seq(Int) /\ Len(at(0).bytes) = Least(size, 0 * m)
      BY <2>1, <2>2, <2>3, Zenon
    <2>6. Sound(0)
      BY <2>3, <2>4, <2>5, Zenon
    <2> QED
      BY <2>6
  <1>5. ASSUME NEW k \in Nat, k \in S
        PROVE  k + 1 \in S
    <2> SUFFICES ASSUME k + 1 <= n PROVE Sound(k + 1)
      OBVIOUS
    <2> DEFINE old == at(k)
               got == Least(old.left, m)
               done == Len(old.bytes)
               new == at(k + 1)
    <2>1. Sound(k) /\ k + 1 \in 1..n /\ (k + 1) - 1 = k
      <3>1. k <= n /\ k + 1 \in 1..n /\ (k + 1) - 1 = k
        OBVIOUS
      <3> HIDE DEF Sound
      <3>2. Sound(k)
        BY <1>5, <3>1
      <3> QED
        BY <3>1, <3>2
    <2>2. m \in 0..PointBytes /\ plains[k + 1] \in [1..PointBytes -> Int]
      BY <1>1, <2>1
    <2>3. new = ReadPoint(old, [plain |-> plains[k + 1], len |-> m])
      BY <1>3, <2>1
    <2>4. /\ new.left = old.left - got /\ new.left \in Nat /\ got \in Nat
          /\ new.bytes \in Seq(Int) /\ Len(new.bytes) = done + got
          /\ \A b \in 1..done : new.bytes[b] = old.bytes[b]
          /\ \A r \in 1..got : new.bytes[done + r] = plains[k + 1][r]
      <3>1. old.bytes \in Seq(Int) /\ old.left \in Nat
        BY <2>1
      <3> HIDE DEF old, new
      <3> DEFINE next == ReadPoint(old, [plain |-> plains[k + 1], len |-> m])
      <3>2. /\ next.left = old.left - got /\ next.left \in Nat /\ got \in Nat
            /\ next.bytes \in Seq(Int) /\ Len(next.bytes) = done + got
            /\ \A b \in 1..done : next.bytes[b] = old.bytes[b]
            /\ \A r \in 1..got : next.bytes[done + r] = plains[k + 1][r]
        BY <2>2, <3>1, ReadPointIs, Zenon
      <3> QED
        BY <2>3, <3>2, Zenon
    <2>5. k * m \in Nat /\ (k + 1) * m = k * m + m
      BY <1>1, ProductOrder
    <2>6. done = Least(size, k * m) /\ old.left = size - done
      BY <2>1
    <2> DEFINE km == k * m
    <2> HIDE DEF old, got, done, new, km
    <2>7. done + got = Least(size, (k + 1) * m) /\ new.left = size - Least(size, (k + 1) * m)
      <3>1. got = Least(size - done, m) /\ done = Least(size, km) /\ (k + 1) * m = km + m /\ km \in Nat
        BY <2>5, <2>6 DEF got, km
      <3>2. done + got = Least(size, km + m)
        BY <1>1, <3>1 DEF Least
      <3>3. done \in Nat /\ got \in Nat
        BY <1>1, <3>1 DEF Least
      <3>4. done + got = Least(size, (k + 1) * m)
        BY <3>1, <3>2, Zenon
      <3>5. new.left = size - (done + got)
        BY <2>4, <2>6, <3>3
      <3> QED
        BY <3>4, <3>5, Zenon
    <2>8. ASSUME NEW i \in 1..(k + 1), NEW r \in 1..m, (i - 1) * m + r <= size
          PROVE  new.bytes[(i - 1) * m + r] = plains[i][r]
      <3>1. CASE i = k + 1
        <4>1. (i - 1) * m = km /\ km + r <= size /\ km \in Nat
          BY <2>1, <2>5, <2>8, <3>1 DEF km
        <4>2. done = km /\ old.left = size - km
          BY <2>6, <4>1 DEF Least, km
        <4>3. r \in 1..got
          <5>1. got = Least(size - km, m)
            BY <4>2 DEF got
          <5> QED
            BY <1>1, <4>1, <5>1 DEF Least
        <4> QED
          BY <2>4, <3>1, <4>1, <4>2, <4>3
      <3>2. CASE i \in 1..k
        <4>1. i - 1 \in Nat /\ (i - 1) + 1 = i
          OBVIOUS
        <4>2. (i - 1) * m \in Nat /\ i * m = (i - 1) * m + m
          BY <1>1, <4>1, ProductOrder
        <4>3. i * m <= k * m
          BY <1>1, <3>2, ProductOrder
        <4> DEFINE b == (i - 1) * m + r
        <4>4. b \in 1..done
          <5> DEFINE im == (i - 1) * m
          <5>1. im \in Nat /\ im + m <= km /\ km \in Nat /\ im + r <= size /\ done = Least(size, km)
            BY <2>5, <2>6, <2>8, <4>2, <4>3 DEF km
          <5> HIDE DEF im
          <5>2. im + r \in 1..done
            BY <1>1, <5>1 DEF Least
          <5> QED
            BY <5>2 DEF im
        <4>5. old.bytes[b] = plains[i][r]
          BY <2>1, <2>8, <3>2 DEF old
        <4> HIDE DEF b
        <4>6. new.bytes[b] = plains[i][r]
          BY <2>4, <4>4, <4>5
        <4> QED
          BY <4>6 DEF b
      <3> QED
        BY <3>1, <3>2
    <2> QED
      BY <2>4, <2>7, <2>8 DEF new
  <1>6. Sound(n)
    <2> HIDE DEF S
    <2>1. n \in S
      BY <1>4, <1>5, SetInduction
    <2> QED
      BY <2>1 DEF S
  <1>7. Least(size, n * m) = size
    BY DEF Least
  <1> QED
    BY <1>2, <1>6, <1>7 DEF Before, WholeRead

\* Chunks of a point's payload each: none empty, all but the last full.
LEMMA ChunksCount ==
    ASSUME LayoutAssumption, NEW s, NEW len \in Nat, len = Len(s)
    PROVE  LET n == CeilDiv(len, PointBytes) IN
           n \in Nat /\ Len(Chunks(s, PointBytes)) = n /\ Least(n * PointBytes, len) = len
  <1> DEFINE m == PointBytes
             n == CeilDiv(len, m)
  <1>1. m \in Nat \ {0}
    BY DEF LayoutAssumption
  <1>2. n \in Nat /\ len <= n * m /\ n * m \in Nat
    BY <1>1, CeilDivIs, ProductOrder
  <1>3. Chunks(s, m) = [j \in 1..n |-> SubSeq(s, (j - 1) * m + 1, Least(j * m, len))]
    BY DEF Chunks
  <1> HIDE DEF n
  <1> QED
    BY <1>2, <1>3 DEF Least, n

LEMMA ChunkIs ==
    ASSUME LayoutAssumption, NEW s \in Seq(Nat), NEW len, len = Len(s),
           NEW j \in 1..CeilDiv(len, PointBytes)
    PROVE  LET m == PointBytes
               chunk == Chunks(s, m)[j]
           IN /\ Before(j) \in Nat /\ j * m = Before(j) + m /\ Before(j) < len
              /\ chunk \in Seq(Nat)
              /\ Len(chunk) = Least(Before(j) + m, len) - Before(j) /\ Len(chunk) \in 1..m
              /\ \A r \in 1..Len(chunk) : chunk[r] = s[Before(j) + r]
  <1> DEFINE m == PointBytes
             n == CeilDiv(len, m)
             chunk == Chunks(s, m)[j]
             first == (j - 1) * m
             last == Least(j * m, len)
             jm == j * m
             nm == n * m
  <1>1. len \in Nat /\ m \in Nat \ {0}
    BY DEF LayoutAssumption
  <1>2. n \in Nat /\ nm < len + m /\ nm \in Nat
    BY <1>1, CeilDivIs, ProductOrder
  <1>3. chunk = SubSeq(s, first + 1, last)
    BY DEF Chunks
  <1>4. j \in 1..n
    OBVIOUS
  <1> HIDE DEF m, n, chunk
  <1>5. j - 1 \in Nat /\ (j - 1) + 1 = j /\ j \in Nat /\ j <= n
    BY <1>2, <1>4
  <1>6. first \in Nat /\ jm = first + m
    BY <1>1, <1>5, ProductOrder
  <1>7. jm <= nm
    BY <1>1, <1>2, <1>5, ProductOrder
  <1>8. last = Least(jm, len)
    OBVIOUS
  <1> HIDE DEF first, last, jm, nm
  <1>9. last \in Nat /\ last <= len /\ last > first /\ last <= first + m /\ first < len
    BY <1>1, <1>2, <1>6, <1>7, <1>8 DEF Least
  <1>10. \A i \in (first + 1)..last : s[i] \in Nat
    BY <1>1, <1>6, <1>9
  <1>11. first + 1 \in Int /\ last \in Int /\ first + 1 <= last /\ last - (first + 1) + 1 = last - first
    BY <1>6, <1>9
  <1>12. /\ chunk \in Seq(Nat) /\ Len(chunk) = last - first
         /\ \A r \in 1..(last - first) : chunk[r] = s[(first + 1) + r - 1]
    BY <1>3, <1>10, <1>11, SubSeqProperties
  <1>13. \A r \in 1..(last - first) : (first + 1) + r - 1 = first + r
    BY <1>6, <1>9
  <1>14. last - first \in 1..m
    BY <1>1, <1>6, <1>9
  <1>15. \A r \in 1..Len(chunk) : chunk[r] = s[first + r]
    BY <1>12, <1>13
  <1>16. first = Before(j)
    BY DEF first, m, Before
  <1> QED
    BY <1>6, <1>8, <1>9, <1>12, <1>14, <1>15, <1>16 DEF m, jm, chunk

\* A chunk's payload starts with its bytes.
LEMMA EncodeIs ==
    ASSUME LayoutAssumption, NEW chunk \in Seq(Nat), Len(chunk) <= PointBytes
    PROVE  /\ Encode(chunk) \in [1..PointBytes -> Nat]
           /\ Encode(chunk) # Garbage
           /\ \A b \in 1..Len(chunk) : Encode(chunk)[b] = chunk[b]
           /\ \A b \in (Len(chunk) + 1)..PointBytes : Encode(chunk)[b] = 0
  <1>1. PointBytes \in Nat \ {0} /\ Len(chunk) \in Nat
    BY DEF LayoutAssumption
  <1>2. \A b \in 1..Len(chunk) : chunk[b] \in Nat
    OBVIOUS
  <1>3. Encode(chunk) \in [1..PointBytes -> Nat]
    BY <1>1, <1>2 DEF Encode
  <1>4. 1 \in 1..PointBytes
    BY <1>1
  <1>5. Encode(chunk)[1] \in Nat /\ Garbage[1] = -1
    BY <1>3, <1>4 DEF Garbage
  <1>6. Encode(chunk) # Garbage
    BY <1>5
  <1> QED
    BY <1>1, <1>3, <1>6 DEF Encode

\* A packed block adds its piece of the file.
LEMMA ReadPiece ==
    ASSUME LayoutAssumption, NEW file \in Seq(Nat), NEW a \in Nat, NEW len \in Nat,
           a + len <= Len(file), NEW read, ReadUpTo(read, file, a),
           NEW points, Holding(points, Chunks(Slice(file, a, len), PointBytes))
    PROVE  ReadUpTo(ReadBlock(read, points), file, a + len)
  <1> DEFINE m == PointBytes
             piece == SubSeq(file, a + 1, a + len)
             chunks == Chunks(piece, m)
             n == CeilDiv(len, m)
  <1>1. m \in Nat \ {0} /\ Len(file) \in Nat
    BY DEF LayoutAssumption
  <1>2. piece \in Seq(Nat) /\ Len(piece) = len /\ \A r \in 1..len : piece[r] = file[a + r]
    <2>1. \A i \in (a + 1)..(a + len) : file[i] \in Nat
      BY <1>1
    <2>2. a + 1 \in Int /\ a + len \in Int /\ (a + len) - (a + 1) + 1 = len /\ (a + 1 <= a + len <=> len # 0)
      OBVIOUS
    <2>3. /\ piece \in Seq(Nat) /\ Len(piece) = len
          /\ \A r \in 1..len : piece[r] = file[(a + 1) + r - 1]
      BY <2>1, <2>2, SubSeqProperties
    <2>4. \A r \in 1..len : (a + 1) + r - 1 = a + r
      OBVIOUS
    <2> QED
      BY <2>3, <2>4
  <1> HIDE DEF piece
  <1>3. /\ n \in Nat /\ Len(chunks) = n /\ Least(n * m, len) = len
        /\ \A j \in 1..n :
             /\ Before(j) \in Nat /\ j * m = Before(j) + m /\ Before(j) < len
             /\ chunks[j] \in Seq(Nat)
             /\ Len(chunks[j]) = Least(Before(j) + m, len) - Before(j) /\ Len(chunks[j]) \in 1..m
             /\ \A r \in 1..Len(chunks[j]) : chunks[j][r] = piece[Before(j) + r]
    <2>1. len = Len(piece) /\ piece \in Seq(Nat)
      BY <1>2
    <2>2. n \in Nat /\ Len(chunks) = n /\ Least(n * m, len) = len
      BY <2>1, ChunksCount
    <2>3. ASSUME NEW j \in 1..n
          PROVE  /\ Before(j) \in Nat /\ j * m = Before(j) + m /\ Before(j) < len
                 /\ chunks[j] \in Seq(Nat)
                 /\ Len(chunks[j]) = Least(Before(j) + m, len) - Before(j) /\ Len(chunks[j]) \in 1..m
                 /\ \A r \in 1..Len(chunks[j]) : chunks[j][r] = piece[Before(j) + r]
      <3>1. /\ Before(j) \in Nat /\ j * m = Before(j) + m /\ Before(j) < len
            /\ chunks[j] \in Seq(Nat)
            /\ Len(chunks[j]) = Least(Before(j) + m, len) - Before(j) /\ Len(chunks[j]) \in 1..m
        BY <2>1, ChunkIs
      <3>2. ASSUME NEW r \in 1..Len(chunks[j])
            PROVE  chunks[j][r] = piece[Before(j) + r]
        BY <2>1, ChunkIs
      <3> QED
        BY <3>1, <3>2
    <2> QED
      BY <2>2, <2>3
  <1>31. Holding(points, chunks)
    BY DEF piece, Slice
  <1> HIDE DEF m, n, chunks
  <1>4. /\ DOMAIN points = 1..n
        /\ \A j \in 1..n : points[j] = [plain |-> Encode(chunks[j]), len |-> Len(chunks[j])]
    BY <1>3, <1>31 DEF Holding
  <1> DEFINE at(k) == PointsAfter(read, points, k)
             to(k) == a + Least(k * m, len)
             Sound(k) == at(k).bytes = SubSeq(file, 1, to(k)) /\ at(k).left = Len(file) - to(k)
             S == {k \in Nat : k <= n => Sound(k)}
  <1>5. at(0) = read /\ ReadBlock(read, points) = at(n)
    BY <1>3, <1>4, ReadBlockSteps
  <1>6. ASSUME NEW k \in 1..n
        PROVE  at(k) = ReadPoint(at(k - 1), [plain |-> Encode(chunks[k]), len |-> Len(chunks[k])])
    <2>1. n \in Nat /\ DOMAIN points = 1..n
      BY <1>3, <1>4
    <2>2. at(k) = ReadPoint(at(k - 1), points[k])
      BY <2>1, PointsStep
    <2> QED
      BY <1>4, <2>2
  <1> HIDE DEF at
  <1>7. 0 \in S
    <2>1. Least(0 * m, len) = 0
      BY <1>1 DEF Least
    <2>2. to(0) = a
      BY <2>1
    <2>3. Sound(0)
      BY <1>5, <2>2, Zenon DEF ReadUpTo
    <2> QED
      BY <2>3
  <1>8. ASSUME NEW k \in Nat, k \in S
        PROVE  k + 1 \in S
    <2> SUFFICES ASSUME k + 1 <= n PROVE Sound(k + 1)
      OBVIOUS
    <2> DEFINE j == k + 1
               old == at(k)
               new == at(k + 1)
               km == k * m
               chunk == chunks[j]
               got == Len(chunk)
               here == a + km
    <2>1. Sound(k) /\ j \in 1..n /\ j - 1 = k
      <3>1. n \in Nat
        BY <1>3
      <3>2. Sound(k)
        BY <1>8, <3>1
      <3>3. j \in 1..n /\ j - 1 = k
        BY <3>1
      <3> QED
        BY <3>2, <3>3
    <2>2. /\ km \in Nat /\ (k + 1) * m = km + m /\ km < len
          /\ chunk \in Seq(Nat) /\ got = Least(km + m, len) - km /\ got \in 1..m
          /\ \A r \in 1..got : chunk[r] = piece[km + r]
      <3>1. Before(j) = km
        BY <2>1 DEF Before, m
      <3> QED
        BY <1>3, <2>1, <3>1
    <2>3. new = ReadPoint(old, [plain |-> Encode(chunk), len |-> got])
      BY <1>6, <2>1
    <2>4. to(k) = here /\ to(k + 1) = here + got /\ km + got <= len
      <3> DEFINE nm == (k + 1) * m
      <3>1. nm = km + m /\ got = Least(nm, len) - km /\ to(k + 1) = a + Least(nm, len)
            /\ to(k) = a + Least(km, len)
        BY <2>2
      <3> HIDE DEF nm, km, got
      <3> QED
        BY <1>1, <2>2, <3>1 DEF Least
    <2>5. old.bytes = SubSeq(file, 1, here) /\ old.left = Len(file) - here
      BY <2>1, <2>4, Zenon
    <2> HIDE DEF old, new, km, chunk, got, here, to
    <2>60. km \in Nat /\ got \in 1..m
      BY <2>2
    <2>61. got \in Nat
      BY <1>1, <2>60
    <2>6. here \in Nat /\ got \in 1..m /\ here + got <= Len(file) /\ here = a + km
      BY <1>1, <2>4, <2>60, <2>61 DEF here
    <2>7. old.bytes \in Seq(Nat) /\ Len(old.bytes) = here /\ \A b \in 1..here : old.bytes[b] = file[b]
      <3>1. \A i \in 1..here : file[i] \in Nat
        BY <1>1, <2>6
      <3>2. 1 \in Int /\ here \in Int /\ here - 1 + 1 = here /\ (1 <= here <=> here # 0)
        BY <2>6
      <3>3. /\ SubSeq(file, 1, here) \in Seq(Nat) /\ Len(SubSeq(file, 1, here)) = here
            /\ \A b \in 1..here : SubSeq(file, 1, here)[b] = file[1 + b - 1]
        BY <3>1, <3>2, SubSeqProperties
      <3>4. \A b \in 1..here : 1 + b - 1 = b
        BY <2>6
      <3> QED
        BY <2>5, <3>3, <3>4
    <2>8. old.bytes \in Seq(Int) /\ old.left \in Nat /\ Least(old.left, got) = got
      <3>1. old.bytes \in Seq(Int)
        BY <2>7
      <3>2. old.left \in Nat /\ got <= old.left
        <4>1. Len(file) \in Nat /\ here \in Nat /\ got \in Nat /\ here + got <= Len(file)
          BY <1>1, <2>6, <2>61
        <4>2. old.left = Len(file) - here
          BY <2>5
        <4> QED
          BY <4>1, <4>2
      <3> QED
        BY <2>6, <3>1, <3>2 DEF Least
    <2>9. /\ Encode(chunk) \in [1..PointBytes -> Int] /\ got \in 0..PointBytes
          /\ \A r \in 1..got : Encode(chunk)[r] = file[here + r]
      <3>1. Len(chunk) <= PointBytes /\ Len(chunk) = got
        BY <1>1, <2>6 DEF got, m
      <3>2. Encode(chunk) \in [1..PointBytes -> Nat] /\ \A r \in 1..got : Encode(chunk)[r] = chunk[r]
        BY <2>2, <3>1, EncodeIs
      <3>3. \A r \in 1..got : chunk[r] = file[here + r]
        <4> TAKE r \in 1..got
        <4>1. km + r \in 1..len /\ a + (km + r) = here + r
          <5>1. km \in Nat
            BY <2>2
          <5>2. got \in Nat /\ here = a + km /\ km + got <= len
            BY <1>1, <2>4, <2>6
          <5> QED
            BY <5>1, <5>2
        <4> QED
          BY <1>2, <2>2, <4>1
      <3>4. got \in 0..PointBytes
        BY <2>6, <1>1 DEF m
      <3> QED
        BY <3>2, <3>3, <3>4
    <2>10. /\ new.left = old.left - got
           /\ new.bytes \in Seq(Int) /\ Len(new.bytes) = here + got
           /\ \A b \in 1..here : new.bytes[b] = old.bytes[b]
           /\ \A r \in 1..got : new.bytes[here + r] = Encode(chunk)[r]
      <3> DEFINE next == ReadPoint(old, [plain |-> Encode(chunk), len |-> got])
                 some == Least(old.left, got)
                 done == Len(old.bytes)
      <3>1. /\ next.left = old.left - some
            /\ next.bytes \in Seq(Int) /\ Len(next.bytes) = done + some
            /\ \A b \in 1..done : next.bytes[b] = old.bytes[b]
            /\ \A r \in 1..some : next.bytes[done + r] = Encode(chunk)[r]
        BY <2>8, <2>9, ReadPointIs, Zenon
      <3> QED
        BY <2>3, <2>7, <2>8, <3>1, Zenon
    <2>11. new.bytes = SubSeq(file, 1, here + got)
      <3> DEFINE end == here + got
      <3>1. end \in Nat /\ end <= Len(file)
        BY <2>6
      <3>2. \A i \in 1..end : file[i] \in Int
        BY <1>1, <3>1
      <3>3. 1 \in Int /\ end \in Int /\ end - 1 + 1 = end /\ (1 <= end <=> end # 0)
        BY <3>1
      <3>4. /\ SubSeq(file, 1, end) \in Seq(Int) /\ Len(SubSeq(file, 1, end)) = end
            /\ \A b \in 1..end : SubSeq(file, 1, end)[b] = file[1 + b - 1]
        BY <3>2, <3>3, SubSeqProperties
      <3>5. ASSUME NEW b \in 1..end
            PROVE  new.bytes[b] = SubSeq(file, 1, end)[b]
        <4>1. 1 + b - 1 = b
          OBVIOUS
        <4>2. new.bytes[b] = file[b]
          <5>1. CASE b <= here
            BY <2>6, <2>7, <2>10, <5>1
          <5>2. CASE ~(b <= here)
            <6>1. b - here \in 1..got /\ here + (b - here) = b
              BY <2>6, <5>2
            <6> QED
              BY <2>9, <2>10, <6>1
          <5> QED
            BY <5>1, <5>2
        <4> QED
          BY <3>4, <4>1, <4>2
      <3> HIDE DEF end
      <3>6. Len(new.bytes) = end
        BY <2>10 DEF end
      <3> QED
        BY <2>10, <3>4, <3>5, <3>6, SeqEqual DEF end
    <2>12. new.left = Len(file) - (here + got)
      BY <1>1, <2>5, <2>6, <2>10
    <2> QED
      BY <2>4, <2>11, <2>12, Zenon DEF new
  <1>9. Sound(n)
    <2> HIDE DEF S
    <2>1. n \in S
      BY <1>3, <1>7, <1>8, SetInduction
    <2> QED
      BY <1>3, <2>1 DEF S
  <1>10. to(n) = a + len
    BY <1>3
  <1>11. at(n).bytes = SubSeq(file, 1, a + len) /\ at(n).left = Len(file) - (a + len)
    BY <1>9, <1>10, Zenon
  <1> QED
    BY <1>5, <1>11 DEF ReadUpTo

\* Packed blocks of the file's pieces, opened, give back the file.
LEMMA ReadPacked ==
    ASSUME LayoutAssumption, NEW file \in Seq(Nat), NEW lengths \in Seq(Nat),
           TotalLength(lengths) = Len(file), NEW opened, DOMAIN opened = 1..Len(lengths),
           \A g \in 1..Len(lengths) :
              Holding(opened[g], Chunks(Pieces(file, lengths)[g], PointBytes))
    PROVE  ReadBack(opened, Len(file)) = file
  <1> DEFINE n == Len(lengths)
             size == Len(file)
             starts == Starts(lengths)
             at(k) == ReadAfter(opened, size, k)
             Sound(k) == /\ at(k).bytes = SubSeq(file, 1, starts[k + 1])
                         /\ at(k).left = size - starts[k + 1]
             S == {k \in Nat : k <= n => Sound(k)}
  <1>1. n \in Nat /\ size \in Nat /\ starts[1] = 0 /\ starts[n + 1] = size
    BY StartsAre
  <1>2. at(0) = BytesLeft(size) /\ ReadBack(opened, size) = at(n).bytes
    BY <1>1, ReadBackSteps
  <1>21. ASSUME NEW k \in 1..n
         PROVE  at(k) = ReadBlock(at(k - 1), opened[k])
    BY <1>1, BlocksStep
  <1> HIDE DEF at
  <1>3. 0 \in S
    <2>1. SubSeq(file, 1, 0) = <<>>
      BY SubSeqEmpty
    <2>2. at(0).bytes = <<>> /\ at(0).left = size
      BY <1>2 DEF BytesLeft
    <2> HIDE DEF at, starts, size
    <2>3. starts[0 + 1] = 0 /\ size - 0 = size
      BY <1>1
    <2>4. Sound(0)
      BY <2>1, <2>2, <2>3
    <2> QED
      BY <2>4
  <1>4. ASSUME NEW k \in Nat, k \in S
        PROVE  k + 1 \in S
    <2> SUFFICES ASSUME k + 1 <= n PROVE Sound(k + 1)
      OBVIOUS
    <2> DEFINE g == k + 1
               start == starts[g]
               len == lengths[g]
               piece == Pieces(file, lengths)[g]
    <2>1. g \in 1..n /\ g - 1 = k
      BY <1>1
    <2>2. /\ start \in Nat /\ len \in Nat /\ starts[g + 1] = start + len /\ start + len <= size
          /\ piece = SubSeq(file, start + 1, start + len)
      BY <2>1, PieceIs
    <2>3. at(k).bytes = SubSeq(file, 1, start) /\ at(k).left = size - start
      BY <1>1, <1>4, <2>1
    <2>4. at(g) = ReadBlock(at(k), opened[g])
      BY <1>21, <2>1
    <2>5. Holding(opened[g], Chunks(piece, PointBytes))
      BY <2>1
    <2>6. Holding(opened[g], Chunks(Slice(file, start, len), PointBytes))
      BY <2>2, <2>5 DEF Slice
    <2>61. ReadUpTo(at(k), file, start)
      BY <2>3 DEF ReadUpTo
    <2> HIDE DEF start, len
    <2>7. ReadUpTo(ReadBlock(at(k), opened[g]), file, start + len)
      BY <2>2, <2>6, <2>61, ReadPiece
    <2> QED
      BY <2>2, <2>4, <2>7, Zenon DEF ReadUpTo
  <1>5. Sound(n)
    <2> HIDE DEF S
    <2>1. n \in S
      BY <1>1, <1>3, <1>4, SetInduction
    <2> QED
      BY <1>1, <2>1 DEF S
  <1>6. at(n).bytes = SubSeq(file, 1, size)
    BY <1>1, <1>5
  <1> QED
    BY <1>2, <1>6, SubSeqFull

\* Every piece before the last one with a byte in it is as long as can be.
FullUpToLast(lengths, m) ==
    \A g, h \in 1..Len(lengths) : g < h /\ lengths[h] > 0 => lengths[g] = m

\* Points read whole give as many bytes as the file has; and the file, if they
\* are full up to the last one, but no other file that has no zero bytes.
LEMMA ReadPadded ==
    ASSUME LayoutAssumption, NEW file \in Seq(Nat), NEW lengths \in Seq(0..PointBytes),
           TotalLength(lengths) = Len(file)
    PROVE  LET bytes == ReadBack([g \in 1..Len(lengths) |->
                                    <<[plain |-> Encode(Pieces(file, lengths)[g]), len |-> PointBytes]>>],
                                 Len(file))
           IN /\ bytes \in Seq(Int) /\ Len(bytes) = Len(file)
              /\ FullUpToLast(lengths, PointBytes) => bytes = file
              /\ (\A b \in 1..Len(file) : file[b] # 0) /\ bytes = file
                    => FullUpToLast(lengths, PointBytes)
  <1> DEFINE n == Len(lengths)
             m == PointBytes
             size == Len(file)
             starts == Starts(lengths)
             plains == [g \in 1..n |-> Encode(Pieces(file, lengths)[g])]
             opened == [g \in 1..n |-> <<[plain |-> Encode(Pieces(file, lengths)[g]), len |-> m]>>]
             bytes == ReadBack(opened, size)
  <1>1. m \in Nat \ {0} /\ lengths \in Seq(Nat) /\ n \in Nat /\ \A g \in 1..n : lengths[g] \in 0..m
    BY DEF LayoutAssumption
  <1>2. /\ starts \in [1..(n + 1) -> Nat] /\ starts[n + 1] = size /\ size \in Nat
        /\ TotalLength(lengths) = size
        /\ \A g \in 1..n : starts[g + 1] = starts[g] + lengths[g]
    BY <1>1, StartsAre
  <1>3. ASSUME NEW g \in 1..n
        PROVE  LET code == Encode(Pieces(file, lengths)[g]) IN
               /\ code \in [1..m -> Nat]
               /\ \A r \in 1..lengths[g] : code[r] = file[starts[g] + r]
               /\ \A r \in (lengths[g] + 1)..m : code[r] = 0
    <2> DEFINE piece == Pieces(file, lengths)[g]
    <2>1. /\ piece \in Seq(Nat) /\ Len(piece) = lengths[g]
          /\ \A b \in 1..lengths[g] : piece[b] = file[starts[g] + b]
      BY <1>1, PieceIs
    <2>2. Len(piece) <= PointBytes
      BY <1>1, <2>1
    <2> HIDE DEF piece
    <2>3. /\ Encode(piece) \in [1..PointBytes -> Nat]
          /\ \A b \in 1..Len(piece) : Encode(piece)[b] = piece[b]
          /\ \A b \in (Len(piece) + 1)..PointBytes : Encode(piece)[b] = 0
      BY <2>1, <2>2, EncodeIs
    <2>4. /\ Encode(piece) \in [1..PointBytes -> Nat]
          /\ \A r \in 1..lengths[g] : Encode(piece)[r] = file[starts[g] + r]
          /\ \A r \in (lengths[g] + 1)..PointBytes : Encode(piece)[r] = 0
      BY <2>1, <2>3
    <2> QED
      BY <2>4 DEF piece
  <1>4. \A g \in 1..n : starts[g] <= Before(g) /\ starts[g] \in Nat
    <2> TAKE g \in 1..n
    <2>1. \A i \in 1..n : lengths[i] <= m
      BY <1>1
    <2>2. g \in 1..(n + 1)
      BY <1>1
    <2> QED
      BY <1>1, <2>1, <2>2, StartsBounded DEF Before
  <1>5. size <= n * m
    <2>1. \A i \in 1..n : lengths[i] <= m
      BY <1>1
    <2>2. n + 1 \in 1..(n + 1) /\ (n + 1) - 1 = n
      BY <1>1
    <2>3. starts[n + 1] <= ((n + 1) - 1) * m
      BY <1>1, <2>1, <2>2, StartsBounded
    <2> QED
      BY <1>2, <2>2, <2>3
  <1>6. plains \in [1..n -> [1..m -> Int]]
    <2>1. \A g \in 1..n : plains[g] \in [1..m -> Int]
      <3> TAKE g \in 1..n
      <3>1. Encode(Pieces(file, lengths)[g]) \in [1..m -> Nat]
        BY <1>3
      <3>2. plains[g] = Encode(Pieces(file, lengths)[g])
        OBVIOUS
      <3> QED
        BY <3>1, <3>2
    <2> QED
      BY <2>1
  <1>7. HoldingWhole(opened, n, plains)
    BY DEF HoldingWhole
  <1>8. \A g \in 1..n : plains[g] = Encode(Pieces(file, lengths)[g])
    OBVIOUS
  <1> HIDE DEF n, size, starts, plains, opened
  <1>9. /\ bytes \in Seq(Int) /\ Len(bytes) = size
        /\ \A g \in 1..n, r \in 1..m :
              Before(g) + r <= size => bytes[Before(g) + r] = plains[g][r]
    <2>1. n \in Nat /\ size \in Nat /\ size <= n * PointBytes
      BY <1>1, <1>2, <1>5
    <2>2. plains \in [1..n -> [1..PointBytes -> Int]] /\ HoldingWhole(opened, n, plains)
      BY <1>6, <1>7
    <2> HIDE DEF bytes, m
    <2>3. WholeRead(ReadBack(opened, size), n, plains, size)
      BY <2>1, <2>2, ReadWhole
    <2> QED
      BY <2>3, Zenon DEF bytes, m, WholeRead
  <1> HIDE DEF bytes
  <1>10. \A g \in 1..n, r \in 1..m : Before(g) + r <= size => bytes[Before(g) + r] = plains[g][r]
    BY <1>9
  <1>11. ASSUME FullUpToLast(lengths, m)
         PROVE  bytes = file
    <2> SUFFICES ASSUME NEW b \in 1..size PROVE bytes[b] = file[b]
      <3>1. file \in Seq(Int)
        OBVIOUS
      <3> QED
        BY <1>9, <3>1, SeqEqual DEF size
    <2>1. PICK g \in Nat \ {0}, r \in 1..m : b = (g - 1) * m + r
      <3>1. b \in Nat \ {0}
        BY <1>2
      <3> QED
        BY <1>1, <3>1, PlaceIs
    <2>2. b = Before(g) + r /\ Before(g) \in Nat
      BY <1>1, <2>1, ProductOrder DEF Before
    <2>3. g \in 1..n
      <3>1. (g - 1) * m < n * m
        <4> DEFINE nm == n * m
        <4>1. size <= nm /\ nm \in Nat
          BY <1>1, <1>5, ProductOrder
        <4>2. (g - 1) * m = Before(g) /\ b <= size /\ r >= 1
          BY <1>1, <1>2, <2>1 DEF Before
        <4> HIDE DEF nm
        <4>3. Before(g) < nm
          BY <1>2, <2>1, <2>2, <4>1, <4>2
        <4> QED
          BY <4>2, <4>3 DEF nm
      <3>2. g - 1 \in Nat
        BY <2>1
      <3>3. g - 1 < n
        BY <1>1, <3>1, <3>2, ProductOrder
      <3> QED
        BY <1>1, <2>1, <3>3
    <2>4. starts[g] <= Before(g) /\ starts[g] \in Nat /\ starts[g] < size
      BY <1>2, <1>4, <2>2, <2>3
    <2>5. starts[g] = Before(g)
      <3>1. g \in 1..(n + 1)
        BY <1>1, <2>3
      <3>2. PICK h \in g..n : lengths[h] > 0
        BY <1>1, <1>2, <2>4, <3>1, StartsEnd DEF n, starts
      <3>3. \A i \in 1..(g - 1) : lengths[i] = m
        <4> TAKE i \in 1..(g - 1)
        <4>1. i \in 1..n /\ h \in 1..n /\ i < h
          BY <1>1, <2>3
        <4> QED
          BY <1>11, <3>2, <4>1 DEF FullUpToLast, n
      <3> QED
        BY <1>1, <3>1, <3>3, StartsFull DEF Before, n, starts
    <2>6. r \in 1..lengths[g]
      <3>1. starts[g + 1] = starts[g] + lengths[g] /\ lengths[g] \in Nat /\ g + 1 \in 1..(n + 1)
        BY <1>1, <1>2, <2>3
      <3>10. starts[g + 1] \in Nat
        BY <1>2, <3>1
      <3>2. b <= starts[g + 1]
        <4>1. CASE starts[g + 1] < size
          <5>1. PICK h \in (g + 1)..n : lengths[h] > 0
            BY <1>1, <1>2, <3>1, <4>1, StartsEnd DEF n, starts
          <5>2. g \in 1..n /\ h \in 1..n /\ g < h
            BY <1>1, <2>3
          <5>3. lengths[g] = m
            BY <1>11, <5>1, <5>2 DEF FullUpToLast, n
          <5> QED
            BY <1>1, <2>2, <2>5, <3>1, <5>3
        <4>2. CASE ~(starts[g + 1] < size)
          BY <1>2, <3>10, <4>2
        <4> QED
          BY <4>1, <4>2
      <3> QED
        BY <1>1, <2>2, <2>5, <3>1, <3>2
    <2>7. plains[g][r] = file[starts[g] + r]
      <3>1. \A i \in 1..lengths[g] : Encode(Pieces(file, lengths)[g])[i] = file[starts[g] + i]
        BY <1>3, <2>3
      <3> QED
        BY <1>8, <2>3, <2>6, <3>1
    <2>8. bytes[Before(g) + r] = plains[g][r]
      BY <1>2, <1>10, <2>2, <2>3
    <2> QED
      BY <2>2, <2>5, <2>7, <2>8
  <1>12. ASSUME \A b \in 1..size : file[b] # 0, bytes = file
         PROVE  FullUpToLast(lengths, m)
    <2> DEFINE Short == {g \in 1..n : lengths[g] # m /\ \E h \in 1..n : g < h /\ lengths[h] > 0}
    <2> SUFFICES ASSUME Short # {} PROVE FALSE
      BY DEF FullUpToLast, n
    <2>1. Short \in SUBSET Nat
      BY <1>1
    <2>2. PICK g \in Short : \A k \in Short : g <= k
      <3> HIDE DEF Short
      <3> QED
        BY <2>1, LeastExists
    <2>3. PICK h \in 1..n : g < h /\ lengths[h] > 0
      BY <2>2
    <2>31. g \in 1..n /\ lengths[g] # m
      BY <2>2
    <2>32. \A i \in 1..(g - 1) : lengths[i] # m => i \in Short
      <3> TAKE i \in 1..(g - 1)
      <3>1. i \in 1..n /\ i < h
        BY <1>1, <2>3, <2>31
      <3> QED
        BY <2>3, <3>1
    <2> HIDE DEF Short
    <2>4. g \in 1..n /\ g + 1 \in 1..(n + 1) /\ lengths[g] \in 0..(m - 1)
      BY <1>1, <2>31
    <2>5. \A i \in 1..(g - 1) : lengths[i] = m
      <3> TAKE i \in 1..(g - 1)
      <3>1. i < g /\ g \in Nat /\ i \in Nat
        BY <1>1, <2>4
      <3>2. i \notin Short
        BY <2>2, <3>1
      <3> QED
        BY <2>32, <3>2
    <2>6. starts[g] = Before(g) /\ starts[g] \in Nat /\ starts[g + 1] = starts[g] + lengths[g]
      <3>1. g \in 1..(n + 1)
        BY <1>1, <2>4
      <3>2. starts[g] = (g - 1) * m
        BY <1>1, <2>5, <3>1, StartsFull DEF n, starts
      <3> QED
        BY <1>2, <2>4, <3>1, <3>2 DEF Before
    <2>7. starts[g + 1] < size
      <3>1. g + 1 \in 1..(n + 1) /\ h \in (g + 1)..(n + 1) /\ h + 1 \in 1..(n + 1)
            /\ n + 1 \in (h + 1)..(n + 1)
        BY <1>1, <2>3, <2>4
      <3>2. starts[g + 1] <= starts[h]
        BY <1>1, <3>1, StartsGrow DEF n, starts
      <3>3. starts[h + 1] <= starts[n + 1]
        BY <1>1, <3>1, StartsGrow DEF n, starts
      <3>4. starts[h + 1] = starts[h] + lengths[h]
        BY <1>2, <2>3
      <3>40. starts[h] \in Nat /\ starts[g + 1] \in Nat
        <4>1. h \in 1..(n + 1)
          BY <1>1, <2>3
        <4> QED
          BY <1>2, <3>1, <4>1
      <3>5. lengths[h] \in Nat /\ lengths[h] > 0
        BY <1>1, <2>3
      <3> QED
        BY <1>2, <3>2, <3>3, <3>4, <3>40, <3>5
    <2> DEFINE r == lengths[g] + 1
    <2>8. r \in 1..m /\ Before(g) + r <= size /\ Before(g) + r \in 1..size
      <3>1. lengths[g] + 1 \in 1..m
        BY <1>1, <2>4
      <3>2. starts[g] + (lengths[g] + 1) \in 1..size
        <4> DEFINE len == lengths[g]
                   start == starts[g]
        <4>1. len \in Nat /\ start \in Nat /\ start + len < size /\ size \in Nat
          BY <1>1, <1>2, <2>4, <2>6, <2>7
        <4> HIDE DEF len, start
        <4>2. start + (len + 1) \in 1..size
          BY <4>1
        <4> QED
          BY <4>2 DEF len, start
      <3> QED
        BY <1>2, <2>6, <3>1, <3>2
    <2>9. bytes[Before(g) + r] = plains[g][r]
      BY <1>10, <2>4, <2>8
    <2>10. plains[g][r] = 0
      <3>1. r \in (lengths[g] + 1)..m
        BY <2>4, <2>8
      <3>2. \A i \in (lengths[g] + 1)..m : Encode(Pieces(file, lengths)[g])[i] = 0
        BY <1>3, <2>4
      <3> HIDE DEF r
      <3> QED
        BY <1>8, <2>4, <3>1, <3>2
    <2> QED
      BY <1>12, <2>8, <2>9, <2>10
  <1> QED
    BY <1>9, <1>11, <1>12 DEF bytes, opened, n, size

-----------------------------------------------------------------------------
(* Which blocks a challenge asks for                                       *)

\* How many of a set of numbers are below one of them.
Below(S, i) == {h \in S : h < i}

\* A set of k numbers has, for every j up to k, one with j - 1 below it.
LEMMA AscendingExists ==
    ASSUME NEW m \in Nat, NEW k \in Nat, NEW S \in SUBSET (0..m), Cardinality(S) = k, NEW j \in 1..k
    PROVE  \E i \in S : Cardinality(Below(S, i)) = j - 1
  <1> DEFINE Ranked(T, n) == \A q \in 1..n : \E i \in T : Cardinality(Below(T, i)) = q - 1
             N == {n \in Nat : \A T \in SUBSET (0..m) : Cardinality(T) = n => Ranked(T, n)}
  <1>1. 0 \in N
    <2>1. \A q : q \notin 1..0
      OBVIOUS
    <2> QED
      BY <2>1
  <1>2. ASSUME NEW n \in Nat, n \in N
        PROVE  n + 1 \in N
    <2> SUFFICES ASSUME NEW T \in SUBSET (0..m), Cardinality(T) = n + 1
                 PROVE  Ranked(T, n + 1)
      OBVIOUS
    <2>1. T # {} /\ IsFiniteSet(T)
      <3>1. IsFiniteSet(0..m)
        BY FS_Interval
      <3>2. IsFiniteSet(T)
        BY <3>1, FS_Subset
      <3>3. Cardinality({}) = 0 /\ n + 1 # 0
        BY FS_EmptySet
      <3> QED
        BY <3>2, <3>3
    <2>2. PICK max \in T : \A h \in T : max >= h
      BY <2>1, MaxIsLargest
    <2> DEFINE R == T \ {max}
    <2>3. R \in SUBSET (0..m) /\ Cardinality(R) = n
      BY <2>1, <2>2, FS_RemoveElement
    <2>4. Ranked(R, n)
      <3> HIDE DEF Ranked, R
      <3> QED
        BY <1>2, <2>3
    <2>5. Below(T, max) = R
      <3>1. ASSUME NEW h \in T
            PROVE  h < max <=> h # max
        <4>1. h \in Nat /\ max \in Nat /\ max >= h
          BY <2>2
        <4> QED
          BY <4>1
      <3> QED
        BY <3>1 DEF Below
    <2>6. \A i \in R : Below(T, i) = Below(R, i)
      BY <2>2 DEF Below
    <2> HIDE DEF R
    <2>7. R \subseteq T
      BY DEF R
    <2> SUFFICES ASSUME NEW q \in 1..(n + 1)
                 PROVE  \E i \in T : Cardinality(Below(T, i)) = q - 1
      OBVIOUS
    <2>8. CASE q = n + 1
      <3>1. Cardinality(Below(T, max)) = q - 1
        BY <2>3, <2>5, <2>8
      <3> QED
        BY <3>1
    <2>9. CASE q \in 1..n
      <3>1. PICK i \in R : Cardinality(Below(R, i)) = q - 1
        BY <2>4, <2>9
      <3> QED
        BY <2>6, <2>7, <3>1
    <2> QED
      BY <2>8, <2>9
  <1>3. k \in N
    <2> HIDE DEF N
    <2> QED
      BY <1>1, <1>2, SetInduction
  <1> QED
    BY <1>3

\* The numbers of a set in ascending order are its own, as many as it has.
LEMMA AscendingIs ==
    ASSUME NEW m \in Nat, NEW S \in SUBSET (0..m)
    PROVE  /\ Cardinality(S) \in Nat /\ Len(Ascending(S)) = Cardinality(S)
           /\ DOMAIN Ascending(S) = 1..Cardinality(S)
           /\ \A j \in 1..Cardinality(S) : Ascending(S)[j] \in S
  <1> DEFINE k == Cardinality(S)
  <1>1. k \in Nat
    <2>1. IsFiniteSet(0..m)
      BY FS_Interval
    <2> QED
      BY <2>1, FS_Subset, FS_CardinalityType
  <1>2. Ascending(S) = [j \in 1..k |-> CHOOSE i \in S : Cardinality(Below(S, i)) = j - 1]
    BY DEF Ascending, Below
  <1>3. ASSUME NEW j \in 1..k
        PROVE  (CHOOSE i \in S : Cardinality(Below(S, i)) = j - 1) \in S
    <2>1. \E i \in S : Cardinality(Below(S, i)) = j - 1
      BY <1>1, AscendingExists
    <2> QED
      BY <2>1
  <1> HIDE DEF k
  <1>4. Len(Ascending(S)) = k
    BY <1>1, <1>2
  <1> QED
    BY <1>1, <1>2, <1>3, <1>4 DEF k

\* All numbers below n in ascending order.
LEMMA AscendingAll ==
    ASSUME NEW n \in Nat
    PROVE  /\ DOMAIN Ascending(0..(n - 1)) = 1..n /\ Len(Ascending(0..(n - 1))) = n
           /\ \A j \in 1..n : Ascending(0..(n - 1))[j] = j - 1
  <1> DEFINE S == 0..(n - 1)
  <1>1. IsFiniteSet(S) /\ Cardinality(S) = n
    BY FS_Interval
  <1>2. \A i \in S : Cardinality(Below(S, i)) = i
    <2> TAKE i \in S
    <2>1. Below(S, i) = 0..(i - 1)
      BY DEF Below
    <2> QED
      BY <2>1, FS_Interval
  <1>3. Ascending(S) = [j \in 1..n |-> CHOOSE i \in S : Cardinality(Below(S, i)) = j - 1]
    BY <1>1 DEF Ascending, Below
  <1>4. ASSUME NEW j \in 1..n
        PROVE  (CHOOSE i \in S : Cardinality(Below(S, i)) = j - 1) = j - 1
    <2>1. j - 1 \in S /\ Cardinality(Below(S, j - 1)) = j - 1
      BY <1>2
    <2>2. (CHOOSE i \in S : Cardinality(Below(S, i)) = j - 1) \in S
      BY <2>1
    <2>3. Cardinality(Below(S, CHOOSE i \in S : Cardinality(Below(S, i)) = j - 1)) = j - 1
      BY <2>1
    <2> QED
      BY <1>2, <2>2, <2>3
  <1> HIDE DEF S
  <1>5. Len(Ascending(S)) = n
    BY <1>3
  <1> QED
    BY <1>3, <1>4, <1>5 DEF S

\* A nonce draws as many of n blocks as it is asked for.
Draws(nonce, n) ==
    \A target \in 0..(n - 1) :
        /\ nonce[<<n, target>>] \subseteq 0..(n - 1)
        /\ Cardinality(nonce[<<n, target>>]) = target

\* A challenge asks for the blocks of a file, as many as wanted; for all of
\* them in order if no fewer are wanted.
LEMMA ChallengeIs ==
    ASSUME NEW n \in Nat, NEW nonce, Draws(nonce, n), NEW count \in Nat
    PROVE  LET asked == ChallengeIndices(nonce, n, count)
               target == Least(count, n)
           IN /\ target \in Nat /\ target <= n /\ DOMAIN asked = 1..target /\ Len(asked) = target
              /\ \A j \in 1..target : asked[j] \in 0..(n - 1)
              /\ target = n => \A j \in 1..n : asked[j] = j - 1
  <1> DEFINE target == Least(count, n)
             asked == ChallengeIndices(nonce, n, count)
  <1>1. target \in Nat /\ target <= n
    BY DEF Least
  <1>2. CASE target = n
    <2>1. asked = Ascending(0..(n - 1))
      BY <1>2 DEF ChallengeIndices
    <2>2. /\ DOMAIN asked = 1..n /\ Len(asked) = n
          /\ \A j \in 1..n : asked[j] = j - 1
      BY <2>1, AscendingAll
    <2> HIDE DEF asked, target
    <2>3. \A j \in 1..n : asked[j] \in 0..(n - 1)
      BY <2>2
    <2> QED
      BY <1>1, <1>2, <2>2, <2>3 DEF asked, target
  <1>3. CASE target # n
    <2> DEFINE draw == nonce[<<n, target>>]
    <2>1. asked = Ascending(draw)
      BY <1>3 DEF ChallengeIndices
    <2>2. target \in 0..(n - 1) /\ n - 1 \in Nat
      BY <1>1, <1>3
    <2> HIDE DEF asked, target
    <2>3. draw \in SUBSET (0..(n - 1)) /\ Cardinality(draw) = target
      BY <2>2 DEF Draws
    <2> HIDE DEF draw
    <2>4. /\ DOMAIN asked = 1..target /\ Len(asked) = target
          /\ \A j \in 1..target : asked[j] \in draw
      BY <2>1, <2>2, <2>3, AscendingIs
    <2> QED
      BY <1>1, <1>3, <2>3, <2>4 DEF asked, target
  <1> QED
    BY <1>2, <1>3

\* An audit asks for some block, if there is one, and for none twice.
LEMMA SampleCountIs ==
    ASSUME LayoutAssumption, NEW n \in Nat \ {0}
    PROVE  SampleCount(n) \in 1..n /\ SampleCount(n) <= MaxChallenges
  <1> DEFINE max == Least(MaxChallenges, n)
             enough == {k \in 1..max : Catches(n, k)}
  <1>1. max \in 1..n /\ max <= MaxChallenges /\ max \in Nat
    BY DEF Least, LayoutAssumption
  <1>2. SampleCount(n) = IF enough = {} THEN max ELSE CHOOSE k \in enough : \A j \in enough : k <= j
    BY DEF SampleCount
  <1>3. enough \in SUBSET (1..max)
    OBVIOUS
  <1> HIDE DEF enough, max
  <1>4. CASE enough = {}
    BY <1>1, <1>2, <1>4 DEF LayoutAssumption
  <1>5. CASE enough # {}
    <2>1. enough \in SUBSET Nat
      BY <1>1, <1>3
    <2>2. \E k \in enough : \A j \in enough : k <= j
      BY <1>5, <2>1, LeastExists
    <2>3. SampleCount(n) \in enough
      BY <1>2, <1>5, <2>2
    <2>4. SampleCount(n) \in 1..max
      BY <1>3, <2>3
    <2> QED
      BY <1>1, <2>4 DEF LayoutAssumption
  <1> QED
    BY <1>4, <1>5

\* So it expects a number of blocks between one and all of them, and all of a
\* file that is small.
LEMMA ExpectedIs ==
    ASSUME LayoutAssumption, NEW c, c.blocks \in Nat, c.size \in Nat
    PROVE  /\ ExpectedCount(c) \in 0..c.blocks
           /\ c.blocks > 0 => ExpectedCount(c) > 0
           /\ c.size <= FullAuditBytes => ExpectedCount(c) = c.blocks
  <1>1. CASE c.blocks = 0
    BY <1>1 DEF ExpectedCount
  <1>2. CASE c.blocks # 0 /\ c.size <= FullAuditBytes
    BY <1>2 DEF ExpectedCount
  <1>3. CASE c.blocks # 0 /\ ~(c.size <= FullAuditBytes)
    <2>1. ExpectedCount(c) = SampleCount(c.blocks)
      BY <1>3 DEF ExpectedCount
    <2>2. c.blocks \in Nat \ {0}
      BY <1>3
    <2>3. SampleCount(c.blocks) \in 1..c.blocks
      BY <2>2, SampleCountIs
    <2> QED
      BY <1>3, <2>1, <2>3
  <1> QED
    BY <1>1, <1>2, <1>3

-----------------------------------------------------------------------------
(* How the library cuts a file                                             *)

LEMMA SequenceOf ==
    ASSUME NEW S, NEW n \in Nat, NEW f \in [1..n -> S]
    PROVE  f \in Seq(S) /\ Len(f) = n
  OBVIOUS

LEMMA BlockBytesIs ==
    ASSUME LayoutAssumption, NEW layout
    PROVE  /\ BlockBytes(layout) \in Nat \ {0}
           /\ layout \in OnePoint => BlockBytes(layout) = PointBytes
  <1>1. PointBytes \in Nat \ {0} /\ PointsPerBlock \in Nat \ {0}
    BY DEF LayoutAssumption
  <1>2. PointBytes * PointsPerBlock \in Nat \ {0}
    <2>1. PICK a \in Nat, b \in Nat : PointBytes = a + 1 /\ PointsPerBlock = b + 1
      <3>1. PointBytes - 1 \in Nat /\ PointsPerBlock - 1 \in Nat
        BY <1>1
      <3>2. PointBytes = (PointBytes - 1) + 1 /\ PointsPerBlock = (PointsPerBlock - 1) + 1
        BY <1>1
      <3> QED
        BY <3>1, <3>2
    <2>2. PointBytes * PointsPerBlock = a * b + a + b + 1 /\ a * b \in Nat
      BY <2>1
    <2> QED
      BY <2>2
  <1> QED
    BY <1>1, <1>2 DEF BlockBytes

LEMMA BlockLengthsAre ==
    ASSUME LayoutAssumption, NEW layout, NEW size \in Nat
    PROVE  LET lengths == BlockLengths(layout, size)
               n == CeilDiv(size, BlockBytes(layout))
           IN /\ n \in Nat /\ Len(lengths) = n /\ lengths \in Seq(1..BlockBytes(layout))
              /\ lengths \in Seq(Nat)
              /\ TotalLength(lengths) = size
              /\ FullUpToLast(lengths, BlockBytes(layout))
  <1> DEFINE m == BlockBytes(layout)
             n == CeilDiv(size, m)
             lengths == BlockLengths(layout, size)
             starts == Starts(lengths)
  <1>1. m \in Nat \ {0}
    BY BlockBytesIs
  <1> HIDE DEF m
  <1> DEFINE nm == n * m
  <1>2. n \in Nat /\ nm \in Nat /\ size <= nm /\ nm < size + m /\ (n = 0 <=> size = 0)
    BY <1>1, CeilDivIs, ProductOrder
  <1>3. lengths = [g \in 1..n |-> Least(m, size - (g - 1) * m)]
    BY DEF BlockLengths, m
  <1> HIDE DEF n, lengths
  <1>4. \A g \in 1..n : lengths[g] = Least(m, size - (g - 1) * m)
    BY <1>3
  <1>5. ASSUME NEW g \in 1..n
        PROVE  lengths[g] \in 1..m /\ (g < n => lengths[g] = m)
    <2> DEFINE a == (g - 1) * m
               b == g * m
    <2>1. g - 1 \in Nat /\ (g - 1) + 1 = g /\ g \in Nat /\ g <= n
      BY <1>2
    <2>2. a \in Nat /\ b = a + m /\ b \in Nat
      BY <1>1, <2>1, ProductOrder
    <2>3. b <= nm
      BY <1>1, <1>2, <2>1, ProductOrder
    <2>4. g < n => b + m <= nm
      <3>1. (g + 1) * m = b + m /\ g + 1 \in Nat
        BY <1>1, <2>1, ProductOrder
      <3>2. g < n => g + 1 <= n
        BY <1>2, <2>1
      <3>3. g + 1 <= n => (g + 1) * m <= nm
        BY <1>1, <1>2, <3>1, ProductOrder
      <3> QED
        BY <3>1, <3>2, <3>3
    <2>5. lengths[g] = Least(m, size - a)
      BY <1>4
    <2> HIDE DEF a, b, nm
    <2> QED
      BY <1>1, <1>2, <2>2, <2>3, <2>4, <2>5 DEF Least
  <1>6. Len(lengths) = n /\ lengths \in Seq(1..m) /\ lengths \in Seq(Nat)
    <2>1. lengths \in [1..n -> 1..m] /\ Len(lengths) = n
      BY <1>2, <1>3, <1>5
    <2>2. lengths \in [1..n -> Nat]
      BY <1>1, <2>1
    <2> QED
      BY <1>2, <2>1, <2>2, SequenceOf
  <1>7. FullUpToLast(lengths, m)
    <2>1. ASSUME NEW g \in 1..n, NEW h \in 1..n, g < h
          PROVE  lengths[g] = m
      <3>1. g < n
        BY <1>2, <2>1
      <3> QED
        BY <1>5, <3>1
    <2> QED
      BY <1>6, <2>1 DEF FullUpToLast
  <1>8. TotalLength(lengths) = size
    <2>1. /\ starts[1] = 0 /\ TotalLength(lengths) = starts[n + 1]
          /\ \A g \in 1..n : starts[g + 1] = starts[g] + lengths[g]
      BY <1>6, StartsAre
    <2>2. CASE n = 0
      BY <1>2, <2>1, <2>2
    <2>3. CASE n # 0
      <3>1. n \in 1..(Len(lengths) + 1) /\ n \in 1..n
        BY <1>2, <1>6, <2>3
      <3>2. \A i \in 1..(n - 1) : lengths[i] = m
        <4> TAKE i \in 1..(n - 1)
        <4>1. i \in 1..n /\ i < n
          BY <1>2
        <4> QED
          BY <1>5, <4>1
      <3> DEFINE a == (n - 1) * m
      <3>3. starts[n] = a
        BY <1>1, <1>6, <3>1, <3>2, StartsFull
      <3>4. n - 1 \in Nat /\ (n - 1) + 1 = n
        BY <1>2, <2>3
      <3>5. a \in Nat /\ nm = a + m
        BY <1>1, <3>4, ProductOrder
      <3>6. lengths[n] = Least(m, size - a)
        BY <1>4, <3>1
      <3>7. starts[n + 1] = starts[n] + lengths[n]
        BY <2>1, <3>1
      <3> HIDE DEF a, nm
      <3>8. lengths[n] = size - a
        BY <1>1, <1>2, <3>5, <3>6 DEF Least
      <3> QED
        BY <1>1, <2>1, <3>3, <3>5, <3>7, <3>8
    <2> QED
      BY <2>2, <2>3
  <1> QED
    BY <1>2, <1>6, <1>7, <1>8 DEF m, n, lengths

-----------------------------------------------------------------------------
(* What the blocks of a file hold                                          *)

\* Blocks that hold these pieces, whatever keys they are encrypted under.
HoldingPieces(blocks, layout, pieces) ==
    /\ DOMAIN blocks = 1..Len(pieces) /\ Len(blocks) = Len(pieces)
    /\ \A i \in 1..Len(pieces) :
         /\ layout \in OnePoint =>
              /\ DOMAIN blocks[i].points = 1..1 /\ Len(blocks[i].points) = 1
              /\ blocks[i].points[1].plain = Encode(pieces[i])
         /\ layout \notin OnePoint =>
              LET chunks == Chunks(pieces[i], PointBytes)
                  n == Len(chunks)
              IN /\ blocks[i].c1 = i
                 /\ DOMAIN blocks[i].points = 1..n /\ Len(blocks[i].points) = n
                 /\ Len(blocks[i].lens) = n
                 /\ \A j \in 1..n : /\ blocks[i].points[j].plain = Encode(chunks[j])
                                    /\ blocks[i].lens[j] = Len(chunks[j])

\* Blocks whose points are all encrypted under a key.
Keyed(blocks, x) ==
    \A i \in DOMAIN blocks : \A j \in 1..Len(blocks[i].points) : blocks[i].points[j].key = x

LEMMA ChunksLen ==
    ASSUME LayoutAssumption, NEW s, Len(s) \in Nat
    PROVE  Len(Chunks(s, PointBytes)) \in Nat
  BY ChunksCount

LEMMA BlocksAre ==
    ASSUME LayoutAssumption, NEW layout, NEW pieces, Len(pieces) \in Nat,
           \A i \in 1..Len(pieces) : Len(pieces[i]) \in Nat, NEW key, NEW strays, NEW other
    PROVE  LET blocks == Blocks(layout, pieces, key, strays, other)
           IN HoldingPieces(blocks, layout, pieces) /\ (strays = {} => Keyed(blocks, key))
  <1> DEFINE blocks == Blocks(layout, pieces, key, strays, other)
             n == Len(pieces)
             keyOf(i) == IF i \in strays THEN other ELSE key
  <1>1. blocks = [i \in 1..n |-> IF layout \in OnePoint THEN SingleBlock(i, pieces[i], keyOf(i))
                                                        ELSE PackedBlock(i, pieces[i], keyOf(i))]
    BY DEF Blocks
  <1> HIDE DEF blocks
  <1>2. DOMAIN blocks = 1..n /\ Len(blocks) = n
    BY <1>1
  <1>3. ASSUME NEW i \in 1..n, layout \in OnePoint
        PROVE  /\ DOMAIN blocks[i].points = 1..1 /\ Len(blocks[i].points) = 1
               /\ blocks[i].points[1].plain = Encode(pieces[i])
               /\ blocks[i].points[1].key = keyOf(i)
    <2>1. blocks[i] = SingleBlock(i, pieces[i], keyOf(i))
      BY <1>1, <1>3
    <2>2. blocks[i].points = <<Encrypt(pieces[i], keyOf(i))>>
      BY <2>1 DEF SingleBlock
    <2>3. blocks[i].points[1] = Encrypt(pieces[i], keyOf(i))
      BY <2>2
    <2>4. DOMAIN blocks[i].points = 1..1 /\ Len(blocks[i].points) = 1
      BY <2>2
    <2> QED
      BY <2>3, <2>4 DEF Encrypt
  <1>4. ASSUME NEW i \in 1..n, layout \notin OnePoint
        PROVE  LET chunks == Chunks(pieces[i], PointBytes)
                   k == Len(chunks)
               IN /\ blocks[i].c1 = i
                  /\ DOMAIN blocks[i].points = 1..k /\ Len(blocks[i].points) = k
                  /\ Len(blocks[i].lens) = k
                  /\ \A j \in 1..k : /\ blocks[i].points[j].plain = Encode(chunks[j])
                                     /\ blocks[i].points[j].key = keyOf(i)
                                     /\ blocks[i].lens[j] = Len(chunks[j])
    <2> DEFINE chunks == Chunks(pieces[i], PointBytes)
               k == Len(chunks)
    <2>1. blocks[i] = PackedBlock(i, pieces[i], keyOf(i))
      BY <1>1, <1>4
    <2>2. k \in Nat
      BY ChunksLen
    <2>3. PackedBlock(i, pieces[i], keyOf(i))
            = [c1     |-> i,
               points |-> [j \in 1..k |-> Encrypt(chunks[j], keyOf(i))],
               lens   |-> [j \in 1..k |-> Len(chunks[j])]]
      BY DEF PackedBlock
    <2> HIDE DEF chunks, keyOf
    <2>4. /\ blocks[i].c1 = i
          /\ blocks[i].points = [j \in 1..k |-> Encrypt(chunks[j], keyOf(i))]
          /\ blocks[i].lens = [j \in 1..k |-> Len(chunks[j])]
      BY <2>1, <2>3
    <2>5. \A j \in 1..k : blocks[i].points[j] = Encrypt(chunks[j], keyOf(i))
      BY <2>4
    <2>6. \A j \in 1..k : blocks[i].points[j].plain = Encode(chunks[j])
                            /\ blocks[i].points[j].key = keyOf(i)
      <3> TAKE j \in 1..k
      <3>1. blocks[i].points[j] = [plain |-> Encode(chunks[j]), key |-> keyOf(i)]
        BY <2>5 DEF Encrypt
      <3> QED
        BY <3>1
    <2>7. DOMAIN blocks[i].points = 1..k /\ Len(blocks[i].points) = k /\ Len(blocks[i].lens) = k
      BY <2>2, <2>4
    <2>8. \A j \in 1..k : blocks[i].lens[j] = Len(chunks[j])
      BY <2>4
    <2> QED
      BY <2>4, <2>6, <2>7, <2>8 DEF chunks
  <1>5. HoldingPieces(blocks, layout, pieces)
    BY <1>2, <1>3, <1>4 DEF HoldingPieces
  <1>6. ASSUME strays = {}
        PROVE  Keyed(blocks, key)
    <2>1. \A i \in 1..n : keyOf(i) = key
      BY <1>6
    <2>2. ASSUME NEW i \in 1..n, NEW j \in 1..Len(blocks[i].points)
          PROVE  blocks[i].points[j].key = key
      <3>1. CASE layout \in OnePoint
        <4>0. Len(blocks[i].points) = 1
          BY <1>3, <3>1
        <4>1. j = 1
          BY <4>0
        <4>2. blocks[i].points[1].key = keyOf(i)
          BY <1>3, <3>1
        <4> QED
          BY <2>1, <4>1, <4>2
      <3>2. CASE layout \notin OnePoint
        <4>1. blocks[i].points[j].key = keyOf(i)
          BY <1>4, <3>2
        <4> QED
          BY <2>1, <4>1
      <3> QED
        BY <3>1, <3>2
    <2> QED
      BY <1>2, <2>2 DEF Keyed
  <1> QED
    BY <1>5, <1>6 DEF blocks

\* A piece of a file fits its block.
Fits(layout, piece) == piece \in Seq(Nat) /\ (layout \in OnePoint => Len(piece) <= PointBytes)

\* A key that all points of a block are encrypted under.
Owns(block, x) == \A j \in 1..Len(block.points) : block.points[j].key = x

\* A chunk of a point's payload is no garbage: what a key opens is its own.
LEMMA OpensOwn ==
    ASSUME LayoutAssumption, NEW layout, NEW pieces, NEW blocks, HoldingPieces(blocks, layout, pieces),
           Len(pieces) \in Nat, NEW i \in 1..Len(pieces), Fits(layout, pieces[i]), NEW x,
           OpensTo(blocks[i], x)
    PROVE  Owns(blocks[i], x)
  <1> SUFFICES ASSUME NEW j \in 1..Len(blocks[i].points)
               PROVE  blocks[i].points[j].key = x
    BY DEF Owns
  <1>0. pieces[i] \in Seq(Nat) /\ (layout \in OnePoint => Len(pieces[i]) <= PointBytes)
    BY DEF Fits
  <1>1. blocks[i].points[j].plain # Garbage
    <2>1. CASE layout \in OnePoint
      <3>0. Len(blocks[i].points) = 1 /\ blocks[i].points[1].plain = Encode(pieces[i])
        BY <2>1 DEF HoldingPieces
      <3>1. j = 1
        BY <3>0
      <3>2. Encode(pieces[i]) # Garbage
        BY <1>0, <2>1, EncodeIs
      <3> QED
        BY <3>0, <3>1, <3>2
    <2>2. CASE layout \notin OnePoint
      <3> DEFINE chunks == Chunks(pieces[i], PointBytes)
                 len == Len(pieces[i])
      <3>1. j \in 1..Len(chunks) /\ blocks[i].points[j].plain = Encode(chunks[j])
        BY <2>2 DEF HoldingPieces
      <3>2. len \in Nat
        BY <1>0
      <3>3. Len(chunks) = CeilDiv(len, PointBytes)
        BY <3>2, ChunksCount
      <3>4. j \in 1..CeilDiv(len, PointBytes)
        BY <3>1, <3>3
      <3> HIDE DEF len
      <3>5. len = Len(pieces[i])
        BY DEF len
      <3>6. chunks[j] \in Seq(Nat) /\ Len(chunks[j]) \in 1..PointBytes
        BY <1>0, <3>4, <3>5, ChunkIs
      <3> HIDE DEF chunks
      <3>7. Len(chunks[j]) <= PointBytes
        BY <3>6 DEF LayoutAssumption
      <3>8. Encode(chunks[j]) # Garbage
        BY <3>6, <3>7, EncodeIs
      <3> QED
        BY <3>1, <3>8
    <2> QED
      BY <2>1, <2>2
  <1>2. Decrypted(blocks[i].points[j], x) = blocks[i].points[j].plain
    BY DEF OpensTo
  <1> QED
    BY <1>1, <1>2 DEF Decrypted

\* Every piece of a file fits its block, and a key opens every block.
AllFit(layout, pieces) == Len(pieces) \in Nat /\ \A i \in 1..Len(pieces) : Fits(layout, pieces[i])
AllOpen(blocks, x) == \A i \in DOMAIN blocks : OpensTo(blocks[i], x)

LEMMA OpensFit ==
    ASSUME LayoutAssumption, NEW layout, NEW pieces, NEW blocks, HoldingPieces(blocks, layout, pieces),
           AllFit(layout, pieces), NEW x, NEW i \in 1..Len(pieces), OpensTo(blocks[i], x)
    PROVE  Owns(blocks[i], x)
  <1>1. Fits(layout, pieces[i]) /\ Len(pieces) \in Nat
    BY DEF AllFit
  <1> QED
    BY <1>1, OpensOwn

LEMMA OpensAll ==
    ASSUME LayoutAssumption, NEW layout, NEW pieces, NEW blocks, HoldingPieces(blocks, layout, pieces),
           AllFit(layout, pieces), NEW x, AllOpen(blocks, x)
    PROVE  Keyed(blocks, x)
  <1>1. DOMAIN blocks = 1..Len(pieces)
    BY DEF HoldingPieces
  <1>2. ASSUME NEW i \in 1..Len(pieces)
        PROVE  Owns(blocks[i], x)
    <2>1. OpensTo(blocks[i], x)
      BY <1>1 DEF AllOpen
    <2> QED
      BY <2>1, OpensFit
  <1> QED
    BY <1>1, <1>2 DEF Keyed, Owns

LEMMA KeyedOpens ==
    ASSUME NEW blocks, NEW x, Keyed(blocks, x), NEW i \in DOMAIN blocks
    PROVE  OpensTo(blocks[i], x)
  BY DEF Keyed, OpensTo, Decrypted

\* Every point of a file of one point a block, decrypted with its key.
LEMMA DecryptsSingle ==
    ASSUME LayoutAssumption, NEW layout \in OnePoint, NEW file \in Seq(Nat),
           NEW lengths \in Seq(0..PointBytes), TotalLength(lengths) = Len(file),
           NEW blocks, HoldingPieces(blocks, layout, Pieces(file, lengths)),
           NEW x, Keyed(blocks, x)
    PROVE  LET bytes == DecryptFile(blocks, Commitment(layout, file, blocks), x)
           IN /\ bytes \in Seq(Int) /\ Len(bytes) = Len(file)
              /\ FullUpToLast(lengths, PointBytes) => bytes = file
              /\ (\A b \in 1..Len(file) : file[b] # 0) /\ bytes = file
                    => FullUpToLast(lengths, PointBytes)
  <1> DEFINE c == Commitment(layout, file, blocks)
             pieces == Pieces(file, lengths)
             n == Len(lengths)
  <1>1. Len(pieces) = n /\ n \in Nat
    BY DEF Pieces
  <1>2. Len(blocks) = n /\ DOMAIN blocks = 1..n
    BY <1>1 DEF HoldingPieces
  <1>3. \A i \in 1..n : Decrypted(blocks[i].points[1], x) = Encode(pieces[i])
    <2> TAKE i \in 1..n
    <2>1. Len(blocks[i].points) = 1 /\ blocks[i].points[1].plain = Encode(pieces[i])
      BY <1>1 DEF HoldingPieces
    <2>2. blocks[i].points[1].key = x
      BY <1>2, <2>1 DEF Keyed
    <2> QED
      BY <2>1, <2>2 DEF Decrypted
  <1>4. c.layout = layout /\ c.size = Len(file)
    BY DEF Commitment
  <1>5. DecryptFile(blocks, c, x) = DecryptSingle(blocks, c, x)
    <2>1. c.layout \in OnePoint /\ c.layout # "packed" /\ c.layout # "elligator"
      BY <1>4 DEF OnePoint
    <2> HIDE DEF c
    <2> QED
      BY <2>1 DEF DecryptFile
  <1> HIDE DEF pieces, c
  <1>6. DecryptSingle(blocks, c, x)
          = ReadBack([g \in 1..n |-> <<[plain |-> Encode(pieces[g]), len |-> PointBytes]>>], Len(file))
    <2>1. [i \in 1..Len(blocks) |->
              <<[plain |-> Decrypted(blocks[i].points[1], x), len |-> PointBytes]>>]
            = [g \in 1..n |-> <<[plain |-> Encode(pieces[g]), len |-> PointBytes]>>]
      BY <1>2, <1>3
    <2> QED
      BY <1>4, <2>1, Zenon DEF DecryptSingle
  <1> DEFINE bytes == ReadBack([g \in 1..n |-> <<[plain |-> Encode(pieces[g]), len |-> PointBytes]>>],
                               Len(file))
  <1>7. /\ bytes \in Seq(Int) /\ Len(bytes) = Len(file)
        /\ FullUpToLast(lengths, PointBytes) => bytes = file
        /\ (\A b \in 1..Len(file) : file[b] # 0) /\ bytes = file
              => FullUpToLast(lengths, PointBytes)
    BY ReadPadded, Zenon DEF pieces
  <1> HIDE DEF bytes
  <1>8. DecryptFile(blocks, c, x) = bytes
    BY <1>5, <1>6 DEF bytes
  <1> QED
    BY <1>7, <1>8 DEF c

\* A packed file decrypts to itself.
LEMMA DecryptsPacked ==
    ASSUME LayoutAssumption, NEW layout \in {"packed", "elligator"}, NEW file \in Seq(Nat),
           NEW lengths \in Seq(Nat), TotalLength(lengths) = Len(file),
           NEW blocks, HoldingPieces(blocks, layout, Pieces(file, lengths)),
           NEW x, Keyed(blocks, x)
    PROVE  DecryptFile(blocks, Commitment(layout, file, blocks), x) = file
  <1> DEFINE c == Commitment(layout, file, blocks)
             pieces == Pieces(file, lengths)
             n == Len(lengths)
             opened == [i \in 1..Len(blocks) |->
                          [j \in 1..Len(blocks[i].points) |->
                              [plain |-> Decrypted(blocks[i].points[j], x),
                               len   |-> blocks[i].lens[j]]]]
  <1>1. Len(pieces) = n /\ n \in Nat /\ layout \notin OnePoint
    BY DEF Pieces, OnePoint
  <1>2. Len(blocks) = n /\ DOMAIN blocks = 1..n
    BY <1>1 DEF HoldingPieces
  <1>3. c.layout = layout /\ c.size = Len(file)
    BY DEF Commitment
  <1>4. ASSUME NEW i \in 1..n
        PROVE  blocks[i].c1 = i /\ Holding(opened[i], Chunks(pieces[i], PointBytes))
    <2> DEFINE chunks == Chunks(pieces[i], PointBytes)
    <2>1. /\ blocks[i].c1 = i
          /\ Len(blocks[i].points) = Len(chunks)
          /\ \A j \in 1..Len(chunks) : /\ blocks[i].points[j].plain = Encode(chunks[j])
                                       /\ blocks[i].lens[j] = Len(chunks[j])
      BY <1>1 DEF HoldingPieces
    <2>2. \A j \in 1..Len(chunks) : blocks[i].points[j].key = x
      BY <1>2, <2>1 DEF Keyed
    <2>3. \A j \in 1..Len(chunks) : Decrypted(blocks[i].points[j], x) = Encode(chunks[j])
      BY <2>1, <2>2 DEF Decrypted
    <2>4. opened[i] = [j \in 1..Len(chunks) |->
                          [plain |-> Decrypted(blocks[i].points[j], x), len |-> blocks[i].lens[j]]]
      BY <1>2, <2>1
    <2> HIDE DEF chunks, opened
    <2>5. DOMAIN opened[i] = 1..Len(chunks)
      BY <2>4
    <2>6. \A j \in 1..Len(chunks) :
            opened[i][j] = [plain |-> Encode(chunks[j]), len |-> Len(chunks[j])]
      <3> TAKE j \in 1..Len(chunks)
      <3>1. opened[i][j] = [plain |-> Decrypted(blocks[i].points[j], x), len |-> blocks[i].lens[j]]
        BY <2>4
      <3> QED
        BY <2>1, <2>3, <3>1
    <2> QED
      BY <2>1, <2>5, <2>6 DEF Holding, chunks
  <1>5. ReadBack(opened, Len(file)) = file
    <2>1. DOMAIN opened = 1..n
      BY <1>2
    <2> HIDE DEF opened
    <2>2. \A g \in 1..Len(lengths) : Holding(opened[g], Chunks(Pieces(file, lengths)[g], PointBytes))
      BY <1>4
    <2> QED
      BY <2>1, <2>2, ReadPacked
  <1>6. DecryptPacked(blocks, c, x) = file
    BY <1>3, <1>5, Zenon DEF DecryptPacked
  <1>7. DecryptElligator(blocks, c, x) = DecryptPacked(blocks, c, x)
    <2> DEFINE placed == [i \in 1..Len(blocks) |->
                            IF blocks[i].c1 = i THEN blocks[i]
                            ELSE [blocks[i] EXCEPT !.points =
                                    [j \in 1..Len(blocks[i].points) |-> [plain |-> Garbage, key |-> x]]]]
    <2>1. \A i \in 1..n : placed[i] = blocks[i]
      BY <1>2, <1>4
    <2>2. DOMAIN placed = 1..n /\ Len(placed) = n
      BY <1>1, <1>2
    <2>3. DecryptElligator(blocks, c, x) = DecryptPacked(placed, c, x)
      BY Zenon DEF DecryptElligator
    <2> HIDE DEF placed
    <2>4. [i \in 1..Len(placed) |->
                [j \in 1..Len(placed[i].points) |->
                    [plain |-> Decrypted(placed[i].points[j], x), len |-> placed[i].lens[j]]]]
            = opened
      BY <1>2, <2>1, <2>2
    <2>5. DecryptPacked(placed, c, x) = ReadBack(opened, c.size)
      BY <2>4, Zenon DEF DecryptPacked
    <2>6. DecryptPacked(blocks, c, x) = ReadBack(opened, c.size)
      BY Zenon DEF DecryptPacked
    <2> QED
      BY <2>3, <2>5, <2>6
  <1> HIDE DEF c
  <1>8. CASE layout = "packed"
    <2>1. DecryptFile(blocks, c, x) = DecryptPacked(blocks, c, x)
      BY <1>1, <1>3, <1>8 DEF DecryptFile
    <2> QED
      BY <1>6, <2>1 DEF c
  <1>9. CASE layout = "elligator"
    <2>1. DecryptFile(blocks, c, x) = DecryptElligator(blocks, c, x)
      BY <1>1, <1>3, <1>9 DEF DecryptFile
    <2> QED
      BY <1>6, <1>7, <2>1 DEF c
  <1> QED
    BY <1>8, <1>9

\* The library's packed blocks have the shape their verifier asks for.
LEMMA BlocksWellFormed ==
    ASSUME LayoutAssumption, NEW layout \in {"packed", "elligator"}, NEW pieces, NEW blocks,
           HoldingPieces(blocks, layout, pieces), Len(pieces) \in Nat,
           NEW i \in 1..Len(pieces), pieces[i] \in Seq(Nat), Len(pieces[i]) \in 1..BlockBytes(layout)
    PROVE  WellFormed(blocks[i])
  <1> DEFINE chunks == Chunks(pieces[i], PointBytes)
             len == Len(pieces[i])
             n == CeilDiv(len, PointBytes)
             block == blocks[i]
  <1>1. layout \notin OnePoint /\ PointBytes \in Nat \ {0} /\ PointsPerBlock \in Nat \ {0}
    BY DEF OnePoint, LayoutAssumption
  <1>2. len \in Nat \ {0} /\ len <= PointsPerBlock * PointBytes
    <2>1. BlockBytes(layout) = PointBytes * PointsPerBlock
      BY <1>1 DEF BlockBytes
    <2>2. PointBytes * PointsPerBlock = PointsPerBlock * PointBytes
      BY <1>1
    <2>3. PointsPerBlock * PointBytes \in Nat
      BY <1>1, ProductOrder
    <2>4. Len(pieces[i]) \in 1..(PointsPerBlock * PointBytes)
      BY <2>1, <2>2
    <2> DEFINE p == PointsPerBlock * PointBytes
    <2> HIDE DEF p, len
    <2>5. len \in 1..p /\ p \in Nat
      BY <2>3, <2>4 DEF p, len
    <2>6. len \in Nat \ {0} /\ len <= p
      BY <2>5
    <2> QED
      BY <2>6 DEF p
  <1>3. n \in 1..PointsPerBlock /\ Len(chunks) = n
    <2>1. len \in Nat /\ len # 0 /\ PointsPerBlock \in Nat
      BY <1>1, <1>2
    <2>2. Len(chunks) = n /\ n \in Nat
      BY <2>1, ChunksCount
    <2> HIDE DEF len
    <2>3. n <= PointsPerBlock /\ n # 0
      BY <1>1, <1>2, <2>1, CeilDivIs
    <2> QED
      BY <1>1, <2>2, <2>3
  <1>4. \A j \in 1..n : Len(chunks[j]) \in 1..PointBytes
    <2> TAKE j \in 1..n
    <2> HIDE DEF len
    <2>1. len = Len(pieces[i])
      BY DEF len
    <2> QED
      BY <2>1, ChunkIs
  <1>5. /\ Len(block.points) = n /\ Len(block.lens) = n
        /\ \A j \in 1..n : block.lens[j] = Len(chunks[j])
    BY <1>1, <1>3 DEF HoldingPieces
  <1> HIDE DEF block, chunks, n
  <1> QED
    BY <1>3, <1>4, <1>5 DEF WellFormed, block

-----------------------------------------------------------------------------
(* The Merkle tree                                                         *)

\* A sequence, of whatever elements.
Sequence(t) == t \in Seq({t[d] : d \in DOMAIN t})

LEMMA SequenceIs ==
    ASSUME NEW S, NEW t \in Seq(S)
    PROVE  Sequence(t)
  <1> DEFINE n == Len(t)
             R == {t[d] : d \in DOMAIN t}
  <1>1. n \in Nat /\ DOMAIN t = 1..n /\ t \in [1..n -> S]
    BY LenProperties
  <1>2. t \in [1..n -> R]
    BY <1>1
  <1> HIDE DEF n, R
  <1>3. t \in Seq(R)
    BY <1>1, <1>2, SequenceOf
  <1> QED
    BY <1>3 DEF Sequence, R

LEMMA AppendIs ==
    ASSUME NEW t, Sequence(t), NEW e
    PROVE  /\ Len(t) \in Nat /\ DOMAIN t = 1..Len(t)
           /\ Sequence(Append(t, e)) /\ Len(Append(t, e)) = Len(t) + 1
           /\ DOMAIN Append(t, e) = 1..(Len(t) + 1)
           /\ \A i \in 1..Len(t) : Append(t, e)[i] = t[i]
           /\ Append(t, e)[Len(t) + 1] = e
  <1> DEFINE R == {t[d] : d \in DOMAIN t}
             U == R \cup {e}
  <1>1. t \in Seq(R)
    BY DEF Sequence
  <1> HIDE DEF R
  <1>2. t \in Seq(U) /\ e \in U /\ Len(t) \in Nat /\ DOMAIN t = 1..Len(t)
    <2>1. Len(t) \in Nat /\ DOMAIN t = 1..Len(t) /\ t \in [1..Len(t) -> R]
      BY <1>1, LenProperties
    <2>2. t \in [1..Len(t) -> U]
      BY <2>1
    <2> QED
      BY <2>1, <2>2, SequenceOf
  <1> HIDE DEF U
  <1>3. /\ Append(t, e) \in Seq(U) /\ Len(Append(t, e)) = Len(t) + 1
        /\ \A i \in 1..Len(t) : Append(t, e)[i] = t[i]
        /\ Append(t, e)[Len(t) + 1] = e
    BY <1>2, AppendProperties
  <1>4. Sequence(Append(t, e)) /\ DOMAIN Append(t, e) = 1..(Len(t) + 1)
    BY <1>3, SequenceIs, LenProperties
  <1> QED
    BY <1>2, <1>3, <1>4

\* A level of the tree: some hashes, in order.
Level(level) == Len(level) \in Nat \ {0} /\ DOMAIN level = 1..Len(level)

LEMMA NextLevelIs ==
    ASSUME NEW level, Level(level), Len(level) > 1
    PROVE  LET next == NextLevel(level) IN
           /\ Level(next) /\ Len(next) < Len(level)
           /\ 2 * Len(next) >= Len(level) /\ 2 * Len(next) <= Len(level) + 1
           /\ \A c \in 1..Len(next) :
                /\ 2 * c <= Len(level) => next[c] = NodeHash(level[2 * c - 1], level[2 * c])
                /\ 2 * c > Len(level) => next[c] = level[2 * c - 1]
  <1> DEFINE n == Len(level)
             m == CeilDiv(n, 2)
             next == NextLevel(level)
  <1>1. n \in Nat /\ n > 1
    BY DEF Level
  <1> HIDE DEF n
  <1>2. m \in Nat /\ n <= m * 2 /\ m * 2 < n + 2
    <2>1. PICK two \in Nat \ {0} : two = 2
      OBVIOUS
    <2>2. /\ CeilDiv(n, two) \in Nat
          /\ n <= CeilDiv(n, two) * two /\ CeilDiv(n, two) * two < n + two
      BY <1>1, CeilDivIs
    <2> QED
      BY <2>1, <2>2
  <1>3. next = [c \in 1..m |-> IF 2 * c <= n THEN NodeHash(level[2 * c - 1], level[2 * c])
                                             ELSE level[2 * c - 1]]
    BY DEF NextLevel, n
  <1> HIDE DEF m, next
  <1>4. DOMAIN next = 1..m /\ Len(next) = m
    BY <1>2, <1>3
  <1>5. m \in Nat \ {0} /\ m < n /\ 2 * m >= n /\ 2 * m <= n + 1
    BY <1>1, <1>2
  <1>6. \A c \in 1..m : /\ 2 * c <= n => next[c] = NodeHash(level[2 * c - 1], level[2 * c])
                        /\ 2 * c > n => next[c] = level[2 * c - 1]
    <2> TAKE c \in 1..m
    <2>1. next[c] = IF 2 * c <= n THEN NodeHash(level[2 * c - 1], level[2 * c])
                                  ELSE level[2 * c - 1]
      BY <1>3
    <2>2. 2 * c > n => ~(2 * c <= n)
      BY <1>1, <1>2
    <2> QED
      BY <2>1, <2>2
  <1> QED
    BY <1>4, <1>5, <1>6 DEF Level, n, next

Growing == INSTANCE Folding WITH Op <- Grow

LeafHashes(leaves) == [i \in 1..Len(leaves) |-> LeafHash(leaves[i])]

\* The tree after k rounds.
TreeAfter(leaves, k) == Growing!After(<<LeafHashes(leaves)>>, leaves, k)

LEMMA TreeSteps ==
    ASSUME NEW leaves, NEW n \in Nat \ {0}, Len(leaves) = n, DOMAIN leaves = 1..n
    PROVE  /\ TreeAfter(leaves, 0) = <<LeafHashes(leaves)>>
           /\ \A k \in 1..n : TreeAfter(leaves, k) = Grow(TreeAfter(leaves, k - 1), leaves[k])
           /\ Tree(leaves) = TreeAfter(leaves, n)
  <1>1. leaves # <<>>
    OBVIOUS
  <1>2. FoldLeft(Grow, <<LeafHashes(leaves)>>, leaves) = Growing!Fold(<<LeafHashes(leaves)>>, leaves)
    BY Zenon DEF Growing!Fold, Growing!FoldLeft, FoldLeft, Growing!MapThenFoldSet,
                 MapThenFoldSet, Growing!Max, Max
  <1>3. Tree(leaves) = FoldLeft(Grow, <<LeafHashes(leaves)>>, leaves)
    BY <1>1, Zenon DEF Tree, LeafHashes
  <1>4. /\ Growing!After(<<LeafHashes(leaves)>>, leaves, 0) = <<LeafHashes(leaves)>>
        /\ \A k \in 1..n : Growing!After(<<LeafHashes(leaves)>>, leaves, k)
              = Grow(Growing!After(<<LeafHashes(leaves)>>, leaves, k - 1), leaves[k])
        /\ Growing!Fold(<<LeafHashes(leaves)>>, leaves)
              = Growing!After(<<LeafHashes(leaves)>>, leaves, n)
    BY Growing!FoldSteps
  <1> QED
    BY <1>2, <1>3, <1>4, Zenon DEF TreeAfter

\* Levels on top of each other.
Levels(tree) ==
    /\ Sequence(tree) /\ Len(tree) \in Nat \ {0}
    /\ \A d \in 1..Len(tree) : Level(tree[d])
    /\ \A d \in 1..(Len(tree) - 1) : Len(tree[d]) > 1 /\ tree[d + 1] = NextLevel(tree[d])

LEMMA GrowIs ==
    ASSUME NEW tree, Levels(tree), NEW leaf
    PROVE  LET level == tree[Len(tree)]
               next == Grow(tree, leaf)
           IN /\ Levels(next) /\ next[1] = tree[1]
              /\ Len(level) = 1 => next = tree
              /\ Len(level) > 1 => Len(next[Len(next)]) < Len(level)
              /\ Level(level)
  <1> DEFINE d == Len(tree)
             level == tree[d]
             next == Grow(tree, leaf)
  <1>1. d \in Nat \ {0} /\ Level(level) /\ Sequence(tree)
    BY DEF Levels
  <1>2. CASE ~(Len(level) > 1)
    <2>1. next = tree
      BY <1>2 DEF Grow
    <2> QED
      BY <1>1, <1>2, <2>1
  <1>3. CASE Len(level) > 1
    <2>1. next = Append(tree, NextLevel(level))
      BY <1>3 DEF Grow
    <2> DEFINE up == NextLevel(level)
    <2>2. Level(up) /\ Len(up) < Len(level)
      BY <1>1, <1>3, NextLevelIs
    <2> HIDE DEF next, up, d, level
    <2>3. /\ Sequence(next) /\ Len(next) = d + 1
          /\ \A i \in 1..d : next[i] = tree[i]
          /\ next[d + 1] = up
      BY <1>1, <2>1, AppendIs DEF up, d
    <2>4. \A i \in 1..(d + 1) : Level(next[i])
      <3> TAKE i \in 1..(d + 1)
      <3>1. CASE i = d + 1
        BY <2>2, <2>3, <3>1
      <3>2. CASE i \in 1..d
        <4>1. Level(tree[i])
          BY <3>2 DEF Levels, d
        <4> QED
          BY <2>3, <3>2, <4>1
      <3> QED
        BY <1>1, <3>1, <3>2
    <2>5. \A i \in 1..d : Len(next[i]) > 1 /\ next[i + 1] = NextLevel(next[i])
      <3> TAKE i \in 1..d
      <3>1. CASE i = d
        BY <1>3, <2>3, <3>1 DEF up, level
      <3>2. CASE i \in 1..(d - 1)
        <4>1. Len(tree[i]) > 1 /\ tree[i + 1] = NextLevel(tree[i])
          BY <3>2 DEF Levels, d
        <4>2. i \in 1..d /\ i + 1 \in 1..d
          BY <1>1, <3>2
        <4> QED
          BY <2>3, <4>1, <4>2
      <3> QED
        BY <1>1, <3>1, <3>2
    <2>6. Levels(next)
      <3>1. (d + 1) - 1 = d /\ d + 1 \in Nat \ {0}
        BY <1>1
      <3> QED
        BY <2>3, <2>4, <2>5, <3>1 DEF Levels
    <2>7. next[1] = tree[1]
      BY <1>1, <2>3
    <2>8. Len(next[Len(next)]) < Len(level)
      BY <2>2, <2>3
    <2>9. ~(Len(level) = 1)
      <3>1. Len(level) = 1 => 1 > 1
        BY <1>3, Zenon
      <3>2. ~(1 > 1)
        OBVIOUS
      <3> QED
        BY <3>1, <3>2
    <2> QED
      BY <1>1, <2>6, <2>7, <2>8, <2>9, Zenon DEF next, level, d
  <1>4. Len(level) = 1 => ~(Len(level) > 1)
    OBVIOUS
  <1> QED
    BY <1>2, <1>3, <1>4

\* The tree goes from the leaves to a root.
LEMMA TreeIs ==
    ASSUME NEW leaves, NEW n \in Nat \ {0}, Len(leaves) = n, DOMAIN leaves = 1..n
    PROVE  LET tree == Tree(leaves) IN
           Levels(tree) /\ tree[1] = LeafHashes(leaves) /\ Len(tree[Len(tree)]) = 1
  <1> DEFINE at(k) == TreeAfter(leaves, k)
             top(k) == Len(at(k)[Len(at(k))])
             Sound(k) == /\ Levels(at(k)) /\ at(k)[1] = LeafHashes(leaves)
                         /\ top(k) \in Nat \ {0}
                         /\ top(k) = 1 \/ top(k) + k <= n
             S == {k \in Nat : k <= n => Sound(k)}
  <1>1. /\ at(0) = <<LeafHashes(leaves)>> /\ Tree(leaves) = at(n)
        /\ \A k \in 1..n : at(k) = Grow(at(k - 1), leaves[k])
    BY TreeSteps
  <1> HIDE DEF at
  <1>2. 0 \in S
    <2> DEFINE hashes == LeafHashes(leaves)
    <2>1. Len(hashes) = n /\ Level(hashes)
      BY DEF LeafHashes, Level
    <2> HIDE DEF hashes
    <2>2. Len(<<hashes>>) = 1 /\ <<hashes>>[1] = hashes /\ <<hashes>> \in Seq({hashes})
      OBVIOUS
    <2>3. Sequence(<<hashes>>)
      BY <2>2, SequenceIs
    <2>4. Levels(<<hashes>>)
      BY <2>1, <2>2, <2>3 DEF Levels
    <2>5. at(0) = <<hashes>>
      BY <1>1 DEF hashes
    <2>6. top(0) = n
      BY <2>1, <2>2, <2>5
    <2>7. Sound(0)
      BY <2>2, <2>4, <2>5, <2>6 DEF hashes
    <2> QED
      BY <2>7
  <1> HIDE DEF Sound
  <1>3. ASSUME NEW k \in Nat, k \in S
        PROVE  k + 1 \in S
    <2> SUFFICES ASSUME k + 1 <= n PROVE Sound(k + 1)
      OBVIOUS
    <2>1. k + 1 \in 1..n /\ (k + 1) - 1 = k /\ k <= n
      OBVIOUS
    <2>2. Sound(k)
      BY <1>3, <2>1
    <2>3. at(k + 1) = Grow(at(k), leaves[k + 1])
      BY <1>1, <2>1
    <2>4. /\ Levels(at(k + 1)) /\ at(k + 1)[1] = at(k)[1]
          /\ top(k) = 1 => at(k + 1) = at(k)
          /\ top(k) > 1 => top(k + 1) < top(k)
      BY <2>2, <2>3, GrowIs DEF Sound
    <2>5. top(k + 1) \in Nat \ {0}
      BY <2>4 DEF Levels, Level
    <2>6. top(k + 1) = 1 \/ top(k + 1) + (k + 1) <= n
      <3>1. CASE top(k) = 1
        BY <2>4, <3>1
      <3>2. CASE top(k) # 1
        <4>1. top(k) \in Nat \ {0} /\ top(k) + k <= n
          BY <2>2, <3>2 DEF Sound
        <4> HIDE DEF top
        <4>0. top(k) > 1
          BY <3>2, <4>1
        <4>2. top(k + 1) < top(k)
          BY <2>4, <4>0
        <4> QED
          BY <2>5, <4>1, <4>2
      <3> QED
        BY <3>1, <3>2
    <2> QED
      BY <2>2, <2>4, <2>5, <2>6 DEF Sound
  <1>4. Sound(n)
    <2> HIDE DEF S
    <2>1. n \in S
      BY <1>2, <1>3, SetInduction
    <2> QED
      BY <2>1 DEF S
  <1>5. top(n) = 1
    <2>1. top(n) \in Nat \ {0} /\ (top(n) = 1 \/ top(n) + n <= n)
      BY <1>4 DEF Sound
    <2> HIDE DEF top
    <2> QED
      BY <2>1
  <1> QED
    BY <1>1, <1>4, <1>5 DEF Sound

-----------------------------------------------------------------------------
(* Merkle paths                                                            *)

Joining == INSTANCE Folding WITH Op <- Join
Climbing == INSTANCE Folding WITH Op <- Climb

\* What a path makes of a block.
Hashed(block, path) == FoldLeft(Join, LeafHash(block), path)

LEMMA HashedIs ==
    ASSUME NEW block, NEW path
    PROVE  Hashed(block, path) = Joining!Fold(LeafHash(block), path)
  BY Zenon DEF Hashed, Joining!Fold, Joining!FoldLeft, FoldLeft, Joining!MapThenFoldSet,
               MapThenFoldSet, Joining!Max, Max

LEMMA HashedNothing ==
    ASSUME NEW block
    PROVE  Hashed(block, <<>>) = LeafHash(block) /\ Sequence(<<>>)
  <1>1. DOMAIN <<>> = 1..0 /\ 0 \in Nat
    OBVIOUS
  <1>2. Joining!Fold(LeafHash(block), <<>>) = LeafHash(block)
    BY <1>1, Joining!FoldSteps
  <1>3. <<>> \in Seq({<<>>[d] : d \in DOMAIN <<>>})
    OBVIOUS
  <1> QED
    BY <1>2, <1>3, HashedIs DEF Sequence

LEMMA HashedAppend ==
    ASSUME NEW block, NEW path, Sequence(path), NEW s
    PROVE  Hashed(block, Append(path, s)) = Join(Hashed(block, path), s)
  <1> DEFINE n == Len(path)
             longer == Append(path, s)
  <1>1. /\ n \in Nat /\ DOMAIN path = 1..n /\ DOMAIN longer = 1..(n + 1)
        /\ \A i \in 1..n : longer[i] = path[i]
        /\ longer[n + 1] = s
    BY AppendIs
  <1> HIDE DEF n, longer
  <1>2. Joining!Fold(LeafHash(block), longer) = Join(Joining!Fold(LeafHash(block), path), longer[n + 1])
    BY <1>1, Joining!FoldNext
  <1> QED
    BY <1>1, <1>2, HashedIs DEF longer

\* The parity of a place: halved, with the rest.
LEMMA Halves ==
    ASSUME NEW i \in Nat
    PROVE  \E q \in Nat, r \in {0, 1} : i = 2 * q + r /\ i \div 2 = q /\ i % 2 = r
  <1>1. PICK two \in Nat \ {0} : two = 2
    OBVIOUS
  <1>2. PICK q \in Nat, r \in 0..(two - 1) : i = two * q + r /\ i \div two = q /\ i % two = r
    BY Division
  <1>3. r \in {0, 1}
    BY <1>1, <1>2
  <1> QED
    BY <1>1, <1>2, <1>3

\* At a place of a level, with a path there from a block.
Leads(at, block, level) ==
    /\ at.idx \in Nat /\ at.idx < Len(level) /\ Sequence(at.path)
    /\ Hashed(block, at.path) = level[at.idx + 1]

\* With the sibling, if there is one, the path goes one level up.
LEMMA ClimbIs ==
    ASSUME NEW level, Level(level), Len(level) > 1, NEW block, NEW at, Leads(at, block, level)
    PROVE  Leads(Climb(at, level), block, NextLevel(level))
  <1> DEFINE n == Len(level)
             up == NextLevel(level)
             idx == at.idx
             sibling == IF idx % 2 = 0 THEN idx + 1 ELSE idx - 1
             next == Climb(at, level)
             step == [left |-> sibling < idx, hash |-> level[sibling + 1]]
  <1>1. idx \in Nat /\ idx < n /\ Sequence(at.path) /\ Hashed(block, at.path) = level[idx + 1]
    BY DEF Leads
  <1>2. n \in Nat /\ n > 1
    BY DEF Level
  <1>3. PICK q \in Nat, r \in {0, 1} : idx = 2 * q + r /\ idx \div 2 = q /\ idx % 2 = r
    BY <1>1, Halves
  <1>4. /\ Len(up) \in Nat /\ 2 * Len(up) >= n
        /\ \A c \in 1..Len(up) :
             /\ 2 * c <= n => up[c] = NodeHash(level[2 * c - 1], level[2 * c])
             /\ 2 * c > n => up[c] = level[2 * c - 1]
    BY NextLevelIs DEF Level
  <1>5. /\ next.idx = idx \div 2
        /\ next.path = IF sibling < n THEN Append(at.path, step) ELSE at.path
    BY DEF Climb
  <1> HIDE DEF n, up, next, idx
  <1>6. q + 1 \in 1..Len(up) /\ next.idx = q /\ q < Len(up)
    BY <1>1, <1>2, <1>3, <1>4, <1>5
  <1>7. Sequence(next.path) /\ Hashed(block, next.path) = up[q + 1]
    <2>1. CASE r = 0 /\ idx + 1 < n
      <3>1. sibling = idx + 1 /\ ~(sibling < idx) /\ sibling < n
        BY <1>1, <1>3, <2>1
      <3>2. sibling + 1 = 2 * (q + 1) /\ idx + 1 = 2 * (q + 1) - 1 /\ 2 * (q + 1) <= n
        BY <1>1, <1>2, <1>3, <2>1, <3>1
      <3>3. ~step.left /\ step.hash = level[2 * (q + 1)]
        <4>1. step.hash = level[2 * (q + 1)]
          BY <3>1, <3>2
        <4>2. step.left = (sibling < idx)
          BY Zenon
        <4> QED
          BY <3>1, <4>1, <4>2, Zenon
      <3>4. next.path = Append(at.path, step)
        BY <1>5, <3>1
      <3> HIDE DEF step
      <3>5. Sequence(next.path) /\ Hashed(block, next.path) = Join(Hashed(block, at.path), step)
        BY <1>1, <3>4, AppendIs, HashedAppend
      <3>6. Join(Hashed(block, at.path), step) = NodeHash(level[2 * (q + 1) - 1], level[2 * (q + 1)])
        BY <1>1, <3>2, <3>3 DEF Join
      <3>7. up[q + 1] = NodeHash(level[2 * (q + 1) - 1], level[2 * (q + 1)])
        BY <1>4, <1>6, <3>2
      <3> QED
        BY <3>5, <3>6, <3>7
    <2>2. CASE r = 0 /\ ~(idx + 1 < n)
      <3>1. sibling = idx + 1 /\ ~(sibling < n)
        BY <1>1, <1>3, <2>2
      <3>2. idx + 1 = 2 * (q + 1) - 1 /\ 2 * (q + 1) > n
        BY <1>1, <1>2, <1>3, <2>2
      <3>3. next.path = at.path
        BY <1>5, <3>1
      <3>4. up[q + 1] = level[2 * (q + 1) - 1]
        BY <1>4, <1>6, <3>2
      <3> QED
        BY <1>1, <3>2, <3>3, <3>4
    <2>3. CASE r = 1
      <3>1. sibling = idx - 1 /\ sibling < idx /\ sibling < n
        BY <1>1, <1>2, <1>3, <2>3
      <3>2. sibling + 1 = 2 * (q + 1) - 1 /\ idx + 1 = 2 * (q + 1) /\ 2 * (q + 1) <= n
        BY <1>1, <1>2, <1>3, <2>3, <3>1
      <3>3. step.left = TRUE /\ step.hash = level[2 * (q + 1) - 1]
        BY <3>1, <3>2
      <3>4. next.path = Append(at.path, step)
        BY <1>5, <3>1
      <3> HIDE DEF step
      <3>5. Sequence(next.path) /\ Hashed(block, next.path) = Join(Hashed(block, at.path), step)
        BY <1>1, <3>4, AppendIs, HashedAppend
      <3>6. Join(Hashed(block, at.path), step) = NodeHash(level[2 * (q + 1) - 1], level[2 * (q + 1)])
        BY <1>1, <3>2, <3>3 DEF Join
      <3>7. up[q + 1] = NodeHash(level[2 * (q + 1) - 1], level[2 * (q + 1)])
        BY <1>4, <1>6, <3>2
      <3> QED
        BY <3>5, <3>6, <3>7
    <2> QED
      BY <1>3, <2>1, <2>2, <2>3
  <1> QED
    BY <1>6, <1>7 DEF Leads, next, up

\* Where the path is after k levels.
Bottom(index) == [idx |-> index, path |-> <<>>]
ClimbAfter(tree, index, k) == Climbing!After(Bottom(index), Front(tree), k)

LEMMA ClimbSteps ==
    ASSUME NEW tree, Levels(tree), NEW index
    PROVE  LET n == Len(tree) - 1 IN
           /\ ClimbAfter(tree, index, 0) = Bottom(index)
           /\ \A k \in 1..n : ClimbAfter(tree, index, k) = Climb(ClimbAfter(tree, index, k - 1), tree[k])
           /\ MerklePath(tree, index) = ClimbAfter(tree, index, n).path
  <1> DEFINE n == Len(tree) - 1
             front == Front(tree)
             R == {tree[d] : d \in DOMAIN tree}
  <1>1. n \in Nat /\ Len(tree) = n + 1 /\ tree \in Seq(R)
    BY DEF Levels, Sequence
  <1>2. front = SubSeq(tree, 1, n)
    BY DEF Front
  <1> HIDE DEF R, n, front
  <1>3. DOMAIN front = 1..n /\ \A k \in 1..n : front[k] = tree[k]
    <2>1. \A i \in 1..n : tree[i] \in R
      BY <1>1
    <2>2. 1 \in Int /\ n \in Int /\ n - 1 + 1 = n /\ (1 <= n <=> n # 0)
      BY <1>1
    <2>3. /\ front \in Seq(R) /\ Len(front) = n
          /\ \A k \in 1..n : front[k] = tree[1 + k - 1]
      BY <1>2, <2>1, <2>2, SubSeqProperties
    <2>4. \A k \in 1..n : 1 + k - 1 = k
      OBVIOUS
    <2>5. DOMAIN front = 1..n
      BY <2>3, LenProperties
    <2> QED
      BY <2>3, <2>4, <2>5
  <1>4. FoldLeft(Climb, Bottom(index), front) = Climbing!Fold(Bottom(index), front)
    BY Zenon DEF Climbing!Fold, Climbing!FoldLeft, FoldLeft, Climbing!MapThenFoldSet,
                 MapThenFoldSet, Climbing!Max, Max
  <1>5. MerklePath(tree, index) = FoldLeft(Climb, Bottom(index), front).path
    BY Zenon DEF MerklePath, Bottom, front
  <1>6. /\ Climbing!After(Bottom(index), front, 0) = Bottom(index)
        /\ \A k \in 1..n : Climbing!After(Bottom(index), front, k)
              = Climb(Climbing!After(Bottom(index), front, k - 1), front[k])
        /\ Climbing!Fold(Bottom(index), front) = Climbing!After(Bottom(index), front, n)
    BY <1>1, <1>3, Climbing!FoldSteps
  <1>7. /\ ClimbAfter(tree, index, 0) = Bottom(index)
        /\ \A k \in 1..n : ClimbAfter(tree, index, k) = Climb(ClimbAfter(tree, index, k - 1), front[k])
        /\ MerklePath(tree, index) = ClimbAfter(tree, index, n).path
    BY <1>4, <1>5, <1>6, Zenon DEF ClimbAfter, front
  <1>8. \A k \in 1..n : ClimbAfter(tree, index, k) = Climb(ClimbAfter(tree, index, k - 1), tree[k])
    BY <1>3, <1>7
  <1> QED
    BY <1>7, <1>8, Zenon DEF n

\* The path of a leaf leads to the root, whatever the number of leaves.
LEMMA PathsLead ==
    ASSUME NEW leaves, NEW n \in Nat \ {0}, Len(leaves) = n, DOMAIN leaves = 1..n,
           NEW index \in 0..(n - 1)
    PROVE  PathLeadsTo(leaves[index + 1], MerklePath(Tree(leaves), index), Root(leaves))
  <1> DEFINE tree == Tree(leaves)
             top == Len(tree) - 1
             block == leaves[index + 1]
             at(k) == ClimbAfter(tree, index, k)
             S == {k \in Nat : k <= top => Leads(at(k), block, tree[k + 1])}
  <1>1. Levels(tree) /\ tree[1] = LeafHashes(leaves) /\ Len(tree[Len(tree)]) = 1
    BY TreeIs
  <1>2. Root(leaves) = tree[Len(tree)][1]
    BY DEF Root
  <1> HIDE DEF tree
  <1>3. /\ at(0) = Bottom(index)
        /\ \A k \in 1..top : at(k) = Climb(at(k - 1), tree[k])
        /\ MerklePath(tree, index) = at(top).path
    BY <1>1, ClimbSteps
  <1>4. top \in Nat /\ Len(tree) = top + 1
    BY <1>1 DEF Levels
  <1> HIDE DEF at, top
  <1>5. 0 \in S
    <2>1. Len(tree[1]) = n /\ tree[1][index + 1] = LeafHash(block)
      BY <1>1 DEF LeafHashes
    <2>2. at(0).idx = index /\ at(0).path = <<>>
      BY <1>3 DEF Bottom
    <2>3. Leads(at(0), block, tree[1])
      BY <2>1, <2>2, HashedNothing DEF Leads
    <2> QED
      BY <2>3
  <1> HIDE DEF block
  <1>6. ASSUME NEW k \in Nat, k \in S
        PROVE  k + 1 \in S
    <2> SUFFICES ASSUME k + 1 <= top PROVE Leads(at(k + 1), block, tree[(k + 1) + 1])
      OBVIOUS
    <2>1. k + 1 \in 1..top /\ (k + 1) - 1 = k /\ k <= top
      BY <1>4
    <2>2. Leads(at(k), block, tree[k + 1])
      BY <1>6, <2>1
    <2>3. at(k + 1) = Climb(at(k), tree[k + 1])
      BY <1>3, <2>1
    <2>4. k + 1 \in 1..Len(tree) /\ k + 1 \in 1..(Len(tree) - 1)
      BY <1>4, <2>1
    <2>5. /\ Level(tree[k + 1]) /\ Len(tree[k + 1]) > 1
          /\ tree[(k + 1) + 1] = NextLevel(tree[k + 1])
      BY <1>1, <2>4 DEF Levels
    <2> QED
      BY <2>2, <2>3, <2>5, ClimbIs
  <1>7. Leads(at(top), block, tree[top + 1])
    <2> HIDE DEF S
    <2>1. top \in S
      BY <1>4, <1>5, <1>6, SetInduction
    <2> QED
      BY <1>4, <2>1 DEF S
  <1>8. Hashed(block, at(top).path) = tree[top + 1][1]
    <2>1. at(top).idx = 0 /\ Hashed(block, at(top).path) = tree[top + 1][at(top).idx + 1]
      BY <1>1, <1>4, <1>7 DEF Leads
    <2> QED
      BY <2>1
  <1>9. Hashed(block, MerklePath(tree, index)) = Root(leaves)
    BY <1>2, <1>3, <1>4, <1>8
  <1> QED
    BY <1>9, Zenon DEF PathLeadsTo, Hashed, block, tree

-----------------------------------------------------------------------------
(* Audits                                                                  *)

\* The entries of a proof of n blocks, for those asked for.
Entries(p, blocks, n, asked, target, key) ==
    /\ target \in Nat /\ target <= n /\ Len(p.blocks) = target /\ DOMAIN p.blocks = 1..target
    /\ \A j \in 1..target :
         LET i == p.blocks[j].index + 1 IN
         /\ p.blocks[j].index = asked[j] /\ p.blocks[j].index \in 0..(n - 1) /\ i \in 1..n
         /\ p.blocks[j].block = blocks[i]
         /\ p.blocks[j].revealed = Decrypted(blocks[i].points[1], key)
         /\ p.blocks[j].path = MerklePath(Tree(blocks), p.blocks[j].index)
    /\ target = n => \A j \in 1..n : p.blocks[j].index = j - 1

\* A file proof has an entry for every block asked for, of that block.
LEMMA FileProofIs ==
    ASSUME NEW n \in Nat, NEW blocks, Len(blocks) = n, NEW c, NEW nonce, Draws(nonce, n),
           NEW count \in Nat, NEW key, NEW ctx
    PROVE  LET p == FileProof(blocks, c, nonce, count, key, ctx)
               asked == ChallengeIndices(nonce, n, count)
               target == Least(count, n)
           IN /\ p.root = c.root /\ p.key = key /\ p.ctx = ctx
              /\ Entries(p, blocks, n, asked, target, key)
  <1> DEFINE asked == ChallengeIndices(nonce, n, count)
             target == Least(count, n)
             tree == Tree(blocks)
             p == FileProof(blocks, c, nonce, count, key, ctx)
  <1>1. /\ target \in Nat /\ target <= n /\ DOMAIN asked = 1..target /\ Len(asked) = target
        /\ \A j \in 1..target : asked[j] \in 0..(n - 1)
        /\ target = n => \A j \in 1..n : asked[j] = j - 1
    BY ChallengeIs
  <1>2. p = [root   |-> c.root,
             key    |-> key,
             ctx    |-> ctx,
             batch  |-> Len(asked) >= BatchThreshold,
             blocks |-> [j \in 1..Len(asked) |->
                            [index    |-> asked[j],
                             block    |-> blocks[asked[j] + 1],
                             revealed |-> Decrypted(blocks[asked[j] + 1].points[1], key),
                             path     |-> MerklePath(tree, asked[j])]]]
    BY Zenon DEF FileProof
  <1> HIDE DEF asked, target, tree, p
  <1>3. p.root = c.root /\ p.key = key /\ p.ctx = ctx
    BY <1>2
  <1>4. p.blocks = [j \in 1..target |->
                        [index    |-> asked[j],
                         block    |-> blocks[asked[j] + 1],
                         revealed |-> Decrypted(blocks[asked[j] + 1].points[1], key),
                         path     |-> MerklePath(tree, asked[j])]]
    BY <1>1, <1>2
  <1>5. Len(p.blocks) = target /\ DOMAIN p.blocks = 1..target
    BY <1>1, <1>4
  <1>6. ASSUME NEW j \in 1..target
        PROVE  LET i == p.blocks[j].index + 1 IN
               /\ p.blocks[j].index = asked[j] /\ p.blocks[j].index \in 0..(n - 1) /\ i \in 1..n
               /\ p.blocks[j].block = blocks[i]
               /\ p.blocks[j].revealed = Decrypted(blocks[i].points[1], key)
               /\ p.blocks[j].path = MerklePath(tree, p.blocks[j].index)
    <2>1. p.blocks[j] = [index    |-> asked[j],
                         block    |-> blocks[asked[j] + 1],
                         revealed |-> Decrypted(blocks[asked[j] + 1].points[1], key),
                         path     |-> MerklePath(tree, asked[j])]
      BY <1>4
    <2>2. asked[j] \in 0..(n - 1) /\ asked[j] + 1 \in 1..n
      BY <1>1
    <2> QED
      BY <2>1, <2>2
  <1>7. target = n => \A j \in 1..n : p.blocks[j].index = j - 1
    BY <1>1, <1>6
  <1>8. Entries(p, blocks, n, asked, target, key)
    BY <1>1, <1>5, <1>6, <1>7, Zenon DEF Entries, tree
  <1> QED
    BY <1>3, <1>8 DEF p, asked, target

\* As many blocks as the file has are all of its blocks, in order.
LEMMA AskedAll ==
    ASSUME NEW n \in Nat, NEW blocks, Len(blocks) = n, NEW c, NEW nonce, Draws(nonce, n),
           NEW count \in Nat, NEW key, NEW ctx, NEW j \in 1..n
    PROVE  LET p == FileProof(blocks, c, nonce, count, key, ctx) IN
           Len(p.blocks) = n =>
              /\ DOMAIN p.blocks = 1..n
              /\ p.blocks[j].block = blocks[j]
              /\ p.blocks[j].revealed = Decrypted(blocks[j].points[1], key)
  <1> DEFINE p == FileProof(blocks, c, nonce, count, key, ctx)
             target == Least(count, n)
  <1>1. Entries(p, blocks, n, ChallengeIndices(nonce, n, count), target, key)
    BY FileProofIs
  <1> HIDE DEF p, target
  <1> SUFFICES ASSUME Len(p.blocks) = n
               PROVE  /\ DOMAIN p.blocks = 1..n
                      /\ p.blocks[j].block = blocks[j]
                      /\ p.blocks[j].revealed = Decrypted(blocks[j].points[1], key)
    BY DEF p
  <1>2. target = n
    BY <1>1 DEF Entries
  <1>3. p.blocks[j].index + 1 = j
    <2>1. p.blocks[j].index = j - 1
      BY <1>1, <1>2 DEF Entries
    <2> QED
      BY <2>1
  <1>4. p.blocks[j].block = blocks[j] /\ p.blocks[j].revealed = Decrypted(blocks[j].points[1], key)
    BY <1>1, <1>2, <1>3 DEF Entries
  <1>5. DOMAIN p.blocks = 1..n
    BY <1>1, <1>2 DEF Entries
  <1> QED
    BY <1>4, <1>5

\* What a key shows of all blocks passes as the audited key's only if the proof
\* is of a file audited in full whose blocks this key opens.
LEMMA AuditOpens ==
    ASSUME LayoutAssumption, NEW n \in Nat, NEW blocks, Len(blocks) = n, NEW c, c.blocks = n,
           c.size \in Nat, c.size <= FullAuditBytes, NEW nonce, Draws(nonce, n), NEW count \in Nat,
           NEW key, NEW ctx, NEW x, NEW drawn,
           AuditHolds(FileProof(blocks, c, nonce, count, key, ctx), c, drawn, x, ctx), NEW i \in 1..n
    PROVE  /\ c.layout # "plain" => OpensTo(blocks[i], x)
           /\ c.layout = "plain" =>
                Decrypted(blocks[i].points[1], key) = Decrypted(blocks[i].points[1], x)
           /\ FileProof(blocks, c, nonce, count, key, ctx).blocks[i].revealed
                = Decrypted(blocks[i].points[1], key)
           /\ DOMAIN FileProof(blocks, c, nonce, count, key, ctx).blocks = 1..n
  <1> DEFINE p == FileProof(blocks, c, nonce, count, key, ctx)
  <1>1. Len(p.blocks) = n
    <2>1. ExpectedCount(c) = c.blocks
      BY ExpectedIs
    <2> QED
      BY <2>1 DEF AuditHolds
  <1>2. /\ DOMAIN p.blocks = 1..n
        /\ p.blocks[i].block = blocks[i] /\ p.blocks[i].revealed = Decrypted(blocks[i].points[1], key)
    BY <1>1, AskedAll
  <1>3. IF c.layout = "plain" THEN RevealsHold(p, x) ELSE BatchHolds(p, c.layout, x, ctx)
    BY DEF AuditHolds, FileProofHolds
  <1> HIDE DEF p
  <1>4. CASE c.layout = "plain"
    <2>1. p.blocks[i].revealed = Decrypted(p.blocks[i].block.points[1], x)
      BY <1>1, <1>3, <1>4 DEF RevealsHold
    <2> QED
      BY <1>1, <1>2, <1>4, <2>1 DEF p
  <1>5. CASE c.layout # "plain"
    <2>1. OpensTo(p.blocks[i].block, x)
      BY <1>1, <1>3, <1>5 DEF BatchHolds
    <2> QED
      BY <1>1, <1>2, <1>5, <2>1 DEF p
  <1> QED
    BY <1>4, <1>5

\* The proof that the owner of a packed file makes of as many blocks as are
\* expected holds.
LEMMA HonestAuditHolds ==
    ASSUME LayoutAssumption, NEW n \in Nat \ {0}, NEW blocks, DOMAIN blocks = 1..n, Len(blocks) = n,
           NEW c, c.blocks = n, c.size \in Nat, c.root = Root(blocks), c.layout \in {"packed", "elligator"},
           NEW nonce, Draws(nonce, n), NEW key, NEW ctx, Keyed(blocks, key),
           \A i \in 1..n : WellFormed(blocks[i])
    PROVE  AuditHolds(FileProof(blocks, c, nonce, ExpectedCount(c), key, ctx), c, nonce, key, ctx)
  <1> DEFINE count == ExpectedCount(c)
             p == FileProof(blocks, c, nonce, count, key, ctx)
             asked == ChallengeIndices(nonce, n, count)
  <1>1. count \in 1..n
    <2>1. count \in 0..c.blocks /\ (c.blocks > 0 => count > 0)
      BY ExpectedIs
    <2> HIDE DEF count
    <2> QED
      BY <2>1
  <1>2. Least(count, n) = count /\ count \in Nat
    <2> HIDE DEF count
    <2> QED
      BY <1>1 DEF Least
  <1>3. /\ Len(p.blocks) = count
        /\ p.root = c.root /\ p.key = key /\ p.ctx = ctx
        /\ \A j \in 1..count :
             LET i == p.blocks[j].index + 1 IN
             /\ p.blocks[j].index = asked[j] /\ p.blocks[j].index \in 0..(n - 1) /\ i \in 1..n
             /\ p.blocks[j].block = blocks[i]
             /\ p.blocks[j].path = MerklePath(Tree(blocks), p.blocks[j].index)
    <2>1. /\ p.root = c.root /\ p.key = key /\ p.ctx = ctx
          /\ Entries(p, blocks, n, asked, Least(count, n), key)
      BY <1>2, FileProofIs
    <2>2. Entries(p, blocks, n, asked, count, key)
      BY <1>2, <2>1
    <2> HIDE DEF p, asked, count
    <2> QED
      BY <2>1, <2>2 DEF Entries
  <1>4. Len(asked) = count
    BY <1>2, ChallengeIs
  <1> HIDE DEF p, asked, count
  <1>5. ASSUME NEW j \in 1..count
        PROVE  /\ p.blocks[j].index = asked[j]
               /\ PathLeadsTo(p.blocks[j].block, p.blocks[j].path, c.root)
               /\ WellFormed(p.blocks[j].block) /\ OpensTo(p.blocks[j].block, key)
    <2>1. PICK index \in 0..(n - 1) :
            /\ p.blocks[j].index = asked[j]
            /\ p.blocks[j].block = blocks[index + 1]
            /\ p.blocks[j].path = MerklePath(Tree(blocks), index)
      BY <1>3
    <2>2. index + 1 \in 1..n
      OBVIOUS
    <2>3. PathLeadsTo(blocks[index + 1], MerklePath(Tree(blocks), index), Root(blocks))
      BY PathsLead
    <2>4. OpensTo(blocks[index + 1], key)
      BY <2>2, KeyedOpens
    <2> QED
      BY <2>1, <2>2, <2>3, <2>4
  <1>6. p.blocks # <<>>
    <2>1. Len(p.blocks) # Len(<<>>)
      BY <1>1, <1>3
    <2> QED
      BY <2>1
  <1>7. BatchHolds(p, c.layout, key, ctx)
    BY <1>3, <1>5, <1>6 DEF BatchHolds, BoundTo
  <1>8. c.layout # "plain" /\ count <= n
    BY <1>1
  <1>9. FileProofHolds(p, c, nonce, key, ctx)
    <2>1. ChallengeIndices(nonce, c.blocks, Len(p.blocks)) = asked
      BY <1>3 DEF asked
    <2>2. Least(Len(p.blocks), Len(asked)) = count
      BY <1>3, <1>4 DEF Least
    <2>3. \A j \in 1..Least(Len(p.blocks), Len(asked)) :
             /\ p.blocks[j].index = asked[j]
             /\ PathLeadsTo(p.blocks[j].block, p.blocks[j].path, c.root)
      BY <1>5, <2>2
    <2>4. p.root = c.root /\ Len(p.blocks) <= c.blocks
      BY <1>3, <1>8
    <2> QED
      BY <1>6, <1>7, <1>8, <2>1, <2>3, <2>4 DEF FileProofHolds
  <1> QED
    BY <1>3, <1>9 DEF AuditHolds, p, count

-----------------------------------------------------------------------------
(* Samples without replacement                                             *)

Missing == INSTANCE Folding WITH Op <- MissAgain

LEMMA MissedSteps ==
    ASSUME NEW n \in Nat, NEW good \in Nat
    PROVE  /\ Missed(n, good, 0) = <<1, 1>>
           /\ \A k \in Nat : Missed(n, good, k + 1)
                               = <<Missed(n, good, k)[1] * (good - k), Missed(n, good, k)[2] * (n - k)>>
  <1> DEFINE odds(k) == [j \in 1..k |-> <<good - (j - 1), n - (j - 1)>>]
  <1>1. \A k \in Nat : Missed(n, good, k) = Missing!Fold(<<1, 1>>, odds(k))
    <2> TAKE k \in Nat
    <2>1. \A s : FoldLeft(MissAgain, <<1, 1>>, s) = Missing!Fold(<<1, 1>>, s)
      BY Zenon DEF Missing!Fold, Missing!FoldLeft, FoldLeft, Missing!MapThenFoldSet,
                   MapThenFoldSet, Missing!Max, Max
    <2>2. Missed(n, good, k) = FoldLeft(MissAgain, <<1, 1>>, odds(k))
      BY Zenon DEF Missed
    <2> QED
      BY <2>1, <2>2
  <1>2. \A k \in Nat : DOMAIN odds(k) = 1..k
    OBVIOUS
  <1>3. ASSUME NEW k \in Nat
        PROVE  /\ \A j \in 1..k : odds(k + 1)[j] = odds(k)[j]
               /\ odds(k + 1)[k + 1] = <<good - k, n - k>>
    <2>1. \A j \in 1..k : j \in 1..(k + 1)
      OBVIOUS
    <2>2. k + 1 \in 1..(k + 1) /\ (k + 1) - 1 = k
      OBVIOUS
    <2> QED
      BY <2>1, <2>2
  <1> HIDE DEF odds
  <1>4. Missed(n, good, 0) = <<1, 1>>
    <2>1. DOMAIN odds(0) = 1..0 /\ 0 \in Nat
      BY <1>2
    <2>2. Missing!Fold(<<1, 1>>, odds(0)) = <<1, 1>>
      BY <2>1, Missing!FoldSteps
    <2> QED
      BY <1>1, <2>1, <2>2
  <1>5. ASSUME NEW k \in Nat
        PROVE  Missed(n, good, k + 1)
                 = <<Missed(n, good, k)[1] * (good - k), Missed(n, good, k)[2] * (n - k)>>
    <2>1. k + 1 \in Nat /\ DOMAIN odds(k) = 1..k /\ DOMAIN odds(k + 1) = 1..(k + 1)
      BY <1>2
    <2>2. Missing!Fold(<<1, 1>>, odds(k + 1))
            = MissAgain(Missing!Fold(<<1, 1>>, odds(k)), odds(k + 1)[k + 1])
      <3> DEFINE s == odds(k)
                 t == odds(k + 1)
      <3>1. DOMAIN s = 1..k /\ DOMAIN t = 1..(k + 1) /\ \A j \in 1..k : t[j] = s[j]
        BY <1>3, <2>1
      <3> HIDE DEF s, t
      <3>2. Missing!Fold(<<1, 1>>, t) = MissAgain(Missing!Fold(<<1, 1>>, s), t[k + 1])
        BY <3>1, Missing!FoldNext
      <3> QED
        BY <3>2 DEF s, t
    <2>3. Missed(n, good, k + 1) = MissAgain(Missed(n, good, k), <<good - k, n - k>>)
      BY <1>1, <1>3, <2>1, <2>2
    <2> QED
      BY <2>3 DEF MissAgain
  <1> QED
    BY <1>4, <1>5

LEMMA CancelFactor ==
    ASSUME NEW m \in Nat \ {0}, NEW a \in Nat, NEW b \in Nat, m * a <= m * b
    PROVE  a <= b
  <1> SUFFICES ASSUME b < a PROVE FALSE
    OBVIOUS
  <1>1. b + 1 \in Nat /\ b + 1 <= a
    OBVIOUS
  <1>2. (b + 1) * m <= a * m /\ (b + 1) * m = b * m + m /\ b * m \in Nat /\ a * m \in Nat
    BY <1>1, ProductOrder
  <1>3. m * a = a * m /\ m * b = b * m
    OBVIOUS
  <1> QED
    BY <1>2, <1>3

\* What one sample more does to both sides.
LEMMA RarerStep ==
    ASSUME NEW a \in Nat, NEW b \in Nat, NEW more \in Nat, NEW all \in Nat,
           NEW num \in Nat, NEW den \in Nat, a * den <= num * b,
           NEW k \in Nat, NEW p \in Nat, NEW q \in Nat, NEW m \in Nat, p <= q,
           (k + 1) * more = p * a, (k + 1) * all = m * b
    PROVE  more * (den * m) <= (num * q) * all
  <1> DEFINE ad == a * den
             nb == num * b
             pm == p * m
             qm == q * m
  <1>1. ad \in Nat /\ nb \in Nat /\ pm \in Nat /\ qm \in Nat /\ pm <= qm /\ ad <= nb
    BY ProductOrder
  <1>2. (k + 1) * (more * (den * m)) = ad * pm
    <2>1. (k + 1) * (more * (den * m)) = ((k + 1) * more) * (den * m)
      OBVIOUS
    <2>2. (p * a) * (den * m) = (a * den) * (p * m)
      OBVIOUS
    <2> QED
      BY <2>1, <2>2
  <1>3. (k + 1) * ((num * q) * all) = nb * qm
    <2>1. (k + 1) * ((num * q) * all) = ((k + 1) * all) * (num * q)
      OBVIOUS
    <2>2. (m * b) * (num * q) = (num * b) * (q * m)
      OBVIOUS
    <2> QED
      BY <2>1, <2>2
  <1> HIDE DEF ad, nb, pm, qm
  <1>4. ad * pm <= nb * qm
    <2>1. ad * pm <= nb * pm
      BY <1>1, ProductOrder
    <2>2. pm * nb <= qm * nb
      BY <1>1, ProductOrder
    <2>3. pm * nb = nb * pm /\ qm * nb = nb * qm /\ nb * pm \in Nat /\ nb * qm \in Nat /\ ad * pm \in Nat
      BY <1>1
    <2> QED
      BY <2>1, <2>2, <2>3
  <1>5. k + 1 \in Nat \ {0} /\ more * (den * m) \in Nat /\ (num * q) * all \in Nat
    OBVIOUS
  <1> QED
    BY <1>2, <1>3, <1>4, <1>5, CancelFactor

\* No more than that share of the subsets of A have all k elements in R.
Rare(R, A, good, k) ==
    LET miss == Missed(Cardinality(A), good, k) IN
    /\ miss[1] \in Nat /\ miss[2] \in Nat \ {0}
    /\ Ways(k, R) * miss[2] <= miss[1] * Ways(k, A)

LEMMA RareOnce ==
    ASSUME NEW A, IsFiniteSet(A), NEW R \in SUBSET A, NEW good \in Nat, Cardinality(R) <= good,
           good <= Cardinality(A), NEW k \in Nat, k + 1 <= good, Rare(R, A, good, k)
    PROVE  Rare(R, A, good, k + 1)
  <1> DEFINE n == Cardinality(A)
             r == Cardinality(R)
             num == Missed(n, good, k)[1]
             den == Missed(n, good, k)[2]
             a == Ways(k, R)
             b == Ways(k, A)
             more == Ways(k + 1, R)
             all == Ways(k + 1, A)
  <1>1. IsFiniteSet(R) /\ n \in Nat /\ r \in Nat
    BY FS_Subset, FS_CardinalityType
  <1>2. a \in Nat /\ b \in Nat /\ more \in Nat /\ all \in Nat
    BY <1>1, SubsetsAreFinite
  <1>3. num \in Nat /\ den \in Nat \ {0} /\ a * den <= num * b
    BY DEF Rare
  <1>4. (k + 1) * more = (r - k) * a /\ (k + 1) * all = (n - k) * b
    BY <1>1, WaysGrow DEF GrowsBy
  <1>5. r < k + 1 => more = 0
    <2>1. k + 1 \in Nat
      OBVIOUS
    <2> QED
      BY <1>1, <2>1, NoLargerSubset
  <1>6. Missed(n, good, k + 1) = <<num * (good - k), den * (n - k)>>
    BY <1>1, MissedSteps
  <1> HIDE DEF n, r, num, den, a, b, more, all
  <1>7. good - k \in Nat \ {0} /\ n - k \in Nat \ {0}
    BY <1>1 DEF n
  <1>8. num * (good - k) \in Nat /\ den * (n - k) \in Nat \ {0}
    <2> DEFINE q == good - k
               m == n - k
    <2>1. q \in Nat /\ m \in Nat \ {0}
      BY <1>7
    <2> HIDE DEF q, m
    <2>2. num * q \in Nat /\ den * m \in Nat
      BY <1>3, <2>1
    <2>3. den * m # 0
      <3>1. 1 * m <= den * m /\ 1 * m = m
        BY <1>3, <2>1, ProductOrder
      <3> QED
        BY <2>1, <2>2, <3>1
    <2> QED
      BY <2>2, <2>3 DEF q, m
  <1>9. more * (den * (n - k)) <= (num * (good - k)) * all
    <2>1. CASE r < k + 1
      <3> DEFINE left == den * (n - k)
                 right == num * (good - k)
      <3>1. left \in Nat /\ right \in Nat /\ more = 0
        BY <1>5, <1>8, <2>1
      <3> HIDE DEF left, right
      <3>2. more * left = 0 /\ right * all \in Nat
        BY <1>2, <3>1
      <3>3. more * left <= right * all
        BY <3>2
      <3> QED
        BY <3>3 DEF left, right
    <2>2. CASE ~(r < k + 1)
      <3> DEFINE p == r - k
                 q == good - k
                 m == n - k
      <3>1. p \in Nat /\ q \in Nat /\ m \in Nat /\ p <= q
        BY <1>1, <1>7, <2>2 DEF r
      <3>2. (k + 1) * more = p * a /\ (k + 1) * all = m * b
        BY <1>4
      <3> HIDE DEF p, q, m
      <3>3. more * (den * m) <= (num * q) * all
        BY <1>2, <1>3, <3>1, <3>2, RarerStep
      <3> QED
        BY <3>3 DEF q, m
    <2> QED
      BY <2>1, <2>2
  <1> DEFINE miss == Missed(n, good, k + 1)
  <1>10. miss[1] = num * (good - k) /\ miss[2] = den * (n - k)
    BY <1>6
  <1> HIDE DEF miss
  <1>11. miss[1] \in Nat /\ miss[2] \in Nat \ {0} /\ more * miss[2] <= miss[1] * all
    BY <1>8, <1>9, <1>10
  <1> QED
    BY <1>11 DEF Rare, miss, more, all, n

LEMMA SamplesMiss ==
    ASSUME NEW A, IsFiniteSet(A), NEW R \in SUBSET A, NEW good \in Nat, Cardinality(R) <= good,
           good <= Cardinality(A), NEW k \in Nat, k <= good
    PROVE  Rare(R, A, good, k)
  <1> DEFINE S == {j \in Nat : j <= good => Rare(R, A, good, j)}
  <1>1. 0 \in S
    <2>1. Cardinality(A) \in Nat
      BY FS_CardinalityType
    <2>2. Missed(Cardinality(A), good, 0) = <<1, 1>>
      BY <2>1, MissedSteps
    <2>3. Ways(0, R) = 1 /\ Ways(0, A) = 1
      BY FS_Subset, OneEmptySubset
    <2>4. Rare(R, A, good, 0)
      BY <2>2, <2>3 DEF Rare
    <2> QED
      BY <2>4
  <1>2. ASSUME NEW j \in Nat, j \in S
        PROVE  j + 1 \in S
    <2> SUFFICES ASSUME j + 1 <= good PROVE Rare(R, A, good, j + 1)
      OBVIOUS
    <2>1. Rare(R, A, good, j)
      BY <1>2
    <2> QED
      BY <2>1, RareOnce
  <1>3. k \in S
    <2> HIDE DEF S
    <2> QED
      BY <1>1, <1>2, SetInduction
  <1> QED
    BY <1>3

\* Some block counts as bad, and no more than there are.
LEMMA BadBlocksAre ==
    ASSUME FractionAssumption, NEW n \in Nat \ {0}
    PROVE  BadBlocks(n) \in 1..n
  <1> DEFINE x == n * BadFraction[1]
             m == BadFraction[2]
             q == CeilDiv(x, m)
  <1>1. BadFraction[1] \in Nat \ {0} /\ m \in Nat \ {0}
    BY DEF FractionAssumption
  <1>2. x \in Nat \ {0}
    <2> DEFINE f == BadFraction[1]
    <2>1. f \in Nat \ {0}
      BY <1>1
    <2> HIDE DEF f
    <2>2. 1 * f <= n * f /\ 1 * f = f /\ n * f \in Nat
      BY <2>1, ProductOrder
    <2>3. n * f \in Nat \ {0}
      BY <2>1, <2>2
    <2> QED
      BY <2>3 DEF f
  <1>3. BadBlocks(n) = Least(n, q)
    BY DEF BadBlocks
  <1> HIDE DEF x, m
  <1>4. q \in Nat /\ q # 0
    BY <1>1, <1>2, CeilDivIs
  <1> HIDE DEF q
  <1> QED
    BY <1>3, <1>4 DEF Least

\* So many bad blocks are in all but a share of 1 - confidence of the samples.
LEMMA SamplesCatch ==
    ASSUME FractionAssumption, NEW n \in Nat \ {0}, NEW k \in 1..n, Catches(n, k),
           NEW R \in SUBSET (0..(n - 1)), Cardinality(R) + BadBlocks(n) <= n
    PROVE  Ways(k, R) * Confidence[2] <= (Confidence[2] - Confidence[1]) * Ways(k, 0..(n - 1))
  <1> DEFINE A == 0..(n - 1)
             bad == BadBlocks(n)
             good == n - bad
             miss == Missed(n, good, k)
             a == Ways(k, R)
             b == Ways(k, A)
             top == Confidence[1]
             base == Confidence[2]
  <1>1. /\ IsFiniteSet(A) /\ Cardinality(A) = n
        /\ IsFiniteSet(R) /\ Cardinality(R) \in Nat
    <2>1. IsFiniteSet(A) /\ Cardinality(A) = n
      BY NumbersBelow
    <2>2. IsFiniteSet(R)
      BY <2>1, FS_Subset
    <2> QED
      BY <2>1, <2>2, FS_CardinalityType
  <1>2. a \in Nat /\ b \in Nat
    BY <1>1, SubsetsAreFinite
  <1>3. top \in Nat /\ base \in Nat /\ top < base
    BY DEF FractionAssumption
  <1>4. bad \in Nat
    BY BadBlocksAre
  <1>5. good \in Nat /\ good <= n /\ Cardinality(R) <= good
    BY <1>1, <1>4
  <1>6. good - (k - 1) <= 0 \/ (miss[2] - miss[1]) * base >= top * miss[2]
    BY DEF Catches
  <1> HIDE DEF A, a, b, top, base, good, bad
  <1>7. CASE k > good
    <2>1. Cardinality(R) < k
      BY <1>1, <1>5, <1>7
    <2>2. a = 0
      BY <1>1, <2>1, NoLargerSubset DEF a
    <2>3. base - top \in Nat
      BY <1>3
    <2>4. (base - top) * b \in Nat
      BY <1>2, <2>3
    <2>5. a * base <= (base - top) * b
      BY <1>3, <2>2, <2>4
    <2> QED
      BY <2>5 DEF a, b, base, top, A
  <1>8. CASE k <= good
    <2>1. (miss[2] - miss[1]) * base >= top * miss[2]
      BY <1>5, <1>6, <1>8
    <2> DEFINE num == miss[1]
               den == miss[2]
               rest == base - top
    <2>2. num \in Nat /\ den \in Nat \ {0} /\ a * den <= num * b
      <3>1. R \in SUBSET A /\ k \in Nat
        BY DEF A
      <3>2. Rare(R, A, good, k)
        BY <1>1, <1>5, <1>8, <3>1, SamplesMiss
      <3> QED
        BY <1>1, <3>2 DEF Rare, a, b
    <2> HIDE DEF miss, num, den
    <2>3. num * base <= rest * den
      <3>1. (den - num) * base = den * base - num * base /\ rest * den = den * base - top * den
        BY <1>3, <2>2
      <3>2. den * base \in Nat /\ num * base \in Nat /\ top * den \in Nat
        BY <1>3, <2>2
      <3> QED
        BY <2>1, <3>1, <3>2 DEF num, den
    <2>4. rest \in Nat
      BY <1>3
    <2> HIDE DEF rest
    <2>5. den * (a * base) <= den * (rest * b)
      <3> DEFINE ad == a * den
                 nb == num * b
                 nbase == num * base
                 rd == rest * den
      <3>1. den * (a * base) = ad * base /\ nb * base = nbase * b /\ rd * b = den * (rest * b)
        BY <1>2, <1>3, <2>2, <2>4
      <3>2. ad \in Nat /\ nb \in Nat /\ nbase \in Nat /\ rd \in Nat /\ ad <= nb /\ nbase <= rd
        BY <1>2, <1>3, <2>2, <2>3, <2>4
      <3> HIDE DEF ad, nb, nbase, rd
      <3>3. ad * base <= nb * base /\ nbase * b <= rd * b
        BY <1>2, <1>3, <3>2, ProductOrder
      <3>4. ad * base \in Nat /\ nb * base \in Nat /\ rd * b \in Nat
        BY <1>2, <1>3, <3>2
      <3> QED
        BY <3>1, <3>3, <3>4
    <2>6. a * base \in Nat /\ rest * b \in Nat
      BY <1>2, <1>3, <2>4
    <2>7. a * base <= rest * b
      BY <2>2, <2>5, <2>6, CancelFactor
    <2> QED
      BY <2>7 DEF a, b, base, top, rest, A
  <1> QED
    BY <1>5, <1>7, <1>8

-----------------------------------------------------------------------------
(* What a challenge meets                                                  *)

\* Every number of a set has its place in ascending order.
LEMMA AscendingMeets ==
    ASSUME NEW m \in Nat, NEW S \in SUBSET (0..m), NEW i \in S
    PROVE  \E j \in 1..Cardinality(S) : Ascending(S)[j] = i
  <1> DEFINE k == Cardinality(S)
             rank(j) == CHOOSE h \in S : Cardinality(Below(S, h)) = j - 1
             f == Ascending(S)
  <1>1. IsFiniteSet(S) /\ k \in Nat
    <2>1. IsFiniteSet(0..m)
      BY FS_Interval
    <2> QED
      BY <2>1, FS_Subset, FS_CardinalityType
  <1>2. f = [j \in 1..k |-> rank(j)]
    BY DEF Ascending, Below
  <1>3. ASSUME NEW j \in 1..k
        PROVE  f[j] \in S /\ Cardinality(Below(S, f[j])) = j - 1
    <2>1. \E h \in S : Cardinality(Below(S, h)) = j - 1
      BY <1>1, AscendingExists
    <2>2. rank(j) \in S /\ Cardinality(Below(S, rank(j))) = j - 1
      BY <2>1
    <2>3. f[j] = rank(j)
      BY <1>2
    <2> HIDE DEF f, rank
    <2> QED
      BY <2>2, <2>3
  <1>4. f \in [1..k -> S]
    BY <1>2, <1>3
  <1> HIDE DEF f
  <1>5. \A g, h \in 1..k : f[g] = f[h] => g = h
    <2> SUFFICES ASSUME NEW g \in 1..k, NEW h \in 1..k, f[g] = f[h] PROVE g = h
      OBVIOUS
    <2>1. g - 1 = h - 1
      BY <1>3
    <2> QED
      BY <2>1
  <1>6. f \in Injection(1..k, S)
    BY <1>4, <1>5 DEF Injection, IsInjective
  <1>7. Cardinality(1..k) = Cardinality(S)
    BY <1>1, FS_Interval
  <1>8. f \in Surjection(1..k, S)
    BY <1>1, <1>6, <1>7, FS_Injection
  <1>9. \E j \in 1..k : f[j] = i
    BY <1>8 DEF Surjection
  <1> QED
    BY <1>9 DEF f

\* The nonce that draws one set of blocks.
OneDraw(n, S) == [p \in {<<n, Cardinality(S)>>} |-> S]

LEMMA OneDrawAsks ==
    ASSUME NEW n \in Nat \ {0}, NEW S \in SUBSET (0..(n - 1))
    PROVE  ChallengeIndices(OneDraw(n, S), n, Cardinality(S)) = Ascending(S)
  <1> DEFINE k == Cardinality(S)
             A == 0..(n - 1)
  <1>1. IsFiniteSet(A) /\ Cardinality(A) = n
    BY NumbersBelow
  <1>2. k \in Nat /\ k <= n /\ (k = n => S = A)
    BY <1>1, FS_Subset, FS_CardinalityType
  <1>3. Least(k, n) = k
    <2> HIDE DEF k
    <2> QED
      BY <1>2 DEF Least
  <1>4. OneDraw(n, S)[<<n, k>>] = S
    BY DEF OneDraw
  <1>5. ChallengeIndices(OneDraw(n, S), n, k) = Ascending(IF k = n THEN A ELSE S)
    BY <1>3, <1>4 DEF ChallengeIndices
  <1> QED
    BY <1>2, <1>5

\* A key that passes an audit opens all blocks that were asked for.
LEMMA DrawnOpen ==
    ASSUME NEW n \in Nat \ {0}, NEW blocks, Len(blocks) = n, NEW c, c.layout # "plain",
           NEW S \in SUBSET (0..(n - 1)), NEW key, NEW ctx, NEW x,
           AuditHolds(FileProof(blocks, c, OneDraw(n, S), Cardinality(S), key, ctx),
                      c, OneDraw(n, S), x, ctx),
           NEW i \in S
    PROVE  OpensTo(blocks[i + 1], x)
  <1> DEFINE asked == Ascending(S)
             p == FileProof(blocks, c, OneDraw(n, S), Cardinality(S), key, ctx)
             k == Cardinality(S)
  <1>1. n - 1 \in Nat
    OBVIOUS
  <1>2. PICK j \in 1..k : asked[j] = i
    BY <1>1, AscendingMeets
  <1>3. Len(asked) = k /\ k \in Nat
    BY <1>1, AscendingIs
  <1>4. p.blocks = [h \in 1..k |->
                      [index    |-> asked[h],
                       block    |-> blocks[asked[h] + 1],
                       revealed |-> Decrypted(blocks[asked[h] + 1].points[1], key),
                       path     |-> MerklePath(Tree(blocks), asked[h])]]
    <2>1. ChallengeIndices(OneDraw(n, S), Len(blocks), Cardinality(S)) = asked
      BY OneDrawAsks
    <2> HIDE DEF asked
    <2> QED
      BY <1>3, <2>1 DEF FileProof
  <1>5. BatchHolds(p, c.layout, x, ctx)
    BY DEF AuditHolds, FileProofHolds
  <1> HIDE DEF p, asked, k
  <1>6. Len(p.blocks) = k /\ p.blocks[j].block = blocks[i + 1]
    BY <1>2, <1>3, <1>4
  <1>7. OpensTo(p.blocks[j].block, x)
    BY <1>5, <1>6 DEF BatchHolds
  <1> QED
    BY <1>6, <1>7

\* Sampling stops at the cap, or when enough samples catch.
LEMMA SampleCatches ==
    ASSUME LayoutAssumption, NEW n \in Nat \ {0}
    PROVE  SampleCount(n) = Least(MaxChallenges, n) \/ Catches(n, SampleCount(n))
  <1> DEFINE max == Least(MaxChallenges, n)
             enough == {k \in 1..max : Catches(n, k)}
  <1>1. SampleCount(n) = IF enough = {} THEN max ELSE CHOOSE k \in enough : \A j \in enough : k <= j
    BY DEF SampleCount
  <1>2. enough \in SUBSET Nat
    <2>1. max \in Nat
      BY DEF Least, LayoutAssumption
    <2> QED
      BY <2>1
  <1>3. enough # {} => \E k \in enough : \A j \in enough : k <= j
    <2> HIDE DEF enough
    <2> QED
      BY <1>2, LeastExists
  <1>4. \A k \in enough : Catches(n, k)
    OBVIOUS
  <1> HIDE DEF max, enough
  <1>5. enough # {} => SampleCount(n) \in enough
    BY <1>1, <1>3
  <1>6. enough = {} => SampleCount(n) = max
    BY <1>1
  <1> QED
    BY <1>4, <1>5, <1>6 DEF max
=============================================================================
