-------------------------- MODULE AlgorithmProofs --------------------------
(***************************************************************************)
(* What the algorithms that run on their own compute, proved for every     *)
(* width, order and bound: loops and folds by induction over their rounds. *)
(***************************************************************************)
EXTENDS PointEncoding, SelectorStream, NonceBatch, FixedBase, Induction

-----------------------------------------------------------------------------
(* PointEncoding: a chunk encoded as a point is read back                  *)

\* A point found is a candidate of the chunk for some filler.
FoundIsCandidate ==
    /\ chunk \in UNION {[1..n -> Byte] : n \in 0..PayloadBytes}
    /\ \/ point = Searching
       \/ \E suffix \in SUBSET (FirstFreeBit..(TopBit - 1)) :
            point = [found |-> TRUE, encoding |-> Fill(PackPayload(Payload(chunk)), suffix)]

\* The bits of a payload's bytes are payload bits.
LEMMA BitInPayload ==
    ASSUME EncodingAssumption,
           NEW byte \in 0..(PayloadBytes - 1), NEW bit \in 0..(ByteBits - 1)
    PROVE  byte * ByteBits + bit \in PayloadBits
  <1>1. PayloadBytes \in Nat /\ ByteBits \in Nat
    BY DEF EncodingAssumption
  <1>2. PICK k \in Nat : PayloadBytes = byte + 1 + k
    <2>1. PayloadBytes - byte - 1 \in Nat /\ PayloadBytes = byte + 1 + (PayloadBytes - byte - 1)
      BY <1>1
    <2> QED
      BY <2>1
  <1>3. PayloadBytes * ByteBits = byte * ByteBits + ByteBits + k * ByteBits
    BY <1>1, <1>2
  <1>4. byte * ByteBits \in Nat /\ k * ByteBits \in Nat
    BY <1>1
  <1> QED
    BY <1>1, <1>3, <1>4 DEF PayloadBits

\* Neither the filler nor the top bit touches the payload's bits.
LEMMA PayloadKept ==
    ASSUME EncodingAssumption, NEW payload \in SUBSET PayloadBits,
           NEW suffix \in SUBSET (FirstFreeBit..(TopBit - 1))
    PROVE  UnpackPayload(Fill(PackPayload(payload), suffix)) = payload
  <1> DEFINE last == PayloadBytes * ByteBits
  <1>1. last \in Nat /\ EncodingBits \in Nat /\ last + 1 < EncodingBits
    BY DEF EncodingAssumption
  <1>2. FirstFreeBit = 1 + last /\ PayloadBits = 0..(last - 1)
    BY DEF FirstFreeBit, PayloadBits
  <1> HIDE DEF last
  <1>3. ASSUME NEW b \in PayloadBits
        PROVE  b + 1 \in Fill(PackPayload(payload), suffix) <=> b \in payload
    <2>1. b + 1 \notin FirstFreeBit..(TopBit - 1) /\ b + 1 # TopBit
      BY <1>1, <1>2 DEF TopBit
    <2>2. b + 1 \in PackPayload(payload) <=> b \in payload
      BY <1>1, <1>2 DEF PackPayload
    <2> QED
      BY <2>1, <2>2 DEF Fill
  <1> QED
    BY <1>3 DEF UnpackPayload

\* The low bit stays zero for the point's sign, the top one for canonicity.
LEMMA CandidateMayBePoint ==
    ASSUME EncodingAssumption, NEW payload \in SUBSET PayloadBits
    PROVE  MayBePoint(Fill(PackPayload(payload), {}))
  <1>1. PayloadBytes * ByteBits \in Nat
    BY DEF EncodingAssumption
  <1>2. 0 \notin PackPayload(payload)
    BY <1>1 DEF PackPayload, PayloadBits
  <1> QED
    BY <1>2 DEF MayBePoint, Fill

\* The payload gives back the chunk's bytes.
LEMMA BytesReadBack ==
    ASSUME EncodingAssumption, NEW n \in 0..PayloadBytes, NEW bytes \in [1..n -> Byte],
           NEW encoding, UnpackPayload(encoding) = Payload(bytes)
    PROVE  Decode(encoding, n) = bytes
  <1>1. PayloadBytes \in Nat \ {0} /\ ByteBits \in Nat \ {0} /\ Len(bytes) = n
    BY DEF EncodingAssumption
  <1>2. ASSUME NEW k \in 1..n, NEW b \in 0..(ByteBits - 1)
        PROVE  (k - 1) * ByteBits + b \in Payload(bytes) <=> b \in bytes[k]
    <2>1. k - 1 \in 0..(PayloadBytes - 1) /\ k - 1 < Len(bytes) /\ k - 1 + 1 = k
      BY <1>1
    <2>2. (k - 1) * ByteBits + b \in PayloadBits
      BY <2>1, BitInPayload
    <2>3. ((k - 1) * ByteBits + b) \div ByteBits = k - 1 /\ ((k - 1) * ByteBits + b) % ByteBits = b
      <3>1. PICK byte \in Nat : byte = k - 1
        BY <2>1, <1>1
      <3>2. (byte * ByteBits + b) \div ByteBits = byte /\ (byte * ByteBits + b) % ByteBits = b
        BY <1>1, BitPlace
      <3> QED
        BY <3>1, <3>2
    <2> QED
      BY <2>1, <2>2, <2>3 DEF Payload
  <1>3. ASSUME NEW k \in 1..n
        PROVE  {b \in 0..(ByteBits - 1) : (k - 1) * ByteBits + b \in UnpackPayload(encoding)} = bytes[k]
    BY <1>2 DEF Byte
  <1> QED
    BY <1>3 DEF Decode

LEMMA FoundReadBack ==
    ASSUME EncodingAssumption, FoundIsCandidate
    PROVE  ChunkReadBack
  <1>1. PICK n \in 0..PayloadBytes : chunk \in [1..n -> Byte]
    BY DEF FoundIsCandidate
  <1>2. Len(chunk) = n /\ Payload(chunk) \in SUBSET PayloadBits
    BY <1>1 DEF EncodingAssumption, Payload
  <1>3. ASSUME point.found
        PROVE  Decode(point.encoding, Len(chunk)) = chunk
    <2>1. PICK suffix \in SUBSET (FirstFreeBit..(TopBit - 1)) :
              point = [found |-> TRUE, encoding |-> Fill(PackPayload(Payload(chunk)), suffix)]
      BY <1>3 DEF FoundIsCandidate, Searching
    <2>2. UnpackPayload(point.encoding) = Payload(chunk)
      BY <1>2, <2>1, PayloadKept
    <2> QED
      BY <1>1, <1>2, <2>2, BytesReadBack
  <1>4. MayBePoint(Fill(PackPayload(Payload(chunk)), {}))
    BY <1>2, CandidateMayBePoint
  <1> QED
    BY <1>3, <1>4 DEF ChunkReadBack

\* Whatever the width of a payload and of an encoding, every chunk has a
\* candidate that may be a point, and a point found by encode_chunk_to_point
\* gives the chunk back in decode_point_to_chunk, whatever filled the free bits.
THEOREM EncodedChunkReadBack ==
    ASSUME EncodingAssumption
    PROVE  EncodingSpec => []ChunkReadBack
  <1>1. EncodingInit => FoundIsCandidate
    BY DEF EncodingInit, FoundIsCandidate
  <1>2. FoundIsCandidate /\ [EncodingNext]_encodingVars => FoundIsCandidate'
    <2>1. CASE Attempt
      BY <2>1 DEF Attempt, FoundIsCandidate
    <2>2. CASE UNCHANGED encodingVars
      BY <2>2 DEF encodingVars, FoundIsCandidate
    <2> QED
      BY <2>1, <2>2 DEF EncodingNext
  <1>3. FoundIsCandidate => ChunkReadBack
    BY FoundReadBack, EncodingAssumption
  <1> QED
    BY <1>1, <1>2, <1>3, PTL DEF EncodingSpec

-----------------------------------------------------------------------------
(* SelectorStream                                                          *)

\* The places in byte b of the first m selectors' bits that are one.
Placed(b, m) ==
    {p \in 0..(StreamByteBits - 1) :
        \E k \in 1..m : \E bit \in selectors[k] :
            BitIndex(k - 1, bit) \div StreamByteBits = b /\ BitIndex(k - 1, bit) % StreamByteBits = p}

\* The bytes hold the bits of the selectors packed so far and nothing else.
PackedSoFar ==
    /\ \E n \in 0..MaxSelectors : selectors \in [1..n -> Selector]
    /\ next \in 0..Len(selectors)
    /\ out = [b \in 0..(Need(Len(selectors)) - 1) |-> Placed(b, next)]

\* A number below a total is in a block below the number of blocks needed.
LEMMA BlockNeeded ==
    ASSUME NEW width \in Nat \ {0}, NEW total \in Nat, NEW n \in 0..(total - 1)
    PROVE  n \div width \in 0..((total + width - 1) \div width - 1)
  <1> DEFINE q == n \div width
             blocks == (total + width - 1) \div width
  <1>1. q \in Nat /\ blocks \in Nat
    BY Z3
  <1>2. width * q <= n /\ n < total
    OBVIOUS
  <1>3. total <= width * blocks
    <2>1. total + width - 1 = width * blocks + ((total + width - 1) % width)
      OBVIOUS
    <2>2. (total + width - 1) % width \in 0..(width - 1)
      OBVIOUS
    <2>3. width * blocks \in Nat
      BY <1>1
    <2> HIDE DEF blocks
    <2> QED
      BY <2>1, <2>2, <2>3
  <1>4. q < blocks
    <2> HIDE DEF q, blocks
    <2> SUFFICES ASSUME blocks <= q PROVE FALSE
      BY <1>1
    <2>1. PICK k \in Nat : q = blocks + k
      <3>1. q - blocks \in Nat /\ q = blocks + (q - blocks)
        BY <1>1
      <3> QED
        BY <3>1
    <2>2. width * q = width * blocks + width * k /\ width * k \in Nat /\ width * blocks \in Nat
      BY <1>1, <2>1
    <2> QED
      BY <1>2, <1>3, <2>2
  <1> HIDE DEF q, blocks
  <1> QED
    BY <1>1, <1>4 DEF q, blocks

\* A bit of a selector has a number, and a place in the bytes.
LEMMA SelectorBit ==
    ASSUME StreamAssumption, NEW n \in Nat, NEW k \in 1..n, NEW bit \in 0..(SelectorBits - 1)
    PROVE  /\ BitIndex(k - 1, bit) \in Nat
           /\ BitIndex(k - 1, bit) \div StreamByteBits \in 0..(Need(n) - 1)
           /\ BitIndex(k - 1, bit) % StreamByteBits \in 0..(StreamByteBits - 1)
  <1>1. SelectorBits \in Nat \ {0} /\ StreamByteBits \in Nat \ {0}
    BY DEF StreamAssumption
  <1>2. PICK j \in Nat : n = k + j
    <2>1. n - k \in Nat /\ n = k + (n - k)
      OBVIOUS
    <2> QED
      BY <2>1
  <1> DEFINE p == k - 1
             index == p * SelectorBits + bit
  <1>3. index \in Nat /\ index < n * SelectorBits /\ n * SelectorBits \in Nat
    <2>1. p \in Nat /\ n = p + 1 + j
      BY <1>2
    <2> HIDE DEF p
    <2>2. n * SelectorBits = p * SelectorBits + SelectorBits + j * SelectorBits
      BY <1>1, <2>1
    <2>3. p * SelectorBits \in Nat /\ j * SelectorBits \in Nat
      BY <1>1, <2>1
    <2> QED
      BY <1>1, <2>2, <2>3
  <1>4. index = BitIndex(k - 1, bit)
    BY DEF BitIndex
  <1> HIDE DEF index
  <1>5. index \in 0..(n * SelectorBits - 1)
    BY <1>3
  <1>6. index \div StreamByteBits \in 0..(Need(n) - 1)
    BY <1>1, <1>3, <1>5, BlockNeeded DEF Need
  <1>7. index % StreamByteBits \in 0..(StreamByteBits - 1)
    BY <1>1, <1>3
  <1> QED
    BY <1>3, <1>4, <1>6, <1>7

\* Two bits of selectors that share a byte and a place there are one.
LEMMA SelectorBitsApart ==
    ASSUME StreamAssumption,
           NEW k \in Nat \ {0}, NEW bit \in 0..(SelectorBits - 1),
           NEW j \in Nat \ {0}, NEW other \in 0..(SelectorBits - 1),
           BitIndex(k - 1, bit) \div StreamByteBits = BitIndex(j - 1, other) \div StreamByteBits,
           BitIndex(k - 1, bit) % StreamByteBits = BitIndex(j - 1, other) % StreamByteBits
    PROVE  k = j /\ bit = other
  <1>1. SelectorBits \in Nat \ {0} /\ StreamByteBits \in Nat \ {0}
    BY DEF StreamAssumption
  <1> DEFINE a == BitIndex(k - 1, bit)
             b == BitIndex(j - 1, other)
  <1>2. a \in Nat /\ b \in Nat
    <2>1. k \in 1..k /\ j \in 1..j /\ k \in Nat /\ j \in Nat
      OBVIOUS
    <2> QED
      BY <2>1, SelectorBit
  <1>3. a = b
    <2> HIDE DEF a, b
    <2>1. /\ a = StreamByteBits * (a \div StreamByteBits) + (a % StreamByteBits)
          /\ b = StreamByteBits * (b \div StreamByteBits) + (b % StreamByteBits)
      BY <1>1, <1>2
    <2> QED
      BY <2>1 DEF a, b
  <1>4. PICK p \in Nat, q \in Nat : p = k - 1 /\ q = j - 1
    OBVIOUS
  <1>5. SelectorBits * p + bit = SelectorBits * q + other
    <2>1. a = p * SelectorBits + bit /\ b = q * SelectorBits + other
      BY <1>4 DEF BitIndex
    <2>2. p * SelectorBits = SelectorBits * p /\ q * SelectorBits = SelectorBits * q
      BY <1>1, <1>4
    <2> HIDE DEF a, b
    <2> QED
      BY <1>3, <2>1, <2>2
  <1>6. p = q /\ bit = other
    BY <1>1, <1>4, <1>5, QuotientUnique
  <1> QED
    BY <1>4, <1>6

LEMMA PackedStep ==
    ASSUME StreamAssumption, PackedSoFar, PackNext
    PROVE  PackedSoFar'
  <1>1. PICK n \in 0..MaxSelectors : selectors \in [1..n -> Selector]
    BY DEF PackedSoFar
  <1>2. n \in Nat /\ Len(selectors) = n /\ next \in 0..n /\ next < n /\ next + 1 \in 1..n
    BY <1>1 DEF PackedSoFar, PackNext, StreamAssumption
  <1> DEFINE Here(b) == {bit \in selectors[next + 1] : BitIndex(next, bit) \div StreamByteBits = b}
             new(b) == {BitIndex(next, bit) % StreamByteBits : bit \in Here(b)}
  <1>3. ASSUME NEW b \in 0..(Need(n) - 1)
        PROVE  Placed(b, next) \cup new(b) = Placed(b, next + 1)
    <2>1. next = (next + 1) - 1 /\ next \in Nat
      BY <1>2
    <2>2. ASSUME NEW bit \in selectors[next + 1]
          PROVE  BitIndex(next, bit) % StreamByteBits \in 0..(StreamByteBits - 1)
      <3>1. bit \in 0..(SelectorBits - 1)
        BY <1>1, <1>2 DEF Selector
      <3> QED
        BY <1>2, <2>1, <3>1, SelectorBit
    <2>3. 1..(next + 1) = (1..next) \cup {next + 1}
      BY <2>1
    <2> QED
      BY <2>1, <2>2, <2>3 DEF Placed
  <1>4. /\ selectors' = selectors
        /\ next' = next + 1
        /\ out' = [b \in DOMAIN out |-> out[b] \cup new(b)]
    BY DEF PackNext
  <1>5. DOMAIN out = 0..(Need(n) - 1) /\ \A b \in 0..(Need(n) - 1) : out[b] = Placed(b, next)
    BY <1>2 DEF PackedSoFar
  <1>6. \A b : Placed(b, next + 1)' = Placed(b, next + 1)'
    OBVIOUS
  <1> HIDE DEF new
  <1>7. out' = [b \in 0..(Need(n) - 1) |-> Placed(b, next + 1)]
    BY <1>3, <1>4, <1>5
  <1>8. out' = [b \in 0..(Need(Len(selectors)) - 1) |-> Placed(b, next)]'
    BY <1>2, <1>4, <1>7 DEF Placed
  <1> QED
    BY <1>1, <1>2, <1>4, <1>8 DEF PackedSoFar

LEMMA PackedReadBack ==
    ASSUME StreamAssumption, PackedSoFar
    PROVE  SelectorsReadBack
  <1>1. PICK n \in 0..MaxSelectors : selectors \in [1..n -> Selector]
    BY DEF PackedSoFar
  <1>2. n \in Nat /\ Len(selectors) = n /\ next \in 0..n
    BY <1>1 DEF PackedSoFar, StreamAssumption
  <1>3. ASSUME NEW k \in 1..n, NEW bit \in 0..(SelectorBits - 1)
        PROVE  BitIndex(k - 1, bit) % StreamByteBits
                   \in out[BitIndex(k - 1, bit) \div StreamByteBits]
               <=> k <= next /\ bit \in selectors[k]
    <2> DEFINE b == BitIndex(k - 1, bit) \div StreamByteBits
               p == BitIndex(k - 1, bit) % StreamByteBits
    <2>1. b \in 0..(Need(n) - 1) /\ p \in 0..(StreamByteBits - 1)
      BY <1>2, SelectorBit
    <2>2. out[b] = Placed(b, next)
      BY <1>2, <2>1 DEF PackedSoFar
    <2>3. ASSUME NEW j \in 1..next, NEW other \in selectors[j],
                 BitIndex(j - 1, other) \div StreamByteBits = b,
                 BitIndex(j - 1, other) % StreamByteBits = p
          PROVE  j = k /\ other = bit
      <3>1. j \in 1..n /\ j \in Nat \ {0} /\ k \in Nat \ {0}
        BY <1>2
      <3>2. other \in 0..(SelectorBits - 1)
        BY <1>1, <3>1 DEF Selector
      <3>3. /\ BitIndex(k - 1, bit) \div StreamByteBits = BitIndex(j - 1, other) \div StreamByteBits
            /\ BitIndex(k - 1, bit) % StreamByteBits = BitIndex(j - 1, other) % StreamByteBits
        BY <2>3
      <3> HIDE DEF b, p
      <3> QED
        BY <1>2, <3>1, <3>2, <3>3, SelectorBitsApart
    <2>4. k <= next => k \in 1..next
      BY <1>2
    <2>5. p \in Placed(b, next) <=> \E j \in 1..next : \E other \in selectors[j] :
              /\ BitIndex(j - 1, other) \div StreamByteBits = b
              /\ BitIndex(j - 1, other) % StreamByteBits = p
      BY <2>1 DEF Placed
    <2> HIDE DEF b, p
    <2>6. p \in Placed(b, next) => k <= next /\ bit \in selectors[k]
      BY <1>2, <2>3, <2>5
    <2>7. k <= next /\ bit \in selectors[k] => p \in Placed(b, next)
      BY <2>4, <2>5 DEF b, p
    <2> QED
      BY <2>2, <2>6, <2>7 DEF b, p
  <1>4. ASSUME NEW k \in 1..n
        PROVE  {bit \in 0..(SelectorBits - 1) :
                   BitIndex(k - 1, bit) % StreamByteBits
                       \in out[BitIndex(k - 1, bit) \div StreamByteBits]}
               = IF k <= next THEN selectors[k] ELSE {}
    <2>1. selectors[k] \subseteq 0..(SelectorBits - 1)
      BY <1>1 DEF Selector
    <2> QED
      BY <1>3, <2>1
  <1> QED
    BY <1>2, <1>4 DEF SelectorsReadBack, Unpack

\* Whatever the widths of a selector and of a byte, and however many selectors,
\* unpack_selectors reads back what pack_selectors packed, after every one.
THEOREM PackedSelectorsReadBack ==
    ASSUME StreamAssumption
    PROVE  StreamSpec => []SelectorsReadBack
  <1>1. StreamInit => PackedSoFar
    <2> SUFFICES ASSUME StreamInit PROVE PackedSoFar
      OBVIOUS
    <2>1. PICK n \in 0..MaxSelectors : selectors \in [1..n -> Selector]
      BY DEF StreamInit
    <2>2. Len(selectors) = n /\ n \in Nat
      BY <2>1 DEF StreamAssumption
    <2>3. \A b : Placed(b, 0) = {}
      BY DEF Placed
    <2> QED
      BY <2>1, <2>2, <2>3 DEF StreamInit, PackedSoFar
  <1>2. PackedSoFar /\ [StreamNext]_streamVars => PackedSoFar'
    <2>1. CASE PackNext
      BY <2>1, PackedStep, StreamAssumption
    <2>2. CASE UNCHANGED streamVars
      BY <2>2 DEF streamVars, PackedSoFar, Placed
    <2> QED
      BY <2>1, <2>2 DEF StreamNext
  <1>3. PackedSoFar => SelectorsReadBack
    BY PackedReadBack
  <1> QED
    BY <1>1, <1>2, <1>3, PTL DEF StreamSpec

-----------------------------------------------------------------------------
(* NonceBatch                                                              *)

\* A batch of nonces within the bound.
BatchTyped == \E n \in 0..(2^MaxDepth) : leaves \in [1..n -> Nonce]

Nodes(d) == 0..(2^(Depth - d) - 1)

\* The padded length is the power of two the depth is of.
LEMMA DepthOfBatch ==
    ASSUME BatchAssumption, BatchTyped
    PROVE  /\ Depth \in 0..MaxDepth
           /\ 2^Depth = PaddedLen(Len(leaves))
           /\ Len(leaves) \in Nat /\ Len(leaves) <= 2^Depth
  <1> DEFINE Powers == {2^d : d \in 0..MaxDepth}
             Enough == {p \in Powers : Len(leaves) <= p}
  <1>1. MaxDepth \in Nat
    BY DEF BatchAssumption
  <1>2. Len(leaves) \in Nat /\ Len(leaves) <= 2^MaxDepth
    BY <1>1, PowerDoubles DEF BatchTyped
  <1>3. Enough \in SUBSET Nat /\ Enough # {}
    <2>1. \A d \in 0..MaxDepth : 2^d \in Nat
      BY PowerDoubles
    <2>2. MaxDepth \in 0..MaxDepth
      BY <1>1
    <2> QED
      BY <1>2, <2>1, <2>2
  <1>4. PICK p \in Enough : \A q \in Enough : p <= q
    <2> HIDE DEF Enough
    <2> QED
      BY <1>3, LeastExists
  <1>5. PaddedLen(Len(leaves)) \in Enough
    BY <1>4 DEF PaddedLen
  <1>6. \E d \in 0..MaxDepth : 2^d = PaddedLen(Len(leaves))
    BY <1>5
  <1>7. Depth \in 0..MaxDepth /\ 2^Depth = PaddedLen(Len(leaves))
    BY <1>6 DEF Depth
  <1> QED
    BY <1>2, <1>5, <1>7

\* One height above another has half the nodes.
LEMMA NodesHalve ==
    ASSUME NEW depth \in Nat, NEW d \in 0..(depth - 1)
    PROVE  /\ 2^(depth - d) \in Nat /\ 2^(depth - (d + 1)) \in Nat \ {0}
           /\ 2^(depth - d) = 2 * 2^(depth - (d + 1))
           /\ 2^(depth - d) > 1
           /\ 2^(depth - d) \div 2 = 2^(depth - (d + 1))
  <1>1. depth - (d + 1) \in Nat /\ depth - d = (depth - (d + 1)) + 1
    OBVIOUS
  <1> DEFINE m == depth - (d + 1)
             half == 2^m
  <1>2. half \in Nat \ {0} /\ 2^(m + 1) = 2 * half
    BY <1>1, PowerDoubles
  <1>3. 2^(depth - d) = 2 * half
    BY <1>1, <1>2
  <1> HIDE DEF half
  <1>4. 2 * half \in Nat /\ 2 * half > 1 /\ (2 * half) \div 2 = half
    BY <1>2
  <1> QED
    BY <1>2, <1>3, <1>4 DEF half

\* A function that obeys the definition of Tree up to a height.
TreeUpTo(f, top) ==
    f = [d \in 0..top |->
            [j \in Nodes(d) |->
                IF d = 0
                THEN LeafHash(IF j < Len(leaves) THEN leaves[j + 1] ELSE Zero)
                ELSE PairHash(f[d - 1][2 * j], f[d - 1][2 * j + 1])]]

\* Tree is what its recursive definition says.
LEMMA TreeDefined ==
    ASSUME BatchAssumption, BatchTyped
    PROVE  TreeUpTo(Tree, Depth)
  <1> DEFINE Leaf(j) == LeafHash(IF j < Len(leaves) THEN leaves[j + 1] ELSE Zero)
             S == {k \in Nat : \E f : TreeUpTo(f, k)}
  <1>1. 0 \in S
    <2> DEFINE f == [d \in 0..0 |-> [j \in Nodes(d) |-> Leaf(j)]]
    <2>1. TreeUpTo(f, 0)
      BY DEF TreeUpTo
    <2> QED
      BY <2>1
  <1>2. ASSUME NEW k \in Nat, k \in S
        PROVE  k + 1 \in S
    <2>1. PICK f : TreeUpTo(f, k)
      BY <1>2
    <2> DEFINE g == [d \in 0..(k + 1) |->
                        IF d = k + 1
                        THEN [j \in Nodes(d) |-> PairHash(f[k][2 * j], f[k][2 * j + 1])]
                        ELSE f[d]]
    <2>2. ASSUME NEW d \in 0..(k + 1)
          PROVE  g[d] = [j \in Nodes(d) |->
                            IF d = 0 THEN Leaf(j) ELSE PairHash(g[d - 1][2 * j], g[d - 1][2 * j + 1])]
      <3>1. CASE d = k + 1
        <4>1. d # 0 /\ d - 1 = k /\ d - 1 \in 0..(k + 1) /\ d - 1 # k + 1
          BY <3>1
        <4> QED
          BY <3>1, <4>1
      <3>2. CASE d # k + 1
        <4>1. d \in 0..k /\ g[d] = f[d]
          BY <3>2
        <4>2. d # 0 => d - 1 \in 0..(k + 1) /\ d - 1 # k + 1 /\ g[d - 1] = f[d - 1]
          BY <4>1
        <4>3. f[d] = [j \in Nodes(d) |->
                         IF d = 0 THEN Leaf(j) ELSE PairHash(f[d - 1][2 * j], f[d - 1][2 * j + 1])]
          BY <2>1, <4>1 DEF TreeUpTo
        <4> QED
          BY <4>1, <4>2, <4>3
      <3> QED
        BY <3>1, <3>2
    <2>3. TreeUpTo(g, k + 1)
      BY <2>2 DEF TreeUpTo
    <2> QED
      BY <2>3
  <1>3. Depth \in S
    <2>1. Depth \in Nat
      BY DepthOfBatch
    <2> HIDE DEF S
    <2> QED
      BY <1>1, <1>2, <2>1, SetInduction
  <1>4. \E f : TreeUpTo(f, Depth)
    BY <1>3
  <1>5. Tree = CHOOSE f : TreeUpTo(f, Depth)
    BY DEF Tree, TreeUpTo, Nodes
  <1> QED
    BY <1>4, <1>5

\* The nodes of a height, from the leaves or from the height below.
LEMMA TreeNodes ==
    ASSUME BatchAssumption, BatchTyped
    PROVE  /\ Tree[0] = PaddedHashes(leaves)
           /\ \A d \in 1..Depth : Tree[d] =
                 [j \in Nodes(d) |-> PairHash(Tree[d - 1][2 * j], Tree[d - 1][2 * j + 1])]
  <1>1. Depth \in Nat /\ 2^Depth = PaddedLen(Len(leaves)) /\ Depth - 0 = Depth
    BY DepthOfBatch
  <1>2. Tree[0] = [j \in Nodes(0) |-> LeafHash(IF j < Len(leaves) THEN leaves[j + 1] ELSE Zero)]
    BY <1>1, TreeDefined DEF TreeUpTo
  <1>3. Nodes(0) = 0..(PaddedLen(Len(leaves)) - 1)
    BY <1>1 DEF Nodes
  <1>4. \A d \in 1..Depth : Tree[d] =
           [j \in Nodes(d) |-> PairHash(Tree[d - 1][2 * j], Tree[d - 1][2 * j + 1])]
    BY <1>1, TreeDefined DEF TreeUpTo
  <1> QED
    BY <1>2, <1>3, <1>4 DEF PaddedHashes

\* While a level is hashed, its first places hold the nodes above it, and what
\* is still to be read is as the level began.
Hashing(d) ==
    /\ levelSize = 2^(Depth - d)
    /\ i \in 0..(levelSize \div 2)
    /\ \A j \in Nat : j < i => hashes[j] = Tree[d + 1][j]
    /\ \A j \in Nodes(d) : 2 * i <= j => hashes[j] = Tree[d][j]

HashingSound ==
    /\ BatchTyped
    /\ DOMAIN hashes = 0..(2^Depth - 1)
    /\ \E d \in 0..Depth : Hashing(d)

LEMMA HashingStarts ==
    ASSUME BatchAssumption, BatchInit
    PROVE  HashingSound
  <1>1. BatchTyped
    BY DEF BatchInit, BatchTyped
  <1>2. Depth \in Nat /\ 2^Depth = PaddedLen(Len(leaves)) /\ Depth - 0 = Depth /\ 2^Depth \in Nat
    BY <1>1, DepthOfBatch, PowerDoubles
  <1>3. DOMAIN hashes = 0..(2^Depth - 1)
    BY <1>2 DEF BatchInit, PaddedHashes
  <1>4. Hashing(0)
    <2>1. hashes = Tree[0]
      BY <1>1, TreeNodes DEF BatchInit
    <2>2. i = 0 /\ levelSize = 2^(Depth - 0)
      BY <1>2 DEF BatchInit
    <2>3. 0 \in 0..(levelSize \div 2)
      BY <1>2, <2>2
    <2> QED
      BY <2>1, <2>2, <2>3 DEF Hashing
  <1> QED
    BY <1>1, <1>2, <1>3, <1>4 DEF HashingSound

\* Leaves that stay keep the depth and the tree.
LEMMA TreeKept ==
    ASSUME UNCHANGED leaves
    PROVE  Depth' = Depth /\ Tree' = Tree /\ BatchTyped' = BatchTyped
           /\ \A d : Nodes(d)' = Nodes(d)
  BY DEF Depth, Tree, BatchTyped, PaddedLen, Nodes

LEMMA HashPairSound ==
    ASSUME BatchAssumption, HashingSound, NextPair
    PROVE  HashingSound'
  <1>1. Depth' = Depth /\ Tree' = Tree /\ BatchTyped' /\ \A d : Nodes(d)' = Nodes(d)
    BY TreeKept DEF NextPair, HashingSound
  <1>2. PICK d \in 0..Depth : Hashing(d)
    BY DEF HashingSound
  <1>3. Depth \in Nat /\ BatchTyped
    BY DepthOfBatch DEF HashingSound
  <1>4. d # Depth
    <2>1. 2^(Depth - Depth) = 1
      <3>1. Depth - Depth = 0
        BY <1>3
      <3> QED
        BY <3>1, PowerOfZero
    <2>2. levelSize = 2^(Depth - d) /\ levelSize > 1
      BY <1>2 DEF Hashing, NextPair
    <2> QED
      BY <2>1, <2>2
  <1>5. d \in 0..(Depth - 1) /\ d + 1 \in 1..Depth /\ d + 1 - 1 = d
    BY <1>3, <1>4
  <1> DEFINE half == 2^(Depth - (d + 1))
  <1>6. half \in Nat \ {0} /\ levelSize = 2 * half /\ levelSize \div 2 = half
    BY <1>2, <1>3, <1>5, NodesHalve DEF Hashing
  <1>7. Nodes(d) = 0..(2 * half - 1) /\ Nodes(d + 1) = 0..(half - 1)
    BY <1>2, <1>6 DEF Nodes, Hashing
  <1> HIDE DEF half
  <1>8. i \in 0..(half - 1) /\ i' = i + 1 /\ levelSize' = levelSize
    BY <1>2, <1>6 DEF NextPair, Hashing
  <1>9. hashes' = [hashes EXCEPT ![i] = PairHash(hashes[2 * i], hashes[2 * i + 1])]
    BY DEF NextPair, HashPair
  <1>10. PairHash(hashes[2 * i], hashes[2 * i + 1]) = Tree[d + 1][i]
    <2>1. 2 * i \in Nodes(d) /\ 2 * i + 1 \in Nodes(d) /\ 2 * i <= 2 * i /\ 2 * i <= 2 * i + 1
      BY <1>6, <1>7, <1>8
    <2>2. hashes[2 * i] = Tree[d][2 * i] /\ hashes[2 * i + 1] = Tree[d][2 * i + 1]
      BY <1>2, <2>1 DEF Hashing
    <2>3. Tree[d + 1] = [j \in Nodes(d + 1) |-> PairHash(Tree[d][2 * j], Tree[d][2 * j + 1])]
      BY <1>3, <1>5, TreeNodes
    <2> QED
      BY <1>7, <1>8, <2>2, <2>3
  <1>11. i \in DOMAIN hashes
    <2>1. ASSUME NEW k \in 0..Depth PROVE 2^(Depth - k) <= 2^Depth
      <3> DEFINE S == {n \in Nat : n <= Depth => 2^(Depth - n) <= 2^Depth /\ 2^(Depth - n) \in Nat}
      <3>1. 0 \in S
        BY <1>3, PowerDoubles
      <3>2. ASSUME NEW n \in Nat, n \in S
            PROVE  n + 1 \in S
        <4> SUFFICES ASSUME n + 1 <= Depth
                     PROVE  2^(Depth - (n + 1)) <= 2^Depth /\ 2^(Depth - (n + 1)) \in Nat
          OBVIOUS
        <4>1. n \in 0..(Depth - 1) /\ n <= Depth
          BY <1>3
        <4>2. /\ 2^(Depth - n) = 2 * 2^(Depth - (n + 1))
              /\ 2^(Depth - (n + 1)) \in Nat /\ 2^(Depth - n) <= 2^Depth
          BY <1>3, <3>2, <4>1, NodesHalve
        <4>3. 2^Depth \in Nat
          BY <1>3, PowerDoubles
        <4> QED
          BY <4>2, <4>3
      <3>3. k \in S
        <4>1. k \in Nat
          BY <1>3
        <4> HIDE DEF S
        <4> QED
          BY <3>1, <3>2, <4>1, SetInduction
      <3> QED
        BY <1>3, <3>3
    <2>2. levelSize <= 2^Depth /\ 2^Depth \in Nat
      BY <1>2, <1>3, <2>1, PowerDoubles DEF Hashing
    <2> QED
      BY <1>6, <1>8, <2>2 DEF HashingSound
  <1>12. ASSUME NEW j \in Nat, j < i + 1
         PROVE  hashes'[j] = Tree[d + 1][j]
    <2>1. CASE j = i
      BY <1>9, <1>10, <1>11, <2>1
    <2>2. CASE j < i
      BY <1>2, <1>8, <1>9, <2>2 DEF Hashing
    <2> QED
      BY <1>8, <1>12, <2>1, <2>2
  <1>13. ASSUME NEW j \in Nodes(d), 2 * (i + 1) <= j
         PROVE  hashes'[j] = Tree[d][j]
    <2>1. j # i /\ 2 * i <= j
      BY <1>7, <1>8, <1>13, <1>6
    <2> QED
      BY <1>2, <1>9, <2>1 DEF Hashing
  <1>14. Hashing(d)'
    <2>1. levelSize' = 2^(Depth - d) /\ i' \in 0..(levelSize' \div 2)
      BY <1>2, <1>6, <1>8 DEF Hashing
    <2> QED
      BY <1>1, <1>8, <1>12, <1>13, <2>1 DEF Hashing
  <1> QED
    BY <1>1, <1>9, <1>14 DEF HashingSound

LEMMA NextLevelSound ==
    ASSUME BatchAssumption, HashingSound, NextLevel
    PROVE  HashingSound'
  <1>1. Depth' = Depth /\ Tree' = Tree /\ BatchTyped' /\ \A d : Nodes(d)' = Nodes(d)
    BY TreeKept DEF NextLevel, HashingSound
  <1>2. PICK d \in 0..Depth : Hashing(d)
    BY DEF HashingSound
  <1>3. Depth \in Nat /\ BatchTyped
    BY DepthOfBatch DEF HashingSound
  <1>4. d # Depth
    <2>1. 2^(Depth - Depth) = 1
      <3>1. Depth - Depth = 0
        BY <1>3
      <3> QED
        BY <3>1, PowerOfZero
    <2>2. levelSize = 2^(Depth - d) /\ levelSize > 1
      BY <1>2 DEF Hashing, NextLevel
    <2> QED
      BY <2>1, <2>2
  <1>5. d \in 0..(Depth - 1) /\ d + 1 \in 0..Depth
    BY <1>3, <1>4
  <1> DEFINE half == 2^(Depth - (d + 1))
  <1>6. half \in Nat \ {0} /\ levelSize = 2 * half /\ levelSize \div 2 = half
    BY <1>2, <1>3, <1>5, NodesHalve DEF Hashing
  <1>7. Nodes(d + 1) = 0..(half - 1)
    BY DEF Nodes
  <1>8. levelSize' = half /\ i' = 0 /\ hashes' = hashes /\ i = half
    BY <1>6 DEF NextLevel
  <1>9. \A j \in Nodes(d + 1) : hashes[j] = Tree[d + 1][j]
    BY <1>2, <1>6, <1>7, <1>8 DEF Hashing
  <1>10. Hashing(d + 1)'
    <2>1. levelSize' = 2^(Depth - (d + 1))
      BY <1>8
    <2>2. i' \in 0..(levelSize' \div 2)
      <3> HIDE DEF half
      <3> QED
        BY <1>6, <1>8
    <2>3. \A j \in Nat : ~(j < i')
      BY <1>8
    <2> QED
      BY <1>1, <1>8, <1>9, <2>1, <2>2, <2>3 DEF Hashing
  <1> QED
    BY <1>1, <1>5, <1>8, <1>10 DEF HashingSound

LEMMA HashedRoot ==
    ASSUME BatchAssumption, HashingSound, Built
    PROVE  Root = Tree[Depth][0]
  <1>1. Depth \in Nat /\ BatchTyped
    BY DepthOfBatch DEF HashingSound
  <1>2. PICK d \in 0..Depth : Hashing(d)
    BY DEF HashingSound
  <1>3. d = Depth
    <2> SUFFICES ASSUME d # Depth PROVE FALSE
      OBVIOUS
    <2>1. d \in 0..(Depth - 1)
      BY <1>1
    <2>2. 2^(Depth - d) > 1
      BY <1>1, <2>1, NodesHalve
    <2> QED
      BY <1>2, <2>2 DEF Hashing, Built
  <1>4. 0 \in Nodes(d) /\ i = 0
    <2>1. 2^(Depth - d) = 1
      BY <1>2 DEF Hashing, Built
    <2> QED
      BY <1>2, <2>1 DEF Hashing, Nodes, Built
  <1> QED
    BY <1>2, <1>3, <1>4 DEF Hashing, Root

\* The invariant of MerkleTree::build.
LEMMA BuildSound ==
    ASSUME BatchAssumption
    PROVE  BatchSpec => []HashingSound
  <1>1. BatchInit => HashingSound
    BY HashingStarts
  <1>2. HashingSound /\ [BatchNext]_batchVars => HashingSound'
    <2>1. ASSUME HashingSound, NextPair PROVE HashingSound'
      BY <2>1, HashPairSound
    <2>2. ASSUME HashingSound, NextLevel PROVE HashingSound'
      BY <2>2, NextLevelSound
    <2>3. ASSUME HashingSound, UNCHANGED batchVars PROVE HashingSound'
      <3>1. Depth' = Depth /\ Tree' = Tree /\ BatchTyped' = BatchTyped /\ \A d : Nodes(d)' = Nodes(d)
        BY <2>3, TreeKept DEF batchVars
      <3> QED
        BY <2>3, <3>1 DEF batchVars, HashingSound, Hashing
    <2> QED
      BY <2>1, <2>2, <2>3 DEF BatchNext
  <1> QED
    BY <1>1, <1>2, PTL DEF BatchSpec

\* Whatever the size of a batch, hashing in place gives the root that the
\* definition of a Merkle tree gives.
THEOREM RootIsDefined ==
    ASSUME BatchAssumption
    PROVE  BatchSpec => []RootExact
  <1>1. HashingSound => RootExact
    BY HashedRoot DEF RootExact
  <1> QED
    BY <1>1, BuildSound, PTL

Climbing == INSTANCE Folding WITH Op <- Climb
Joining == INSTANCE Folding WITH Op <- Join

\* The path of an index after k levels, and the node over the index there.
PathBase(index) == [siblings |-> <<>>, idx |-> index, level |-> PaddedHashes(leaves)]
PathAt(index, k) == Climbing!After(PathBase(index), [d \in 1..Depth |-> d], k)
Ancestor(index, k) == PathAt(index, k).idx

LEMMA PathSteps ==
    ASSUME Depth \in Nat, NEW index
    PROVE  /\ PathAt(index, 0) = PathBase(index)
           /\ \A k \in 1..Depth : PathAt(index, k) = Climb(PathAt(index, k - 1), k)
           /\ MerkleProof(index) = [leaf |-> leaves[index + 1],
                                    siblings |-> PathAt(index, Depth).siblings, index |-> index]
  <1> DEFINE first == PathBase(index)
             seq == [d \in 1..Depth |-> d]
  <1>1. FoldLeft(Climb, first, seq) = Climbing!Fold(first, seq)
    BY Zenon DEF Climbing!Fold, Climbing!FoldLeft, FoldLeft, Climbing!MapThenFoldSet,
                 MapThenFoldSet, Climbing!Max, Max
  <1>2. DOMAIN seq = 1..Depth
    OBVIOUS
  <1>3. MerkleProof(index) = [leaf |-> leaves[index + 1],
                              siblings |-> FoldLeft(Climb, first, seq).siblings, index |-> index]
    BY DEF MerkleProof, PathBase
  <1> HIDE DEF first, seq
  <1>4. Climbing!Fold(first, seq) = Climbing!After(first, seq, Depth)
    BY <1>2, Climbing!FoldSteps
  <1>5. Climbing!After(first, seq, 0) = first
    BY <1>2, Climbing!FoldSteps
  <1>6. ASSUME NEW k \in 1..Depth
        PROVE  Climbing!After(first, seq, k) = Climb(Climbing!After(first, seq, k - 1), seq[k])
    BY <1>2, Climbing!FoldSteps
  <1>7. \A k : PathAt(index, k) = Climbing!After(first, seq, k)
    BY DEF PathAt, first, seq
  <1>8. FoldLeft(Climb, first, seq).siblings = PathAt(index, Depth).siblings
    BY <1>1, <1>4, <1>7, Zenon
  <1>9. MerkleProof(index) = [leaf |-> leaves[index + 1],
                              siblings |-> PathAt(index, Depth).siblings, index |-> index]
    BY <1>3, <1>8, Zenon
  <1>10. \A k \in 1..Depth : PathAt(index, k) = Climb(PathAt(index, k - 1), k)
    <2>1. \A k \in 1..Depth : seq[k] = k
      BY DEF seq
    <2> QED
      BY <1>6, <1>7, <2>1
  <1>11. PathAt(index, 0) = PathBase(index)
    BY <1>5, <1>7 DEF first
  <1> QED
    BY <1>9, <1>10, <1>11

\* A node and its sibling are the children of a node of the next height.
LEMMA Children ==
    ASSUME BatchAssumption, BatchTyped, NEW k \in 1..Depth, NEW x \in Nodes(k - 1)
    PROVE  /\ x \div 2 \in Nodes(k) /\ Sibling(x) \in Nodes(k - 1)
           /\ Cardinality(Nodes(k - 1)) \div 2 = 2^(Depth - k)
           /\ Tree[k][x \div 2] = IF x % 2 = 0 THEN PairHash(Tree[k - 1][x], Tree[k - 1][Sibling(x)])
                                               ELSE PairHash(Tree[k - 1][Sibling(x)], Tree[k - 1][x])
  <1>1. Depth \in Nat /\ k - 1 \in 0..(Depth - 1) /\ k - 1 + 1 = k
    BY DepthOfBatch
  <1> DEFINE half == 2^(Depth - k)
  <1>2. half \in Nat \ {0} /\ 2^(Depth - (k - 1)) = 2 * half
    BY <1>1, NodesHalve
  <1>3. Nodes(k - 1) = 0..(2 * half - 1) /\ Nodes(k) = 0..(half - 1)
    BY <1>2 DEF Nodes
  <1>4. Tree[k] = [j \in Nodes(k) |-> PairHash(Tree[k - 1][2 * j], Tree[k - 1][2 * j + 1])]
    BY TreeNodes
  <1> HIDE DEF half
  <1>5. Cardinality(Nodes(k - 1)) = 2 * half
    <2>1. 0 \in Int /\ 2 * half - 1 \in Int /\ 0 <= 2 * half - 1
      BY <1>2
    <2>2. Cardinality(0..(2 * half - 1)) = (2 * half - 1) - 0 + 1
      BY <2>1, FS_Interval
    <2> QED
      BY <1>2, <1>3, <2>2
  <1>6. (2 * half) \div 2 = half
    BY <1>2
  <1>7. PICK y \in Nat : y = x \div 2
    BY <1>2, <1>3
  <1>8. CASE x % 2 = 0
    <2>1. x = 2 * y /\ Sibling(x) = 2 * y + 1 /\ y \in Nodes(k) /\ Sibling(x) \in Nodes(k - 1)
      BY <1>2, <1>3, <1>7, <1>8 DEF Sibling
    <2>2. Tree[k][y] = PairHash(Tree[k - 1][2 * y], Tree[k - 1][2 * y + 1])
      BY <1>4, <2>1
    <2> QED
      BY <1>5, <1>6, <1>7, <1>8, <2>1, <2>2 DEF half
  <1>9. CASE x % 2 # 0
    <2>1. x = 2 * y + 1 /\ Sibling(x) = 2 * y /\ y \in Nodes(k) /\ Sibling(x) \in Nodes(k - 1)
      BY <1>2, <1>3, <1>7, <1>9 DEF Sibling
    <2>2. Tree[k][y] = PairHash(Tree[k - 1][2 * y], Tree[k - 1][2 * y + 1])
      BY <1>4, <2>1
    <2> QED
      BY <1>5, <1>6, <1>7, <1>9, <2>1, <2>2 DEF half
  <1> QED
    BY <1>8, <1>9

AllNodes == UNION {{Tree[d][j] : j \in Nodes(d)} : d \in 0..Depth}

\* prove climbs through the levels of the tree and keeps every sibling.
PathSound(index, k) ==
    /\ Ancestor(index, k) \in Nodes(k)
    /\ PathAt(index, k).level = Tree[k]
    /\ PathAt(index, k).siblings \in Seq(AllNodes)
    /\ Len(PathAt(index, k).siblings) = k
    /\ \A m \in 1..k : PathAt(index, k).siblings[m] = Tree[m - 1][Sibling(Ancestor(index, m - 1))]

LEMMA PathClimbs ==
    ASSUME BatchAssumption, BatchTyped, NEW index \in 0..(Len(leaves) - 1)
    PROVE  \A k \in 0..Depth : PathSound(index, k)
  <1>1. Depth \in Nat /\ Len(leaves) \in Nat /\ Len(leaves) <= 2^Depth /\ 2^Depth \in Nat
    BY DepthOfBatch, PowerDoubles
  <1> DEFINE S == {k \in Nat : k <= Depth => PathSound(index, k)}
  <1>2. 0 \in S
    <2>1. PathAt(index, 0) = PathBase(index)
      BY <1>1, PathSteps
    <2>2. index \in Nodes(0)
      <3>1. Depth - 0 = Depth
        BY <1>1
      <3> QED
        BY <1>1, <3>1 DEF Nodes
    <2>3. Tree[0] = PaddedHashes(leaves)
      BY TreeNodes
    <2>4. PathSound(index, 0)
      <3>1. /\ PathAt(index, 0).idx = index
            /\ PathAt(index, 0).level = Tree[0]
            /\ PathAt(index, 0).siblings = <<>>
        BY <2>1, <2>3 DEF PathBase
      <3>2. <<>> \in Seq(AllNodes) /\ Len(<<>>) = 0
        OBVIOUS
      <3>3. Ancestor(index, 0) \in Nodes(0)
        BY <2>2, <3>1 DEF Ancestor
      <3>4. PathAt(index, 0).siblings \in Seq(AllNodes) /\ Len(PathAt(index, 0).siblings) = 0
        BY <3>1, <3>2
      <3>5. \A m \in 1..0 : FALSE
        OBVIOUS
      <3> QED
        BY <3>1, <3>3, <3>4, <3>5 DEF PathSound
    <2> QED
      BY <2>4
  <1>3. ASSUME NEW j \in Nat, j \in S
        PROVE  j + 1 \in S
    <2> SUFFICES ASSUME j + 1 <= Depth PROVE PathSound(index, j + 1)
      OBVIOUS
    <2> DEFINE k == j + 1
               at == PathAt(index, j)
               x == at.idx
    <2>1. k \in 1..Depth /\ k - 1 = j /\ PathSound(index, j)
      BY <1>1, <1>3
    <2>2. PathAt(index, k) = Climb(at, k)
      BY <1>1, <2>1, PathSteps
    <2>3. x \in Nodes(j) /\ at.level = Tree[j] /\ at.siblings \in Seq(AllNodes) /\ Len(at.siblings) = j
      BY <2>1 DEF PathSound, Ancestor
    <2>4. /\ x \div 2 \in Nodes(k) /\ Sibling(x) \in Nodes(j)
          /\ Cardinality(Nodes(j)) \div 2 = 2^(Depth - k)
      BY <2>1, <2>3, Children
    <2>5. DOMAIN Tree[j] = Nodes(j)
      <3>1. CASE j = 0
        <4>1. Depth - 0 = Depth
          BY <1>1
        <4> QED
          BY <3>1, <4>1, TreeNodes, DepthOfBatch DEF PaddedHashes, Nodes
      <3>2. CASE j # 0
        <4>1. j \in 1..Depth
          BY <1>1, <2>1, <3>2
        <4> QED
          BY <4>1, TreeNodes
      <3> QED
        BY <3>1, <3>2
    <2>6. Climb(at, k).level = Tree[k]
      <3>1. Tree[k] = [n \in Nodes(k) |-> PairHash(Tree[j][2 * n], Tree[j][2 * n + 1])]
        BY <2>1, TreeNodes
      <3>2. Nodes(k) = 0..(Cardinality(DOMAIN at.level) \div 2 - 1)
        BY <2>3, <2>4, <2>5 DEF Nodes
      <3> QED
        BY <2>3, <3>1, <3>2 DEF Climb
    <2>7. Climb(at, k).siblings = Append(at.siblings, Tree[j][Sibling(x)])
      BY <2>3 DEF Climb
    <2>8. Tree[j][Sibling(x)] \in AllNodes
      <3>1. j \in 0..Depth
        BY <1>1, <2>1
      <3> QED
        BY <2>4, <3>1 DEF AllNodes
    <2>9. Climb(at, k).idx = x \div 2
      BY DEF Climb
    <2> DEFINE s == at.siblings
               e == Tree[j][Sibling(x)]
    <2>10. /\ Append(s, e) \in Seq(AllNodes) /\ Len(Append(s, e)) = j + 1
           /\ Append(s, e)[j + 1] = e /\ \A m \in 1..j : Append(s, e)[m] = s[m]
      <3> HIDE DEF s, e
      <3> SUFFICES ASSUME s \in Seq(AllNodes), Len(s) = j, e \in AllNodes
                   PROVE  /\ Append(s, e) \in Seq(AllNodes) /\ Len(Append(s, e)) = j + 1
                          /\ Append(s, e)[j + 1] = e /\ \A m \in 1..j : Append(s, e)[m] = s[m]
        BY <2>3, <2>8 DEF s, e
      <3> QED
        OBVIOUS
    <2>11. ASSUME NEW m \in 1..k
           PROVE  PathAt(index, k).siblings[m] = Tree[m - 1][Sibling(Ancestor(index, m - 1))]
      <3>1. CASE m = k
        BY <2>1, <2>2, <2>7, <2>10, <3>1 DEF Ancestor
      <3>2. CASE m # k
        <4>1. m \in 1..j
          BY <3>2
        <4> QED
          BY <2>1, <2>2, <2>7, <2>10, <4>1 DEF PathSound
      <3> QED
        BY <3>1, <3>2
    <2> QED
      BY <2>2, <2>4, <2>6, <2>7, <2>9, <2>10, <2>11 DEF PathSound, Ancestor
  <1> HIDE DEF S
  <1>4. \A k \in Nat : k \in S
    BY <1>2, <1>3, SetInduction
  <1> QED
    BY <1>1, <1>4 DEF S

\* What verify has hashed up to after k siblings, from a leaf's hash.
JoinBase(index, hash) == [idx |-> index, hash |-> hash]
JoinAt(index, hash, k) ==
    Joining!After(JoinBase(index, hash), PathAt(index, Depth).siblings, k)

LEMMA JoinSteps ==
    ASSUME BatchAssumption, BatchTyped, NEW index \in 0..(Len(leaves) - 1), NEW hash
    PROVE  /\ JoinAt(index, hash, 0) = JoinBase(index, hash)
           /\ \A k \in 1..Depth : JoinAt(index, hash, k) =
                  Join(JoinAt(index, hash, k - 1), Tree[k - 1][Sibling(Ancestor(index, k - 1))])
  <1> DEFINE first == JoinBase(index, hash)
             seq == PathAt(index, Depth).siblings
  <1>1. Depth \in Nat /\ PathSound(index, Depth)
    BY DepthOfBatch, PathClimbs
  <1>2. /\ DOMAIN seq = 1..Depth
        /\ \A k \in 1..Depth : seq[k] = Tree[k - 1][Sibling(Ancestor(index, k - 1))]
    BY <1>1 DEF PathSound
  <1> HIDE DEF first, seq
  <1>3. Joining!After(first, seq, 0) = first
    BY <1>1, <1>2, Joining!FoldSteps
  <1>4. ASSUME NEW k \in 1..Depth
        PROVE  Joining!After(first, seq, k) = Join(Joining!After(first, seq, k - 1), seq[k])
    BY <1>1, <1>2, Joining!FoldSteps
  <1>5. \A k : JoinAt(index, hash, k) = Joining!After(first, seq, k)
    BY DEF JoinAt, first, seq
  <1> QED
    BY <1>2, <1>3, <1>4, <1>5 DEF first

LEMMA VerifyJoins ==
    ASSUME BatchAssumption, BatchTyped, NEW index \in 0..(Len(leaves) - 1), NEW n, NEW root
    PROVE  Verify([leaf |-> n, siblings |-> PathAt(index, Depth).siblings, index |-> index], root)
           <=> JoinAt(index, LeafHash(n), Depth).hash = root
  <1> DEFINE first == JoinBase(index, LeafHash(n))
             seq == PathAt(index, Depth).siblings
  <1>1. FoldLeft(Join, first, seq) = Joining!Fold(first, seq)
    BY Zenon DEF Joining!Fold, Joining!FoldLeft, FoldLeft, Joining!MapThenFoldSet,
                 MapThenFoldSet, Joining!Max, Max
  <1>2. Verify([leaf |-> n, siblings |-> seq, index |-> index], root)
        <=> FoldLeft(Join, first, seq).hash = root
    BY DEF Verify, JoinBase
  <1>3. Depth \in Nat /\ DOMAIN seq = 1..Depth
    <2>1. Depth \in Nat /\ PathSound(index, Depth)
      BY DepthOfBatch, PathClimbs
    <2> QED
      BY <2>1 DEF PathSound
  <1>4. JoinAt(index, LeafHash(n), Depth) = Joining!After(first, seq, Depth)
    BY DEF JoinAt
  <1> HIDE DEF first, seq
  <1>5. Joining!Fold(first, seq) = Joining!After(first, seq, Depth)
    BY <1>3, Joining!FoldSteps
  <1>6. FoldLeft(Join, first, seq).hash = JoinAt(index, LeafHash(n), Depth).hash
    BY <1>1, <1>4, <1>5, Zenon
  <1>7. Verify([leaf |-> n, siblings |-> seq, index |-> index], root)
        <=> JoinAt(index, LeafHash(n), Depth).hash = root
    BY <1>2, <1>6, Zenon
  <1> QED
    BY <1>7 DEF seq

\* Two different pairs have different hashes: what hashes to a node of the
\* tree started from the node's leaf.
LEMMA JoinsToNode ==
    ASSUME BatchAssumption, BatchTyped, NEW index \in 0..(Len(leaves) - 1), NEW hash
    PROVE  \A k \in 0..Depth :
               /\ JoinAt(index, hash, k).idx = Ancestor(index, k)
               /\ JoinAt(index, hash, k).hash = Tree[k][Ancestor(index, k)] <=> hash = Tree[0][index]
  <1>1. Depth \in Nat
    BY DepthOfBatch
  <1> DEFINE Good(k) == /\ JoinAt(index, hash, k).idx = Ancestor(index, k)
                        /\ JoinAt(index, hash, k).hash = Tree[k][Ancestor(index, k)]
                               <=> hash = Tree[0][index]
             S == {k \in Nat : k <= Depth => Good(k)}
  <1>2. 0 \in S
    <2>1. Ancestor(index, 0) = index
      BY <1>1, PathSteps DEF Ancestor, PathBase
    <2>2. JoinAt(index, hash, 0) = [idx |-> index, hash |-> hash]
      BY JoinSteps DEF JoinBase
    <2> QED
      BY <2>1, <2>2
  <1>3. ASSUME NEW j \in Nat, j \in S
        PROVE  j + 1 \in S
    <2> SUFFICES ASSUME j + 1 <= Depth PROVE Good(j + 1)
      OBVIOUS
    <2> DEFINE k == j + 1
               x == Ancestor(index, j)
               at == JoinAt(index, hash, j)
    <2>1. k \in 1..Depth /\ k - 1 = j /\ j \in 0..Depth /\ Good(j)
      BY <1>1, <1>3
    <2>2. x \in Nodes(j)
      BY <2>1, PathClimbs DEF PathSound
    <2>3. Ancestor(index, k) = x \div 2
      <3>1. PathAt(index, k) = Climb(PathAt(index, j), k)
        BY <1>1, <2>1, PathSteps
      <3> QED
        BY <3>1 DEF Climb, Ancestor
    <2>4. JoinAt(index, hash, k) = Join(at, Tree[j][Sibling(x)])
      BY <2>1, JoinSteps
    <2>5. Tree[k][x \div 2] = IF x % 2 = 0 THEN PairHash(Tree[j][x], Tree[j][Sibling(x)])
                                           ELSE PairHash(Tree[j][Sibling(x)], Tree[j][x])
      BY <2>1, <2>2, Children
    <2>6. at.idx = x
      BY <2>1
    <2>7. JoinAt(index, hash, k).hash =
              IF x % 2 = 0 THEN PairHash(at.hash, Tree[j][Sibling(x)])
                           ELSE PairHash(Tree[j][Sibling(x)], at.hash)
      BY <2>4, <2>6 DEF Join
    <2>8. JoinAt(index, hash, k).idx = x \div 2
      BY <2>4, <2>6 DEF Join
    <2>9. JoinAt(index, hash, k).hash = Tree[k][x \div 2] <=> at.hash = Tree[j][x]
      BY <2>5, <2>7 DEF PairHash
    <2> QED
      BY <2>1, <2>3, <2>8, <2>9
  <1> HIDE DEF S, Good
  <1>4. \A k \in Nat : k \in S
    BY <1>2, <1>3, SetInduction
  <1> QED
    BY <1>1, <1>4 DEF S, Good

LEMMA BuiltPathsVerify ==
    ASSUME BatchAssumption, HashingSound, Built
    PROVE  PathsVerify
  <1> SUFFICES ASSUME NEW index \in 0..(Len(leaves) - 1)
               PROVE  LET proof == MerkleProof(index) IN
                      /\ Verify(proof, Root)
                      /\ \A n \in Nonce \cup {Zero} :
                           Verify([proof EXCEPT !.leaf = n], Root) => n = leaves[index + 1]
    BY DEF PathsVerify
  <1> DEFINE siblings == PathAt(index, Depth).siblings
             Shown(n) == [leaf |-> n, siblings |-> siblings, index |-> index]
  <1>1. BatchTyped /\ Depth \in Nat /\ Len(leaves) \in Nat /\ Len(leaves) <= 2^Depth
    BY DepthOfBatch DEF HashingSound
  <1>2. Root = Tree[Depth][0]
    BY HashedRoot
  <1>3. Ancestor(index, Depth) = 0
    <2>1. Ancestor(index, Depth) \in Nodes(Depth)
      <3>1. Depth \in 0..Depth
        BY <1>1
      <3>2. PathSound(index, Depth)
        BY <1>1, <3>1, PathClimbs
      <3> QED
        BY <3>2 DEF PathSound
    <2>2. 2^(Depth - Depth) = 1
      <3>1. Depth - Depth = 0
        BY <1>1
      <3> QED
        BY <3>1, PowerOfZero
    <2>3. Nodes(Depth) = {0}
      BY <2>2 DEF Nodes
    <2> QED
      BY <2>1, <2>3
  <1>4. Tree[0][index] = LeafHash(leaves[index + 1])
    <2>1. Tree[0] = PaddedHashes(leaves) /\ 2^Depth = PaddedLen(Len(leaves)) /\ 2^Depth \in Nat
      BY <1>1, TreeNodes, DepthOfBatch, PowerDoubles
    <2>2. index \in 0..(PaddedLen(Len(leaves)) - 1) /\ index < Len(leaves)
      BY <1>1, <2>1
    <2> QED
      BY <2>1, <2>2 DEF PaddedHashes
  <1>5. ASSUME NEW n
        PROVE  Verify(Shown(n), Root) <=> n = leaves[index + 1]
    <2>1. Verify(Shown(n), Root) <=> JoinAt(index, LeafHash(n), Depth).hash = Root
      BY <1>1, VerifyJoins
    <2>2. JoinAt(index, LeafHash(n), Depth).hash = Root <=> LeafHash(n) = Tree[0][index]
      <3>1. Depth \in 0..Depth
        BY <1>1
      <3> QED
        BY <1>1, <1>2, <1>3, <3>1, JoinsToNode
    <2>3. LeafHash(n) = LeafHash(leaves[index + 1]) <=> n = leaves[index + 1]
      BY DEF LeafHash
    <2> QED
      BY <1>4, <2>1, <2>2, <2>3
  <1>6. MerkleProof(index) = Shown(leaves[index + 1])
    BY <1>1, PathSteps
  <1>7. \A n : [MerkleProof(index) EXCEPT !.leaf = n] = Shown(n)
    BY <1>6
  <1> HIDE DEF Shown
  <1> QED
    BY <1>5, <1>6, <1>7

\* Whatever the size of a batch, MerkleTree::prove gives every nonce of it a
\* path that MerkleProof::verify accepts, and accepts for no other nonce.
THEOREM NoncesShownAlone ==
    ASSUME BatchAssumption
    PROVE  BatchSpec => []PathsVerify
  <1>1. HashingSound => PathsVerify
    <2>1. CASE Built
      BY <2>1, BuiltPathsVerify
    <2>2. CASE ~Built
      BY <2>2 DEF PathsVerify
    <2> QED
      BY <2>1, <2>2
  <1> QED
    BY <1>1, BuildSound, PTL

-----------------------------------------------------------------------------
(* FixedBase                                                               *)

Doubling == INSTANCE Folding WITH Op <- Doubled
Multiplying == INSTANCE Folding WITH Op <- NextMultiple
Reading == INSTANCE Folding WITH Op <- AddWindow
Halving == INSTANCE Folding WITH Op <- StepWhilePositive

\* Sums of points are the sums of what they are the remainders of.
LEMMA AddRemainders ==
    ASSUME FixedBaseAssumption, NEW x \in Nat, NEW y \in Nat
    PROVE  Add(x % Order, y % Order) = (x + y) % Order /\ (x + y) % Order \in Points
  <1>1. Order \in Nat \ {0}
    BY DEF FixedBaseAssumption
  <1>2. ((x % Order) + (y % Order)) % Order = (x + y) % Order
    BY <1>1, RemainderOfSum
  <1>3. x + y \in Nat
    OBVIOUS
  <1> DEFINE z == x + y
  <1> HIDE DEF z
  <1>4. z % Order \in 0..(Order - 1)
    BY <1>1, <1>3 DEF z
  <1> QED
    BY <1>2, <1>4 DEF Add, Points, z

\* Window w's base is 2^(WindowBits * w) times the generator.
WindowBase(w) == 2^(WindowBits * w) * base

LEMMA WindowBases ==
    ASSUME FixedBaseAssumption, base \in Nat, NEW w \in Nat
    PROVE  /\ WindowBase(w) \in Nat
           /\ WindowBase(w + 1) = 2^WindowBits * WindowBase(w)
           /\ 2^WindowBits \in Nat /\ NonZeroDigits \in Nat \ {0} /\ 2^WindowBits = NonZeroDigits + 1
  <1>1. WindowBits \in Nat \ {0} /\ WindowBits * w \in Nat
    BY DEF FixedBaseAssumption
  <1> DEFINE p == 2^(WindowBits * w)
             digits == 2^WindowBits
  <1>2. p \in Nat \ {0} /\ digits \in Nat \ {0} /\ 2^(WindowBits * w + WindowBits) = p * digits
    BY <1>1, PowersMultiply
  <1>3. WindowBits * (w + 1) = WindowBits * w + WindowBits
    BY <1>1
  <1>4. 2^(WindowBits * (w + 1)) = p * digits
    BY <1>2, <1>3
  <1>5. digits >= 2
    <2>1. WindowBits - 1 \in Nat /\ (WindowBits - 1) + 1 = WindowBits
      BY <1>1
    <2>2. digits = 2 * 2^(WindowBits - 1) /\ 2^(WindowBits - 1) \in Nat \ {0}
      BY <2>1, PowerDoubles
    <2> QED
      BY <2>2
  <1> HIDE DEF p, digits
  <1>6. p * base \in Nat /\ (p * digits) * base = digits * (p * base)
    BY <1>2
  <1>7. NonZeroDigits = digits - 1
    BY DEF NonZeroDigits, digits
  <1> QED
    BY <1>2, <1>4, <1>5, <1>6, <1>7 DEF WindowBase, p, digits

\* WindowBits doublings multiply by 2^WindowBits.
LEMMA AdvanceMultiplies ==
    ASSUME FixedBaseAssumption, NEW x \in Nat
    PROVE  Advance(x % Order) = (2^WindowBits * x) % Order
  <1> DEFINE seq == [k \in 1..WindowBits |-> k]
             b == x % Order
  <1>0. WindowBits \in Nat
    BY DEF FixedBaseAssumption
  <1>1. WindowBits \in Nat /\ Order \in Nat \ {0}
    BY DEF FixedBaseAssumption
  <1>2. FoldLeft(Doubled, b, seq) = Doubling!Fold(b, seq)
    BY Zenon DEF Doubling!Fold, Doubling!FoldLeft, FoldLeft, Doubling!MapThenFoldSet,
                 MapThenFoldSet, Doubling!Max, Max
  <1>3. DOMAIN seq = 1..WindowBits
    OBVIOUS
  <1>4. Advance(x % Order) = Doubling!Fold(b, seq)
    BY <1>2, Zenon DEF Advance
  <1>5. b = x % Order
    OBVIOUS
  <1> HIDE DEF seq, b
  <1>6. Doubling!Fold(b, seq) = Doubling!After(b, seq, WindowBits) /\ Doubling!After(b, seq, 0) = b
    BY <1>0, <1>3, Doubling!FoldSteps
  <1>7. ASSUME NEW k \in 1..WindowBits
        PROVE  Doubling!After(b, seq, k) = Doubled(Doubling!After(b, seq, k - 1), seq[k])
    BY <1>0, <1>3, Doubling!FoldSteps
  <1> DEFINE at(k) == Doubling!After(b, seq, k)
             S == {k \in Nat : k <= WindowBits => at(k) = (2^k * x) % Order}
  <1>8. 0 \in S
    BY <1>5, <1>6, PowerOfZero
  <1>9. ASSUME NEW k \in Nat, k \in S
        PROVE  k + 1 \in S
    <2> SUFFICES ASSUME k + 1 <= WindowBits PROVE at(k + 1) = (2^(k + 1) * x) % Order
      OBVIOUS
    <2> DEFINE y == 2^k * x
    <2>1. k + 1 \in 1..WindowBits /\ (k + 1) - 1 = k /\ k <= WindowBits
      BY <1>1
    <2>2. at(k + 1) = Add(at(k), at(k))
      BY <1>7, <2>1 DEF Doubled
    <2>3. at(k) = y % Order
      BY <1>9, <2>1
    <2>4. y \in Nat /\ 2^(k + 1) * x = y + y
      <3> DEFINE p == 2^k
      <3>1. p \in Nat /\ 2^(k + 1) = 2 * p
        BY PowerDoubles
      <3> HIDE DEF p
      <3>2. p * x \in Nat /\ (2 * p) * x = p * x + p * x
        BY <3>1
      <3> QED
        BY <3>1, <3>2 DEF p
    <2> HIDE DEF y, at
    <2>5. Add(y % Order, y % Order) = (y + y) % Order
      BY <2>4, AddRemainders
    <2> QED
      BY <2>2, <2>3, <2>4, <2>5
  <1>10. WindowBits \in S
    <2> HIDE DEF S
    <2> QED
      BY <1>1, <1>8, <1>9, SetInduction
  <1> QED
    BY <1>1, <1>4, <1>6, <1>10

\* A window's row holds the multiples of its base.
LEMMA RowMultiples ==
    ASSUME FixedBaseAssumption, NEW x \in Nat
    PROVE  /\ Row(x % Order) \in Seq(Points)
           /\ Len(Row(x % Order)) = NonZeroDigits
           /\ \A m \in 1..NonZeroDigits : Row(x % Order)[m] = (m * x) % Order
  <1> DEFINE b == x % Order
             seq == [d \in 1..(NonZeroDigits - 1) |-> b]
             at(k) == Multiplying!After(<<b>>, seq, k)
  <1>1. Order \in Nat \ {0} /\ NonZeroDigits - 1 \in Nat /\ NonZeroDigits \in Nat
    <2>1. WindowBits \in Nat \ {0}
      BY DEF FixedBaseAssumption
    <2>2. WindowBits - 1 \in Nat /\ (WindowBits - 1) + 1 = WindowBits
      BY <2>1
    <2>3. 2^WindowBits = 2 * 2^(WindowBits - 1) /\ 2^(WindowBits - 1) \in Nat \ {0}
      BY <2>2, PowerDoubles
    <2> QED
      BY <2>3 DEF FixedBaseAssumption, NonZeroDigits
  <1>2. FoldLeft(NextMultiple, <<b>>, seq) = Multiplying!Fold(<<b>>, seq)
    BY Zenon DEF Multiplying!Fold, Multiplying!FoldLeft, FoldLeft, Multiplying!MapThenFoldSet,
                 MapThenFoldSet, Multiplying!Max, Max
  <1>3. DOMAIN seq = 1..(NonZeroDigits - 1) /\ \A k \in 1..(NonZeroDigits - 1) : seq[k] = b
    OBVIOUS
  <1>4. Row(x % Order) = Multiplying!Fold(<<b>>, seq)
    BY <1>2, Zenon DEF Row
  <1>5. b = x % Order /\ b \in Points
    BY <1>1 DEF Points
  <1>0. NonZeroDigits - 1 \in Nat
    BY <1>1
  <1> HIDE DEF seq, b
  <1>6. DOMAIN seq = 1..(NonZeroDigits - 1)
    BY <1>3
  <1>7. /\ Multiplying!Fold(<<b>>, seq) = Multiplying!After(<<b>>, seq, NonZeroDigits - 1)
        /\ Multiplying!After(<<b>>, seq, 0) = <<b>>
    BY <1>0, <1>6, Multiplying!FoldSteps
  <1>8. ASSUME NEW k \in 1..(NonZeroDigits - 1)
        PROVE  Multiplying!After(<<b>>, seq, k)
               = NextMultiple(Multiplying!After(<<b>>, seq, k - 1), seq[k])
    BY <1>0, <1>6, Multiplying!FoldSteps
  <1> DEFINE Good(k) == /\ at(k) \in Seq(Points) /\ Len(at(k)) = k + 1
                        /\ \A m \in 1..(k + 1) : at(k)[m] = (m * x) % Order
             S == {k \in Nat : k <= NonZeroDigits - 1 => Good(k)}
  <1>9. 0 \in S
    <2>1. <<b>> \in Seq(Points) /\ Len(<<b>>) = 1 /\ <<b>>[1] = b
      BY <1>5
    <2>2. \A m \in 1..(0 + 1) : m = 1 /\ m * x = x
      OBVIOUS
    <2>3. Good(0)
      <3>1. at(0) = <<b>> /\ 0 + 1 = 1
        BY <1>7
      <3> HIDE DEF at
      <3> QED
        BY <1>5, <2>1, <2>2, <3>1
    <2> QED
      BY <2>3
  <1>10. ASSUME NEW k \in Nat, k \in S
         PROVE  k + 1 \in S
    <2> SUFFICES ASSUME k + 1 <= NonZeroDigits - 1 PROVE Good(k + 1)
      OBVIOUS
    <2> DEFINE row == at(k)
               sum == Add(row[Len(row)], b)
    <2>1. k + 1 \in 1..(NonZeroDigits - 1) /\ (k + 1) - 1 = k /\ k <= NonZeroDigits - 1
      BY <1>1
    <2>2. Good(k)
      BY <1>10, <2>1
    <2>3. at(k + 1) = Append(row, sum)
      BY <1>3, <1>8, <2>1 DEF NextMultiple
    <2>4. sum = ((k + 2) * x) % Order /\ sum \in Points
      <3>1. row[Len(row)] = ((k + 1) * x) % Order
        BY <2>2
      <3>2. (k + 1) * x \in Nat /\ (k + 1) * x + x = (k + 2) * x
        OBVIOUS
      <3> HIDE DEF row
      <3>3. /\ Add(((k + 1) * x) % Order, x % Order) = ((k + 1) * x + x) % Order
            /\ ((k + 1) * x + x) % Order \in Points
        BY <3>2, AddRemainders
      <3> QED
        BY <1>5, <3>1, <3>2, <3>3
    <2>5. row \in Seq(Points) /\ Len(row) = k + 1 /\ \A m \in 1..(k + 1) : row[m] = (m * x) % Order
      BY <2>2
    <2> HIDE DEF row, sum, at
    <2>6. /\ Append(row, sum) \in Seq(Points) /\ Len(Append(row, sum)) = k + 2
          /\ Append(row, sum)[k + 2] = sum
          /\ \A m \in 1..(k + 1) : Append(row, sum)[m] = row[m]
      BY <2>4, <2>5
    <2>7. ASSUME NEW m \in 1..(k + 2)
          PROVE  Append(row, sum)[m] = (m * x) % Order
      <3>1. CASE m = k + 2
        BY <2>4, <2>6, <3>1
      <3>2. CASE m # k + 2
        <4>1. m \in 1..(k + 1)
          BY <3>2
        <4> QED
          BY <2>5, <2>6, <4>1
      <3> QED
        BY <3>1, <3>2
    <2>8. (k + 1) + 1 = k + 2
      OBVIOUS
    <2> QED
      BY <2>3, <2>6, <2>7, <2>8
  <1>11. NonZeroDigits - 1 \in S
    <2> HIDE DEF S
    <2> QED
      BY <1>1, <1>9, <1>10, SetInduction
  <1>12. Good(NonZeroDigits - 1) /\ (NonZeroDigits - 1) + 1 = NonZeroDigits
    <2> DEFINE last == NonZeroDigits - 1
    <2>1. last \in Nat /\ last <= last /\ last + 1 = NonZeroDigits
      BY <1>1
    <2> HIDE DEF Good
    <2> QED
      BY <1>11, <2>1
  <1> QED
    BY <1>4, <1>7, <1>12

\* The table after w windows.
TableSound(w) ==
    /\ w \in 0..NumWindows
    /\ table \in Seq(Points)
    /\ Len(table) = w * NonZeroDigits
    /\ \A v \in 0..(w - 1), m \in 1..NonZeroDigits :
         table[v * NonZeroDigits + m] = (m * WindowBase(v)) % Order
    /\ baseExp = WindowBase(w) % Order

TableInv == base \in Points /\ \E w \in Nat : TableSound(w)

LEMMA TableStarts ==
    ASSUME FixedBaseAssumption, TableInit
    PROVE  TableInv
  <1>1. Order \in Nat \ {0} /\ NumWindows \in Nat /\ WindowBits \in Nat
    BY DEF FixedBaseAssumption
  <1>2. base \in Points /\ base \in Nat /\ NonZeroDigits \in Nat
    BY <1>1, WindowBases DEF TableInit, Points
  <1>3. WindowBase(0) % Order = base
    <2>1. WindowBits * 0 = 0
      BY <1>1
    <2>2. WindowBase(0) = base
      <3>1. 2^(WindowBits * 0) = 1
        BY <2>1, PowerOfZero
      <3>2. 1 * base = base
        BY <1>2
      <3> QED
        BY <3>1, <3>2 DEF WindowBase
    <2> QED
      BY <1>1, <1>2, <2>2, SmallRemainder DEF Points
  <1>4. TableSound(0)
    BY <1>1, <1>2, <1>3 DEF TableInit, TableSound
  <1> QED
    BY <1>2, <1>4 DEF TableInv

LEMMA TableGrows ==
    ASSUME FixedBaseAssumption, TableInv, NextWindow
    PROVE  TableInv'
  <1>1. Order \in Nat \ {0} /\ NumWindows \in Nat
    BY DEF FixedBaseAssumption
  <1>2. base \in Points /\ base \in Nat /\ base' = base
    BY <1>1 DEF TableInv, NextWindow, Points
  <1>3. PICK w \in Nat : TableSound(w)
    BY DEF TableInv
  <1>4. NonZeroDigits \in Nat \ {0} /\ WindowBase(w) \in Nat
        /\ WindowBase(w + 1) = 2^WindowBits * WindowBase(w)
    BY <1>2, WindowBases
  <1>5. w < NumWindows /\ w + 1 \in 0..NumWindows
    <2>1. w * NonZeroDigits < NumWindows * NonZeroDigits
      BY <1>3 DEF TableSound, NextWindow
    <2>2. w # NumWindows
      BY <1>1, <1>4, <2>1
    <2> QED
      BY <1>1, <1>3, <2>2 DEF TableSound
  <1> DEFINE row == Row(baseExp)
  <1>6. /\ row \in Seq(Points) /\ Len(row) = NonZeroDigits
        /\ \A m \in 1..NonZeroDigits : row[m] = (m * WindowBase(w)) % Order
    BY <1>3, <1>4, RowMultiples DEF TableSound
  <1>7. table' = table \o row /\ baseExp' = WindowBase(w + 1) % Order
    BY <1>3, <1>4, AdvanceMultiplies DEF TableSound, NextWindow
  <1> HIDE DEF row
  <1>8. table' \in Seq(Points) /\ Len(table') = (w + 1) * NonZeroDigits
    <2>1. table \in Seq(Points) /\ Len(table) = w * NonZeroDigits
      BY <1>3 DEF TableSound
    <2>2. table \o row \in Seq(Points) /\ Len(table \o row) = Len(table) + Len(row)
      BY <1>6, <2>1
    <2>3. w * NonZeroDigits + NonZeroDigits = (w + 1) * NonZeroDigits
      BY <1>4
    <2> QED
      BY <1>6, <1>7, <2>1, <2>2, <2>3
  <1>9. ASSUME NEW v \in 0..w, NEW m \in 1..NonZeroDigits
        PROVE  table'[v * NonZeroDigits + m] = (m * WindowBase(v)) % Order
    <2>1. table \in Seq(Points) /\ Len(table) = w * NonZeroDigits
      BY <1>3 DEF TableSound
    <2>2. v * NonZeroDigits \in Nat /\ w * NonZeroDigits \in Nat
      BY <1>4
    <2>3. CASE v = w
      <3>1. (table \o row)[Len(table) + m] = row[m]
        BY <1>4, <1>6, <2>1, <2>2
      <3> QED
        BY <1>6, <1>7, <2>1, <2>3, <3>1
    <2>4. CASE v # w
      <3>1. v \in 0..(w - 1)
        BY <2>4
      <3>2. v * NonZeroDigits + m <= w * NonZeroDigits
        <4>1. PICK k \in Nat : w = v + 1 + k
          <5>1. w - v - 1 \in Nat /\ w = v + 1 + (w - v - 1)
            BY <3>1
          <5> QED
            BY <5>1
        <4>2. w * NonZeroDigits = v * NonZeroDigits + NonZeroDigits + k * NonZeroDigits
          BY <1>4, <4>1
        <4>3. k * NonZeroDigits \in Nat
          BY <1>4
        <4> QED
          BY <1>4, <2>2, <4>2, <4>3
      <3> DEFINE n == v * NonZeroDigits + m
      <3>3. n \in 1..Len(table)
        BY <1>4, <2>1, <2>2, <3>2
      <3>4. table[n] = (m * WindowBase(v)) % Order
        BY <1>3, <3>1 DEF TableSound
      <3> HIDE DEF n
      <3>5. (table \o row)[n] = table[n]
        BY <1>6, <2>1, <3>3
      <3> QED
        BY <1>7, <3>4, <3>5 DEF n
    <2> QED
      BY <2>3, <2>4
  <1>10. \A v : WindowBase(v)' = WindowBase(v)
    BY <1>2 DEF WindowBase
  <1>11. TableSound(w + 1)'
    <2>1. (w + 1) - 1 = w
      OBVIOUS
    <2> QED
      BY <1>5, <1>7, <1>8, <1>9, <1>10, <2>1 DEF TableSound
  <1> QED
    BY <1>2, <1>11 DEF TableInv

\* The digit read from a scalar's bytes is the scalar's digit.
LEMMA DigitIs ==
    ASSUME FixedBaseAssumption, NEW s \in Nat, NEW w \in 0..(NumWindows - 1)
    PROVE  Digit(Bytes(s), w) = (s \div 2^(WindowBits * w)) % 2^WindowBits
  <1>1. WindowBits \in Nat \ {0} /\ NumWindows \in Nat \ {0} /\ NumWindows % 2 = 0
    BY DEF FixedBaseAssumption
  <1> DEFINE j == w \div 2
             digits == 2^WindowBits
             low == 2^(2 * WindowBits * j)
  <1>2. j \in 0..(NumWindows \div 2 - 1) /\ j \in Nat
    BY <1>1
  <1>3. digits \in Nat \ {0} /\ 2^(2 * WindowBits) = digits * digits
    <2>1. 2 * WindowBits = WindowBits + WindowBits
      BY <1>1
    <2> QED
      BY <1>1, <2>1, PowersMultiply
  <1>4. 2 * WindowBits * j \in Nat /\ low \in Nat \ {0}
    <2>1. 2 * WindowBits * j \in Nat
      BY <1>1, <1>2
    <2> QED
      BY <2>1, PowerDoubles
  <1> DEFINE y == s \div low
             byte == y % (digits * digits)
  <1>5. Bytes(s)[j] = byte
    BY <1>2, <1>3 DEF Bytes
  <1>6. y \in Nat
    <2> HIDE DEF low
    <2> QED
      BY <1>4
  <1>7. /\ byte = digits * ((y \div digits) % digits) + (y % digits)
        /\ byte \in Nat
        /\ (y \div digits) % digits \in 0..(digits - 1) /\ y % digits \in 0..(digits - 1)
    <2> HIDE DEF y, digits
    <2>1. /\ byte = digits * ((y \div digits) % digits) + (y % digits)
          /\ byte \in 0..(digits * digits - 1) /\ digits * digits \in Nat \ {0}
      BY <1>3, <1>6, DivisionTwice
    <2>2. y \div digits \in Nat
      BY <1>3, <1>6
    <2> QED
      BY <1>3, <1>6, <2>1, <2>2
  <1>8. byte \div digits = (y \div digits) % digits /\ byte % digits = y % digits
    <2> HIDE DEF byte, y, digits
    <2> DEFINE q == (y \div digits) % digits
               t == y % digits
    <2>1. q \in Nat /\ t \in 0..(digits - 1) /\ byte = digits * q + t /\ byte \in Nat
      BY <1>3, <1>7
    <2> HIDE DEF q, t
    <2>2. byte \div digits = q /\ byte % digits = t
      BY <1>3, <2>1, DivisionIs
    <2> QED
      BY <2>2 DEF q, t
  <1>9. CASE w % 2 = 0
    <2>1. w = 2 * j
      BY <1>1, <1>9
    <2>2. (w % 2) * WindowBits = 0 /\ WindowBits * w = 2 * WindowBits * j
      <3> HIDE DEF j
      <3> QED
        BY <1>1, <1>2, <1>9, <2>1
    <2>3. Digit(Bytes(s), w) = (byte \div 1) % digits
      BY <1>5, <2>2, PowerOfZero DEF Digit
    <2>4. byte \div 1 = byte
      <3> HIDE DEF byte
      <3> QED
        BY <1>7
    <2>5. s \div 2^(WindowBits * w) = y
      BY <2>2
    <2> HIDE DEF byte, y, digits
    <2> QED
      BY <1>8, <2>3, <2>4, <2>5 DEF digits
  <1>10. CASE w % 2 # 0
    <2>1. w = 2 * j + 1 /\ w % 2 = 1
      BY <1>1, <1>10
    <2>2. (w % 2) * WindowBits = WindowBits /\ WindowBits * w = 2 * WindowBits * j + WindowBits
      <3> HIDE DEF j
      <3> QED
        BY <1>1, <1>2, <2>1
    <2>3. Digit(Bytes(s), w) = (byte \div digits) % digits
      BY <1>5, <2>2 DEF Digit
    <2>4. 2^(WindowBits * w) = low * digits
      BY <1>1, <1>4, <2>2, PowersMultiply
    <2>5. s \div (low * digits) = y \div digits
      <3> HIDE DEF low, digits
      <3> QED
        BY <1>3, <1>4, DivisionTwice
    <2>6. ((y \div digits) % digits) % digits = (y \div digits) % digits
      <3> HIDE DEF y, digits
      <3> QED
        BY <1>3, <1>7, SmallRemainder
    <2>7. (s \div 2^(WindowBits * w)) % 2^WindowBits = (y \div digits) % digits
      BY <2>4, <2>5
    <2> HIDE DEF byte, y, digits
    <2> QED
      BY <1>8, <2>3, <2>6, <2>7
  <1> QED
    BY <1>9, <1>10

\* What the windows below w of a scalar add up to.
LEMMA WindowsAddUp ==
    ASSUME FixedBaseAssumption, base \in Nat, NEW s \in Nat, NEW w \in 0..(NumWindows - 1)
    PROVE  LET digit == Digit(Bytes(s), w) IN
           /\ digit \in 0..NonZeroDigits
           /\ s % 2^(WindowBits * w) \in Nat
           /\ (s % 2^(WindowBits * (w + 1))) * base
              = (s % 2^(WindowBits * w)) * base + digit * WindowBase(w)
  <1> DEFINE low == 2^(WindowBits * w)
             digits == 2^WindowBits
             digit == Digit(Bytes(s), w)
             rest == s % low
  <1>1. WindowBits \in Nat \ {0} /\ w \in Nat /\ WindowBits * w \in Nat /\ NumWindows \in Nat
    BY DEF FixedBaseAssumption
  <1>2. low \in Nat \ {0} /\ digits \in Nat \ {0} /\ 2^(WindowBits * (w + 1)) = low * digits
    <2>1. WindowBits * (w + 1) = WindowBits * w + WindowBits
      BY <1>1
    <2> QED
      BY <1>1, <2>1, PowersMultiply
  <1>3. digit = (s \div low) % digits
    BY DigitIs
  <1>4. NonZeroDigits = digits - 1
    BY DEF NonZeroDigits
  <1> HIDE DEF low, digits, digit
  <1>5. s \div low \in Nat /\ rest \in Nat /\ digit \in 0..(digits - 1)
    BY <1>2, <1>3
  <1>6. s % (low * digits) = low * digit + rest
    BY <1>2, <1>3, DivisionTwice
  <1> HIDE DEF rest
  <1>7. (low * digit + rest) * base = rest * base + digit * (low * base)
    <2>1. (low * digit + rest) * base = (low * digit) * base + rest * base
      BY <1>2, <1>5
    <2>2. (low * digit) * base = digit * (low * base)
      BY <1>2, <1>5
    <2>3. (low * digit) * base \in Nat /\ rest * base \in Nat
      BY <1>2, <1>5
    <2> QED
      BY <2>1, <2>2, <2>3
  <1> QED
    BY <1>2, <1>4, <1>5, <1>6, <1>7 DEF low, digit, rest, WindowBase

LEMMA MulIsProduct ==
    ASSUME FixedBaseAssumption, TableInv, TableBuilt, NEW s \in Points
    PROVE  Mul(s) = (s * base) % Order
  <1>1. /\ Order \in Nat \ {0} /\ NumWindows \in Nat \ {0} /\ WindowBits \in Nat
        /\ Order <= 2^(WindowBits * NumWindows)
    BY DEF FixedBaseAssumption
  <1>2. base \in Nat /\ s \in Nat
    BY <1>1 DEF TableInv, Points
  <1>3. PICK top \in Nat : TableSound(top)
    BY DEF TableInv
  <1>4. NonZeroDigits \in Nat \ {0} /\ \A w \in Nat : WindowBase(w) \in Nat
    BY <1>2, WindowBases
  <1>5. top = NumWindows
    <2>1. top * NonZeroDigits = NumWindows * NonZeroDigits
      BY <1>3 DEF TableSound, TableBuilt
    <2> QED
      BY <1>1, <1>4, <2>1
  <1> DEFINE seq == [w \in 1..NumWindows |-> [window |-> w - 1, digit |-> Digit(Bytes(s), w - 1)]]
             at(k) == Reading!After(0, seq, k)
             sum(k) == (s % 2^(WindowBits * k)) * base
  <1>6. FoldLeft(AddWindow, 0, seq) = Reading!Fold(0, seq)
    BY Zenon DEF Reading!Fold, Reading!FoldLeft, FoldLeft, Reading!MapThenFoldSet,
                 MapThenFoldSet, Reading!Max, Max
  <1>0. NumWindows \in Nat
    BY <1>1
  <1>7. DOMAIN seq = 1..NumWindows
    OBVIOUS
  <1>8. Mul(s) = Reading!Fold(0, seq)
    BY <1>6, Zenon DEF Mul
  <1>9. \A w \in 1..NumWindows : seq[w].window = w - 1 /\ seq[w].digit = Digit(Bytes(s), w - 1)
    OBVIOUS
  <1> HIDE DEF seq
  <1>10. Reading!Fold(0, seq) = Reading!After(0, seq, NumWindows) /\ Reading!After(0, seq, 0) = 0
    BY <1>0, <1>7, Reading!FoldSteps
  <1>11. ASSUME NEW k \in 1..NumWindows
         PROVE  Reading!After(0, seq, k) = AddWindow(Reading!After(0, seq, k - 1), seq[k])
    BY <1>0, <1>7, Reading!FoldSteps
  <1> DEFINE S == {k \in Nat : k <= NumWindows => at(k) = sum(k) % Order}
  <1>12. 0 \in S
    <2>1. WindowBits * 0 = 0
      BY <1>1
    <2>2. s % 1 = 0
      BY <1>2
    <2>3. sum(0) = 0
      <3>1. 2^(WindowBits * 0) = 1
        BY <2>1, PowerOfZero
      <3>2. 0 * base = 0
        BY <1>2
      <3> QED
        BY <2>2, <3>1, <3>2
    <2> HIDE DEF sum
    <2>4. 0 % Order = 0
      BY <1>1
    <2> QED
      BY <1>10, <2>3, <2>4
  <1>13. ASSUME NEW w \in Nat, w \in S
         PROVE  w + 1 \in S
    <2> SUFFICES ASSUME w + 1 <= NumWindows PROVE at(w + 1) = sum(w + 1) % Order
      OBVIOUS
    <2> DEFINE digit == Digit(Bytes(s), w)
    <2>1. w + 1 \in 1..NumWindows /\ (w + 1) - 1 = w /\ w \in 0..(NumWindows - 1) /\ w <= NumWindows
      BY <1>1
    <2>2. at(w) = sum(w) % Order
      BY <1>13, <2>1
    <2>3. at(w + 1) = AddWindow(at(w), [window |-> w, digit |-> digit])
      <3>1. at(w + 1) = AddWindow(at(w), seq[w + 1])
        BY <1>11, <2>1
      <3>2. seq[w + 1].window = w /\ seq[w + 1].digit = digit
        BY <1>9, <2>1
      <3> QED
        BY <3>1, <3>2 DEF AddWindow
    <2>4. /\ digit \in 0..NonZeroDigits /\ s % 2^(WindowBits * w) \in Nat
          /\ sum(w + 1) = sum(w) + digit * WindowBase(w)
      BY <1>2, <2>1, WindowsAddUp
    <2>5. sum(w) \in Nat /\ WindowBase(w) \in Nat /\ digit \in Nat
      <3>1. s % 2^(WindowBits * w) \in Nat
        BY <2>4
      <3> QED
        BY <1>2, <1>4, <2>4, <3>1
    <2> HIDE DEF sum, digit, at
    <2>6. CASE digit = 0
      <3>1. sum(w + 1) = sum(w)
        BY <2>4, <2>5, <2>6
      <3> QED
        BY <2>2, <2>3, <2>6, <3>1 DEF AddWindow
    <2>7. CASE digit # 0
      <3>1. digit \in 1..NonZeroDigits
        BY <1>4, <2>4, <2>7
      <3>2. table[w * NonZeroDigits + digit] = (digit * WindowBase(w)) % Order
        BY <1>3, <1>5, <2>1, <3>1 DEF TableSound
      <3>3. at(w + 1) = Add(sum(w) % Order, (digit * WindowBase(w)) % Order)
        BY <2>2, <2>3, <2>7, <3>2 DEF AddWindow
      <3>4. digit * WindowBase(w) \in Nat
        BY <2>5
      <3> QED
        BY <2>4, <2>5, <3>3, <3>4, AddRemainders
    <2> QED
      BY <2>6, <2>7
  <1>14. NumWindows \in S
    <2> HIDE DEF S
    <2> QED
      BY <1>1, <1>12, <1>13, SetInduction
  <1>15. s % 2^(WindowBits * NumWindows) = s
    <2> DEFINE bound == 2^(WindowBits * NumWindows)
    <2>1. bound \in Nat \ {0}
      <3>1. WindowBits * NumWindows \in Nat
        BY <1>1
      <3> QED
        BY <3>1, PowerDoubles
    <2>2. Order <= bound
      BY <1>1
    <2> HIDE DEF bound
    <2>3. s \in 0..(bound - 1)
      BY <1>1, <2>1, <2>2 DEF Points
    <2> QED
      BY <2>1, <2>3, SmallRemainder DEF bound
  <1>16. at(NumWindows) = sum(NumWindows) % Order
    BY <1>1, <1>14
  <1> QED
    BY <1>8, <1>10, <1>15, <1>16

-----------------------------------------------------------------------------
\* Double-and-add keeps the amount's product with the p0.
HalvingSound(at, p0, amount, k) ==
    /\ at.result \in Points /\ at.addend \in Points /\ at.n \in Nat
    /\ at.n < 2^(AmountBits - k)
    /\ (at.result + at.n * at.addend) % Order = (amount * p0) % Order

LEMMA HalvingStep ==
    ASSUME FixedBaseAssumption, NEW at, NEW p0 \in Nat, NEW amount \in Nat,
           NEW k \in 0..(AmountBits - 1), HalvingSound(at, p0, amount, k), NEW j
    PROVE  HalvingSound(StepWhilePositive(at, j), p0, amount, k + 1)
  <1>1. Order \in Nat \ {0} /\ AmountBits \in Nat
    BY DEF FixedBaseAssumption
  <1>2. /\ AmountBits - (k + 1) \in Nat
        /\ AmountBits - k = (AmountBits - (k + 1)) + 1
    BY <1>1
  <1> DEFINE half == 2^(AmountBits - (k + 1))
  <1>3. half \in Nat \ {0} /\ 2^(AmountBits - k) = 2 * half
    BY <1>2, PowerDoubles
  <1> HIDE DEF half
  <1> DEFINE r == at.result
             a == at.addend
             n == at.n
  <1>4. r \in Points /\ a \in Points /\ n \in Nat /\ n < 2 * half /\ r \in Nat /\ a \in Nat
        /\ (r + n * a) % Order = (amount * p0) % Order
    BY <1>1, <1>3 DEF HalvingSound, Points
  <1>5. r % Order = r /\ a % Order = a
    BY <1>1, <1>4, SmallRemainder DEF Points
  <1>6. CASE n = 0
    <2>1. StepWhilePositive(at, j) = at
      BY <1>6 DEF StepWhilePositive
    <2> QED
      BY <1>3, <1>6, <2>1 DEF HalvingSound, half
  <1>7. CASE n # 0
    <2>1. StepWhilePositive(at, j) = Step(at)
      BY <1>4, <1>7 DEF StepWhilePositive
    <2>2. PICK q \in Nat : n \div 2 = q /\ n = 2 * q + (n % 2) /\ q < half /\ n % 2 \in 0..1
      BY <1>3, <1>4
    <2>3. Add(a, a) = (a + a) % Order /\ (a + a) % Order \in Points
      BY <1>4, <1>5, AddRemainders
    <2> DEFINE sum == IF n % 2 = 1 THEN Add(r, a) ELSE r
               plain == IF n % 2 = 1 THEN r + a ELSE r
    <2>4. sum \in Points /\ plain \in Nat /\ sum = plain % Order
      <3>1. Add(r, a) = (r + a) % Order /\ (r + a) % Order \in Points /\ r + a \in Nat
        <4> HIDE DEF r, a
        <4>1. Add(r % Order, a % Order) = (r + a) % Order /\ (r + a) % Order \in Points
          BY <1>4, AddRemainders
        <4> QED
          BY <1>4, <1>5, <4>1
      <3> QED
        BY <1>4, <1>5, <3>1
    <2>5. Step(at).result = sum /\ Step(at).addend = (a + a) % Order /\ Step(at).n = q
      BY <2>2, <2>3 DEF Step
    <2>6. r + n * a = plain + q * (a + a)
      <3>1. q * (a + a) = (2 * q) * a
        BY <1>4
      <3>2. CASE n % 2 = 1
        <4>1. n = 2 * q + 1
          BY <2>2, <3>2
        <4>2. n * a = (2 * q) * a + a
          BY <1>4, <4>1
        <4>3. (2 * q) * a \in Nat
          BY <1>4
        <4> QED
          BY <1>4, <3>1, <3>2, <4>2, <4>3
      <3>3. CASE n % 2 # 1
        <4>1. n = 2 * q
          BY <2>2, <3>3
        <4> QED
          BY <3>1, <3>3, <4>1
      <3> QED
        BY <3>2, <3>3
    <2> HIDE DEF sum, plain
    <2> DEFINE twice == a + a
    <2>7. (q * (twice % Order)) % Order = (q * twice) % Order /\ q * twice \in Nat
          /\ q * (twice % Order) \in Nat
      <3>0. twice \in Nat
        BY <1>4
      <3> HIDE DEF twice
      <3>1. PICK p \in Nat, t \in 0..(Order - 1) : twice = Order * p + t /\ twice % Order = t
        BY <1>1, <3>0, Division
      <3>2. PICK u \in Nat, v \in 0..(Order - 1) : q * t = Order * u + v /\ (q * t) % Order = v
        <4>1. q * t \in Nat
          BY <1>1
        <4> QED
          BY <1>1, <4>1, Division
      <3>3. q * twice = Order * (q * p + u) + v
        <4>1. q * twice = q * (Order * p) + q * t
          <5>1. t \in Nat /\ Order * p \in Nat
            BY <1>1
          <5> QED
            BY <3>1, <5>1
        <4>2. q * (Order * p) = Order * (q * p)
          BY <1>1
        <4>3. Order * (q * p + u) = Order * (q * p) + Order * u
          BY <1>1
        <4>4. Order * (q * p) \in Nat /\ Order * u \in Nat
          BY <1>1
        <4> QED
          BY <1>1, <3>2, <4>1, <4>2, <4>3, <4>4
      <3>4. q * twice \in Nat /\ q * p + u \in Nat /\ q * t \in Nat
        BY <1>1, <3>0
      <3>5. (q * twice) % Order = v
        <4> DEFINE product == q * twice
                   quotient == q * p + u
        <4>1. product \in Nat /\ quotient \in Nat /\ product = Order * quotient + v
          BY <3>3, <3>4
        <4> HIDE DEF product, quotient
        <4>2. product % Order = v
          BY <1>1, <4>1, DivisionIs
        <4> QED
          BY <4>2 DEF product
      <3> QED
        BY <3>1, <3>2, <3>4, <3>5
    <2>8. (sum + q * ((a + a) % Order)) % Order = (plain + q * (a + a)) % Order
      <3> DEFINE x == q * ((a + a) % Order)
                 y == q * (a + a)
      <3>1. x \in Nat /\ y \in Nat /\ x % Order = y % Order
        BY <2>7
      <3>2. sum \in Nat /\ sum % Order = plain % Order
        BY <1>1, <2>4, SmallRemainder DEF Points
      <3> HIDE DEF x, y
      <3>3. /\ ((sum % Order) + (x % Order)) % Order = (sum + x) % Order
            /\ ((plain % Order) + (y % Order)) % Order = (plain + y) % Order
        BY <1>1, <2>4, <3>1, <3>2, RemainderOfSum
      <3> QED
        BY <3>1, <3>2, <3>3 DEF x, y
    <2> QED
      BY <1>4, <2>1, <2>2, <2>3, <2>4, <2>5, <2>6, <2>8 DEF HalvingSound, half
  <1> QED
    BY <1>6, <1>7

LEMMA AmountIsProduct ==
    ASSUME FixedBaseAssumption, NEW p0 \in Points, NEW amount \in 0..(2^AmountBits - 1)
    PROVE  MulAmount(p0, amount) = (amount * p0) % Order
  <1>1. Order \in Nat \ {0} /\ AmountBits \in Nat /\ 2^AmountBits \in Nat \ {0}
    BY PowerDoubles DEF FixedBaseAssumption
  <1>2. p0 \in Nat /\ amount \in Nat
    BY <1>1 DEF Points
  <1>3. CASE amount = 0
    <2>1. 0 * p0 = 0 /\ 0 % Order = 0
      BY <1>1, <1>2
    <2> QED
      BY <1>3, <2>1 DEF MulAmount
  <1>4. CASE amount = 1
    <2>1. MulAmount(p0, amount) = p0
      BY <1>4 DEF MulAmount
    <2>2. 1 * p0 = p0 /\ p0 % Order = p0
      BY <1>1, <1>2, SmallRemainder DEF Points
    <2> QED
      BY <1>4, <2>1, <2>2
  <1>5. CASE amount # 0 /\ amount # 1
    <2> DEFINE start == [result |-> 0, addend |-> p0, n |-> amount]
               seq == [k \in 1..AmountBits |-> k]
               at(k) == Halving!After(start, seq, k)
    <2>1. FoldLeft(StepWhilePositive, start, seq) = Halving!Fold(start, seq)
      BY Zenon DEF Halving!Fold, Halving!FoldLeft, FoldLeft, Halving!MapThenFoldSet,
                   MapThenFoldSet, Halving!Max, Max
    <2>2. MulAmount(p0, amount) = FoldLeft(StepWhilePositive, start, seq).result
      BY <1>5 DEF MulAmount
    <2>0. AmountBits \in Nat
      BY <1>1
    <2>3. DOMAIN seq = 1..AmountBits
      OBVIOUS
    <2>4. HalvingSound(start, p0, amount, 0)
      <3>1. AmountBits - 0 = AmountBits /\ 0 \in Points
        BY <1>1 DEF Points
      <3>2. start.result = 0 /\ start.addend = p0 /\ start.n = amount
        OBVIOUS
      <3>3. 0 + amount * p0 = amount * p0
        BY <1>2
      <3> HIDE DEF start
      <3> QED
        BY <1>1, <1>2, <3>1, <3>2, <3>3 DEF HalvingSound
    <2> HIDE DEF start, seq
    <2>5. Halving!Fold(start, seq) = Halving!After(start, seq, AmountBits)
          /\ Halving!After(start, seq, 0) = start
      BY <2>0, <2>3, Halving!FoldSteps
    <2>6. ASSUME NEW k \in 1..AmountBits
          PROVE  Halving!After(start, seq, k) = StepWhilePositive(Halving!After(start, seq, k - 1), seq[k])
      BY <2>0, <2>3, Halving!FoldSteps
    <2> DEFINE S == {k \in Nat : k <= AmountBits => HalvingSound(at(k), p0, amount, k)}
    <2>7. 0 \in S
      BY <2>4, <2>5
    <2>8. ASSUME NEW k \in Nat, k \in S
          PROVE  k + 1 \in S
      <3> SUFFICES ASSUME k + 1 <= AmountBits PROVE HalvingSound(at(k + 1), p0, amount, k + 1)
        OBVIOUS
      <3>1. k + 1 \in 1..AmountBits /\ (k + 1) - 1 = k /\ k \in 0..(AmountBits - 1)
        BY <1>1
      <3>2. at(k + 1) = StepWhilePositive(at(k), seq[k + 1])
        BY <2>6, <3>1
      <3>3. HalvingSound(at(k), p0, amount, k)
        BY <1>1, <2>8, <3>1
      <3> QED
        BY <1>2, <3>1, <3>2, <3>3, HalvingStep
    <2>9. HalvingSound(at(AmountBits), p0, amount, AmountBits)
      <3> HIDE DEF S
      <3>1. AmountBits \in S
        BY <1>1, <2>7, <2>8, SetInduction
      <3> QED
        BY <1>1, <3>1 DEF S
    <2> DEFINE end == at(AmountBits)
    <2>10. end.n = 0 /\ end.result \in Points /\ end.addend \in Points
           /\ (end.result + end.n * end.addend) % Order = (amount * p0) % Order
      <3>1. 2^(AmountBits - AmountBits) = 1
        <4>1. AmountBits - AmountBits = 0
          BY <1>1
        <4> QED
          BY <4>1, PowerOfZero
      <3> HIDE DEF at
      <3> QED
        BY <2>9, <3>1 DEF HalvingSound
    <2>11. end.result = (amount * p0) % Order
      <3> HIDE DEF end
      <3>1. end.result + end.n * end.addend = end.result
        BY <1>1, <2>10 DEF Points
      <3> QED
        BY <1>1, <2>10, <3>1, SmallRemainder DEF Points
    <2> QED
      BY <2>1, <2>2, <2>5, <2>11, Zenon
  <1> QED
    BY <1>3, <1>4, <1>5

\* The table of a base is sound while it is built.
LEMMA TableBuiltSoundly ==
    ASSUME FixedBaseAssumption
    PROVE  TableSpec => []TableInv
  <1>1. TableInit => TableInv
    BY TableStarts
  <1>2. TableInv /\ [TableNext]_tableVars => TableInv'
    <2>1. ASSUME TableInv, NextWindow PROVE TableInv'
      BY <2>1, TableGrows
    <2>2. ASSUME TableInv, UNCHANGED tableVars PROVE TableInv'
      BY <2>2 DEF tableVars, TableInv, TableSound, WindowBase
    <2> QED
      BY <2>1, <2>2 DEF TableNext
  <1> QED
    BY <1>1, <1>2, PTL DEF TableSpec

\* Whatever the group's order and the width of a window, FixedBaseTable::mul
\* gives the product with every scalar.
THEOREM TableMultiplies ==
    ASSUME FixedBaseAssumption
    PROVE  TableSpec => []MulExact
  <1>1. TableInv => MulExact
    BY MulIsProduct DEF MulExact
  <1> QED
    BY <1>1, TableBuiltSoundly, PTL

\* Whatever the group's order and the width of amounts, g1_mul_u32 gives the
\* product with every amount.
THEOREM AmountsMultiply ==
    ASSUME FixedBaseAssumption
    PROVE  TableSpec => []AmountExact
  <1>1. TableInv => AmountExact
    BY AmountIsProduct DEF AmountExact, TableInv
  <1> QED
    BY <1>1, TableBuiltSoundly, PTL
=============================================================================
