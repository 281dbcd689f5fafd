---------------------------- MODULE PointEncoding ----------------------------
(***************************************************************************)
(* A chunk of a file as a Ristretto point (src/file_binding.rs): its bits  *)
(* are put into a compressed encoding behind a low bit that is zero, the   *)
(* bits left over are filled from a hash of the payload and a counter, and *)
(* the counter goes on until the encoding is one of a point.  Encodings    *)
(* and payloads are the sets of their bits that are one, counted from 0.   *)
(*                                                                         *)
(* Which encodings are canonical ones of a point is arithmetic of the      *)
(* curve: here any with the low and the top bit zero may be one or not.    *)
(***************************************************************************)
EXTENDS Integers, Sequences

CONSTANTS
    ByteBits,       \* 8
    PayloadBytes,   \* REVERSIBLE_POINT_PAYLOAD_SIZE (17)
    EncodingBits,   \* 256
    MaxAttempts     \* REVERSIBLE_POINT_MAX_ENCODING_ATTEMPTS

EncodingAssumption ==
    /\ {ByteBits, PayloadBytes, EncodingBits, MaxAttempts} \subseteq Nat \ {0}
    /\ PayloadBytes * ByteBits + 1 < EncodingBits

VARIABLES
    chunk,      \* the bytes to encode
    counter,    \* attempts so far
    point       \* the encoding of the point found

encodingVars == <<chunk, counter, point>>

Searching == [found |-> FALSE]

Byte == SUBSET (0..(ByteBits - 1))
PayloadBits == 0..(PayloadBytes * ByteBits - 1)
TopBit == EncodingBits - 1

\* The chunk's bytes, then zero bytes, as bits.
Payload(bytes) ==
    {b \in PayloadBits :
        /\ b \div ByteBits < Len(bytes)
        /\ b % ByteBits \in bytes[b \div ByteBits + 1]}

\* Payload bit b is bit b + 1 of the encoding.
PackPayload(payload) == {b + 1 : b \in payload}
UnpackPayload(encoding) == {b \in PayloadBits : b + 1 \in encoding}

\* Mutant: the filler starts where the payload would end without the low bit.
FirstFreeBitUnshifted == PayloadBytes * ByteBits

FirstFreeBit == 1 + PayloadBytes * ByteBits

\* set_bit_le for every free bit, then for the top bit.
Fill(candidate, suffix) ==
    ((candidate \ (FirstFreeBit..(TopBit - 1))) \cup suffix) \ {TopBit}

MayBePoint(candidate) == 0 \notin candidate /\ TopBit \notin candidate

EncodingInit ==
    /\ chunk \in UNION {[1..n -> Byte] : n \in 0..PayloadBytes}
    /\ counter = 0
    /\ point = Searching

\* One counter: the hash fills the free bits, and the candidate is a point or not.
Attempt ==
    /\ point = Searching /\ counter < MaxAttempts
    /\ counter' = counter + 1
    /\ \E suffix \in SUBSET (FirstFreeBit..(TopBit - 1)) :
         LET candidate == Fill(PackPayload(Payload(chunk)), suffix) IN
         \/ MayBePoint(candidate) /\ point' = [found |-> TRUE, encoding |-> candidate]
         \/ UNCHANGED point
    /\ UNCHANGED chunk

EncodingNext == Attempt

EncodingSpec == EncodingInit /\ [][EncodingNext]_encodingVars

\* decode_point_to_chunk: the first len bytes of the payload.
Decode(encoding, len) ==
    LET payload == UnpackPayload(encoding) IN
    [k \in 1..len |-> {b \in 0..(ByteBits - 1) : (k - 1) * ByteBits + b \in payload}]

\* Every chunk has candidates that may be points, whatever its bits, and the
\* one found gives the chunk back, whatever the filler was.
ChunkReadBack ==
    /\ MayBePoint(Fill(PackPayload(Payload(chunk)), {}))
    /\ point.found => Decode(point.encoding, Len(chunk)) = chunk
=============================================================================
