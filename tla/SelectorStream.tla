--------------------------- MODULE SelectorStream ---------------------------
(***************************************************************************)
(* The selectors of a block's points as a stream of bytes                  *)
(* (src/ristretto_elligator_codec.rs): pack_selectors sets the bits of one *)
(* selector after the other in zeroed bytes, unpack_selectors reads them.  *)
(* A byte is the set of its bits that are one, and so is a selector; bytes *)
(* and bits count from 0.                                                  *)
(***************************************************************************)
EXTENDS Integers, Sequences

CONSTANTS
    SelectorBits,   \* 3, so every selector of that many bits is valid
    StreamByteBits, \* 8
    MaxSelectors    \* bound: points of a block (16)

StreamAssumption ==
    /\ {SelectorBits, StreamByteBits, MaxSelectors} \subseteq Nat \ {0}
    /\ SelectorBits <= StreamByteBits

VARIABLES
    selectors,      \* the selectors of a block
    out,            \* the packed bytes
    next            \* the next selector

streamVars == <<selectors, out, next>>

Selector == SUBSET (0..(SelectorBits - 1))

\* Bytes that hold `count` selectors.
Need(count) == (count * SelectorBits + StreamByteBits - 1) \div StreamByteBits

\* Mutant: selectors are a bit apart too little.
BitIndexOverlapping(k, bit) == k * (SelectorBits - 1) + bit

BitIndex(k, bit) == k * SelectorBits + bit

StreamInit ==
    /\ selectors \in UNION {[1..n -> Selector] : n \in 0..MaxSelectors}
    /\ out = [b \in 0..(Need(Len(selectors)) - 1) |-> {}]
    /\ next = 0

\* The bits of a selector may fall into two bytes.
PackNext ==
    /\ next < Len(selectors)
    /\ out' = [b \in DOMAIN out |->
                  out[b] \cup {BitIndex(next, bit) % StreamByteBits :
                                  bit \in {s \in selectors[next + 1] : BitIndex(next, s) \div StreamByteBits = b}}]
    /\ next' = next + 1
    /\ UNCHANGED selectors

StreamNext == PackNext

StreamSpec == StreamInit /\ [][StreamNext]_streamVars

\* unpack_selectors; reading past the last byte would be refused.
Unpack(bytes, count) ==
    [k \in 1..count |->
        {bit \in 0..(SelectorBits - 1) :
            BitIndex(k - 1, bit) % StreamByteBits \in bytes[BitIndex(k - 1, bit) \div StreamByteBits]}]

\* Every selector packed so far is read back, whatever comes after it in the
\* bytes they share, and those not packed yet are still zero.
SelectorsReadBack ==
    LET read == Unpack(out, Len(selectors)) IN
    \A k \in 1..Len(selectors) : read[k] = IF k <= next THEN selectors[k] ELSE {}
=============================================================================
