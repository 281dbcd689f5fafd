------------------------------ MODULE FixedBase ------------------------------
(***************************************************************************)
(* Multiples of G1 points (src/msm.rs): the table of a fixed base, built   *)
(* window by window, and the product with a scalar read from it; and the   *)
(* double-and-add loop for amounts.  A point of the group is its exponent, *)
(* a number modulo the group's order; Rust's vectors count from 0.         *)
(***************************************************************************)
EXTENDS Integers, Sequences, SequencesExt

CONSTANTS
    Order,          \* the order of G1
    WindowBits,     \* bits of a window; a byte holds two windows
    NumWindows,     \* windows of a scalar
    AmountBits      \* bound: amounts have this many bits

FixedBaseAssumption ==
    /\ {Order, WindowBits, NumWindows, AmountBits} \subseteq Nat \ {0}
    /\ NumWindows % 2 = 0
    /\ Order <= 2^(WindowBits * NumWindows)

VARIABLES
    base,       \* the generator
    table,      \* NonZeroDigits multiples for each window so far
    baseExp     \* the base of the next window: 2^(WindowBits * w) * base

tableVars == <<base, table, baseExp>>

Points == 0..(Order - 1)
Add(p, q) == (p + q) % Order
NonZeroDigits == 2^WindowBits - 1

-----------------------------------------------------------------------------
(* FixedBaseTable::new                                                     *)

\* The window's multiples, each the one before it plus the window's base.
NextMultiple(row, b) == Append(row, Add(row[Len(row)], b))
Row(b) == FoldLeft(NextMultiple, <<b>>, [d \in 1..(NonZeroDigits - 1) |-> b])

\* WindowBits doublings.
Doubled(p, k) == Add(p, p)
Advance(b) == FoldLeft(Doubled, b, [k \in 1..WindowBits |-> k])

TableInit ==
    /\ base \in Points
    /\ table = <<>>
    /\ baseExp = base

NextWindow ==
    /\ Len(table) < NumWindows * NonZeroDigits
    /\ table' = table \o Row(baseExp)
    /\ baseExp' = Advance(baseExp)
    /\ UNCHANGED base

TableNext == NextWindow

TableSpec == TableInit /\ [][TableNext]_tableVars

-----------------------------------------------------------------------------
(* FixedBaseTable::mul, from a scalar's little-endian bytes                *)

Bytes(s) ==
    [j \in 0..(NumWindows \div 2 - 1) |-> (s \div 2^(2 * WindowBits * j)) % 2^(2 * WindowBits)]

\* Mutant: the high window of a byte is read first.
DigitHighFirst(bytes, w) == (bytes[w \div 2] \div 2^((1 - (w % 2)) * WindowBits)) % 2^WindowBits

Digit(bytes, w) == (bytes[w \div 2] \div 2^((w % 2) * WindowBits)) % 2^WindowBits

\* The vector's entry w * NonZeroDigits + digit - 1; nothing is added for zero.
AddWindow(acc, read) ==
    IF read.digit = 0 THEN acc ELSE Add(acc, table[read.window * NonZeroDigits + read.digit])

Mul(s) ==
    FoldLeft(AddWindow, 0,
             [w \in 1..NumWindows |-> [window |-> w - 1, digit |-> Digit(Bytes(s), w - 1)]])

-----------------------------------------------------------------------------
(* g1_mul_u32                                                              *)

\* Mutant: the addend is doubled before it is added.
StepDoubledFirst(at) ==
    [result |-> IF at.n % 2 = 1 THEN Add(at.result, Add(at.addend, at.addend)) ELSE at.result,
     addend |-> Add(at.addend, at.addend),
     n      |-> at.n \div 2]

Step(at) ==
    [result |-> IF at.n % 2 = 1 THEN Add(at.result, at.addend) ELSE at.result,
     addend |-> Add(at.addend, at.addend),
     n      |-> at.n \div 2]

StepWhilePositive(at, k) == IF at.n > 0 THEN Step(at) ELSE at

\* Zero and one return at once; the loop runs while n > 0.
MulAmount(point, amount) ==
    CASE amount = 0 -> 0
      [] amount = 1 -> point
      [] OTHER -> FoldLeft(StepWhilePositive, [result |-> 0, addend |-> point, n |-> amount],
                           [k \in 1..AmountBits |-> k]).result

-----------------------------------------------------------------------------
(* Properties                                                              *)

TableBuilt == Len(table) = NumWindows * NonZeroDigits

\* The table holds a multiple for every window and digit of every scalar, its
\* doublings wrap around the order without a trace, and what is read from it
\* adds up to the product.
MulExact == TableBuilt => \A s \in Points : Mul(s) = (s * base) % Order

\* Double-and-add agrees with the product at every amount, the shortcuts at
\* zero and one and the amount of all ones included.
AmountExact == \A a \in 0..(2^AmountBits - 1) : MulAmount(base, a) = (a * base) % Order
=============================================================================
