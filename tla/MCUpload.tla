------------------------------ MODULE MCUpload ------------------------------
(* A small instance of Upload for TLC. *)
EXTENDS Upload

CONSTANTS x1, x2

AQuarterOfBlocks == <<1, 4>>
ConfidenceAsked == <<3, 4>>

\* The spender is revoked or nobody is.
NoneOrTheHandle == {{}, {Emax}}

\* Up to three blocks of any lengths a point can hold.
ShortCuts == UNION {[1..n -> 0..PointBytes] : n \in 0..3}

\* The first ones below the number of blocks, in an order of the blocks of the
\* longest file.
Drawing(order) ==
    [p \in {q \in (0..6) \X (0..5) : q[2] < q[1]} |->
        LET below == SelectSeq(order, LAMBDA i : i < p[1]) IN {below[d] : d \in 1..p[2]}]

TwoNonces == {Drawing(<<0, 1, 2, 3, 4, 5>>), Drawing(<<4, 2, 5, 0, 1, 3>>)}
=============================================================================
