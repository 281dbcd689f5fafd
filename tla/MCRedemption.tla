---------------------------- MODULE MCRedemption ----------------------------
(* Small instances of RedemptionServer for TLC. *)
EXTENDS RedemptionInvariant, TLC

CONSTANTS p1, p2, h1, h2

\* Epochs of one tick, or two.
UnitEpochs(e) == e
TwoTickEpochs(e) == 2 * e

\* A client makes its proofs for any epoch and second of the run, or for a few.
AnyEpoch(s) == Epoch
CalendarEpochs(s) ==
    {e \in Epoch : EpochStart(e) <= s /\ s <= EpochStart(e + 1) + RolloverLag}

FirstEpoch(s) == {0}

AnySecond(s) == 0..MaxTime
LaterSeconds(s) == {1, 2}
ThisSecond(s) == {s}

\* All tasks in one process, or each in its own.
OneHome(h) == p1
TwoHomes(h) == IF h = h1 THEN p1 ELSE p2

KeySymmetry == Permutations(Key)
TaskSymmetry == Permutations(Key) \cup Permutations(Task)
=============================================================================
