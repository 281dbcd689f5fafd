----------------------------- MODULE ActLedger -----------------------------
(***************************************************************************)
(* What the token service promises, with no tokens, proofs, caches or      *)
(* databases: one allowance per subscriber and epoch, granted once, that   *)
(* spends only lower and never overdraw.                                   *)
(***************************************************************************)
EXTENDS Integers

CONSTANTS
    User,       \* subscribers (a hidden x each)
    Epoch,      \* epoch numbers
    CMax        \* the allowance of one epoch (c_max)

VARIABLE allowance      \* what is left to each subscriber in each epoch

Account == User \X Epoch

NotGranted == -1

Init == allowance = [a \in Account |-> NotGranted]

\* An epoch's allowance is granted at most once.
Grant(a) ==
    /\ allowance[a] = NotGranted
    /\ allowance' = [allowance EXCEPT ![a] = CMax]

\* A spend takes a positive amount that is still there.
Spend(a, s) ==
    /\ s <= allowance[a]
    /\ allowance' = [allowance EXCEPT ![a] = @ - s]

Next == \E a \in Account : Grant(a) \/ \E s \in 1..CMax : Spend(a, s)

Spec == Init /\ [][Next]_allowance
=============================================================================
