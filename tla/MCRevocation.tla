---------------------------- MODULE MCRevocation ----------------------------
(* Small instances of RevocationList for TLC. *)
EXTENDS RevocationList

CONSTANTS x1, x2

Expiry(u) == IF u = x1 THEN 1 ELSE 3

\* Every blacklist within the domain.
InDomain == SUBSET (0..DomainMax)

\* Handles beyond the domain as well, at most two at a time.
UpToTwo == {b \in SUBSET (0..MaxValue) : Cardinality(b) <= 2}
=============================================================================
