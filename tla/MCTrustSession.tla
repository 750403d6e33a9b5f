--------------------------- MODULE MCTrustSession ---------------------------
(* Two users; the one that does not verify reinstalls.                      *)
EXTENDS TrustSession

CONSTANTS alice, bob
MCInstalls == [u \in Users |-> IF u = bob THEN 1 ELSE 0]
=============================================================================
