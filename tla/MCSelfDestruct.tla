--------------------------- MODULE MCSelfDestruct ---------------------------
(* Small instances of SelfDestruct; the .cfg files give the constants.      *)
EXTENDS SelfDestruct, TLC

\* Handles and callers are interchangeable (used without liveness only).
Interchangeable == Permutations(Handles) \cup Permutations(Callers)
=============================================================================
