---------------------------- MODULE MCMeshRelay ----------------------------
(* Two devices in range of each other and bundles of two sizes.            *)
EXTENDS MeshRelay, TLC

CONSTANTS n1, n2, b1, b2, b3, s1, s2

MCLinks == {<<n1, n2>>}
MCSize == [b \in Bundles |-> IF b = b3 THEN 1 ELSE 2]

Interchangeable == Permutations(Sessions)
=============================================================================
