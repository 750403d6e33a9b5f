-------------------------- MODULE MCMeshTransport --------------------------
(* Two devices in conversation and in range of each other.                 *)
EXTENDS MeshTransport, TLC

CONSTANTS A, B
OneWay == {<<A, B>>}
BothWays == {<<A, B>>, <<B, A>>}
=============================================================================
