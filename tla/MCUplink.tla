------------------------------ MODULE MCUplink ------------------------------
(* Two callers with a key, each of whom makes the other's bucket go, and a  *)
(* sender without one; a node of each kind, the one with a key file started *)
(* twice.                                                                   *)
EXTENDS Uplink, TLC

CONSTANTS s, r, x, m1, m2, w1, w2, n1, n2, n3, p1, p2, p3, p4
MCSender == [m \in Msgs |-> IF m = m1 THEN s ELSE x]
MCDeployments ==
  {[primary |-> "direct", sent |-> {}, time |-> 3],
   [primary |-> "direct", sent |-> Msgs, time |-> 1],
   [primary |-> "mix", sent |-> {m1}, time |-> 0]}
MCNodeOf == [p \in Procs |-> IF p \in {p1, p2} THEN n1 ELSE IF p = p3 THEN n2 ELSE n3]
MCKeySource == [n \in Nodes |-> IF n = n1 THEN "file" ELSE IF n = n2 THEN "env" ELSE "none"]
MCSymmetry == Permutations(Workers)
=============================================================================
