---------------------------- MODULE MCRelayPull ----------------------------
(* Mail for one user; another one may pull as well.                        *)
EXTENDS RelayPull

CONSTANTS u1, u2
MCTo == [m \in Msgs |-> u1]
=============================================================================
