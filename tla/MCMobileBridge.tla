--------------------------- MODULE MCMobileBridge ---------------------------
(* One inbound link and one copying thread; channels of one sighting.       *)
EXTENDS MobileBridge

CONSTANTS in1, w1
=============================================================================
