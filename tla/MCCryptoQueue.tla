--------------------------- MODULE MCCryptoQueue ---------------------------
EXTENDS CryptoQueue
CONSTANTS R1, R2, R3

(* The security manager asks for random numbers and keys, and one message  *)
(* is protected.                                                           *)
Uses3(r) ==
  CASE r = R1 -> {"random", "calculate"}
    [] r = R2 -> {"generate"}
    [] r = R3 -> Ccm
=============================================================================
