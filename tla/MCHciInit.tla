----------------------------- MODULE MCHciInit -----------------------------
(* Instances of HciInit for TLC: all constants are given in the .cfg.      *)
EXTENDS HciInit
=============================================================================
