----------------------------- MODULE MCHciFlow -----------------------------
(* HciFlow with two links, one of them an LE link.                         *)
EXTENDS HciFlow

OneLe == {H2}
=============================================================================
