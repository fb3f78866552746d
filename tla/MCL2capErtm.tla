--------------------------- MODULE MCL2capErtm ---------------------------
(* Two devices: A sends SDUs of two segments, one, and two, B a short one. *)
EXTENDS L2capErtm
CONSTANTS A, B

Segmented == [n \in {A, B} |-> IF n = A THEN <<2, 1, 2>> ELSE <<1>>]
=============================================================================
