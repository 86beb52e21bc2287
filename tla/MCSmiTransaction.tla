--------------------------- MODULE MCSmiTransaction ---------------------------
(* Instances of SmiTransaction for TLC. *)
EXTENDS SmiTransaction, TLC

CONSTANTS s1, s2

MCSessions == {s1, s2}
MCSymmetry == Permutations(MCSessions)
MCRegular == {}
=============================================================================
