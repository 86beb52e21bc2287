--------------------------- MODULE MCTuplePrefetcher ---------------------------
(* Instances of TuplePrefetcher for TLC. *)
EXTENDS TuplePrefetcher

CONSTANTS t1, t2

MCTwo == {t1, t2}
MCRegular == {}
=============================================================================
