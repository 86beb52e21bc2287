--------------------------- MODULE MCRestructureLock ---------------------------
(* Instances of RestructureLock for TLC. *)
EXTENDS RestructureLock

CONSTANTS c1, c2, c3, k1, k2

MCClients == {c1, c2, c3}
MCCleaners == {k1, k2}
MCSlow == {"slow query"}
=============================================================================
