----------------------------- MODULE MCTupleFlobs -----------------------------
(* Instances of TupleFlobs for TLC. *)
EXTENDS TupleFlobs, TLC

CONSTANTS p1, p2, d1, d2, a, b

MCProcesses == {p1, p2}
MCDatabases == {d1, d2}
MCValues == {a, b}
MCSymmetry == Permutations(MCProcesses) \cup Permutations(MCDatabases)
                \cup Permutations(MCValues)
MCRegular == {}
=============================================================================
