---------------------------- MODULE MCNativeFlobs ----------------------------
(* Instances of NativeFlobs for TLC. *)
EXTENDS NativeFlobs, TLC

CONSTANTS f1, f2, a

MCHandles == {f1, f2}
MCValues == {a}
MCSizes == {0, 1, 2}
MCRanges == {<<0, 0>>, <<1, 1>>, <<1, 2>>}
MCSymmetry == Permutations(MCHandles)
=============================================================================
