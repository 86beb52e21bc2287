---------------------------- MODULE MCPregelBroker ----------------------------
(* Instances of PregelBroker for TLC. *)
EXTENDS PregelBroker

CONSTANTS w1, w2

MCTwo == {w1, w2}
MCRegular == {}
=============================================================================
