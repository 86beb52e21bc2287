-------------------------- MODULE MCSecondoCommands --------------------------
(* Instances of SecondoCommands for TLC. *)
EXTENDS SecondoCommands, TLC

CONSTANTS v1, v2

MCRegular == {}
MCIrregular == {"letnt", "rename outside", "begin closed", "switch"}
MCRenameUpdated == {"rename updated"}
=============================================================================
