------------------------ MODULE MCDatabaseSessions ------------------------
(* Instances of DatabaseSessions for TLC. *)
EXTENDS DatabaseSessions, TLC

CONSTANTS s1, s2, s3, anna, bert, carl, unknown

MCSessions2 == {s1, s2}
MCSessions3 == {s1, s2, s3}
MCUsers == {anna, bert, carl, unknown}

MCDistinct2 == (s1 :> anna @@ s2 :> bert)
MCDistinct3 == (s1 :> anna @@ s2 :> bert @@ s3 :> carl)
============================================================================
