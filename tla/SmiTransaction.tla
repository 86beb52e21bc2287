---------------------------- MODULE SmiTransaction ----------------------------
(***************************************************************************)
(* Files and transactions of the storage manager                          *)
(* (StorageManager/bdbEnvironment.cpp, bdbFile.cpp), used by several       *)
(* server processes on the same environment.  A session opens the named    *)
(* files of the catalog through the file catalog, creates and drops        *)
(* anonymous files, and ends its transaction usrTxn.  What is created in   *)
(* usrTxn is rolled back with it; removals and entries of the file catalog *)
(* are postponed to the end of the transaction.                            *)
(***************************************************************************)
EXTENDS Naturals

CONSTANTS
  Sessions,   \* server processes
  Databases,
  Names,      \* names of SmiFiles: "SecondoCatalog.Objects", ...
  NoFile,     \* a name without a file
  NoDatabase, \* the session has no database open
  MaxFileId,  \* bound: file ids per database
  Irregular   \* situations, among those below, that the instance includes

Situations ==
  {"commit deadlocked", \* CommitTransaction although a deadlock was reported
   "first open race",   \* two sessions open a database that has no files yet
   "outside"}           \* files are created and dropped without usrTxn

ASSUME SmiAssumption ==
  /\ Irregular \subseteq Situations
  /\ MaxFileId \in Nat
  /\ NoFile \notin Nat
  /\ NoDatabase \notin Databases

FileIds == 1 .. MaxFileId
Files == Databases \X FileIds

VARIABLES
  sequence,     \* bdbSeq of each database: the file id given last
  fileCatalog,  \* bdbCatalog and its index: the id of each name
  existing,     \* the files on disk
  used,         \* the files that stored objects refer to
  strays,       \* the files that no one would ever drop after a crash
  phase,        \* what each session does
  database,     \* the database a session has open
  txnStarted, txnMustAbort,
  usrTxn,       \* what the transaction of a session has done so far
  held,         \* files of values that are not stored (yet)
  toCatalog,    \* bdbFilesToCatalog
  toDrop,       \* bdbFilesToDrop: pairs of fileId and dropOnCommit
  opened        \* the named files that SecondoCatalog has opened

durableVars == <<sequence, fileCatalog, existing, used, strays>>
sessionVars == <<phase, database, txnStarted, txnMustAbort, usrTxn, held,
                 toCatalog, toDrop, opened>>
vars == <<durableVars, sessionVars>>

NoNames == [n \in Names |-> NoFile]
NoChanges == [created |-> {}, stored |-> {}, removed |-> {}]

SmiTypeOK ==
  /\ sequence \in [Databases -> 0 .. MaxFileId]
  /\ fileCatalog \in [Databases -> [Names -> FileIds \cup {NoFile}]]
  /\ existing \subseteq Files
  /\ used \subseteq Files
  /\ strays \subseteq Files
  /\ phase \in [Sessions -> {"closed", "opening", "ready", "erasing"}]
  /\ database \in [Sessions -> Databases \cup {NoDatabase}]
  /\ \A s \in Sessions : phase[s] # "closed" => database[s] \in Databases
  /\ txnStarted \in [Sessions -> BOOLEAN]
  /\ txnMustAbort \in [Sessions -> BOOLEAN]
  /\ \A s \in Sessions : txnMustAbort[s] => txnStarted[s]
  /\ usrTxn \in [Sessions -> [created: SUBSET Files, stored: SUBSET Files,
                              removed: SUBSET Files]]
  /\ held \in [Sessions -> SUBSET Files]
  /\ toCatalog \in [Sessions -> [Names -> FileIds \cup {NoFile}]]
  /\ toDrop \in [Sessions -> SUBSET (FileIds \X BOOLEAN)]
  /\ opened \in [Sessions -> [Names -> FileIds \cup {NoFile}]]

SessionsInit ==
  /\ phase = [s \in Sessions |-> "closed"]
  /\ database = [s \in Sessions |-> NoDatabase]
  /\ txnStarted = [s \in Sessions |-> FALSE]
  /\ txnMustAbort = [s \in Sessions |-> FALSE]
  /\ usrTxn = [s \in Sessions |-> NoChanges]
  /\ held = [s \in Sessions |-> {}]
  /\ toCatalog = [s \in Sessions |-> NoNames]
  /\ toDrop = [s \in Sessions |-> {}]
  /\ opened = [s \in Sessions |-> NoNames]

\* The databases have been created and have no files yet.
Init ==
  /\ sequence = [d \in Databases |-> 0]
  /\ fileCatalog = [d \in Databases |-> NoNames]
  /\ existing = {}
  /\ used = {}
  /\ strays = {}
  /\ SessionsInit

Catalogued ==
  {f \in Files : \E n \in Names : fileCatalog[f[1]][n] = f[2]}

-----------------------------------------------------------------------------
(* Files.                                                                  *)

\* mutant: the number is taken from the files that are there
IdFromDirectory(d) ==
  IF \A i \in FileIds : <<d, i>> \notin existing THEN 1
  ELSE 1 + CHOOSE i \in FileIds : /\ <<d, i>> \in existing
                                  /\ \A j \in FileIds : <<d, j>> \in existing => j <= i

\* The number that GetFileId returns; it counts in a transaction of its own.
NextFileId(d) == sequence[d] + 1

\* A new file, created in usrTxn if it runs.
NewFile(s) ==
  LET d == database[s]
      f == <<d, NextFileId(d)>>
  IN  /\ sequence[d] < MaxFileId
      /\ sequence' = [sequence EXCEPT ![d] = NextFileId(d)]
      /\ toDrop' = [toDrop EXCEPT ![s] = @ \cup {<<NextFileId(d), FALSE>>}]
      /\ IF txnStarted[s]
           THEN /\ usrTxn' = [usrTxn EXCEPT ![s].created = @ \cup {f}]
                /\ UNCHANGED existing
           ELSE /\ existing' = existing \cup {f}
                /\ UNCHANGED usrTxn

\* LookUpCatalog finds the name.
OpenCatalogued(s, n) ==
  /\ phase[s] = "opening"
  /\ opened[s][n] = NoFile
  /\ fileCatalog[database[s]][n] # NoFile
  /\ opened' = [opened EXCEPT ![s][n] = fileCatalog[database[s]][n]]
  /\ UNCHANGED <<durableVars, phase, database, txnStarted, txnMustAbort,
                 usrTxn, held, toCatalog, toDrop>>

\* mutant: the file catalog is not updated at the end of the transaction
RegisterAtOnce(s, n, id) ==
  /\ fileCatalog' = [fileCatalog EXCEPT ![database[s]][n] = id]
  /\ UNCHANGED toCatalog

\* bdbFilesToCatalog: the name gets its entry when the transaction ends.
Register(s, n, id) ==
  /\ toCatalog' = [toCatalog EXCEPT ![s][n] = id]
  /\ UNCHANGED fileCatalog

\* The name is new.
OpenNew(s, n) ==
  /\ phase[s] = "opening"
  /\ opened[s][n] = NoFile
  /\ fileCatalog[database[s]][n] = NoFile
  /\ \/ "first open race" \in Irregular
     \/ \A r \in Sessions \ {s} :
          ~(phase[r] \in {"opening", "erasing"} /\ database[r] = database[s])
  /\ NewFile(s)
  /\ opened' = [opened EXCEPT ![s][n] = NextFileId(database[s])]
  /\ Register(s, n, NextFileId(database[s]))
  /\ UNCHANGED <<used, strays, phase, database, txnStarted, txnMustAbort, held>>

MayTouch(s) == /\ phase[s] = "ready"
               /\ txnStarted[s] \/ "outside" \in Irregular

\* The value of an operator gets a file.
Create(s) ==
  /\ MayTouch(s)
  /\ NewFile(s)
  /\ held' = [held EXCEPT ![s] = @ \cup {<<database[s], NextFileId(database[s])>>}]
  /\ UNCHANGED <<fileCatalog, used, strays, phase, database, txnStarted,
                 txnMustAbort, toCatalog, opened>>

\* CleanUp stores the object that the file belongs to.
Store(s, f) ==
  /\ phase[s] = "ready"
  /\ txnStarted[s]
  /\ f \in held[s]
  /\ held' = [held EXCEPT ![s] = @ \ {f}]
  /\ usrTxn' = [usrTxn EXCEPT ![s].stored = @ \cup {f}]
  /\ UNCHANGED <<durableVars, phase, database, txnStarted, txnMustAbort,
                 toCatalog, toDrop, opened>>

\* mutant: the removal is not postponed
DropAtOnce(s, f) ==
  /\ toDrop' = toDrop
  /\ existing' = existing \ {f}

\* SmiFile::Drop: the removal is requested.
Drop(s, f) ==
  /\ toDrop' = [toDrop EXCEPT ![s] = @ \cup {<<f[2], TRUE>>}]
  /\ UNCHANGED existing

\* The file of a value that is not stored.
DropHeld(s, f) ==
  /\ MayTouch(s)
  /\ f \in held[s]
  /\ Drop(s, f)
  /\ held' = [held EXCEPT ![s] = @ \ {f}]
  /\ UNCHANGED <<sequence, fileCatalog, used, strays, phase, database,
                 txnStarted, txnMustAbort, usrTxn, toCatalog, opened>>

\* CleanUp deletes a stored object; no other transaction has deleted it, as
\* its record is locked then.
DropStored(s, f) ==
  /\ phase[s] = "ready"
  /\ txnStarted[s]
  /\ f[1] = database[s]
  /\ f \in used
  /\ \A r \in Sessions : f \notin usrTxn[r].removed
  /\ Drop(s, f)
  /\ usrTxn' = [usrTxn EXCEPT ![s].removed = @ \cup {f}]
  /\ UNCHANGED <<sequence, fileCatalog, used, strays, phase, database,
                 txnStarted, txnMustAbort, held, toCatalog, opened>>

-----------------------------------------------------------------------------
(* Transactions.                                                           *)

\* SecondoSystem::OpenDatabase: the files of the catalog are opened within a
\* transaction.
OpenDatabase(s, d) ==
  /\ phase[s] = "closed"
  /\ phase' = [phase EXCEPT ![s] = "opening"]
  /\ database' = [database EXCEPT ![s] = d]
  /\ txnStarted' = [txnStarted EXCEPT ![s] = TRUE]
  /\ UNCHANGED <<durableVars, txnMustAbort, usrTxn, held, toCatalog, toDrop,
                 opened>>

BeginTransaction(s) ==
  /\ phase[s] = "ready"
  /\ ~txnStarted[s]
  /\ txnStarted' = [txnStarted EXCEPT ![s] = TRUE]
  /\ UNCHANGED <<durableVars, phase, database, txnMustAbort, usrTxn, held,
                 toCatalog, toDrop, opened>>

\* An access returns DB_LOCK_DEADLOCK, which takes another transaction.
Deadlock(s) ==
  /\ phase[s] \in {"opening", "ready"}
  /\ txnStarted[s]
  /\ ~txnMustAbort[s]
  /\ \E r \in Sessions \ {s} : txnStarted[r] /\ database[r] = database[s]
  /\ txnMustAbort' = [txnMustAbort EXCEPT ![s] = TRUE]
  /\ UNCHANGED <<durableVars, phase, database, txnStarted, usrTxn, held,
                 toCatalog, toDrop, opened>>

\* InsertIntoCatalog refuses a name that the index has already.
CatalogUpdatable(s) ==
  \A n \in Names :
    toCatalog[s][n] # NoFile => fileCatalog[database[s]][n] = NoFile

\* mutant: the child transaction is not committed
UpdateCatalogLost(s) == fileCatalog

\* UpdateCatalog, in a child of usrTxn: all names or none.
UpdateCatalog(s) ==
  IF CatalogUpdatable(s)
    THEN [fileCatalog EXCEPT ![database[s]] =
            [n \in Names |-> IF toCatalog[s][n] # NoFile THEN toCatalog[s][n]
                                                         ELSE @[n]]]
    ELSE fileCatalog

\* The end of usrTxn; the result of UpdateCatalog is not looked at.
CommitUsrTxn(s) ==
  IF txnMustAbort[s]
    THEN UNCHANGED <<fileCatalog, existing, used>>
    ELSE /\ fileCatalog' = UpdateCatalog(s)
         /\ existing' = existing \cup usrTxn[s].created
         /\ used' = (used \cup usrTxn[s].stored) \ usrTxn[s].removed

\* CommitTransaction up to EraseFiles.
CommitTransaction(s) ==
  /\ phase[s] \in {"opening", "ready"}
  /\ txnStarted[s]
  /\ held[s] = {}
  /\ phase[s] = "opening" => \A n \in Names : opened[s][n] # NoFile
  /\ txnMustAbort[s] => "commit deadlocked" \in Irregular
  /\ CommitUsrTxn(s)
  /\ phase' = [phase EXCEPT ![s] = "erasing"]
  /\ usrTxn' = [usrTxn EXCEPT ![s] = NoChanges]
  /\ toCatalog' = [toCatalog EXCEPT ![s] = NoNames]
  /\ UNCHANGED <<sequence, strays, database, txnStarted, txnMustAbort, held,
                 toDrop, opened>>

\* mutant: the entries of created files are taken for those of dropped ones
ToEraseCreated(s) ==
  {<<database[s], e[1]>> : e \in {x \in toDrop[s] : ~x[2]}}

\* The files that EraseFiles( true ) removes.
ToErase(s) ==
  {<<database[s], e[1]>> : e \in {x \in toDrop[s] : x[2]}}

TxnEnded(s) ==
  /\ txnStarted' = [txnStarted EXCEPT ![s] = FALSE]
  /\ txnMustAbort' = [txnMustAbort EXCEPT ![s] = FALSE]

\* EraseFiles, and the end of CommitTransaction.
EraseFiles(s) ==
  /\ phase[s] = "erasing"
  /\ existing' = existing \ ToErase(s)
  /\ toDrop' = [toDrop EXCEPT ![s] = {}]
  /\ phase' = [phase EXCEPT ![s] = "ready"]
  /\ TxnEnded(s)
  /\ UNCHANGED <<sequence, fileCatalog, used, strays, database, usrTxn, held,
                 toCatalog, opened>>

\* AbortTransaction; when the catalog could not be opened, the database is
\* closed.
AbortTransaction(s) ==
  /\ phase[s] \in {"opening", "ready"}
  /\ txnStarted[s]
  /\ TxnEnded(s)
  /\ usrTxn' = [usrTxn EXCEPT ![s] = NoChanges]
  /\ held' = [held EXCEPT ![s] = @ \ usrTxn[s].created]
  /\ toCatalog' = [toCatalog EXCEPT ![s] = NoNames]
  /\ toDrop' = [toDrop EXCEPT ![s] = {}]
  /\ IF phase[s] = "opening"
       THEN /\ phase' = [phase EXCEPT ![s] = "closed"]
            /\ database' = [database EXCEPT ![s] = NoDatabase]
            /\ opened' = [opened EXCEPT ![s] = NoNames]
       ELSE UNCHANGED <<phase, database, opened>>
  /\ UNCHANGED durableVars

\* With a running transaction CloseDatabase calls CommitTransaction first:
\* the step CommitTransaction followed by this one.  Without one, it does not
\* call EraseFiles.
CloseDatabase(s) ==
  /\ phase[s] = "ready"
  /\ ~txnStarted[s]
  /\ held[s] = {}
  /\ phase' = [phase EXCEPT ![s] = "closed"]
  /\ database' = [database EXCEPT ![s] = NoDatabase]
  /\ opened' = [opened EXCEPT ![s] = NoNames]
  /\ UNCHANGED <<durableVars, txnStarted, txnMustAbort, usrTxn, held,
                 toCatalog, toDrop>>

\* The system dies and is started again with recovery.
Crash ==
  /\ \E s \in Sessions : phase[s] # "closed"
  /\ strays' = existing \ (used \cup Catalogued)
  /\ phase' = [s \in Sessions |-> "closed"]
  /\ database' = [s \in Sessions |-> NoDatabase]
  /\ txnStarted' = [s \in Sessions |-> FALSE]
  /\ txnMustAbort' = [s \in Sessions |-> FALSE]
  /\ usrTxn' = [s \in Sessions |-> NoChanges]
  /\ held' = [s \in Sessions |-> {}]
  /\ toCatalog' = [s \in Sessions |-> NoNames]
  /\ toDrop' = [s \in Sessions |-> {}]
  /\ opened' = [s \in Sessions |-> NoNames]
  /\ UNCHANGED <<sequence, fileCatalog, existing, used>>

FileAction(s) ==
  \/ \E n \in Names : OpenCatalogued(s, n) \/ OpenNew(s, n)
  \/ Create(s)
  \/ \E f \in Files : Store(s, f) \/ DropHeld(s, f) \/ DropStored(s, f)

TransactionAction(s) ==
  \/ \E d \in Databases : OpenDatabase(s, d)
  \/ BeginTransaction(s)
  \/ Deadlock(s)
  \/ CommitTransaction(s)
  \/ EraseFiles(s)
  \/ AbortTransaction(s)
  \/ CloseDatabase(s)

Next == \/ \E s \in Sessions : FileAction(s) \/ TransactionAction(s)
        \/ Crash

Spec == Init /\ [][Next]_vars

-----------------------------------------------------------------------------
(* Properties.                                                             *)

\* "To be able to rollback requests for deleting SmiFiles such requests are
\* ... carried out only if the transaction completes successfully": the file
\* of a stored object is never removed, whatever is rolled back, dropped by
\* other sessions or lost in a crash.
UsedFilesExist == used \subseteq existing

\* The file catalog and the files change together: a name never leads to a
\* file that was rolled back.
FileCatalogBacked == Catalogued \subseteq existing

\* "When updates to the file catalog fail, the transaction is implicitly
\* aborted": a session does not work on files that the next session will
\* not find under their names.
OpenedIsCatalogued ==
  \A s \in Sessions :
    phase[s] = "ready" => opened[s] = fileCatalog[database[s]]

\* A file id is given once, whoever creates files and whoever rolls back.
DistinctFiles ==
  /\ \A s, r \in Sessions :
       s # r => usrTxn[s].created \cap usrTxn[r].created = {}
  /\ \A s \in Sessions : usrTxn[s].created \cap existing = {}

\* A file on disk belongs to a name or an object, or its removal is under
\* way; only a crash between the commit and EraseFiles leaves files behind.
NoStrayFiles ==
  existing \subseteq
    used \cup Catalogued \cup strays
      \cup UNION {ToErase(s) : s \in {r \in Sessions : phase[r] = "erasing"}}
=============================================================================
