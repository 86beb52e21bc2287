------------------------- MODULE SmiTransactionProofs -------------------------
(***************************************************************************)
(* Theorems about SmiTransaction, for any number of sessions, databases    *)
(* and files.                                                              *)
(***************************************************************************)
EXTENDS SmiTransaction, TLAPS

USE SmiAssumption

-----------------------------------------------------------------------------
(* Type correctness.                                                       *)

Changes == [created: SUBSET Files, stored: SUBSET Files, removed: SUBSET Files]

LEMMA ChangesType == NoChanges \in Changes
  BY DEF NoChanges, Changes

\* usrTxn keeps its type when a file is added to one of its sets.
LEMMA AddedType ==
  ASSUME usrTxn \in [Sessions -> Changes], NEW s \in Sessions, NEW f \in Files
  PROVE  /\ [usrTxn EXCEPT ![s].created = @ \cup {f}] \in [Sessions -> Changes]
         /\ [usrTxn EXCEPT ![s].stored = @ \cup {f}] \in [Sessions -> Changes]
         /\ [usrTxn EXCEPT ![s].removed = @ \cup {f}] \in [Sessions -> Changes]
<1>1. usrTxn[s] \in Changes
  OBVIOUS
<1>2. /\ [usrTxn[s] EXCEPT !.created = @ \cup {f}] \in Changes
      /\ [usrTxn[s] EXCEPT !.stored = @ \cup {f}] \in Changes
      /\ [usrTxn[s] EXCEPT !.removed = @ \cup {f}] \in Changes
  BY <1>1 DEF Changes
<1> QED
  BY <1>2

\* toDrop keeps its type when an entry is added.
LEMMA ToDropType ==
  ASSUME toDrop \in [Sessions -> SUBSET (FileIds \X BOOLEAN)],
         NEW s \in Sessions, NEW i \in FileIds, NEW b \in BOOLEAN
  PROVE  [toDrop EXCEPT ![s] = @ \cup {<<i, b>>}]
           \in [Sessions -> SUBSET (FileIds \X BOOLEAN)]
<1>1. toDrop[s] \cup {<<i, b>>} \in SUBSET (FileIds \X BOOLEAN)
  OBVIOUS
<1> QED
  BY <1>1

LEMMA NamesType == NoNames \in [Names -> FileIds \cup {NoFile}]
  BY DEF NoNames

\* What NewFile leaves has the types of the variables.
LEMMA NewFileType ==
  ASSUME SmiTypeOK, NEW s \in Sessions, database[s] \in Databases, NewFile(s)
  PROVE  /\ NextFileId(database[s]) \in FileIds
         /\ <<database[s], NextFileId(database[s])>> \in Files
         /\ sequence' \in [Databases -> 0 .. MaxFileId]
         /\ toDrop' \in [Sessions -> SUBSET (FileIds \X BOOLEAN)]
         /\ existing' \subseteq Files
         /\ usrTxn' \in [Sessions -> Changes]
<1> DEFINE d == database[s]
           f == <<d, NextFileId(d)>>
<1>1. sequence[d] \in 0 .. MaxFileId /\ sequence[d] < MaxFileId
  BY DEF SmiTypeOK, NewFile
<1>2. NextFileId(d) \in FileIds /\ NextFileId(d) \in 0 .. MaxFileId
  BY <1>1 DEF NextFileId, FileIds
<1>3. f \in Files
  BY <1>2 DEF Files
<1>4. sequence' \in [Databases -> 0 .. MaxFileId]
  BY <1>2 DEF SmiTypeOK, NewFile
<1>5. toDrop' \in [Sessions -> SUBSET (FileIds \X BOOLEAN)]
  <2>1. toDrop' = [toDrop EXCEPT ![s] = @ \cup {<<NextFileId(d), FALSE>>}]
    BY DEF NewFile
  <2> QED
    BY <1>2, <2>1, ToDropType DEF SmiTypeOK
<1>6. CASE txnStarted[s]
  <2>1. usrTxn' = [usrTxn EXCEPT ![s].created = @ \cup {f}] /\ existing' = existing
    BY <1>6 DEF NewFile
  <2>2. usrTxn' \in [Sessions -> Changes]
    BY <1>3, <2>1, AddedType DEF SmiTypeOK, Changes
  <2> QED
    BY <1>2, <1>3, <1>4, <1>5, <2>1, <2>2 DEF SmiTypeOK
<1>7. CASE ~txnStarted[s]
  <2>1. usrTxn' = usrTxn /\ existing' = existing \cup {f}
    BY <1>7 DEF NewFile
  <2> QED
    BY <1>2, <1>3, <1>4, <1>5, <2>1 DEF SmiTypeOK, Changes
<1> QED
  BY <1>6, <1>7

\* The file catalog that UpdateCatalog leaves has the type of the catalog.
LEMMA UpdateCatalogType ==
  ASSUME SmiTypeOK, NEW s \in Sessions
  PROVE  UpdateCatalog(s) \in [Databases -> [Names -> FileIds \cup {NoFile}]]
<1> DEFINE Merged(c) == [n \in Names |-> IF toCatalog[s][n] # NoFile
                                         THEN toCatalog[s][n] ELSE c[n]]
<1>1. CASE CatalogUpdatable(s)
  <2>1. \A c \in [Names -> FileIds \cup {NoFile}] :
          Merged(c) \in [Names -> FileIds \cup {NoFile}]
    <3>1. toCatalog[s] \in [Names -> FileIds \cup {NoFile}]
      BY DEF SmiTypeOK
    <3> QED
      BY <3>1
  <2>2. UpdateCatalog(s) =
          [fileCatalog EXCEPT ![database[s]] = Merged(fileCatalog[database[s]])]
    BY <1>1 DEF UpdateCatalog
  <2>3. fileCatalog \in [Databases -> [Names -> FileIds \cup {NoFile}]]
    BY DEF SmiTypeOK
  <2> HIDE DEF Merged
  <2> QED
    BY <2>1, <2>2, <2>3
<1>2. CASE ~CatalogUpdatable(s)
  BY <1>2 DEF UpdateCatalog, SmiTypeOK
<1> QED
  BY <1>1, <1>2

LEMMA TypeInit == Init => SmiTypeOK
<1> SUFFICES ASSUME Init PROVE SmiTypeOK
  OBVIOUS
<1>1. 0 \in 0 .. MaxFileId
  OBVIOUS
<1> QED
  BY <1>1, ChangesType, NamesType DEF Init, SessionsInit, SmiTypeOK, Changes

LEMMA TypeStep == SmiTypeOK /\ [Next]_vars => SmiTypeOK'
<1> SUFFICES ASSUME SmiTypeOK, [Next]_vars
             PROVE  SmiTypeOK'
  OBVIOUS
<1>1. ASSUME NEW s \in Sessions, NEW n \in Names, OpenCatalogued(s, n)
      PROVE  SmiTypeOK'
  <2>1. fileCatalog[database[s]][n] \in FileIds \cup {NoFile}
    BY <1>1 DEF SmiTypeOK, OpenCatalogued
  <2> QED
    BY <1>1, <2>1 DEF SmiTypeOK, OpenCatalogued, durableVars
<1>2. ASSUME NEW s \in Sessions, NEW n \in Names, OpenNew(s, n)
      PROVE  SmiTypeOK'
  <2>1. database[s] \in Databases /\ NewFile(s)
    BY <1>2 DEF SmiTypeOK, OpenNew
  <2> QED
    BY <1>2, <2>1, NewFileType DEF SmiTypeOK, OpenNew, Register, Changes
<1>3. ASSUME NEW s \in Sessions, Create(s)
      PROVE  SmiTypeOK'
  <2>1. database[s] \in Databases /\ NewFile(s)
    BY <1>3 DEF SmiTypeOK, Create, MayTouch
  <2> QED
    BY <1>3, <2>1, NewFileType DEF SmiTypeOK, Create, Changes
<1>4. ASSUME NEW s \in Sessions, NEW f \in Files, Store(s, f)
      PROVE  SmiTypeOK'
  <2>1. usrTxn' \in [Sessions -> Changes]
    BY <1>4, AddedType DEF SmiTypeOK, Store, Changes
  <2>2. held' \in [Sessions -> SUBSET Files]
    BY <1>4 DEF SmiTypeOK, Store
  <2> QED
    BY <1>4, <2>1, <2>2 DEF SmiTypeOK, Store, durableVars, Changes
<1>5. ASSUME NEW s \in Sessions, NEW f \in Files, DropHeld(s, f)
      PROVE  SmiTypeOK'
  <2>1. f[2] \in FileIds
    BY DEF Files
  <2>2. toDrop' \in [Sessions -> SUBSET (FileIds \X BOOLEAN)]
    BY <1>5, <2>1, ToDropType DEF SmiTypeOK, DropHeld, Drop
  <2>3. held' \in [Sessions -> SUBSET Files]
    BY <1>5 DEF SmiTypeOK, DropHeld
  <2> QED
    BY <1>5, <2>2, <2>3 DEF SmiTypeOK, DropHeld, Drop
<1>6. ASSUME NEW s \in Sessions, NEW f \in Files, DropStored(s, f)
      PROVE  SmiTypeOK'
  <2>1. f[2] \in FileIds
    BY DEF Files
  <2>2. toDrop' \in [Sessions -> SUBSET (FileIds \X BOOLEAN)]
    BY <1>6, <2>1, ToDropType DEF SmiTypeOK, DropStored, Drop
  <2>3. usrTxn' \in [Sessions -> Changes]
    BY <1>6, AddedType DEF SmiTypeOK, DropStored, Changes
  <2> QED
    BY <1>6, <2>2, <2>3 DEF SmiTypeOK, DropStored, Drop, Changes
<1>7. ASSUME NEW s \in Sessions, NEW d \in Databases, OpenDatabase(s, d)
      PROVE  SmiTypeOK'
  BY <1>7 DEF SmiTypeOK, OpenDatabase, durableVars
<1>8. ASSUME NEW s \in Sessions, BeginTransaction(s) \/ Deadlock(s)
      PROVE  SmiTypeOK'
  BY <1>8 DEF SmiTypeOK, BeginTransaction, Deadlock, durableVars
<1>9. ASSUME NEW s \in Sessions, CommitTransaction(s)
      PROVE  SmiTypeOK'
  <2>1. fileCatalog' \in [Databases -> [Names -> FileIds \cup {NoFile}]]
    <3>1. fileCatalog' = fileCatalog \/ fileCatalog' = UpdateCatalog(s)
      BY <1>9 DEF CommitTransaction, CommitUsrTxn
    <3>2. fileCatalog \in [Databases -> [Names -> FileIds \cup {NoFile}]]
      BY DEF SmiTypeOK
    <3> QED
      BY <3>1, <3>2, UpdateCatalogType
  <2>2. existing' \subseteq Files /\ used' \subseteq Files
    <3>1. CASE txnMustAbort[s]
      BY <1>9, <3>1 DEF SmiTypeOK, CommitTransaction, CommitUsrTxn
    <3>2. CASE ~txnMustAbort[s]
      <4>1. usrTxn[s].created \subseteq Files /\ usrTxn[s].stored \subseteq Files
        BY DEF SmiTypeOK
      <4>2. /\ existing' = existing \cup usrTxn[s].created
            /\ used' = (used \cup usrTxn[s].stored) \ usrTxn[s].removed
        BY <1>9, <3>2 DEF CommitTransaction, CommitUsrTxn
      <4> QED
        BY <4>1, <4>2 DEF SmiTypeOK
    <3> QED
      BY <3>1, <3>2
  <2> QED
    BY <1>9, <2>1, <2>2, ChangesType, NamesType
       DEF SmiTypeOK, CommitTransaction, Changes
<1>10. ASSUME NEW s \in Sessions, EraseFiles(s)
       PROVE  SmiTypeOK'
  BY <1>10 DEF SmiTypeOK, EraseFiles, TxnEnded
<1>11. ASSUME NEW s \in Sessions, AbortTransaction(s)
       PROVE  SmiTypeOK'
  <2>1. /\ phase' \in [Sessions -> {"closed", "opening", "ready", "erasing"}]
        /\ database' \in [Sessions -> Databases \cup {NoDatabase}]
        /\ opened' \in [Sessions -> [Names -> FileIds \cup {NoFile}]]
        /\ \A r \in Sessions : phase'[r] # "closed" => database'[r] \in Databases
    <3>1. CASE phase[s] = "opening"
      <4>1. /\ phase' = [phase EXCEPT ![s] = "closed"]
            /\ database' = [database EXCEPT ![s] = NoDatabase]
            /\ opened' = [opened EXCEPT ![s] = NoNames]
        BY <1>11, <3>1 DEF AbortTransaction
      <4> QED
        BY <4>1, NamesType DEF SmiTypeOK
    <3>2. CASE phase[s] # "opening"
      BY <1>11, <3>2 DEF SmiTypeOK, AbortTransaction
    <3> QED
      BY <3>1, <3>2
  <2> QED
    BY <1>11, <2>1, ChangesType, NamesType
       DEF SmiTypeOK, AbortTransaction, TxnEnded, durableVars, Changes
<1>12. ASSUME NEW s \in Sessions, CloseDatabase(s)
       PROVE  SmiTypeOK'
  BY <1>12, NamesType DEF SmiTypeOK, CloseDatabase, durableVars
<1>13. CASE Crash
  BY <1>13, ChangesType, NamesType DEF SmiTypeOK, Crash, Changes
<1>14. CASE UNCHANGED vars
  BY <1>14 DEF SmiTypeOK, vars, durableVars, sessionVars
<1> QED
  BY <1>1, <1>2, <1>3, <1>4, <1>5, <1>6, <1>7, <1>8, <1>9, <1>10, <1>11,
     <1>12, <1>13, <1>14 DEF Next, FileAction, TransactionAction

\* The type invariant holds of the storage manager (bdbEnvironment.cpp).
THEOREM TypeCorrect == Spec => []SmiTypeOK
  BY TypeInit, TypeStep, PTL DEF Spec

-----------------------------------------------------------------------------
(* A file id is given once.                                                *)

\* GetFileId counts in a transaction of its own, so that no file, not even one
\* that is about to be rolled back, has a number above the sequence.
Numbered ==
  /\ \A f \in existing : f[2] <= sequence[f[1]]
  /\ \A s \in Sessions : \A f \in usrTxn[s].created : f[2] <= sequence[f[1]]

IdInv == SmiTypeOK /\ Numbered /\ DistinctFiles

LEMMA IdInit == Init => Numbered /\ DistinctFiles
  BY DEF Init, SessionsInit, NoChanges, Numbered, DistinctFiles

\* The number of a new file belongs to no file yet, and the sequence grows.
LEMMA NewFileIsNew ==
  ASSUME IdInv, NEW s \in Sessions, database[s] \in Databases, NewFile(s),
         NEW f, f = <<database[s], NextFileId(database[s])>>
  PROVE  /\ f \in Files
         /\ f \notin existing
         /\ \A r \in Sessions : f \notin usrTxn[r].created
         /\ f[2] <= sequence'[f[1]]
         /\ \A g \in Files : /\ g[2] <= sequence[g[1]] => g[2] <= sequence'[g[1]]
                             /\ g[2] <= sequence[g[1]] => g # f
<1>1. f \in Files /\ NextFileId(database[s]) \in FileIds
  BY NewFileType DEF IdInv
<1>2. f[1] = database[s] /\ f[2] = sequence[database[s]] + 1
  BY DEF NextFileId
<1>3. sequence' = [sequence EXCEPT ![database[s]] = sequence[database[s]] + 1]
  BY DEF NewFile, NextFileId
<1>4. sequence \in [Databases -> 0 .. MaxFileId]
  BY DEF IdInv, SmiTypeOK
<1>5. \A g \in Files : g[1] \in Databases /\ g[2] \in Nat
  BY DEF Files, FileIds
<1>6. f[2] <= sequence'[f[1]]
  BY <1>2, <1>3, <1>4
<1>7. \A g \in Files : /\ g[2] <= sequence[g[1]] => g[2] <= sequence'[g[1]]
                       /\ g[2] <= sequence[g[1]] => g # f
  BY <1>2, <1>3, <1>4, <1>5
<1>8. /\ f \notin existing
      /\ \A r \in Sessions : f \notin usrTxn[r].created
  <2>1. existing \subseteq Files /\ \A r \in Sessions : usrTxn[r].created \subseteq Files
    BY DEF IdInv, SmiTypeOK
  <2> QED
    BY <1>7, <2>1 DEF IdInv, Numbered
<1> QED
  BY <1>1, <1>6, <1>7, <1>8

\* A new file is the only one of its number, and its number is counted.
LEMMA NewFileKeepsIds ==
  ASSUME IdInv, NEW s \in Sessions, database[s] \in Databases, NewFile(s)
  PROVE  Numbered' /\ DistinctFiles'
<1> DEFINE f == <<database[s], NextFileId(database[s])>>
<1>1. /\ f \in Files
      /\ f \notin existing
      /\ \A r \in Sessions : f \notin usrTxn[r].created
      /\ f[2] <= sequence'[f[1]]
      /\ \A g \in Files : g[2] <= sequence[g[1]] => g[2] <= sequence'[g[1]]
  BY NewFileIsNew
<1>2. existing \subseteq Files /\ \A r \in Sessions : usrTxn[r].created \subseteq Files
  BY DEF IdInv, SmiTypeOK
<1>3. /\ existing' \subseteq existing \cup {f}
      /\ \A r \in Sessions : usrTxn'[r].created \subseteq usrTxn[r].created \cup {f}
  BY DEF NewFile, IdInv, SmiTypeOK
<1>4. Numbered'
  BY <1>1, <1>2, <1>3 DEF IdInv, Numbered
<1>5. CASE txnStarted[s]
  <2>1. /\ existing' = existing
        /\ \A r \in Sessions : r # s => usrTxn'[r].created = usrTxn[r].created
    BY <1>5 DEF NewFile, IdInv, SmiTypeOK
  <2> QED
    BY <1>1, <1>3, <1>4, <2>1 DEF IdInv, DistinctFiles
<1>6. CASE ~txnStarted[s]
  <2>1. usrTxn' = usrTxn
    BY <1>6 DEF NewFile
  <2> QED
    BY <1>1, <1>3, <1>4, <2>1 DEF IdInv, DistinctFiles
<1> QED
  BY <1>5, <1>6

\* The commit of a transaction makes its files exist, and forgets them.
LEMMA CommitKeepsIds ==
  ASSUME IdInv, NEW s \in Sessions, CommitTransaction(s)
  PROVE  Numbered' /\ DistinctFiles'
<1>1. usrTxn' = [usrTxn EXCEPT ![s] = NoChanges] /\ sequence' = sequence
  BY DEF CommitTransaction
<1>2. existing' \subseteq existing \cup usrTxn[s].created
  BY DEF CommitTransaction, CommitUsrTxn
<1>3. \A r \in Sessions : usrTxn'[r].created =
                            IF r = s THEN {} ELSE usrTxn[r].created
  BY <1>1 DEF IdInv, SmiTypeOK, NoChanges
<1>4. Numbered'
  BY <1>1, <1>2, <1>3 DEF IdInv, Numbered
<1>5. DistinctFiles'
  BY <1>2, <1>3 DEF IdInv, DistinctFiles
<1> QED
  BY <1>4, <1>5

\* Steps that create nothing.
LEMMA OthersKeepIds ==
  ASSUME IdInv, sequence' = sequence, existing' \subseteq existing,
         \A s \in Sessions : usrTxn'[s].created \subseteq usrTxn[s].created
  PROVE  Numbered' /\ DistinctFiles'
<1>1. Numbered'
  BY DEF IdInv, Numbered
<1>2. DistinctFiles'
  BY DEF IdInv, DistinctFiles
<1> QED
  BY <1>1, <1>2

LEMMA IdStep == IdInv /\ [Next]_vars => Numbered' /\ DistinctFiles'
<1> SUFFICES ASSUME IdInv, [Next]_vars
             PROVE  Numbered' /\ DistinctFiles'
  OBVIOUS
<1> USE DEF IdInv
<1>1. ASSUME NEW s \in Sessions, NEW n \in Names, OpenCatalogued(s, n)
      PROVE  Numbered' /\ DistinctFiles'
  BY <1>1, OthersKeepIds DEF OpenCatalogued, durableVars
<1>2. ASSUME NEW s \in Sessions, NEW n \in Names, OpenNew(s, n)
      PROVE  Numbered' /\ DistinctFiles'
  BY <1>2, NewFileKeepsIds DEF SmiTypeOK, OpenNew
<1>3. ASSUME NEW s \in Sessions, Create(s)
      PROVE  Numbered' /\ DistinctFiles'
  BY <1>3, NewFileKeepsIds DEF SmiTypeOK, Create, MayTouch
<1>4. ASSUME NEW s \in Sessions, NEW f \in Files,
             Store(s, f) \/ DropHeld(s, f) \/ DropStored(s, f)
      PROVE  Numbered' /\ DistinctFiles'
  <2>1. sequence' = sequence /\ existing' = existing
    BY <1>4 DEF Store, DropHeld, DropStored, Drop, durableVars
  <2>2. \A r \in Sessions : usrTxn'[r].created = usrTxn[r].created
    BY <1>4 DEF Store, DropHeld, DropStored, SmiTypeOK
  <2> QED
    BY <2>1, <2>2, OthersKeepIds
<1>5. ASSUME NEW s \in Sessions, NEW d \in Databases,
             OpenDatabase(s, d)
      PROVE  Numbered' /\ DistinctFiles'
  BY <1>5, OthersKeepIds DEF OpenDatabase, durableVars
<1>6. ASSUME NEW s \in Sessions, BeginTransaction(s) \/ Deadlock(s)
      PROVE  Numbered' /\ DistinctFiles'
  BY <1>6, OthersKeepIds DEF BeginTransaction, Deadlock, durableVars
<1>7. ASSUME NEW s \in Sessions, CommitTransaction(s)
      PROVE  Numbered' /\ DistinctFiles'
  BY <1>7, CommitKeepsIds
<1>8. ASSUME NEW s \in Sessions, EraseFiles(s)
      PROVE  Numbered' /\ DistinctFiles'
  BY <1>8, OthersKeepIds DEF EraseFiles
<1>9. ASSUME NEW s \in Sessions, AbortTransaction(s)
      PROVE  Numbered' /\ DistinctFiles'
  <2>1. \A r \in Sessions : usrTxn'[r].created \subseteq usrTxn[r].created
    BY <1>9 DEF AbortTransaction, NoChanges, SmiTypeOK
  <2> QED
    BY <1>9, <2>1, OthersKeepIds DEF AbortTransaction, durableVars
<1>10. ASSUME NEW s \in Sessions, CloseDatabase(s)
       PROVE  Numbered' /\ DistinctFiles'
  BY <1>10, OthersKeepIds DEF CloseDatabase, durableVars
<1>11. CASE Crash
  BY <1>11, OthersKeepIds DEF Crash, NoChanges
<1>12. CASE UNCHANGED vars
  BY <1>12, OthersKeepIds DEF vars, durableVars, sessionVars
<1> QED
  BY <1>1, <1>2, <1>3, <1>4, <1>5, <1>6, <1>7, <1>8, <1>9, <1>10, <1>11,
     <1>12 DEF Next, FileAction, TransactionAction

\* Whoever creates files, rolls back or crashes, no two files of a database
\* ever have the same id (bdbEnvironment.cpp, GetFileId).
THEOREM IdsCorrect == Spec => []DistinctFiles
<1>1. Init => IdInv
  BY TypeInit, IdInit DEF IdInv
<1>2. IdInv /\ [Next]_vars => IdInv'
  BY TypeStep, IdStep DEF IdInv
<1>3. IdInv => DistinctFiles
  BY DEF IdInv
<1> QED
  BY <1>1, <1>2, <1>3, PTL DEF Spec

-----------------------------------------------------------------------------
(* The files of stored objects and of names exist.                         *)

Regular == "commit deadlocked" \notin Irregular /\ "outside" \notin Irregular

\* A removal that s has requested concerns a number that is given already.
\* Until the commit the file is one that s has taken from an object, or one
\* of its own that nothing refers to; from then on nobody refers to it.
RemovalOK(s, i) ==
  LET f == <<database[s], i>>
  IN  /\ i <= sequence[database[s]]
      /\ phase[s] = "erasing" => /\ f \notin used
                                 /\ f \notin Catalogued
                                 /\ \A r \in Sessions : f \notin usrTxn[r].created
      /\ phase[s] # "erasing" => \/ f \in usrTxn[s].removed
                                 \/ /\ f \in usrTxn[s].created
                                    /\ f \notin held[s]
                                    /\ f \notin usrTxn[s].stored

SessionOK(s) ==
  /\ phase[s] \in {"opening", "erasing"} => txnStarted[s]
  /\ phase[s] = "closed" => ~txnStarted[s]
  /\ phase[s] = "opening" => /\ usrTxn[s].stored = {}
                             /\ usrTxn[s].removed = {}
                             /\ \A i \in FileIds : <<i, TRUE>> \notin toDrop[s]
  /\ phase[s] # "opening" => \A n \in Names : toCatalog[s][n] = NoFile
  /\ phase[s] = "erasing" => usrTxn[s].created = {} /\ usrTxn[s].removed = {}
  /\ ~txnStarted[s] => /\ usrTxn[s].created = {}
                       /\ usrTxn[s].removed = {}
                       /\ toDrop[s] = {}
  /\ \A f \in usrTxn[s].created : f[1] = database[s]
  /\ held[s] \subseteq usrTxn[s].created
  /\ usrTxn[s].stored \subseteq usrTxn[s].created \ held[s]
  /\ usrTxn[s].removed \subseteq used
  /\ \A n \in Names : toCatalog[s][n] # NoFile =>
                        <<database[s], toCatalog[s][n]>> \in usrTxn[s].created
  /\ \A i \in FileIds : <<i, TRUE>> \in toDrop[s] => RemovalOK(s, i)

RemovedOnce ==
  \A s, r \in Sessions : s # r => usrTxn[s].removed \cap usrTxn[r].removed = {}

NothingShared == used \cap Catalogued = {}

FilesOK == /\ \A s \in Sessions : SessionOK(s)
           /\ RemovedOnce
           /\ NothingShared
           /\ UsedFilesExist
           /\ FileCatalogBacked

FilesInv == IdInv /\ FilesOK

\* What a step has to respect so that SessionOK holds on for a session that
\* takes no part in it.
LEMMA OtherSession ==
  ASSUME FilesInv, NEW r \in Sessions,
         phase'[r] = phase[r], database'[r] = database[r],
         txnStarted'[r] = txnStarted[r], usrTxn'[r] = usrTxn[r],
         held'[r] = held[r], toCatalog'[r] = toCatalog[r],
         toDrop'[r] = toDrop[r],
         \A f \in Files : f[2] <= sequence[f[1]] => f[2] <= sequence'[f[1]],
         \A f \in Files : f \in used' \cup Catalogued' =>
           \/ f \in used \cup Catalogued
           \/ \E q \in Sessions : f \in usrTxn[q].created,
         \A f \in Files : \A q \in Sessions : f \in usrTxn'[q].created =>
           f \in usrTxn[q].created \/ ~(f[2] <= sequence[f[1]]),
         usrTxn[r].removed \subseteq used'
  PROVE  SessionOK(r)'
<1>1. SessionOK(r)
  BY DEF FilesInv, FilesOK
<1>2. ASSUME NEW i \in FileIds, <<i, TRUE>> \in toDrop[r]
      PROVE  RemovalOK(r, i)'
  <2> DEFINE f == <<database[r], i>>
  <2>1. RemovalOK(r, i)
    BY <1>1, <1>2 DEF SessionOK
  <2>2. database[r] \in Databases
    <3>1. phase[r] # "closed"
      BY <1>1, <1>2 DEF SessionOK
    <3> QED
      BY <3>1 DEF FilesInv, IdInv, SmiTypeOK
  <2>3. f \in Files /\ f[1] = database[r] /\ f[2] = i
    BY <2>2 DEF Files
  <2>4. i <= sequence'[database[r]]
    BY <2>1, <2>3 DEF RemovalOK
  <2>5. CASE phase[r] = "erasing"
    <3>1. f \notin used' /\ f \notin Catalogued'
      BY <2>1, <2>3, <2>5 DEF RemovalOK
    <3>2. \A q \in Sessions : f \notin usrTxn'[q].created
      BY <2>1, <2>3, <2>5 DEF RemovalOK
    <3> QED
      BY <2>4, <2>5, <3>1, <3>2 DEF RemovalOK
  <2>6. CASE phase[r] # "erasing"
    BY <2>1, <2>4, <2>6 DEF RemovalOK
  <2> QED
    BY <2>5, <2>6
<1> QED
  BY <1>1, <1>2 DEF SessionOK

LEMMA FilesInit == Init => FilesOK
<1> SUFFICES ASSUME Init PROVE FilesOK
  OBVIOUS
<1>1. Catalogued = {}
  BY DEF Init, Catalogued, NoNames, Files, FileIds
<1>2. \A s \in Sessions : SessionOK(s)
  BY DEF Init, SessionsInit, NoChanges, NoNames, SessionOK
<1> QED
  BY <1>1, <1>2 DEF Init, SessionsInit, NoChanges, FilesOK, RemovedOnce,
     NothingShared, UsedFilesExist, FileCatalogBacked

\* Steps that touch nothing of what FilesOK is about.
LEMMA QuietStep ==
  ASSUME FilesInv,
         UNCHANGED <<sequence, fileCatalog, existing, used, phase, database,
                     txnStarted, usrTxn, held, toCatalog, toDrop>>
  PROVE  FilesOK'
<1>1. Catalogued' = Catalogued
  BY DEF Catalogued
<1>2. \A s \in Sessions : SessionOK(s)'
  <2>1. \A s \in Sessions : usrTxn[s].removed \subseteq used'
    BY DEF FilesInv, FilesOK, SessionOK
  <2> QED
    BY <1>1, <2>1, OtherSession
<1> QED
  BY <1>1, <1>2 DEF FilesInv, FilesOK, RemovedOnce, NothingShared,
     UsedFilesExist, FileCatalogBacked

\* The shared part of FilesOK holds on when nothing of it changes but files
\* that are added.
LEMMA SharedStep ==
  ASSUME FilesInv, UNCHANGED <<fileCatalog, used>>, existing \subseteq existing'
  PROVE  /\ Catalogued' = Catalogued
         /\ NothingShared' /\ UsedFilesExist' /\ FileCatalogBacked'
<1>1. Catalogued' = Catalogued
  BY DEF Catalogued
<1> QED
  BY <1>1 DEF FilesInv, FilesOK, NothingShared, UsedFilesExist, FileCatalogBacked

\* A new file, opened under a name or held by a value.
LEMMA CreateKeepsFiles ==
  ASSUME FilesInv, Regular, NEW s \in Sessions,
         Create(s) \/ \E n \in Names : OpenNew(s, n)
  PROVE  FilesOK'
<1> DEFINE d == database[s]
           f == <<d, NextFileId(d)>>
<1> USE DEF FilesInv, IdInv
<1>1. /\ NewFile(s) /\ d \in Databases /\ txnStarted[s]
      /\ phase[s] \in {"opening", "ready"}
      /\ UNCHANGED <<fileCatalog, used, phase, database, txnStarted>>
  BY DEF Create, OpenNew, MayTouch, Register, Regular, SmiTypeOK, FilesOK, SessionOK
<1>2. /\ f \in Files
      /\ \A r \in Sessions : f \notin usrTxn[r].created
      /\ f[2] <= sequence'[f[1]]
      /\ \A g \in Files : /\ g[2] <= sequence[g[1]] => g[2] <= sequence'[g[1]]
                          /\ g[2] <= sequence[g[1]] => g # f
  BY <1>1, NewFileIsNew
<1>3. /\ usrTxn' = [usrTxn EXCEPT ![s].created = @ \cup {f}]
      /\ existing' = existing
      /\ toDrop' = [toDrop EXCEPT ![s] = @ \cup {<<NextFileId(d), FALSE>>}]
  BY <1>1 DEF NewFile
<1>4. /\ usrTxn'[s].created = usrTxn[s].created \cup {f}
      /\ usrTxn'[s].stored = usrTxn[s].stored
      /\ usrTxn'[s].removed = usrTxn[s].removed
      /\ \A r \in Sessions : r # s => usrTxn'[r] = usrTxn[r]
  BY <1>3 DEF SmiTypeOK
<1>5. Catalogued' = Catalogued /\ NothingShared' /\ UsedFilesExist' /\ FileCatalogBacked'
  BY <1>1, <1>3, SharedStep
<1>6. \A i \in FileIds : <<i, TRUE>> \in toDrop'[s] <=> <<i, TRUE>> \in toDrop[s]
  BY <1>3 DEF SmiTypeOK
<1>7. \/ held'[s] = held[s] /\ \A n \in Names : \/ toCatalog'[s][n] = toCatalog[s][n]
                                                \/ /\ phase[s] = "opening"
                                                   /\ toCatalog'[s][n] = NextFileId(d)
      \/ held'[s] = held[s] \cup {f} /\ toCatalog' = toCatalog /\ phase[s] = "ready"
  <2>1. CASE Create(s)
    BY <2>1 DEF Create, MayTouch, SmiTypeOK
  <2>2. ASSUME NEW n \in Names, OpenNew(s, n)
        PROVE  /\ held' = held /\ phase[s] = "opening"
               /\ \A m \in Names : toCatalog'[s][m] =
                    IF m = n THEN NextFileId(d) ELSE toCatalog[s][m]
    <3>1. held' = held /\ phase[s] = "opening"
      BY <2>2 DEF OpenNew
    <3>2. toCatalog' = [toCatalog EXCEPT ![s] =
                         [toCatalog[s] EXCEPT ![n] = NextFileId(d)]]
      BY <2>2 DEF OpenNew, Register
    <3>3. toCatalog[s] \in [Names -> FileIds \cup {NoFile}]
      BY DEF SmiTypeOK
    <3>4. toCatalog'[s] = [toCatalog[s] EXCEPT ![n] = NextFileId(d)]
      BY <3>2 DEF SmiTypeOK
    <3> QED
      BY <3>1, <3>3, <3>4
  <2> QED
    BY <2>1, <2>2
<1>8. \A r \in Sessions : r # s => held'[r] = held[r] /\ toCatalog'[r] = toCatalog[r]
  BY DEF Create, OpenNew, Register, SmiTypeOK
<1>9. ASSUME NEW i \in FileIds, <<i, TRUE>> \in toDrop[s]
      PROVE  RemovalOK(s, i)'
  <2>1. RemovalOK(s, i)
    BY <1>9 DEF FilesOK, SessionOK
  <2>2. <<d, i>> \in Files
    BY <1>1 DEF Files
  <2>3. <<d, i>> # f /\ i <= sequence'[d]
    BY <1>2, <2>1, <2>2 DEF RemovalOK
  <2> QED
    BY <1>1, <1>4, <1>7, <2>1, <2>3 DEF RemovalOK
<1>10. SessionOK(s)'
  <2>1. SessionOK(s)
    BY DEF FilesOK
  <2>2. /\ held'[s] \subseteq usrTxn'[s].created
        /\ usrTxn'[s].stored \subseteq usrTxn'[s].created \ held'[s]
    BY <1>2, <1>4, <1>7, <2>1 DEF SessionOK
  <2>3. \A n \in Names : toCatalog'[s][n] # NoFile =>
                           <<d, toCatalog'[s][n]>> \in usrTxn'[s].created
    BY <1>4, <1>7, <2>1 DEF SessionOK
  <2>4. phase[s] # "opening" => \A n \in Names : toCatalog'[s][n] = NoFile
    BY <1>7, <2>1 DEF SessionOK
  <2>5. \A g \in usrTxn'[s].created : g[1] = d
    BY <1>4, <2>1 DEF SessionOK
  <2> QED
    BY <1>1, <1>4, <1>6, <1>9, <2>1, <2>2, <2>3, <2>4, <2>5 DEF SessionOK
<1>11. ASSUME NEW r \in Sessions, r # s
       PROVE  SessionOK(r)'
  <2>1. toDrop'[r] = toDrop[r]
    BY <1>3, <1>11
  <2>2. \A g \in Files : \A q \in Sessions : g \in usrTxn'[q].created =>
           g \in usrTxn[q].created \/ ~(g[2] <= sequence[g[1]])
    BY <1>2, <1>4
  <2>3. usrTxn[r].removed \subseteq used'
    BY <1>1 DEF FilesOK, SessionOK
  <2> QED
    BY <1>1, <1>2, <1>4, <1>5, <1>8, <1>11, <2>1, <2>2, <2>3, OtherSession
<1>12. RemovedOnce'
  BY <1>4 DEF FilesOK, RemovedOnce
<1> QED
  BY <1>5, <1>10, <1>11, <1>12 DEF FilesOK

\* Steps of s that leave the files, the names and the objects as they are.
LEMMA OwnStep ==
  ASSUME FilesInv, NEW s \in Sessions,
         UNCHANGED <<sequence, fileCatalog, existing, used>>,
         \A r \in Sessions : usrTxn'[r].created \subseteq usrTxn[r].created,
         \A r \in Sessions : r # s =>
           /\ phase'[r] = phase[r] /\ database'[r] = database[r]
           /\ txnStarted'[r] = txnStarted[r] /\ usrTxn'[r] = usrTxn[r]
           /\ held'[r] = held[r] /\ toCatalog'[r] = toCatalog[r]
           /\ toDrop'[r] = toDrop[r],
         Catalogued' = Catalogued => SessionOK(s)',
         RemovedOnce'
  PROVE  FilesOK'
<1>1. /\ Catalogued' = Catalogued
      /\ NothingShared' /\ UsedFilesExist' /\ FileCatalogBacked'
  BY SharedStep
<1>2. ASSUME NEW r \in Sessions, r # s
      PROVE  SessionOK(r)'
  <2>1. usrTxn[r].removed \subseteq used'
    BY DEF FilesInv, FilesOK, SessionOK
  <2> QED
    BY <1>1, <1>2, <2>1, OtherSession
<1> QED
  BY <1>1, <1>2 DEF FilesOK

\* The commit of an object takes a file out of the hands of the operators.
LEMMA StoreKeepsFiles ==
  ASSUME FilesInv, NEW s \in Sessions, NEW f \in Files, Store(s, f)
  PROVE  FilesOK'
<1> USE DEF FilesInv, IdInv
<1>1. SessionOK(s)
  BY DEF FilesOK
<1>2. /\ usrTxn'[s].created = usrTxn[s].created
      /\ usrTxn'[s].stored = usrTxn[s].stored \cup {f}
      /\ usrTxn'[s].removed = usrTxn[s].removed
      /\ \A r \in Sessions : r # s => usrTxn'[r] = usrTxn[r]
  BY DEF Store, SmiTypeOK
<1>3. /\ f \in held[s] /\ phase[s] = "ready" /\ txnStarted[s]
      /\ held'[s] = held[s] \ {f}
      /\ \A r \in Sessions : r # s => held'[r] = held[r]
      /\ UNCHANGED <<durableVars, phase, database, txnStarted, toCatalog, toDrop>>
  BY DEF Store, SmiTypeOK
<1>4. ASSUME Catalogued' = Catalogued, NEW i \in FileIds, <<i, TRUE>> \in toDrop[s]
      PROVE  RemovalOK(s, i)'
  <2>1. RemovalOK(s, i)
    BY <1>1, <1>4 DEF SessionOK
  <2> QED
    BY <1>2, <1>3, <2>1 DEF RemovalOK, durableVars
<1>5. Catalogued' = Catalogued => SessionOK(s)'
  <2>1. /\ held'[s] \subseteq usrTxn'[s].created
        /\ usrTxn'[s].stored \subseteq usrTxn'[s].created \ held'[s]
    BY <1>1, <1>2, <1>3 DEF SessionOK
  <2> QED
    BY <1>1, <1>2, <1>3, <1>4, <2>1 DEF SessionOK, durableVars
<1>6. RemovedOnce'
  BY <1>2 DEF FilesOK, RemovedOnce
<1>7. \A r \in Sessions : usrTxn'[r].created \subseteq usrTxn[r].created
  BY <1>2
<1> QED
  BY <1>2, <1>3, <1>5, <1>6, <1>7, OwnStep DEF durableVars

\* The removal of the file of a value is a removal of a file of one's own.
LEMMA DropHeldKeepsFiles ==
  ASSUME FilesInv, Regular, NEW s \in Sessions, NEW f \in Files, DropHeld(s, f)
  PROVE  FilesOK'
<1> USE DEF FilesInv, IdInv
<1>1. SessionOK(s)
  BY DEF FilesOK
<1>2. /\ f \in held[s] /\ phase[s] = "ready" /\ txnStarted[s]
      /\ held'[s] = held[s] \ {f}
      /\ \A r \in Sessions : r # s => held'[r] = held[r]
      /\ UNCHANGED <<sequence, fileCatalog, existing, used, phase, database,
                     txnStarted, usrTxn, toCatalog>>
  BY DEF DropHeld, Drop, MayTouch, Regular, SmiTypeOK
<1>3. /\ toDrop'[s] = toDrop[s] \cup {<<f[2], TRUE>>}
      /\ \A r \in Sessions : r # s => toDrop'[r] = toDrop[r]
  BY DEF DropHeld, Drop, SmiTypeOK
<1>4. /\ f = <<database[s], f[2]>> /\ f \in usrTxn[s].created
      /\ f \notin usrTxn[s].stored /\ f[2] <= sequence[database[s]]
  <2>1. f \in usrTxn[s].created /\ f \notin usrTxn[s].stored
    BY <1>1, <1>2 DEF SessionOK
  <2>2. f[1] = database[s]
    BY <1>1, <2>1 DEF SessionOK
  <2>3. f[2] <= sequence[f[1]]
    BY <2>1 DEF Numbered
  <2>4. f = <<f[1], f[2]>>
    BY DEF Files
  <2> QED
    BY <2>1, <2>2, <2>3, <2>4
<1>5. ASSUME Catalogued' = Catalogued, NEW i \in FileIds, <<i, TRUE>> \in toDrop'[s]
      PROVE  RemovalOK(s, i)'
  <2>1. CASE i = f[2]
    BY <1>2, <1>4, <2>1 DEF RemovalOK
  <2>2. CASE <<i, TRUE>> \in toDrop[s]
    <3>1. RemovalOK(s, i)
      BY <1>1, <2>2 DEF SessionOK
    <3> QED
      BY <1>2, <3>1 DEF RemovalOK
  <2> QED
    BY <1>3, <1>5, <2>1, <2>2
<1>6. Catalogued' = Catalogued => SessionOK(s)'
  BY <1>1, <1>2, <1>5 DEF SessionOK
<1>7. RemovedOnce'
  BY <1>2 DEF FilesOK, RemovedOnce
<1> QED
  BY <1>2, <1>3, <1>6, <1>7, OwnStep

\* Two transactions do not remove the same object, and one file more is
\* among those that s has taken from an object.
LEMMA DropStoredKeepsFiles ==
  ASSUME FilesInv, NEW s \in Sessions, NEW f \in Files, DropStored(s, f)
  PROVE  FilesOK'
<1> USE DEF FilesInv, IdInv
<1>1. SessionOK(s)
  BY DEF FilesOK
<1>2. /\ f \in used /\ f[1] = database[s] /\ phase[s] = "ready" /\ txnStarted[s]
      /\ \A r \in Sessions : f \notin usrTxn[r].removed
      /\ UNCHANGED <<sequence, fileCatalog, existing, used, phase, database,
                     txnStarted, held, toCatalog>>
  BY DEF DropStored, Drop
<1>3. /\ toDrop'[s] = toDrop[s] \cup {<<f[2], TRUE>>}
      /\ \A r \in Sessions : r # s => toDrop'[r] = toDrop[r]
  BY DEF DropStored, Drop, SmiTypeOK
<1>4. /\ usrTxn'[s].created = usrTxn[s].created
      /\ usrTxn'[s].stored = usrTxn[s].stored
      /\ usrTxn'[s].removed = usrTxn[s].removed \cup {f}
      /\ \A r \in Sessions : r # s => usrTxn'[r] = usrTxn[r]
  BY DEF DropStored, SmiTypeOK
<1>5. f = <<database[s], f[2]>> /\ f[2] <= sequence[database[s]]
  <2>1. f \in existing
    BY <1>2 DEF FilesOK, UsedFilesExist
  <2>2. f[2] <= sequence[f[1]]
    BY <2>1 DEF Numbered
  <2>3. f = <<f[1], f[2]>>
    BY DEF Files
  <2> QED
    BY <1>2, <2>2, <2>3
<1>6. ASSUME Catalogued' = Catalogued, NEW i \in FileIds, <<i, TRUE>> \in toDrop'[s]
      PROVE  RemovalOK(s, i)'
  <2>1. CASE i = f[2]
    BY <1>2, <1>4, <1>5, <2>1 DEF RemovalOK
  <2>2. CASE <<i, TRUE>> \in toDrop[s]
    <3>1. RemovalOK(s, i)
      BY <1>1, <2>2 DEF SessionOK
    <3> QED
      BY <1>2, <1>4, <3>1 DEF RemovalOK
  <2> QED
    BY <1>3, <1>6, <2>1, <2>2
<1>7. Catalogued' = Catalogued => SessionOK(s)'
  BY <1>1, <1>2, <1>4, <1>6 DEF SessionOK
<1>8. RemovedOnce'
  BY <1>2, <1>4 DEF FilesOK, RemovedOnce
<1>9. \A r \in Sessions : usrTxn'[r].created \subseteq usrTxn[r].created
  BY <1>4
<1> QED
  BY <1>2, <1>3, <1>4, <1>7, <1>8, <1>9, OwnStep

\* A session without a transaction has nothing that a new one could meet.
LEMMA BeginKeepsFiles ==
  ASSUME FilesInv, NEW s \in Sessions,
         BeginTransaction(s) \/ \E d \in Databases : OpenDatabase(s, d)
  PROVE  FilesOK'
<1> USE DEF FilesInv, IdInv
<1>1. SessionOK(s)
  BY DEF FilesOK
<1>2. /\ ~txnStarted[s] /\ txnStarted'[s]
      /\ phase'[s] \in {"opening", "ready"}
      /\ phase'[s] = "ready" => phase[s] = "ready" /\ database'[s] = database[s]
      /\ \A r \in Sessions : r # s => /\ phase'[r] = phase[r]
                                      /\ database'[r] = database[r]
                                      /\ txnStarted'[r] = txnStarted[r]
      /\ UNCHANGED <<durableVars, usrTxn, held, toCatalog, toDrop>>
  BY <1>1 DEF BeginTransaction, OpenDatabase, SmiTypeOK, SessionOK
<1>3. /\ usrTxn[s].created = {} /\ usrTxn[s].removed = {} /\ toDrop[s] = {}
      /\ usrTxn[s].stored = {} /\ held[s] = {}
  BY <1>1, <1>2 DEF SessionOK
<1>4. \A n \in Names : toCatalog[s][n] = NoFile
  BY <1>1, <1>2 DEF BeginTransaction, OpenDatabase, SessionOK
<1>5. SessionOK(s)'
  BY <1>2, <1>3, <1>4 DEF SessionOK
<1>6. RemovedOnce'
  BY <1>2 DEF FilesOK, RemovedOnce
<1> QED
  BY <1>2, <1>5, <1>6, OwnStep DEF durableVars

\* After an abort the session has nothing.
LEMMA AbortKeepsFiles ==
  ASSUME FilesInv, NEW s \in Sessions, AbortTransaction(s)
  PROVE  FilesOK'
<1> USE DEF FilesInv, IdInv
<1>1. SessionOK(s)
  BY DEF FilesOK
<1>2. usrTxn' = [usrTxn EXCEPT ![s] = NoChanges]
  BY DEF AbortTransaction
<1>3. /\ \A r \in Sessions : r # s => usrTxn'[r] = usrTxn[r]
      /\ usrTxn'[s].created = {} /\ usrTxn'[s].stored = {}
      /\ usrTxn'[s].removed = {}
  BY <1>2 DEF NoChanges, SmiTypeOK
<1>4. /\ phase'[s] \in {"closed", "ready"} /\ ~txnStarted'[s]
      /\ held'[s] = {} /\ toDrop'[s] = {}
  BY <1>1 DEF AbortTransaction, TxnEnded, SmiTypeOK, SessionOK
<1>5. \A n \in Names : toCatalog'[s][n] = NoFile
  BY DEF AbortTransaction, NoNames, SmiTypeOK
<1>6. \A r \in Sessions : r # s =>
        /\ phase'[r] = phase[r] /\ database'[r] = database[r]
        /\ txnStarted'[r] = txnStarted[r] /\ held'[r] = held[r]
        /\ toCatalog'[r] = toCatalog[r] /\ toDrop'[r] = toDrop[r]
  BY DEF AbortTransaction, TxnEnded, SmiTypeOK
<1>7. SessionOK(s)'
  BY <1>3, <1>4, <1>5 DEF SessionOK
<1>8. RemovedOnce'
  BY <1>3 DEF FilesOK, RemovedOnce
<1>9. UNCHANGED durableVars
  BY DEF AbortTransaction
<1> QED
  BY <1>3, <1>6, <1>7, <1>8, <1>9, OwnStep DEF durableVars

LEMMA CloseKeepsFiles ==
  ASSUME FilesInv, NEW s \in Sessions, CloseDatabase(s)
  PROVE  FilesOK'
<1> USE DEF FilesInv, IdInv
<1>1. SessionOK(s)
  BY DEF FilesOK
<1>2. /\ ~txnStarted[s] /\ phase[s] = "ready" /\ phase'[s] = "closed"
      /\ \A r \in Sessions : r # s => /\ phase'[r] = phase[r]
                                      /\ database'[r] = database[r]
      /\ UNCHANGED <<durableVars, txnStarted, usrTxn, held, toCatalog, toDrop>>
  BY DEF CloseDatabase, SmiTypeOK
<1>3. /\ usrTxn[s].created = {} /\ usrTxn[s].removed = {} /\ toDrop[s] = {}
      /\ usrTxn[s].stored = {} /\ held[s] = {}
  BY <1>1, <1>2 DEF SessionOK
<1>4. SessionOK(s)'
  BY <1>1, <1>2, <1>3 DEF SessionOK
<1>5. RemovedOnce'
  BY <1>2 DEF FilesOK, RemovedOnce
<1> QED
  BY <1>2, <1>4, <1>5, OwnStep DEF durableVars

LEMMA CrashKeepsFiles ==
  ASSUME FilesInv, Crash
  PROVE  FilesOK'
<1>1. /\ Catalogued' = Catalogued
      /\ NothingShared' /\ UsedFilesExist' /\ FileCatalogBacked'
  BY SharedStep DEF Crash
<1>2. \A s \in Sessions : SessionOK(s)'
  BY DEF Crash, SessionOK, NoChanges, NoNames
<1>3. RemovedOnce'
  BY DEF Crash, RemovedOnce, NoChanges
<1> QED
  BY <1>1, <1>2, <1>3 DEF FilesOK

\* The files that are removed after the commit belong to nobody.
LEMMA EraseKeepsFiles ==
  ASSUME FilesInv, NEW s \in Sessions, EraseFiles(s)
  PROVE  FilesOK'
<1> USE DEF FilesInv, IdInv
<1>1. SessionOK(s)
  BY DEF FilesOK
<1>2. /\ existing' = existing \ ToErase(s)
      /\ phase[s] = "erasing" /\ phase'[s] = "ready"
      /\ toDrop'[s] = {} /\ ~txnStarted'[s]
      /\ \A r \in Sessions : r # s => /\ phase'[r] = phase[r]
                                      /\ txnStarted'[r] = txnStarted[r]
                                      /\ toDrop'[r] = toDrop[r]
      /\ UNCHANGED <<sequence, fileCatalog, used, database, usrTxn, held, toCatalog>>
  BY DEF EraseFiles, TxnEnded, SmiTypeOK
<1>3. ToErase(s) \cap (used \cup Catalogued) = {}
  <2> SUFFICES ASSUME NEW e \in toDrop[s], e[2]
               PROVE  <<database[s], e[1]>> \notin used \cup Catalogued
    BY DEF ToErase
  <2>1. e[1] \in FileIds /\ e = <<e[1], TRUE>>
    <3>1. e \in FileIds \X BOOLEAN
      BY DEF SmiTypeOK
    <3>2. PICK i \in FileIds, b \in BOOLEAN : e = <<i, b>>
      BY <3>1
    <3>3. e[1] = i /\ e[2] = b
      BY <3>2
    <3>4. b = TRUE
      BY <3>3, Zenon
    <3> QED
      BY <3>2, <3>3, <3>4
  <2>2. RemovalOK(s, e[1])
    BY <1>1, <2>1 DEF SessionOK
  <2> QED
    BY <1>2, <2>2 DEF RemovalOK
<1>4. Catalogued' = Catalogued
  BY <1>2 DEF Catalogued
<1>5. NothingShared' /\ UsedFilesExist' /\ FileCatalogBacked'
  BY <1>2, <1>3, <1>4 DEF FilesOK, NothingShared, UsedFilesExist, FileCatalogBacked
<1>6. SessionOK(s)'
  BY <1>1, <1>2 DEF SessionOK
<1>7. ASSUME NEW r \in Sessions, r # s
      PROVE  SessionOK(r)'
  <2>1. usrTxn[r].removed \subseteq used'
    BY <1>2 DEF FilesOK, SessionOK
  <2> QED
    BY <1>2, <1>4, <1>7, <2>1, OtherSession
<1>8. RemovedOnce'
  BY <1>2 DEF FilesOK, RemovedOnce
<1> QED
  BY <1>5, <1>6, <1>7, <1>8 DEF FilesOK

\* UpdateCatalog adds at most the files that the transaction has registered.
LEMMA UpdatedCatalog ==
  ASSUME FilesInv, NEW s \in Sessions, phase[s] # "closed",
         fileCatalog' = UpdateCatalog(s), NEW f \in Catalogued'
  PROVE  \/ f \in Catalogued
         \/ phase[s] = "opening" /\ f \in usrTxn[s].created
<1> USE DEF FilesInv, IdInv
<1>1. f \in Files /\ \E n \in Names : fileCatalog'[f[1]][n] = f[2]
  BY DEF Catalogued
<1>2. PICK n \in Names : fileCatalog'[f[1]][n] = f[2]
  BY <1>1
<1>3. CASE fileCatalog' = fileCatalog
  BY <1>1, <1>2, <1>3 DEF Catalogued
<1>4. CASE fileCatalog' # fileCatalog
  <2> DEFINE d == database[s]
             Merged == [m \in Names |-> IF toCatalog[s][m] # NoFile
                          THEN toCatalog[s][m] ELSE fileCatalog[d][m]]
  <2>1. fileCatalog' = [fileCatalog EXCEPT ![d] = Merged]
    BY <1>4 DEF UpdateCatalog
  <2>2. f[1] \in Databases /\ f = <<f[1], f[2]>> /\ f[2] \in FileIds
    BY <1>1 DEF Files
  <2>3. CASE f[1] # d
    <3>1. fileCatalog'[f[1]] = fileCatalog[f[1]]
      BY <2>1, <2>2, <2>3 DEF SmiTypeOK
    <3> QED
      BY <1>1, <1>2, <3>1 DEF Catalogued
  <2>4. CASE f[1] = d
    <3>1. fileCatalog'[d] = Merged
      BY <2>1, <2>2, <2>4 DEF SmiTypeOK
    <3>2. f[2] = IF toCatalog[s][n] # NoFile THEN toCatalog[s][n]
                                             ELSE fileCatalog[d][n]
      BY <1>2, <2>4, <3>1
    <3>3. CASE toCatalog[s][n] = NoFile
      BY <1>1, <2>4, <3>2, <3>3 DEF Catalogued
    <3>4. CASE toCatalog[s][n] # NoFile
      <4>1. f = <<d, toCatalog[s][n]>>
        BY <2>2, <2>4, <3>2, <3>4
      <4>2. SessionOK(s)
        BY DEF FilesOK
      <4>3. phase[s] = "opening" /\ <<d, toCatalog[s][n]>> \in usrTxn[s].created
        BY <3>4, <4>2 DEF SessionOK
      <4> QED
        BY <4>1, <4>3
    <3> QED
      BY <3>3, <3>4
  <2> QED
    BY <2>3, <2>4
<1> QED
  BY <1>3, <1>4

\* The commit hands the files of s over to the objects and to the catalog.
LEMMA CommitKeepsFiles ==
  ASSUME FilesInv, Regular, NEW s \in Sessions, CommitTransaction(s)
  PROVE  FilesOK'
<1> USE DEF FilesInv, IdInv
<1>1. SessionOK(s)
  BY DEF FilesOK
<1>2. /\ fileCatalog' = UpdateCatalog(s)
      /\ existing' = existing \cup usrTxn[s].created
      /\ used' = (used \cup usrTxn[s].stored) \ usrTxn[s].removed
  BY DEF CommitTransaction, CommitUsrTxn, Regular
<1>3. /\ phase[s] \in {"opening", "ready"} /\ phase'[s] = "erasing"
      /\ txnStarted[s] /\ held[s] = {}
      /\ \A r \in Sessions : r # s => phase'[r] = phase[r] /\ toCatalog'[r] = toCatalog[r]
      /\ \A n \in Names : toCatalog'[s][n] = NoFile
      /\ UNCHANGED <<sequence, database, txnStarted, held, toDrop>>
  BY DEF CommitTransaction, NoNames, SmiTypeOK
<1>4. /\ \A r \in Sessions : r # s => usrTxn'[r] = usrTxn[r]
      /\ usrTxn'[s].created = {} /\ usrTxn'[s].stored = {}
      /\ usrTxn'[s].removed = {}
  <2>1. usrTxn' = [usrTxn EXCEPT ![s] = NoChanges]
    BY DEF CommitTransaction
  <2> QED
    BY <2>1 DEF NoChanges, SmiTypeOK
<1>5. \A f \in Catalogued' : \/ f \in Catalogued
                             \/ phase[s] = "opening" /\ f \in usrTxn[s].created
  BY <1>2, <1>3, UpdatedCatalog
<1>6. /\ usrTxn[s].stored \subseteq usrTxn[s].created
      /\ usrTxn[s].created \cap existing = {}
      /\ used \subseteq existing /\ Catalogued \subseteq existing
      /\ phase[s] = "opening" => usrTxn[s].stored = {} /\ usrTxn[s].removed = {}
  BY <1>1 DEF SessionOK, DistinctFiles, FilesOK, UsedFilesExist, FileCatalogBacked
<1>7. UsedFilesExist' /\ FileCatalogBacked'
  BY <1>2, <1>5, <1>6 DEF UsedFilesExist, FileCatalogBacked
<1>8. NothingShared'
  <2> SUFFICES ASSUME NEW f \in used', f \in Catalogued'
               PROVE  FALSE
    BY DEF NothingShared
  <2>1. f \notin used \/ f \notin Catalogued
    BY DEF FilesOK, NothingShared
  <2> QED
    BY <1>2, <1>5, <1>6, <2>1
<1>9. ASSUME NEW i \in FileIds, <<i, TRUE>> \in toDrop[s]
      PROVE  RemovalOK(s, i)'
  <2> DEFINE f == <<database[s], i>>
  <2>1. RemovalOK(s, i) /\ phase[s] = "ready"
    BY <1>1, <1>3, <1>9 DEF SessionOK
  <2>2. f \in Catalogued' => f \in Catalogued
    BY <1>5, <2>1
  <2>3. CASE f \in usrTxn[s].removed
    <3>1. f \in used
      BY <1>1, <2>3 DEF SessionOK
    <3>2. f \notin Catalogued /\ f \in existing
      BY <1>6, <3>1 DEF FilesOK, NothingShared
    <3>3. \A r \in Sessions : f \notin usrTxn'[r].created
      BY <1>4, <3>2 DEF DistinctFiles
    <3> QED
      BY <1>2, <1>3, <2>1, <2>2, <2>3, <3>2, <3>3 DEF RemovalOK
  <2>4. CASE f \in usrTxn[s].created /\ f \notin usrTxn[s].stored
    <3>1. f \notin existing
      BY <1>6, <2>4
    <3>2. \A r \in Sessions : f \notin usrTxn'[r].created
      BY <1>4, <2>4 DEF DistinctFiles
    <3>3. f \notin used' /\ f \notin Catalogued'
      BY <1>2, <1>6, <2>2, <2>4, <3>1
    <3> QED
      BY <1>3, <2>1, <3>2, <3>3 DEF RemovalOK
  <2> QED
    BY <2>1, <2>3, <2>4 DEF RemovalOK
<1>10. SessionOK(s)'
  BY <1>3, <1>4, <1>9 DEF SessionOK
<1>11. ASSUME NEW r \in Sessions, r # s
       PROVE  SessionOK(r)'
  <2>1. usrTxn[r].removed \subseteq used'
    BY <1>2, <1>11 DEF FilesOK, SessionOK, RemovedOnce
  <2>2. \A f \in Files : f \in used' \cup Catalogued' =>
          \/ f \in used \cup Catalogued
          \/ \E q \in Sessions : f \in usrTxn[q].created
    BY <1>2, <1>5, <1>6
  <2>3. \A q \in Sessions : usrTxn'[q].created \subseteq usrTxn[q].created
    BY <1>4
  <2> QED
    BY <1>3, <1>4, <1>11, <2>1, <2>2, <2>3, OtherSession
<1>12. RemovedOnce'
  BY <1>4 DEF FilesOK, RemovedOnce
<1> QED
  BY <1>7, <1>8, <1>10, <1>11, <1>12 DEF FilesOK

LEMMA FilesStep ==
  ASSUME Regular
  PROVE  FilesInv /\ [Next]_vars => FilesOK'
<1> SUFFICES ASSUME FilesInv, [Next]_vars
             PROVE  FilesOK'
  OBVIOUS
<1>1. ASSUME NEW s \in Sessions, NEW n \in Names, OpenCatalogued(s, n)
      PROVE  FilesOK'
  BY <1>1, QuietStep DEF OpenCatalogued, durableVars
<1>2. ASSUME NEW s \in Sessions, Create(s) \/ \E n \in Names : OpenNew(s, n)
      PROVE  FilesOK'
  BY <1>2, CreateKeepsFiles
<1>3. ASSUME NEW s \in Sessions, NEW f \in Files,
             Store(s, f) \/ DropHeld(s, f) \/ DropStored(s, f)
      PROVE  FilesOK'
  BY <1>3, StoreKeepsFiles, DropHeldKeepsFiles, DropStoredKeepsFiles
<1>4. ASSUME NEW s \in Sessions,
             BeginTransaction(s) \/ \E d \in Databases : OpenDatabase(s, d)
      PROVE  FilesOK'
  BY <1>4, BeginKeepsFiles
<1>5. ASSUME NEW s \in Sessions, Deadlock(s)
      PROVE  FilesOK'
  BY <1>5, QuietStep DEF Deadlock, durableVars
<1>6. ASSUME NEW s \in Sessions, CommitTransaction(s)
      PROVE  FilesOK'
  BY <1>6, CommitKeepsFiles
<1>7. ASSUME NEW s \in Sessions, EraseFiles(s)
      PROVE  FilesOK'
  BY <1>7, EraseKeepsFiles
<1>8. ASSUME NEW s \in Sessions, AbortTransaction(s)
      PROVE  FilesOK'
  BY <1>8, AbortKeepsFiles
<1>9. ASSUME NEW s \in Sessions, CloseDatabase(s)
      PROVE  FilesOK'
  BY <1>9, CloseKeepsFiles
<1>10. CASE Crash
  BY <1>10, CrashKeepsFiles
<1>11. CASE UNCHANGED vars
  BY <1>11, QuietStep DEF vars, durableVars, sessionVars
<1> QED
  BY <1>1, <1>2, <1>3, <1>4, <1>5, <1>6, <1>7, <1>8, <1>9, <1>10, <1>11
     DEF Next, FileAction, TransactionAction

LEMMA FilesInvariant ==
  ASSUME Regular
  PROVE  Spec => []FilesInv
<1>1. Init => FilesInv
  BY TypeInit, IdInit, FilesInit DEF FilesInv, IdInv
<1>2. FilesInv /\ [Next]_vars => FilesInv'
  BY TypeStep, IdStep, FilesStep DEF FilesInv, IdInv
<1> QED
  BY <1>1, <1>2, PTL DEF Spec

\* The file of a stored object exists: no rollback, no other session, and no
\* crash between a commit and the removal of files takes it away, as long as
\* files are touched in transactions and a transaction that met a deadlock is
\* aborted (bdbEnvironment.cpp, CommitTransaction and EraseFiles).
THEOREM UsedFilesCorrect ==
  ASSUME Regular
  PROVE  Spec => []UsedFilesExist
<1>1. FilesInv => UsedFilesExist
  BY DEF FilesInv, FilesOK
<1> QED
  BY <1>1, FilesInvariant, PTL

\* A name of the file catalog leads to an existing file, under the same
\* assumptions.
THEOREM FileCatalogCorrect ==
  ASSUME Regular
  PROVE  Spec => []FileCatalogBacked
<1>1. FilesInv => FileCatalogBacked
  BY DEF FilesInv, FilesOK
<1> QED
  BY <1>1, FilesInvariant, PTL
-----------------------------------------------------------------------------
(***************************************************************************)
(* Theorems about the file catalog of SmiTransaction: sessions work on the *)
(* files that it names, and every file on disk is accounted for.           *)
(***************************************************************************)

(* The files of the catalog that a session has opened.                     *)

\* Nobody commits after a deadlock, and one session at a time opens a
\* database whose files are not there yet.
FirstOpenAlone ==
  "commit deadlocked" \notin Irregular /\ "first open race" \notin Irregular

\* A name has an entry of the file catalog or one that the session is about to
\* make, and never loses it; when a session is ready it has opened them all.
OpenedOK(s) ==
  /\ phase[s] = "closed" => opened[s] = NoNames
  /\ phase[s] \in {"ready", "erasing"} =>
       \A n \in Names : /\ opened[s][n] = fileCatalog[database[s]][n]
                        /\ opened[s][n] # NoFile
  /\ phase[s] = "opening" =>
       \A n \in Names : opened[s][n] # NoFile =>
         opened[s][n] \in {fileCatalog[database[s]][n], toCatalog[s][n]}
  /\ \A n \in Names : toCatalog[s][n] # NoFile =>
       /\ phase[s] = "opening"
       /\ fileCatalog[database[s]][n] = NoFile
       /\ opened[s][n] = toCatalog[s][n]

\* Only one session is about to make entries for a database.
RegistersAlone ==
  \A s, r \in Sessions : \A n, m \in Names :
    (s # r /\ toCatalog[s][n] # NoFile /\ toCatalog[r][m] # NoFile) =>
      database[s] # database[r]

OpenedInv == (\A s \in Sessions : OpenedOK(s)) /\ RegistersAlone

\* A session that a step does not concern: its database may get entries for
\* names that have none, but not those that the session is about to make.
LEMMA OtherOpened ==
  ASSUME SmiTypeOK, NEW r \in Sessions, OpenedOK(r),
         phase'[r] = phase[r], database'[r] = database[r],
         toCatalog'[r] = toCatalog[r], opened'[r] = opened[r],
         phase[r] # "closed" =>
           \A n \in Names :
             /\ fileCatalog[database[r]][n] # NoFile =>
                  fileCatalog'[database[r]][n] = fileCatalog[database[r]][n]
             /\ toCatalog[r][n] # NoFile =>
                  fileCatalog'[database[r]][n] = fileCatalog[database[r]][n]
  PROVE  OpenedOK(r)'
<1>1. phase[r] = "closed" \/ phase[r] \in {"ready", "erasing"} \/ phase[r] = "opening"
  BY DEF SmiTypeOK
<1>2. CASE phase[r] = "closed"
  BY <1>2 DEF OpenedOK
<1>3. CASE phase[r] \in {"ready", "erasing"}
  <2>1. \A n \in Names : toCatalog[r][n] = NoFile
    BY <1>3 DEF OpenedOK
  <2> QED
    BY <1>3, <2>1 DEF OpenedOK
<1>4. CASE phase[r] = "opening"
  <2>1. ASSUME NEW n \in Names, opened[r][n] # NoFile
        PROVE  opened[r][n] \in {fileCatalog'[database[r]][n], toCatalog[r][n]}
    BY <1>4, <2>1 DEF OpenedOK
  <2> QED
    BY <1>4, <2>1 DEF OpenedOK
<1> QED
  BY <1>1, <1>2, <1>3, <1>4

\* Steps that change neither the file catalog nor what is opened.
LEMMA OpenedQuiet ==
  ASSUME SmiTypeOK, OpenedInv,
         UNCHANGED <<fileCatalog, phase, database, toCatalog, opened>>
  PROVE  OpenedInv'
  BY DEF OpenedInv, OpenedOK, RegistersAlone

LEMMA OpenedInit == Init => OpenedInv
  BY DEF Init, SessionsInit, NoNames, OpenedInv, OpenedOK, RegistersAlone

\* A name of the file catalog is opened.
LEMMA OpenCataloguedKeeps ==
  ASSUME SmiTypeOK, OpenedInv, NEW s \in Sessions, NEW n \in Names,
         OpenCatalogued(s, n)
  PROVE  OpenedInv'
<1>1. UNCHANGED <<fileCatalog, phase, database, toCatalog>>
  BY DEF OpenCatalogued, durableVars
<1>2. /\ phase[s] = "opening" /\ opened[s][n] = NoFile
      /\ \A m \in Names : opened'[s][m] =
           IF m = n THEN fileCatalog[database[s]][n] ELSE opened[s][m]
      /\ \A r \in Sessions \ {s} : opened'[r] = opened[r]
  BY DEF OpenCatalogued, SmiTypeOK
<1>3. OpenedOK(s)'
  BY <1>1, <1>2 DEF OpenedInv, OpenedOK
<1>4. \A r \in Sessions \ {s} : OpenedOK(r)'
  BY <1>1, <1>2, OtherOpened DEF OpenedInv
<1> QED
  BY <1>1, <1>3, <1>4 DEF OpenedInv, RegistersAlone

\* A new name is registered: no other session is about to do so.
LEMMA OpenNewKeeps ==
  ASSUME FirstOpenAlone, SmiTypeOK, OpenedInv, NEW s \in Sessions, NEW n \in Names,
         OpenNew(s, n)
  PROVE  OpenedInv'
<1> DEFINE id == NextFileId(database[s])
<1>1. /\ phase[s] = "opening" /\ opened[s][n] = NoFile
      /\ fileCatalog[database[s]][n] = NoFile
      /\ UNCHANGED <<fileCatalog, phase, database>>
  BY DEF OpenNew, Register
<1>2. /\ opened' = [opened EXCEPT ![s][n] = id]
      /\ toCatalog' = [toCatalog EXCEPT ![s][n] = id]
  BY DEF OpenNew, Register
<1>3. /\ \A m \in Names : /\ opened'[s][m] = IF m = n THEN id ELSE opened[s][m]
                          /\ toCatalog'[s][m] = IF m = n THEN id
                                                ELSE toCatalog[s][m]
      /\ \A r \in Sessions \ {s} : /\ opened'[r] = opened[r]
                                   /\ toCatalog'[r] = toCatalog[r]
  BY <1>2 DEF SmiTypeOK
<1>4. OpenedOK(s)'
  BY <1>1, <1>3 DEF OpenedInv, OpenedOK
<1>5. \A r \in Sessions \ {s} : OpenedOK(r)'
  BY <1>1, <1>3, OtherOpened DEF OpenedInv
<1>6. ASSUME NEW r \in Sessions \ {s}, NEW m \in Names, toCatalog[r][m] # NoFile
      PROVE  database[r] # database[s]
  <2>1. phase[r] = "opening"
    BY <1>6 DEF OpenedInv, OpenedOK
  <2> QED
    BY <2>1 DEF OpenNew, FirstOpenAlone
<1>7. RegistersAlone'
  <2> SUFFICES ASSUME NEW p \in Sessions, NEW r \in Sessions,
                      NEW k \in Names, NEW m \in Names, p # r,
                      toCatalog'[p][k] # NoFile, toCatalog'[r][m] # NoFile
               PROVE  database[p] # database[r]
    BY <1>1 DEF RegistersAlone
  <2>1. CASE p = s
    BY <1>3, <1>6, <2>1
  <2>2. CASE r = s
    BY <1>3, <1>6, <2>2
  <2>3. CASE p # s /\ r # s
    BY <1>3, <2>3 DEF OpenedInv, RegistersAlone
  <2> QED
    BY <2>1, <2>2, <2>3
<1> QED
  BY <1>4, <1>5, <1>7 DEF OpenedInv

\* A session begins with no file opened.
LEMMA OpenDatabaseKeeps ==
  ASSUME SmiTypeOK, OpenedInv, NEW s \in Sessions, NEW d \in Databases,
         OpenDatabase(s, d)
  PROVE  OpenedInv'
<1>1. /\ phase[s] = "closed" /\ phase'[s] = "opening"
      /\ \A r \in Sessions \ {s} : /\ phase'[r] = phase[r]
                                   /\ database'[r] = database[r]
      /\ UNCHANGED <<fileCatalog, toCatalog, opened>>
  BY DEF OpenDatabase, durableVars, SmiTypeOK
<1>2. /\ \A n \in Names : opened[s][n] = NoFile
      /\ \A n \in Names : toCatalog[s][n] = NoFile
  BY <1>1 DEF OpenedInv, OpenedOK, NoNames
<1>3. OpenedOK(s)'
  BY <1>1, <1>2 DEF OpenedOK
<1>4. \A r \in Sessions \ {s} : OpenedOK(r)'
  BY <1>1, OtherOpened DEF OpenedInv
<1>5. RegistersAlone'
  BY <1>1, <1>2 DEF OpenedInv, RegistersAlone
<1> QED
  BY <1>3, <1>4, <1>5 DEF OpenedInv

\* A session that ends its transaction or closes the database.
LEMMA LeavingKeeps ==
  ASSUME SmiTypeOK, OpenedInv, NEW s \in Sessions,
         AbortTransaction(s) \/ CloseDatabase(s)
  PROVE  OpenedInv'
<1>1. /\ UNCHANGED fileCatalog
      /\ \A r \in Sessions \ {s} : /\ phase'[r] = phase[r]
                                   /\ database'[r] = database[r]
                                   /\ toCatalog'[r] = toCatalog[r]
                                   /\ opened'[r] = opened[r]
  BY DEF AbortTransaction, CloseDatabase, durableVars, SmiTypeOK
<1>2. \A n \in Names : toCatalog'[s][n] = NoFile
  BY DEF AbortTransaction, CloseDatabase, NoNames, SmiTypeOK, OpenedInv, OpenedOK
<1>3. \/ phase'[s] = "closed" /\ opened'[s] = NoNames
      \/ /\ phase[s] = "ready" /\ phase'[s] = "ready"
         /\ opened'[s] = opened[s] /\ database'[s] = database[s]
  BY DEF AbortTransaction, CloseDatabase, SmiTypeOK
<1>4. OpenedOK(s)'
  BY <1>1, <1>2, <1>3 DEF OpenedInv, OpenedOK
<1>5. \A r \in Sessions \ {s} : OpenedOK(r)'
  BY <1>1, OtherOpened DEF OpenedInv
<1>6. RegistersAlone'
  BY <1>1, <1>2 DEF OpenedInv, RegistersAlone
<1> QED
  BY <1>4, <1>5, <1>6 DEF OpenedInv

\* The entries are made: UpdateCatalog cannot refuse them.
LEMMA UpdateSucceeds ==
  ASSUME SmiTypeOK, OpenedInv, NEW s \in Sessions, database[s] \in Databases
  PROVE  /\ \A n \in Names : UpdateCatalog(s)[database[s]][n] =
              IF toCatalog[s][n] # NoFile THEN toCatalog[s][n]
                                          ELSE fileCatalog[database[s]][n]
         /\ \A d \in Databases \ {database[s]} : UpdateCatalog(s)[d] = fileCatalog[d]
<1>1. CatalogUpdatable(s)
  BY DEF CatalogUpdatable, OpenedInv, OpenedOK
<1> QED
  BY <1>1 DEF UpdateCatalog, SmiTypeOK

LEMMA CommitKeepsOpened ==
  ASSUME FirstOpenAlone, SmiTypeOK, OpenedInv, NEW s \in Sessions,
         CommitTransaction(s)
  PROVE  OpenedInv'
<1>1. /\ phase[s] \in {"opening", "ready"} /\ phase'[s] = "erasing"
      /\ phase[s] = "opening" => \A n \in Names : opened[s][n] # NoFile
      /\ \A r \in Sessions \ {s} : /\ phase'[r] = phase[r]
                                   /\ toCatalog'[r] = toCatalog[r]
      /\ \A n \in Names : toCatalog'[s][n] = NoFile
      /\ UNCHANGED <<database, opened>>
  BY DEF CommitTransaction, NoNames, SmiTypeOK
<1>2. fileCatalog' = UpdateCatalog(s)
  BY DEF CommitTransaction, CommitUsrTxn, FirstOpenAlone
<1>3. database[s] \in Databases
  BY <1>1 DEF SmiTypeOK
<1>4. /\ \A n \in Names : fileCatalog'[database[s]][n] =
           IF toCatalog[s][n] # NoFile THEN toCatalog[s][n]
                                       ELSE fileCatalog[database[s]][n]
      /\ \A d \in Databases \ {database[s]} : fileCatalog'[d] = fileCatalog[d]
  BY <1>2, <1>3, UpdateSucceeds
<1>5. OpenedOK(s)'
  <2>1. \A n \in Names : /\ opened[s][n] # NoFile
                         /\ opened[s][n] = fileCatalog'[database[s]][n]
    <3>1. CASE phase[s] = "opening"
      BY <1>1, <1>4, <3>1 DEF OpenedInv, OpenedOK
    <3>2. CASE phase[s] = "ready"
      BY <1>4, <3>2 DEF OpenedInv, OpenedOK
    <3> QED
      BY <1>1, <3>1, <3>2
  <2> QED
    BY <1>1, <2>1 DEF OpenedOK
<1>6. ASSUME NEW r \in Sessions \ {s}
      PROVE  OpenedOK(r)'
  <2>1. ASSUME phase[r] # "closed", NEW n \in Names
        PROVE  /\ fileCatalog[database[r]][n] # NoFile =>
                    fileCatalog'[database[r]][n] = fileCatalog[database[r]][n]
               /\ toCatalog[r][n] # NoFile =>
                    fileCatalog'[database[r]][n] = fileCatalog[database[r]][n]
    <3>1. database[r] \in Databases
      BY <2>1 DEF SmiTypeOK
    <3>2. CASE database[r] # database[s]
      BY <1>4, <3>1, <3>2
    <3>3. CASE database[r] = database[s]
      <4>1. fileCatalog[database[r]][n] # NoFile => toCatalog[s][n] = NoFile
        BY <3>3 DEF OpenedInv, OpenedOK
      <4>2. toCatalog[r][n] # NoFile => toCatalog[s][n] = NoFile
        BY <3>3 DEF OpenedInv, RegistersAlone
      <4> QED
        BY <1>4, <3>3, <4>1, <4>2
    <3> QED
      BY <3>2, <3>3
  <2> QED
    BY <1>1, <2>1, OtherOpened DEF OpenedInv
<1>7. RegistersAlone'
  BY <1>1 DEF OpenedInv, RegistersAlone
<1> QED
  BY <1>5, <1>6, <1>7 DEF OpenedInv

LEMMA EraseKeepsOpened ==
  ASSUME SmiTypeOK, OpenedInv, NEW s \in Sessions, EraseFiles(s)
  PROVE  OpenedInv'
<1>1. /\ phase[s] = "erasing" /\ phase'[s] = "ready"
      /\ \A r \in Sessions \ {s} : phase'[r] = phase[r]
      /\ UNCHANGED <<fileCatalog, database, toCatalog, opened>>
  BY DEF EraseFiles, SmiTypeOK
<1>2. OpenedOK(s)'
  BY <1>1 DEF OpenedInv, OpenedOK
<1>3. \A r \in Sessions \ {s} : OpenedOK(r)'
  BY <1>1, OtherOpened DEF OpenedInv
<1> QED
  BY <1>1, <1>2, <1>3 DEF OpenedInv, RegistersAlone

LEMMA OpenedStep ==
  ASSUME FirstOpenAlone
  PROVE  SmiTypeOK /\ OpenedInv /\ [Next]_vars => OpenedInv'
<1> SUFFICES ASSUME SmiTypeOK, OpenedInv, [Next]_vars
             PROVE  OpenedInv'
  OBVIOUS
<1>1. ASSUME NEW s \in Sessions, NEW n \in Names,
             OpenCatalogued(s, n) \/ OpenNew(s, n)
      PROVE  OpenedInv'
  BY <1>1, OpenCataloguedKeeps, OpenNewKeeps
<1>2. ASSUME NEW s \in Sessions, Create(s)
      PROVE  OpenedInv'
  BY <1>2, OpenedQuiet DEF Create
<1>3. ASSUME NEW s \in Sessions, NEW f \in Files,
             Store(s, f) \/ DropHeld(s, f) \/ DropStored(s, f)
      PROVE  OpenedInv'
  BY <1>3, OpenedQuiet DEF Store, DropHeld, DropStored, durableVars
<1>4. ASSUME NEW s \in Sessions, BeginTransaction(s) \/ Deadlock(s)
      PROVE  OpenedInv'
  BY <1>4, OpenedQuiet DEF BeginTransaction, Deadlock, durableVars
<1>5. CASE Crash
  BY <1>5 DEF Crash, OpenedInv, OpenedOK, RegistersAlone, NoNames
<1>6. CASE UNCHANGED vars
  BY <1>6, OpenedQuiet DEF vars, durableVars, sessionVars
<1> QED
  BY <1>1, <1>2, <1>3, <1>4, <1>5, <1>6, OpenDatabaseKeeps, CommitKeepsOpened,
     EraseKeepsOpened, LeavingKeeps DEF Next, FileAction, TransactionAction

\* Unless two sessions open a database that has no files yet or a transaction
\* that met a deadlock is committed, a session works on the files that the
\* next session will find under their names (bdbEnvironment.cpp,
\* UpdateCatalog).
THEOREM OpenedCorrect ==
  ASSUME FirstOpenAlone
  PROVE  Spec => []OpenedIsCatalogued
<1>1. SmiTypeOK /\ OpenedInv => OpenedIsCatalogued
  <2> SUFFICES ASSUME SmiTypeOK, OpenedInv, NEW s \in Sessions, phase[s] = "ready"
               PROVE  opened[s] = fileCatalog[database[s]]
    BY DEF OpenedIsCatalogued
  <2>1. /\ opened[s] \in [Names -> FileIds \cup {NoFile}]
        /\ fileCatalog[database[s]] \in [Names -> FileIds \cup {NoFile}]
    BY DEF SmiTypeOK
  <2>2. \A n \in Names : opened[s][n] = fileCatalog[database[s]][n]
    BY DEF OpenedInv, OpenedOK
  <2> QED
    BY <2>1, <2>2
<1> QED
  BY <1>1, TypeInit, TypeStep, OpenedInit, OpenedStep, PTL DEF Spec

-----------------------------------------------------------------------------
(* Every file on disk is accounted for.                                    *)

\* A file that s has created is a value's, an object's or a name's, or its
\* removal is requested; and so is that of a file it has taken from an object.
AccountedBy(s) ==
  /\ \A f \in usrTxn[s].created :
       \/ f \in held[s]
       \/ f \in usrTxn[s].stored
       \/ \E n \in Names : toCatalog[s][n] = f[2]
       \/ <<f[2], TRUE>> \in toDrop[s]
  /\ \A f \in usrTxn[s].removed :
       /\ f[1] = database[s]
       /\ <<f[2], TRUE>> \in toDrop[s]

Accounted == (\A s \in Sessions : AccountedBy(s)) /\ NoStrayFiles

StrayInv == FilesInv /\ OpenedInv /\ Accounted

BeingErased(f) ==
  \E s \in Sessions : phase[s] = "erasing" /\ f \in ToErase(s)

LEMMA NoStrayFilesMeans ==
  NoStrayFiles <=>
    \A f \in existing : f \in used \cup Catalogued \cup strays \/ BeingErased(f)
  BY DEF NoStrayFiles, BeingErased

\* A file is a database and a number, and no number is NoFile.
LEMMA FileParts ==
  ASSUME NEW f \in Files
  PROVE  f[1] \in Databases /\ f[2] \in FileIds /\ f[2] # NoFile
<1>1. f[1] \in Databases /\ f[2] \in FileIds
  BY DEF Files
<1>2. NoFile \notin FileIds
  BY SmiAssumption DEF FileIds
<1> QED
  BY <1>1, <1>2

\* A file of the open database is removed if its number is requested.
LEMMA RequestedIsErased ==
  ASSUME NEW s \in Sessions, NEW f \in Files, f[1] = database[s],
         <<f[2], TRUE>> \in toDrop[s]
  PROVE  f \in ToErase(s)
<1> DEFINE e == <<f[2], TRUE>>
<1>1. e[1] = f[2] /\ e[2] = TRUE
  OBVIOUS
<1>2. f = <<database[s], e[1]>>
  BY <1>1 DEF Files
<1>3. e \in {x \in toDrop[s] : x[2]}
  BY <1>1
<1> HIDE DEF e
<1> QED
  BY <1>2, <1>3 DEF ToErase

\* Steps that change no file and end no removal.
LEMMA NoStrayKept ==
  ASSUME NoStrayFiles,
         UNCHANGED <<fileCatalog, existing, used, strays>>,
         \A s \in Sessions : phase[s] = "erasing" =>
           /\ phase'[s] = "erasing"
           /\ database'[s] = database[s]
           /\ toDrop'[s] = toDrop[s]
  PROVE  NoStrayFiles'
<1>1. Catalogued' = Catalogued
  BY DEF Catalogued
<1>2. \A s \in Sessions : phase[s] = "erasing" =>
        phase'[s] = "erasing" /\ ToErase(s)' = ToErase(s)
  BY DEF ToErase
<1> QED
  BY <1>1, <1>2 DEF NoStrayFiles

\* Steps of one session that leave the accounts of the others alone.
LEMMA AccountedStep ==
  ASSUME Accounted, NEW s \in Sessions, AccountedBy(s)', NoStrayFiles',
         \A r \in Sessions \ {s} :
           /\ usrTxn'[r] = usrTxn[r] /\ held'[r] = held[r]
           /\ toCatalog'[r] = toCatalog[r] /\ toDrop'[r] = toDrop[r]
           /\ database'[r] = database[r]
  PROVE  Accounted'
<1>1. ASSUME NEW r \in Sessions \ {s}
      PROVE  AccountedBy(r)'
  <2>1. /\ usrTxn'[r] = usrTxn[r] /\ held'[r] = held[r]
        /\ toCatalog'[r] = toCatalog[r] /\ toDrop'[r] = toDrop[r]
        /\ database'[r] = database[r]
    BY <1>1
  <2>2. AccountedBy(r)
    BY DEF Accounted
  <2>3. ASSUME NEW f \in usrTxn'[r].created
        PROVE  \/ f \in held'[r]
               \/ f \in usrTxn'[r].stored
               \/ \E n \in Names : toCatalog'[r][n] = f[2]
               \/ <<f[2], TRUE>> \in toDrop'[r]
    <3>1. f \in usrTxn[r].created
      BY <2>1
    <3>2. \/ f \in held[r]
          \/ f \in usrTxn[r].stored
          \/ \E n \in Names : toCatalog[r][n] = f[2]
          \/ <<f[2], TRUE>> \in toDrop[r]
      BY <2>2, <3>1 DEF AccountedBy
    <3> QED
      BY <2>1, <3>2
  <2>4. ASSUME NEW f \in usrTxn'[r].removed
        PROVE  f[1] = database'[r] /\ <<f[2], TRUE>> \in toDrop'[r]
    <3>1. f \in usrTxn[r].removed
      BY <2>1
    <3>2. f[1] = database[r] /\ <<f[2], TRUE>> \in toDrop[r]
      BY <2>2, <3>1 DEF AccountedBy
    <3> QED
      BY <2>1, <3>2
  <2> QED
    BY <2>3, <2>4 DEF AccountedBy
<1>2. \A r \in Sessions : AccountedBy(r)'
  BY <1>1
<1> QED
  BY <1>2 DEF Accounted

LEMMA AccountedInit == Init => Accounted
<1> SUFFICES ASSUME Init PROVE Accounted
  OBVIOUS
<1>1. \A s \in Sessions : AccountedBy(s)
  BY DEF Init, SessionsInit, NoChanges, AccountedBy
<1>2. existing = {}
  BY DEF Init
<1>3. NoStrayFiles
  BY <1>2, NoStrayFilesMeans
<1> QED
  BY <1>1, <1>3 DEF Accounted

\* A new file is not on disk before the commit.
LEMMA CreateAccounted ==
  ASSUME Regular, StrayInv, NEW s \in Sessions,
         Create(s) \/ \E n \in Names : OpenNew(s, n)
  PROVE  Accounted'
<1> USE DEF StrayInv, FilesInv, IdInv
<1> DEFINE f == <<database[s], NextFileId(database[s])>>
<1>1. NewFile(s) /\ phase[s] \in {"opening", "ready"} /\ txnStarted[s]
  BY DEF Create, OpenNew, MayTouch, Regular, FilesOK, SessionOK
<1>2. /\ existing' = existing
      /\ usrTxn' = [usrTxn EXCEPT ![s].created = @ \cup {f}]
      /\ toDrop' = [toDrop EXCEPT ![s] = @ \cup {<<NextFileId(database[s]), FALSE>>}]
  BY <1>1 DEF NewFile
<1>3. /\ usrTxn'[s].created = usrTxn[s].created \cup {f}
      /\ usrTxn'[s].stored = usrTxn[s].stored
      /\ usrTxn'[s].removed = usrTxn[s].removed
      /\ toDrop[s] \subseteq toDrop'[s]
      /\ \A r \in Sessions \ {s} : usrTxn'[r] = usrTxn[r] /\ toDrop'[r] = toDrop[r]
  <2>1. DOMAIN usrTxn = Sessions /\ DOMAIN toDrop = Sessions
    BY DEF SmiTypeOK
  <2>2. /\ usrTxn'[s] = [usrTxn[s] EXCEPT !.created = @ \cup {f}]
        /\ \A r \in Sessions \ {s} : usrTxn'[r] = usrTxn[r]
    BY <1>2, <2>1
  <2>3. /\ toDrop'[s] = toDrop[s] \cup {<<NextFileId(database[s]), FALSE>>}
        /\ \A r \in Sessions \ {s} : toDrop'[r] = toDrop[r]
    BY <1>2, <2>1
  <2>4. {"created", "stored", "removed"} \subseteq DOMAIN usrTxn[s]
    BY DEF SmiTypeOK
  <2> QED
    BY <2>2, <2>3, <2>4
<1>4. UNCHANGED <<fileCatalog, used, strays, phase, database>>
  BY DEF Create, OpenNew, Register
<1>5. NoStrayFiles'
  BY <1>1, <1>2, <1>3, <1>4, NoStrayKept DEF Accounted
<1>6. f[2] = NextFileId(database[s])
  OBVIOUS
<1>7. CASE Create(s)
  <2>1. /\ held'[s] = held[s] \cup {f}
        /\ \A r \in Sessions \ {s} : held'[r] = held[r]
        /\ toCatalog' = toCatalog
    BY <1>7 DEF Create, SmiTypeOK
  <2>2. AccountedBy(s)'
    BY <1>3, <1>4, <2>1 DEF Accounted, AccountedBy
  <2> QED
    BY <1>3, <1>4, <1>5, <2>1, <2>2, AccountedStep
<1>8. CASE \E n \in Names : OpenNew(s, n)
  <2>1. PICK n \in Names : OpenNew(s, n)
    BY <1>8
  <2>2. toCatalog[s][n] = NoFile
    BY <2>1 DEF OpenNew, OpenedInv, OpenedOK
  <2>3. /\ toCatalog'[s][n] = f[2]
        /\ \A m \in Names : m # n => toCatalog'[s][m] = toCatalog[s][m]
        /\ \A r \in Sessions \ {s} : toCatalog'[r] = toCatalog[r]
        /\ held' = held
    <3> HIDE DEF f
    <3>1. /\ toCatalog' = [toCatalog EXCEPT ![s][n] = NextFileId(database[s])]
          /\ held' = held
      BY <2>1 DEF OpenNew, Register
    <3>2. toCatalog \in [Sessions -> [Names -> FileIds \cup {NoFile}]]
      BY DEF SmiTypeOK
    <3> QED
      BY <1>6, <3>1, <3>2
  <2>4. \A g \in usrTxn[s].created : g[2] # NoFile
    <3>1. usrTxn[s].created \subseteq Files
      BY DEF SmiTypeOK
    <3> QED
      BY <3>1, FileParts
  <2>5. \A g \in usrTxn[s].created :
          (\E m \in Names : toCatalog[s][m] = g[2])
            => \E m \in Names : toCatalog'[s][m] = g[2]
    BY <2>2, <2>3, <2>4
  <2>6. \A g \in usrTxn'[s].created :
          \/ g \in held'[s]
          \/ g \in usrTxn'[s].stored
          \/ \E m \in Names : toCatalog'[s][m] = g[2]
          \/ <<g[2], TRUE>> \in toDrop'[s]
    <3> SUFFICES ASSUME NEW g \in usrTxn'[s].created
                 PROVE  \/ g \in held'[s]
                        \/ g \in usrTxn'[s].stored
                        \/ \E m \in Names : toCatalog'[s][m] = g[2]
                        \/ <<g[2], TRUE>> \in toDrop'[s]
      OBVIOUS
    <3>1. CASE g = f
      BY <2>3, <3>1
    <3>2. CASE g \in usrTxn[s].created
      BY <1>3, <2>3, <2>5, <3>2 DEF Accounted, AccountedBy
    <3> QED
      BY <1>3, <3>1, <3>2
  <2>7. AccountedBy(s)'
    BY <1>3, <1>4, <2>6 DEF Accounted, AccountedBy
  <2> QED
    BY <1>3, <1>4, <1>5, <2>3, <2>7, AccountedStep
<1> QED
  BY <1>7, <1>8

\* A value's file is stored or dropped; an object's file is dropped.
LEMMA TouchAccounted ==
  ASSUME StrayInv, NEW s \in Sessions, NEW f \in Files,
         Store(s, f) \/ DropHeld(s, f) \/ DropStored(s, f)
  PROVE  Accounted'
<1> USE DEF StrayInv, FilesInv, IdInv
<1>1. /\ UNCHANGED <<fileCatalog, existing, used, strays, phase, database, toCatalog>>
      /\ phase[s] = "ready"
  BY DEF Store, DropHeld, DropStored, Drop, MayTouch, durableVars
<1>2. \A r \in Sessions \ {s} : /\ usrTxn'[r] = usrTxn[r]
                                /\ held'[r] = held[r]
                                /\ toDrop'[r] = toDrop[r]
  BY DEF Store, DropHeld, DropStored, Drop, SmiTypeOK
<1>3. NoStrayFiles'
  BY <1>1, <1>2, NoStrayKept DEF Accounted
<1>4. /\ usrTxn \in [Sessions -> Changes]
      /\ toDrop \in [Sessions -> SUBSET (FileIds \X BOOLEAN)]
      /\ held \in [Sessions -> SUBSET Files]
  BY DEF SmiTypeOK, Changes
<1>5. /\ usrTxn'[s].created = usrTxn[s].created
      /\ toDrop[s] \subseteq toDrop'[s]
      /\ held[s] \subseteq held'[s] \cup {f}
      /\ usrTxn[s].stored \subseteq usrTxn'[s].stored
      /\ \/ /\ f \in usrTxn'[s].stored
            /\ usrTxn'[s].removed = usrTxn[s].removed
         \/ /\ <<f[2], TRUE>> \in toDrop'[s]
            /\ \/ usrTxn'[s].removed = usrTxn[s].removed
               \/ /\ usrTxn'[s].removed = usrTxn[s].removed \cup {f}
                  /\ f[1] = database[s]
  <2>1. CASE Store(s, f)
    <3>1. /\ usrTxn' = [usrTxn EXCEPT ![s].stored = @ \cup {f}]
          /\ held' = [held EXCEPT ![s] = @ \ {f}]
          /\ toDrop' = toDrop
      BY <2>1 DEF Store
    <3>2. usrTxn'[s] = [usrTxn[s] EXCEPT !.stored = @ \cup {f}]
      BY <1>4, <3>1
    <3> QED
      BY <1>4, <3>1, <3>2 DEF Changes
  <2>2. CASE DropHeld(s, f)
    <3>1. /\ usrTxn' = usrTxn
          /\ held' = [held EXCEPT ![s] = @ \ {f}]
          /\ toDrop' = [toDrop EXCEPT ![s] = @ \cup {<<f[2], TRUE>>}]
      BY <2>2 DEF DropHeld, Drop
    <3> QED
      BY <1>4, <3>1
  <2>3. CASE DropStored(s, f)
    <3>1. /\ usrTxn' = [usrTxn EXCEPT ![s].removed = @ \cup {f}]
          /\ held' = held
          /\ toDrop' = [toDrop EXCEPT ![s] = @ \cup {<<f[2], TRUE>>}]
          /\ f[1] = database[s]
      BY <2>3 DEF DropStored, Drop
    <3>2. usrTxn'[s] = [usrTxn[s] EXCEPT !.removed = @ \cup {f}]
      BY <1>4, <3>1
    <3> QED
      BY <1>4, <3>1, <3>2 DEF Changes
  <2> QED
    BY <2>1, <2>2, <2>3
<1>6. AccountedBy(s)'
  BY <1>1, <1>5 DEF Accounted, AccountedBy
<1> QED
  BY <1>1, <1>2, <1>3, <1>6, AccountedStep

\* The files of the transaction come to disk, each to its owner or to the
\* removals that are carried out next.
LEMMA CommitAccounted ==
  ASSUME Regular, StrayInv, NEW s \in Sessions, CommitTransaction(s)
  PROVE  Accounted'
<1> USE DEF StrayInv, FilesInv, IdInv
<1>1. /\ phase[s] # "erasing" /\ phase'[s] = "erasing" /\ held[s] = {}
      /\ \A r \in Sessions \ {s} : /\ phase'[r] = phase[r]
                                   /\ usrTxn'[r] = usrTxn[r]
                                   /\ toCatalog'[r] = toCatalog[r]
      /\ database[s] \in Databases
      /\ UNCHANGED <<strays, database, held, toDrop>>
  BY DEF CommitTransaction, SmiTypeOK
<1>2. usrTxn'[s].created = {} /\ usrTxn'[s].removed = {}
  BY DEF CommitTransaction, NoChanges, SmiTypeOK
<1>3. /\ fileCatalog' = UpdateCatalog(s)
      /\ existing' = existing \cup usrTxn[s].created
      /\ used' = (used \cup usrTxn[s].stored) \ usrTxn[s].removed
  BY DEF CommitTransaction, CommitUsrTxn, Regular
<1>4. /\ \A n \in Names : fileCatalog'[database[s]][n] =
           IF toCatalog[s][n] # NoFile THEN toCatalog[s][n]
                                       ELSE fileCatalog[database[s]][n]
      /\ \A d \in Databases \ {database[s]} : fileCatalog'[d] = fileCatalog[d]
  BY <1>1, <1>3, UpdateSucceeds
<1>5. ASSUME NEW f \in Files
      PROVE  /\ f[1] \in Databases
             /\ f[2] # NoFile
             /\ (f[1] = database[s] /\ <<f[2], TRUE>> \in toDrop[s])
                  => f \in ToErase(s)
  BY RequestedIsErased, FileParts
<1>6. Catalogued \subseteq Catalogued'
  <2> SUFFICES ASSUME NEW f \in Files, NEW n \in Names,
                      fileCatalog[f[1]][n] = f[2]
               PROVE  fileCatalog'[f[1]][n] = f[2]
    BY DEF Catalogued
  <2>1. CASE f[1] # database[s]
    BY <1>4, <1>5, <2>1
  <2>2. CASE f[1] = database[s]
    <3>1. toCatalog[s][n] = NoFile
      <4>1. fileCatalog[database[s]][n] # NoFile
        BY <1>5, <2>2
      <4> QED
        BY <4>1 DEF OpenedInv, OpenedOK
    <3> QED
      BY <1>4, <2>2, <3>1
  <2> QED
    BY <2>1, <2>2
<1>7. \A r \in Sessions : phase[r] = "erasing" =>
        phase'[r] = "erasing" /\ ToErase(r)' = ToErase(r)
  BY <1>1 DEF ToErase
<1>8. ToErase(s)' = ToErase(s)
  BY <1>1 DEF ToErase
<1>9. ASSUME NEW f \in usrTxn[s].removed
      PROVE  f \in ToErase(s)
  <2>1. f \in Files
    BY DEF SmiTypeOK
  <2> QED
    BY <1>5, <2>1 DEF Accounted, AccountedBy
<1>10. ASSUME NEW f \in usrTxn[s].created
       PROVE  f \in used' \cup Catalogued' \/ f \in ToErase(s)
  <2>1. f \in Files /\ f[1] = database[s]
    BY DEF SmiTypeOK, FilesOK, SessionOK
  <2>2. CASE f \in usrTxn[s].stored
    BY <1>3, <1>9, <2>2
  <2>3. CASE \E n \in Names : toCatalog[s][n] = f[2]
    <3>1. PICK n \in Names : toCatalog[s][n] = f[2]
      BY <2>3
    <3>2. fileCatalog'[f[1]][n] = f[2]
      BY <1>4, <1>5, <2>1, <3>1
    <3> QED
      BY <2>1, <3>2 DEF Catalogued
  <2>4. CASE <<f[2], TRUE>> \in toDrop[s]
    BY <1>5, <2>1, <2>4
  <2> QED
    BY <1>1, <2>2, <2>3, <2>4 DEF Accounted, AccountedBy
<1>11. NoStrayFiles'
  <2> SUFFICES ASSUME NEW f \in existing'
               PROVE  \/ f \in used' \cup Catalogued' \cup strays'
                      \/ \E r \in Sessions : phase'[r] = "erasing" /\ f \in ToErase(r)'
    BY DEF NoStrayFiles
  <2>1. CASE f \in existing
    BY <1>1, <1>3, <1>6, <1>7, <1>8, <1>9, <2>1 DEF Accounted, NoStrayFiles
  <2>2. CASE f \in usrTxn[s].created
    BY <1>1, <1>8, <1>10, <2>2
  <2> QED
    BY <1>3, <2>1, <2>2
<1>12. AccountedBy(s)'
  BY <1>2 DEF AccountedBy
<1> QED
  BY <1>1, <1>11, <1>12, AccountedStep

\* The removals are carried out, those of s only.
LEMMA EraseAccounted ==
  ASSUME StrayInv, NEW s \in Sessions, EraseFiles(s)
  PROVE  Accounted'
<1> USE DEF StrayInv, FilesInv, IdInv
<1>1. /\ phase[s] = "erasing"
      /\ \A r \in Sessions \ {s} : phase'[r] = phase[r] /\ toDrop'[r] = toDrop[r]
      /\ UNCHANGED <<fileCatalog, used, strays, database, usrTxn, held, toCatalog>>
      /\ existing' = existing \ ToErase(s)
  BY DEF EraseFiles, SmiTypeOK
<1>2. Catalogued' = Catalogued
  BY <1>1 DEF Catalogued
<1>3. \A r \in Sessions \ {s} : ToErase(r)' = ToErase(r)
  BY <1>1 DEF ToErase
<1>4. NoStrayFiles'
  BY <1>1, <1>2, <1>3 DEF Accounted, NoStrayFiles
<1>5. AccountedBy(s)'
  <2>1. usrTxn[s].created = {} /\ usrTxn[s].removed = {}
    BY <1>1 DEF FilesOK, SessionOK
  <2> QED
    BY <1>1, <2>1 DEF AccountedBy
<1> QED
  BY <1>1, <1>4, <1>5, AccountedStep

\* A session begins or ends without an account.
LEMMA BoundsAccounted ==
  ASSUME StrayInv, NEW s \in Sessions,
         \/ \E d \in Databases : OpenDatabase(s, d)
         \/ AbortTransaction(s)
         \/ CloseDatabase(s)
  PROVE  Accounted'
<1> USE DEF StrayInv, FilesInv, IdInv
<1>1. /\ UNCHANGED durableVars
      /\ phase[s] # "erasing"
      /\ \A r \in Sessions \ {s} :
           /\ phase'[r] = phase[r] /\ database'[r] = database[r]
           /\ usrTxn'[r] = usrTxn[r] /\ held'[r] = held[r]
           /\ toCatalog'[r] = toCatalog[r] /\ toDrop'[r] = toDrop[r]
  BY DEF OpenDatabase, AbortTransaction, CloseDatabase, TxnEnded, SmiTypeOK
<1>2. usrTxn'[s].created = {} /\ usrTxn'[s].removed = {}
  <2>1. CASE AbortTransaction(s)
    <3>1. usrTxn'[s] = NoChanges
      BY <2>1 DEF AbortTransaction, SmiTypeOK
    <3> QED
      BY <3>1 DEF NoChanges
  <2>2. CASE CloseDatabase(s) \/ \E d \in Databases : OpenDatabase(s, d)
    <3>1. usrTxn' = usrTxn /\ (phase[s] = "closed" \/ ~txnStarted[s])
      BY <2>2 DEF CloseDatabase, OpenDatabase
    <3> QED
      BY <3>1 DEF FilesOK, SessionOK
  <2> QED
    BY <2>1, <2>2
<1>3. NoStrayFiles'
  BY <1>1, NoStrayKept DEF Accounted, durableVars
<1>4. AccountedBy(s)'
  BY <1>2 DEF AccountedBy
<1> QED
  BY <1>1, <1>3, <1>4, AccountedStep

\* What nobody would remove after a crash is a stray from then on.
LEMMA CrashAccounted ==
  ASSUME Crash
  PROVE  Accounted'
<1>1. Catalogued' = Catalogued
  BY DEF Crash, Catalogued
<1>2. \A s \in Sessions : AccountedBy(s)'
  BY DEF Crash, NoChanges, AccountedBy
<1>3. NoStrayFiles'
  BY <1>1 DEF Crash, NoStrayFiles
<1> QED
  BY <1>2, <1>3 DEF Accounted

LEMMA AccountedNext ==
  ASSUME Regular
  PROVE  StrayInv /\ [Next]_vars => Accounted'
<1> SUFFICES ASSUME StrayInv, [Next]_vars
             PROVE  Accounted'
  OBVIOUS
<1>1. ASSUME UNCHANGED <<durableVars, phase, database, usrTxn, held, toCatalog, toDrop>>
      PROVE  Accounted'
  <2>1. NoStrayFiles'
    BY <1>1, NoStrayKept DEF StrayInv, Accounted, durableVars
  <2> QED
    BY <1>1, <2>1 DEF StrayInv, Accounted, AccountedBy
<1>2. ASSUME NEW s \in Sessions, NEW n \in Names, OpenCatalogued(s, n)
      PROVE  Accounted'
  BY <1>1, <1>2 DEF OpenCatalogued
<1>3. ASSUME NEW s \in Sessions, BeginTransaction(s) \/ Deadlock(s)
      PROVE  Accounted'
  BY <1>1, <1>3 DEF BeginTransaction, Deadlock
<1>4. CASE UNCHANGED vars
  BY <1>1, <1>4 DEF vars, sessionVars
<1> QED
  BY <1>2, <1>3, <1>4, CreateAccounted, TouchAccounted, CommitAccounted,
     EraseAccounted, BoundsAccounted, CrashAccounted
     DEF Next, FileAction, TransactionAction

\* Every file on disk belongs to a name or an object or is about to be
\* removed, apart from those that a crash between a commit and EraseFiles has
\* left (bdbEnvironment.cpp, bdbFilesToDrop).
THEOREM NoStraysCorrect ==
  ASSUME Regular, FirstOpenAlone
  PROVE  Spec => []NoStrayFiles
<1>1. Init => StrayInv
  BY TypeInit, IdInit, FilesInit, OpenedInit, AccountedInit
     DEF StrayInv, FilesInv, IdInv
<1>2. StrayInv /\ [Next]_vars => StrayInv'
  BY TypeStep, IdStep, FilesStep, OpenedStep, AccountedNext
     DEF StrayInv, FilesInv, IdInv
<1>3. StrayInv => NoStrayFiles
  BY DEF StrayInv, Accounted
<1> QED
  BY <1>1, <1>2, <1>3, PTL DEF Spec
=============================================================================
