------------------------ MODULE SecondoCommandsProofs ------------------------
(***************************************************************************)
(* Proofs about SecondoCommands, for any sets of names, values and record  *)
(* numbers.  Theorems that need a situation excluded say so.               *)
(***************************************************************************)
EXTENDS SecondoCommands, TLAPS

-----------------------------------------------------------------------------
(* Type correctness.                                                       *)

LEMMA EmptyType == /\ EmptyFiles \in Files
                   /\ NoTypes \in [TypeNames -> TypeStates]
                   /\ NoObjects \in [ObjectNames -> ObjectsCatalogEntry]
  BY DEF EmptyFiles, Files, NoTypes, NoObjects, NoEntry, TypeStates,
         ObjectsCatalogEntry

\* The first iteration of CleanUp leaves a record or nothing.
LEMMA UndefinedRecordType ==
  ASSUME SecondoCatalogTypeOK, NEW o \in ObjectNames
  PROVE  UndefinedRecord(o) \in ObjectRecord \cup {Nothing}
<1> USE DEF SecondoCatalogTypeOK, Files
<1>1. CASE objects[o].state = "insert" /\ ~InFile(o)
  BY <1>1 DEF UndefinedRecord, ObjectRecord, ObjectsCatalogEntry
<1>2. CASE objects[o].state = "update" /\ InFile(o)
  <2>1. files.objects[o] \in ObjectRecord
    BY <1>2 DEF InFile
  <2>2. objects[o].typeName \in TypeNames \cup {NoType}
    BY DEF ObjectsCatalogEntry
  <2>3. UndefinedRecord(o) = [files.objects[o] EXCEPT
                                !.typeName = objects[o].typeName,
                                !.valueDefined = FALSE]
    BY <1>2 DEF UndefinedRecord
  <2> QED
    BY <2>1, <2>2, <2>3 DEF ObjectRecord
<1>3. CASE objects[o].state = "delete"
  BY <1>3 DEF UndefinedRecord
<1>4. CASE /\ ~(objects[o].state = "insert" /\ ~InFile(o))
           /\ ~(objects[o].state = "update" /\ InFile(o))
           /\ objects[o].state # "delete"
  BY <1>4 DEF UndefinedRecord
<1> QED
  BY <1>1, <1>2, <1>3, <1>4

LEMMA RemainingType ==
  ASSUME SecondoCatalogTypeOK
  PROVE  RemainingValues \in [RecordIds -> Values \cup {Nothing}]
  BY DEF SecondoCatalogTypeOK, Files, RemainingValues

\* AppendRecord numbers the new records: distinct records, and free ones.
LEMMA AppendedRecordIsNumbering ==
  ASSUME RecordsLeft
  PROVE  /\ AppendedRecord \in
              [Appended -> {r \in RecordIds : RemainingValues[r] = Nothing}]
         /\ \A o, p \in Appended :
              AppendedRecord[o] = AppendedRecord[p] => o = p
<1>1. AppendedRecord \in Numberings
  BY DEF RecordsLeft, AppendedRecord
<1> QED
  BY <1>1 DEF Numberings

LEMMA DefinedRecordType ==
  ASSUME SecondoCatalogTypeOK, RecordsLeft, NEW failed, NEW o \in ObjectNames
  PROVE  DefinedRecord(o, failed) \in ObjectRecord \cup {Nothing}
<1>1. UndefinedRecord(o) \in ObjectRecord \cup {Nothing}
  BY UndefinedRecordType
<1>2. CASE o \in Appended
  <2>1. UndefinedRecord(o) \in ObjectRecord
    BY <1>1, <1>2 DEF Appended, Saved
  <2>2. AppendedRecord[o] \in RecordIds
    BY <1>2, AppendedRecordIsNumbering
  <2> QED
    BY <1>2, <2>1, <2>2 DEF DefinedRecord, ObjectRecord
<1>3. CASE o \in Saved \ Appended
  <2>1. UndefinedRecord(o) \in ObjectRecord
    BY <1>1, <1>3 DEF Saved
  <2> QED
    BY <1>3, <2>1 DEF DefinedRecord, ObjectRecord
<1>4. CASE o \notin Appended /\ o \notin Saved \ Appended
  BY <1>1, <1>4 DEF DefinedRecord
<1> QED
  BY <1>2, <1>3, <1>4

LEMMA SavedValueType ==
  ASSUME SecondoCatalogTypeOK, NEW failed, NEW r \in RecordIds
  PROVE  SavedValue(r, failed) \in Values \cup {Nothing}
<1>1. ASSUME NEW o \in Saved
      PROVE  objects[o].value \in Values \cup {Nothing}
  BY <1>1 DEF Saved, SecondoCatalogTypeOK, ObjectsCatalogEntry
<1>2. RemainingValues[r] \in Values \cup {Nothing}
  BY RemainingType
<1>3. Appended \subseteq Saved /\ Overwritten \subseteq Saved
  BY DEF Appended, Overwritten
<1> QED
  BY <1>1, <1>2, <1>3 DEF SavedValue

\* What CleanUp writes are files again.
LEMMA CleanUpType ==
  ASSUME SecondoCatalogTypeOK, RecordsLeft, NEW failed
  PROVE  CleanUpFiles(failed) \in Files
<1>1. WrittenTypes \subseteq TypeNames
  BY DEF WrittenTypes, SecondoCatalogTypeOK, Files
<1> QED
  BY <1>1, DefinedRecordType, SavedValueType DEF CleanUpFiles, Files

\* Each operation of the catalog keeps the types of files and overlay.
LEMMA TypeOperationType ==
  ASSUME SecondoCatalogTypeOK, NEW t \in TypeNames,
         InsertType(t) \/ DeleteType(t)
  PROVE  SecondoCatalogTypeOK'
  BY DEF SecondoCatalogTypeOK, TypeStates, InsertType, DeleteType

LEMMA InsertObjectType ==
  ASSUME SecondoCatalogTypeOK, NEW o \in ObjectNames,
         NEW t \in TypeNames \cup {NoType}, NEW v \in Values \cup {Undefined},
         InsertObject(o, t, v)
  PROVE  SecondoCatalogTypeOK'
  BY DEF SecondoCatalogTypeOK, ObjectsCatalogEntry, InsertObject

LEMMA FileObjectType ==
  ASSUME SecondoCatalogTypeOK, NEW o \in ObjectNames,
         IsObjectName(o), ~Pending(o)
  PROVE  /\ files.objects[o] \in ObjectRecord
         /\ StoredValue(files.objects[o], files.values)
              \in Values \cup {Undefined, Nothing}
<1>1. files.objects[o] \in ObjectRecord
  BY DEF SecondoCatalogTypeOK, Files, IsObjectName, InFile
<1>2. files.values \in [RecordIds -> Values \cup {Nothing}]
  BY DEF SecondoCatalogTypeOK, Files
<1>3. files.objects[o].valueRecordId \in RecordIds \cup {NoRecord}
  BY <1>1 DEF ObjectRecord
<1> QED
  BY <1>1, <1>2, <1>3 DEF StoredValue

LEMMA UpdateObjectType ==
  ASSUME SecondoCatalogTypeOK, NEW o \in ObjectNames, NEW v \in Values,
         UpdateObject(o, v)
  PROVE  SecondoCatalogTypeOK'
<1>1. CASE Pending(o)
  BY <1>1 DEF SecondoCatalogTypeOK, ObjectsCatalogEntry, UpdateObject
<1>2. CASE ~Pending(o)
  BY <1>2, FileObjectType
     DEF SecondoCatalogTypeOK, ObjectRecord, ObjectsCatalogEntry, UpdateObject
<1> QED
  BY <1>1, <1>2

LEMMA DeleteObjectType ==
  ASSUME SecondoCatalogTypeOK, NEW o \in ObjectNames, DeleteObject(o)
  PROVE  SecondoCatalogTypeOK'
<1> USE DEF SecondoCatalogTypeOK
<1>1. objects' \in [ObjectNames -> ObjectsCatalogEntry]
  <2>1. CASE objects[o].state = "insert"
    BY <2>1 DEF DeleteObject, ObjectsCatalogEntry, NoEntry
  <2>3. CASE objects[o].state = "update"
    <3>1. objects' = [objects EXCEPT ![o] = [objects[o] EXCEPT !.state = "delete"]]
      BY <2>3 DEF DeleteObject
    <3> QED
      BY <3>1 DEF ObjectsCatalogEntry
  <2>2. CASE objects[o].state \notin {"insert", "update"}
    <3>1. ~Pending(o)
      BY <2>2 DEF DeleteObject, IsObjectName, Pending, ObjectsCatalogEntry
    <3>2. files.objects[o] \in ObjectRecord
      BY <3>1, FileObjectType DEF DeleteObject
    <3>3. StoredValue(files.objects[o], files.values)
            \in Values \cup {Undefined, Nothing}
      BY <3>1, FileObjectType DEF DeleteObject
    <3>4. files.objects[o].typeName \in TypeNames \cup {NoType}
      BY <3>2 DEF ObjectRecord
    <3>5. objects' = [objects EXCEPT ![o] =
                        [state |-> "delete",
                         typeName |-> files.objects[o].typeName,
                         value |-> StoredValue(files.objects[o], files.values),
                         valueRecordId |-> NoRecord]]
      BY <2>2 DEF DeleteObject
    <3> QED
      BY <3>3, <3>4, <3>5 DEF ObjectsCatalogEntry
  <2> QED
    BY <2>1, <2>2, <2>3
<1> QED
  BY <1>1 DEF DeleteObject

LEMMA KillObjectType ==
  ASSUME SecondoCatalogTypeOK, NEW o \in ObjectNames, KillObject(o)
  PROVE  SecondoCatalogTypeOK'
<1> USE DEF SecondoCatalogTypeOK
<1>1. CASE Pending(o)
  <2>1. objects[o] \in ObjectsCatalogEntry
    OBVIOUS
  <2>2. CASE objects[o].state = "insert"
    BY <1>1, <2>2 DEF ObjectsCatalogEntry, NoEntry, KillObject
  <2>3. CASE objects[o].state # "insert"
    <3>1. objects' = [objects EXCEPT ![o] = [objects[o] EXCEPT !.state = "delete"]]
      BY <1>1, <2>3 DEF KillObject
    <3> QED
      BY <1>1, <2>1, <3>1 DEF KillObject, ObjectsCatalogEntry
  <2> QED
    BY <2>2, <2>3
<1>2. CASE ~Pending(o)
  <2> DEFINE vs == [r \in RecordIds |->
                      IF r = files.objects[o].valueRecordId
                        THEN Nothing ELSE files.values[r]]
  <2>2. vs \in [RecordIds -> Values \cup {Nothing}]
    BY DEF Files
  <2>3. files' = [files EXCEPT !.objects[o] = Nothing, !.values = vs]
    BY <1>2 DEF KillObject, Files
  <2> HIDE DEF vs
  <2>1. files' \in Files
    BY <2>2, <2>3 DEF Files
  <2> QED
    BY <1>2, <2>1 DEF KillObject
<1> QED
  BY <1>1, <1>2

LEMMA RenameType ==
  ASSUME SecondoCatalogTypeOK, NEW old \in ObjectNames, NEW new \in ObjectNames,
         RenameEntry(old, new) \/ RenameDeleteRecord(old, new)
  PROVE  SecondoCatalogTypeOK'
<1> USE DEF SecondoCatalogTypeOK
<1>1. CASE RenameEntry(old, new)
  BY <1>1 DEF RenameEntry, ObjectsCatalogEntry, NoEntry
<1>2. CASE RenameDeleteRecord(old, new)
  <2>1. files' \in Files
    BY <1>2 DEF Files, RenameDeleteRecord
  <2> QED
    BY <1>2, <2>1 DEF RenameDeleteRecord
<1> QED
  BY <1>1, <1>2

LEMMA RenameInsertType ==
  ASSUME SecondoCatalogTypeOK, NEW new \in ObjectNames,
         NEW rec \in ObjectRecord, RenameInsertRecord(new, rec)
  PROVE  SecondoCatalogTypeOK'
<1>1. files' \in Files
  BY DEF SecondoCatalogTypeOK, Files, RenameInsertRecord
<1> QED
  BY <1>1 DEF SecondoCatalogTypeOK, RenameInsertRecord

\* The files, the overlay and the durable files have their types.
DataTypeOK == SecondoCatalogTypeOK /\ committed \in Files

LEMMA CommitType ==
  ASSUME DataTypeOK, CommitTransaction
  PROVE  DataTypeOK' /\ txnStarted' = FALSE
<1> USE DEF DataTypeOK
<1>1. CASE CommitSucceeds
  <2>1. PICK failed : /\ files' = CleanUpFiles(failed)
                      /\ committed' = CleanUpFiles(failed)
    BY <1>1 DEF CommitSucceeds, FilesCommitted
  <2>2. CleanUpFiles(failed) \in Files
    BY <1>1, CleanUpType DEF CommitSucceeds, FilesCommitted
  <2> QED
    BY <1>1, <2>1, <2>2, EmptyType
       DEF CommitSucceeds, FilesCommitted, CleanUpEntries,
           SecondoCatalogTypeOK
<1>2. CASE CommitRollsBack
  BY <1>2, EmptyType DEF CommitRollsBack, FilesRolledBack, CleanUpEntries,
                         SecondoCatalogTypeOK
<1> QED
  BY <1>1, <1>2 DEF CommitTransaction

LEMMA AbortType ==
  ASSUME DataTypeOK, AbortTransaction
  PROVE  DataTypeOK' /\ txnStarted' = FALSE
  BY EmptyType
     DEF DataTypeOK, AbortTransaction, CleanUpEntries, SecondoCatalogTypeOK

\* A command on the catalog: the files stay durable unless usrTxn runs.
LEMMA WriteType ==
  ASSUME DataTypeOK, SecondoCatalogTypeOK', Write
  PROVE  DataTypeOK'
  BY DEF DataTypeOK, Write, SecondoCatalogTypeOK

LEMMA StartType ==
  ASSUME SecondoCommandsTypeOK, SecondoCatalogTypeOK', StartCommand,
         command' \in {"succeeded", "failed", "switching"}
  PROVE  SecondoCommandsTypeOK'
<1>1. DataTypeOK'
  BY WriteType DEF StartCommand, SecondoCommandsTypeOK, DataTypeOK
<1>2. txnStarted' \in BOOLEAN
  BY DEF StartCommand
<1> QED
  BY <1>1, <1>2 DEF StartCommand, SecondoCommandsTypeOK, DataTypeOK

LEMMA TypeStep == SecondoCommandsTypeOK /\ [Next]_vars => SecondoCommandsTypeOK'
<1> SUFFICES ASSUME SecondoCommandsTypeOK, [Next]_vars
             PROVE  SecondoCommandsTypeOK'
  OBVIOUS
<1>0. SecondoCatalogTypeOK /\ DataTypeOK
  BY DEF SecondoCommandsTypeOK, DataTypeOK
<1>1. CASE TypeCommand
  <2>1. PICK t \in TypeNames : Command_Type(t) \/ Command_DeleteType(t)
    BY <1>1 DEF TypeCommand
  <2>2. SecondoCatalogTypeOK'
    BY <1>0, <2>1, TypeOperationType DEF Command_Type, Command_DeleteType
  <2> QED
    BY <2>1, <2>2, StartType DEF Command_Type, Command_DeleteType, Succeeds
<1>2. ASSUME NEW o \in ObjectNames, NEW t \in TypeNames \cup {NoType},
             Command_Create(o, t)
      PROVE  SecondoCommandsTypeOK'
  <2>1. SecondoCatalogTypeOK'
    BY <1>0, <1>2, InsertObjectType DEF Command_Create
  <2> QED
    BY <1>2, <2>1, StartType DEF Command_Create, Succeeds
<1>3. ASSUME NEW o \in ObjectNames, NEW v \in Values, Command_Let(o, v)
      PROVE  SecondoCommandsTypeOK'
  <2>1. SecondoCatalogTypeOK'
    BY <1>0, <1>3, InsertObjectType DEF Command_Let
  <2> QED
    BY <1>3, <2>1, StartType DEF Command_Let, Succeeds
<1>4. ASSUME NEW o \in ObjectNames, NEW v \in Values, Command_Update(o, v)
      PROVE  SecondoCommandsTypeOK'
  <2>1. SecondoCatalogTypeOK'
    BY <1>0, <1>4, UpdateObjectType DEF Command_Update
  <2> QED
    BY <1>4, <2>1, StartType DEF Command_Update, Succeeds
<1>5. ASSUME NEW o \in ObjectNames, NEW v \in Values,
             Command_QuerySwitching(o, v)
      PROVE  SecondoCommandsTypeOK'
  <2>1. SecondoCatalogTypeOK'
    BY <1>0, <1>5, UpdateObjectType DEF Command_QuerySwitching
  <2> QED
    BY <1>5, <2>1, StartType DEF Command_QuerySwitching
<1>6. ASSUME NEW o \in ObjectNames, NEW v \in Values \cup {Undefined},
             Command_LetNt(o, v) \/ (v \in Values /\ Command_QueryNt(o, v))
      PROVE  SecondoCommandsTypeOK'
  <2>1. SecondoCatalogTypeOK'
    BY <1>0, <1>6, InsertObjectType, UpdateObjectType
       DEF Command_LetNt, Command_QueryNt
  <2> QED
    BY <1>6, <2>1 DEF Command_LetNt, Command_QueryNt, SecondoCommandsTypeOK,
                      sessionVars
<1>7. ASSUME NEW o \in ObjectNames, Command_LetFails(o)
      PROVE  SecondoCommandsTypeOK'
  <2>1. SecondoCatalogTypeOK'
    BY <1>0, <1>7, InsertObjectType DEF Command_LetFails
  <2> QED
    BY <1>7, <2>1, StartType DEF Command_LetFails
<1>8. ASSUME NEW o \in ObjectNames, Command_Delete(o) \/ Command_Kill(o)
      PROVE  SecondoCommandsTypeOK'
  <2>1. SecondoCatalogTypeOK'
    BY <1>0, <1>8, DeleteObjectType, KillObjectType
       DEF Command_Delete, Command_Kill
  <2> QED
    BY <1>8, <2>1, StartType DEF Command_Delete, Command_Kill, Succeeds
<1>9. ASSUME NEW old \in ObjectNames, NEW new \in ObjectNames,
             Command_ChangeNamePending(old, new) \/ Command_ChangeName(old, new)
      PROVE  SecondoCommandsTypeOK'
  <2>1. SecondoCatalogTypeOK'
    BY <1>0, <1>9, RenameType DEF Command_ChangeNamePending, Command_ChangeName
  <2>2. CASE Command_ChangeNamePending(old, new)
    BY <2>1, <2>2
       DEF Command_ChangeNamePending, RenameStarts, SecondoCommandsTypeOK
  <2>3. CASE Command_ChangeName(old, new)
    <3>1. DataTypeOK'
      BY <1>0, <2>1, <2>3, WriteType DEF Command_ChangeName
    <3>2. files.objects[old] \in ObjectRecord
      BY <1>0, <2>3, FileObjectType
         DEF Command_ChangeName, RenameDeleteRecord, RenamePossible
    <3>3. renaming' \in Renaming
      BY <2>3, <3>2 DEF Command_ChangeName, Renaming
    <3> QED
      BY <2>3, <3>1, <3>3 DEF Command_ChangeName, RenameStarts,
                              SecondoCommandsTypeOK, DataTypeOK
  <2> QED
    BY <1>9, <2>2, <2>3
<1>10. CASE FinishRename
  <2>1. renaming \in Renaming
    BY <1>10 DEF FinishRename, SecondoCommandsTypeOK
  <2>2. SecondoCatalogTypeOK'
    BY <1>0, <1>10, <2>1, RenameInsertType DEF FinishRename, Renaming
  <2>3. DataTypeOK'
    BY <1>0, <1>10, <2>2, WriteType DEF FinishRename
  <2> QED
    BY <1>10, <2>3 DEF FinishRename, SecondoCommandsTypeOK, DataTypeOK
<1>11. CASE CommandFails
  <2>1. SecondoCatalogTypeOK'
    BY <1>0, <1>11 DEF CommandFails, catalogVars, SecondoCatalogTypeOK
  <2> QED
    BY <1>11, <2>1, StartType DEF CommandFails
<1>12. CASE SwitchTransaction
  <2>1. files' \in Files /\ committed' \in Files /\ CleanUpEntries
    <3>1. CASE FilesCommitted
      <4>1. PICK failed : /\ files' = CleanUpFiles(failed)
                          /\ committed' = CleanUpFiles(failed)
        BY <3>1 DEF FilesCommitted
      <4>2. CleanUpFiles(failed) \in Files
        BY <1>0, <3>1, CleanUpType DEF FilesCommitted
      <4> QED
        BY <3>1, <4>1, <4>2 DEF FilesCommitted
    <3>2. CASE FilesRolledBack
      BY <3>2 DEF FilesRolledBack, SecondoCommandsTypeOK
    <3> QED
      BY <1>12, <3>1, <3>2 DEF SwitchTransaction
  <2> QED
    BY <1>12, <2>1, EmptyType DEF SwitchTransaction, CleanUpEntries,
         SecondoCommandsTypeOK, SecondoCatalogTypeOK
<1>13. CASE FinishCommand
  <2>1. DataTypeOK' /\ txnStarted' \in BOOLEAN
    <3>1. CASE activeTransaction
      BY <1>0, <1>13, <3>1 DEF FinishCommand, catalogVars, DataTypeOK,
           SecondoCatalogTypeOK, SecondoCommandsTypeOK
    <3>2. CASE ~activeTransaction
      BY <1>0, <1>13, <3>2, CommitType, AbortType DEF FinishCommand
    <3> QED
      BY <3>1, <3>2
  <2> QED
    BY <1>13, <2>1 DEF FinishCommand, SecondoCommandsTypeOK, DataTypeOK
<1>14. CASE SessionCommand
  <2>1. CASE Command_BeginTransaction
    BY <2>1 DEF Command_BeginTransaction, catalogVars, SecondoCommandsTypeOK,
                SecondoCatalogTypeOK
  <2>2. CASE Command_CommitTransaction
    BY <1>0, <2>2, CommitType
       DEF Command_CommitTransaction, SecondoCommandsTypeOK, DataTypeOK
  <2>3. CASE Command_AbortTransaction
    BY <1>0, <2>3, AbortType
       DEF Command_AbortTransaction, SecondoCommandsTypeOK, DataTypeOK
  <2>4. CASE Command_OpenDatabase
    BY <2>4 DEF Command_OpenDatabase, catalogVars, SecondoCommandsTypeOK,
                SecondoCatalogTypeOK
  <2>5. CASE Command_CloseDatabase \/ Terminate
    <3>1. DataTypeOK' /\ txnStarted' \in BOOLEAN
      <4>1. CASE activeTransaction
        BY <1>0, <2>5, <4>1, CommitType, AbortType
           DEF Command_CloseDatabase, Terminate
      <4>2. CASE ~activeTransaction
        BY <1>0, <2>5, <4>2, EmptyType
           DEF Command_CloseDatabase, Terminate, Close, CleanUpEntries,
               DataTypeOK, SecondoCatalogTypeOK, SecondoCommandsTypeOK
      <4> QED
        BY <4>1, <4>2
    <3> QED
      BY <2>5, <3>1 DEF Command_CloseDatabase, Terminate,
                        SecondoCommandsTypeOK, DataTypeOK
  <2> QED
    BY <1>14, <2>1, <2>2, <2>3, <2>4, <2>5 DEF SessionCommand
<1>15. CASE Crash
  BY <1>15, EmptyType DEF Crash, CleanUpEntries, SecondoCommandsTypeOK,
                          SecondoCatalogTypeOK
<1>16. CASE UNCHANGED vars
  BY <1>16 DEF vars, catalogVars, sessionVars, SecondoCommandsTypeOK,
               SecondoCatalogTypeOK
<1> QED
  BY <1>1, <1>2, <1>3, <1>4, <1>5, <1>6, <1>7, <1>8, <1>9, <1>10, <1>11,
     <1>12, <1>13, <1>14, <1>15, <1>16 DEF Next, ObjectCommand, RenameCommand

LEMMA TypeInit == Init => SecondoCommandsTypeOK
  BY EmptyType DEF Init, CatalogInit, SecondoCommandsTypeOK,
                   SecondoCatalogTypeOK

\* Files, overlay and session keep their types: in particular what CleanUp
\* writes is a catalog again.
THEOREM TypeCorrect == Spec => []SecondoCommandsTypeOK
  BY TypeInit, TypeStep, PTL DEF Spec

-----------------------------------------------------------------------------
(* The overlay fits the files.                                             *)

\* Between the two writes of changename the new name has no entry, so that
\* InsertRecord cannot meet an entry that counts on the file.
RenamingFits == renaming # NoRenaming => command = "none" /\ ~Pending(renaming.new)

OverlayInv == SecondoCommandsTypeOK /\ OverlayMatchesFiles /\ RenamingFits

LEMMA ClearedMatches ==
  ASSUME CleanUpEntries
  PROVE  OverlayMatchesFiles' /\ \A o \in ObjectNames : ~Pending(o)'
  BY DEF CleanUpEntries, OverlayMatchesFiles, NoTypes, NoObjects, NoEntry,
         Pending

LEMMA TypeOperationMatches ==
  ASSUME SecondoCatalogTypeOK, OverlayMatchesFiles, NEW t \in TypeNames,
         InsertType(t) \/ DeleteType(t)
  PROVE  OverlayMatchesFiles'
<1>1. ASSUME NEW u \in TypeNames, types'[u] # "none"
      PROVE  types'[u] = "insert" <=> u \notin files'.types
  BY <1>1 DEF SecondoCatalogTypeOK, TypeStates, OverlayMatchesFiles,
              InsertType, DeleteType, MemberType
<1>2. UNCHANGED <<files, objects>>
  BY DEF InsertType, DeleteType
<1> QED
  BY <1>1, <1>2 DEF OverlayMatchesFiles, Pending, InFile

\* The operations that only change the entry of one object.
LEMMA EntryMatches ==
  ASSUME OverlayMatchesFiles, NEW o \in ObjectNames, NEW entry,
         objects \in [ObjectNames -> ObjectsCatalogEntry],
         objects' = [objects EXCEPT ![o] = entry],
         entry.state # "none" => (entry.state = "insert" <=> ~InFile(o)),
         UNCHANGED <<files, types>>
  PROVE  OverlayMatchesFiles'
<1>1. ASSUME NEW p \in ObjectNames, Pending(p)'
      PROVE  objects'[p].state = "insert" <=> ~InFile(p)'
  <2>1. CASE p = o
    BY <1>1, <2>1 DEF Pending, InFile
  <2>2. CASE p # o
    BY <1>1, <2>2 DEF OverlayMatchesFiles, Pending, InFile
  <2> QED
    BY <2>1, <2>2
<1> QED
  BY <1>1 DEF OverlayMatchesFiles

LEMMA InsertObjectMatches ==
  ASSUME SecondoCatalogTypeOK, OverlayMatchesFiles, NEW o \in ObjectNames,
         NEW t, NEW v, InsertObject(o, t, v)
  PROVE  OverlayMatchesFiles'
<1> DEFINE entry == [state |-> IF objects[o].state = "delete" THEN "update"
                                                            ELSE "insert",
                     typeName |-> t, value |-> v, valueRecordId |-> NoRecord]
<1>1. objects' = [objects EXCEPT ![o] = entry] /\ UNCHANGED <<files, types>>
  BY DEF InsertObject
<1>2. entry.state = "insert" <=> ~InFile(o)
  <2>1. CASE objects[o].state = "delete"
    BY <2>1 DEF OverlayMatchesFiles, Pending
  <2>2. CASE objects[o].state # "delete"
    BY <2>2 DEF InsertObject, IsObjectName
  <2> QED
    BY <2>1, <2>2
<1> HIDE DEF entry
<1> QED
  BY <1>1, <1>2, EntryMatches DEF SecondoCatalogTypeOK

LEMMA UpdateObjectMatches ==
  ASSUME SecondoCatalogTypeOK, OverlayMatchesFiles, NEW o \in ObjectNames,
         NEW v, UpdateObject(o, v)
  PROVE  OverlayMatchesFiles'
<1> DEFINE entry == IF Pending(o) THEN [objects[o] EXCEPT !.value = v]
                    ELSE [state |-> "update",
                          typeName |-> files.objects[o].typeName, value |-> v,
                          valueRecordId |-> files.objects[o].valueRecordId]
<1>1. objects' = [objects EXCEPT ![o] = entry] /\ UNCHANGED <<files, types>>
  BY DEF UpdateObject
<1>2. entry.state = "insert" <=> ~InFile(o)
  <2>1. CASE Pending(o)
    BY <2>1 DEF OverlayMatchesFiles, SecondoCatalogTypeOK, ObjectsCatalogEntry
  <2>2. CASE ~Pending(o)
    BY <2>2 DEF UpdateObject, IsObjectName
  <2> QED
    BY <2>1, <2>2
<1> HIDE DEF entry
<1> QED
  BY <1>1, <1>2, EntryMatches DEF SecondoCatalogTypeOK

\* An object that is deleted is in the file unless the transaction has
\* inserted it.
LEMMA DeletedInFile ==
  ASSUME OverlayMatchesFiles, NEW o \in ObjectNames, IsObjectName(o)
  PROVE  objects[o].state # "insert" <=> InFile(o)
  BY DEF OverlayMatchesFiles, IsObjectName, Pending

LEMMA DeleteObjectMatches ==
  ASSUME SecondoCatalogTypeOK, OverlayMatchesFiles, NEW o \in ObjectNames,
         DeleteObject(o)
  PROVE  OverlayMatchesFiles'
<1> DEFINE entry == CASE objects[o].state = "insert" -> NoEntry
                      [] objects[o].state = "update" ->
                           [objects[o] EXCEPT !.state = "delete"]
                      [] OTHER ->
                           [state |-> "delete",
                            typeName |-> files.objects[o].typeName,
                            value |-> StoredValue(files.objects[o], files.values),
                            valueRecordId |-> NoRecord]
<1>1. /\ objects' = [objects EXCEPT ![o] = entry]
      /\ UNCHANGED <<files, types>>
      /\ IsObjectName(o)
  BY DEF DeleteObject
<1>2. objects[o] \in ObjectsCatalogEntry
  BY DEF SecondoCatalogTypeOK
<1>3. /\ entry.state \in {"none", "delete"}
      /\ objects[o].state = "insert" => entry.state = "none"
  <2>1. CASE objects[o].state = "insert"
    BY <2>1 DEF NoEntry
  <2>2. CASE objects[o].state = "update"
    <3>1. entry = [objects[o] EXCEPT !.state = "delete"]
      BY <2>2
    <3> HIDE DEF entry
    <3> QED
      BY <1>2, <2>2, <3>1 DEF ObjectsCatalogEntry
  <2>3. CASE objects[o].state \notin {"insert", "update"}
    BY <2>3
  <2> QED
    BY <2>1, <2>2, <2>3
<1>4. entry.state # "none" => (entry.state = "insert" <=> ~InFile(o))
  <2>1. objects[o].state # "insert" <=> InFile(o)
    BY <1>1, DeletedInFile
  <2> HIDE DEF entry
  <2> QED
    BY <1>3, <2>1
<1> HIDE DEF entry
<1> QED
  BY <1>1, <1>4, EntryMatches DEF SecondoCatalogTypeOK

LEMMA KillObjectMatches ==
  ASSUME SecondoCatalogTypeOK, OverlayMatchesFiles, NEW o \in ObjectNames,
         KillObject(o)
  PROVE  OverlayMatchesFiles'
<1>1. CASE Pending(o)
  <2> DEFINE entry == IF objects[o].state = "insert" THEN NoEntry
                      ELSE [objects[o] EXCEPT !.state = "delete"]
  <2>1. /\ objects' = [objects EXCEPT ![o] = entry]
        /\ UNCHANGED <<files, types>>
        /\ IsObjectName(o)
    BY <1>1 DEF KillObject
  <2>2. objects[o] \in ObjectsCatalogEntry
    BY DEF SecondoCatalogTypeOK
  <2>3. /\ entry.state \in {"none", "delete"}
        /\ objects[o].state = "insert" => entry.state = "none"
    <3>1. CASE objects[o].state = "insert"
      BY <3>1 DEF NoEntry
    <3>2. CASE objects[o].state # "insert"
      <4>1. entry = [objects[o] EXCEPT !.state = "delete"]
        BY <3>2
      <4> HIDE DEF entry
      <4> QED
        BY <2>2, <3>2, <4>1 DEF ObjectsCatalogEntry
    <3> QED
      BY <3>1, <3>2
  <2>4. entry.state # "none" => (entry.state = "insert" <=> ~InFile(o))
    <3>1. objects[o].state # "insert" <=> InFile(o)
      BY <2>1, DeletedInFile
    <3> HIDE DEF entry
    <3> QED
      BY <2>3, <3>1
  <2> HIDE DEF entry
  <2> QED
    BY <2>1, <2>4, EntryMatches DEF SecondoCatalogTypeOK
<1>2. CASE ~Pending(o)
  <2>1. /\ UNCHANGED <<types, objects>>
        /\ files'.types = files.types
        /\ files'.objects = [files.objects EXCEPT ![o] = Nothing]
    BY <1>2 DEF KillObject, SecondoCatalogTypeOK, Files
  <2> QED
    BY <1>2, <2>1 DEF OverlayMatchesFiles, Pending, InFile,
                      SecondoCatalogTypeOK, Files
<1> QED
  BY <1>1, <1>2

\* Here the excluded situations matter: the entry that moves is an insertion,
\* and the new name has no entry.
LEMMA RenameMatches ==
  ASSUME SecondoCatalogTypeOK, OverlayMatchesFiles,
         NEW old \in ObjectNames, NEW new \in ObjectNames,
         objects[old].state # "update", objects[new].state # "delete",
         RenameEntry(old, new) \/ RenameDeleteRecord(old, new)
  PROVE  OverlayMatchesFiles' /\ (RenameDeleteRecord(old, new) => ~Pending(new)')
<1>1. ~Pending(new) /\ ~InFile(new) /\ IsObjectName(old)
  BY DEF RenameEntry, RenameDeleteRecord, RenamePossible, IsObjectName, Pending
<1>2. CASE RenameEntry(old, new)
  <2>1. objects[old].state = "insert"
    BY <1>1, <1>2 DEF RenameEntry, Pending, IsObjectName,
                      SecondoCatalogTypeOK, ObjectsCatalogEntry
  <2>2. ASSUME NEW p \in ObjectNames, Pending(p)'
        PROVE  objects'[p].state = "insert" <=> ~InFile(p)'
    <3>1. CASE p = new
      BY <1>1, <1>2, <2>1, <3>1 DEF RenameEntry, InFile, SecondoCatalogTypeOK
    <3>2. CASE p # new
      BY <1>2, <2>2, <3>2 DEF RenameEntry, NoEntry, InFile, Pending,
                              OverlayMatchesFiles, SecondoCatalogTypeOK
    <3> QED
      BY <3>1, <3>2
  <2>3. OverlayMatchesFiles'
    BY <1>2, <2>2 DEF RenameEntry, OverlayMatchesFiles
  <2> QED
    BY <1>2, <2>3 DEF RenameEntry, RenameDeleteRecord
<1>3. CASE RenameDeleteRecord(old, new)
  <2>1. /\ UNCHANGED <<types, objects>>
        /\ files'.types = files.types
        /\ files'.objects = [files.objects EXCEPT ![old] = Nothing]
    BY <1>3 DEF RenameDeleteRecord, SecondoCatalogTypeOK, Files
  <2> QED
    BY <1>1, <1>3, <2>1 DEF RenameDeleteRecord, OverlayMatchesFiles, Pending,
                            InFile, SecondoCatalogTypeOK, Files
<1> QED
  BY <1>2, <1>3

LEMMA RenameInsertMatches ==
  ASSUME SecondoCatalogTypeOK, OverlayMatchesFiles, NEW new \in ObjectNames,
         NEW rec, ~Pending(new), RenameInsertRecord(new, rec)
  PROVE  OverlayMatchesFiles'
<1>1. /\ UNCHANGED <<types, objects>>
      /\ files'.types = files.types
      /\ \A o \in ObjectNames \ {new} : files'.objects[o] = files.objects[o]
  BY DEF RenameInsertRecord, SecondoCatalogTypeOK, Files
<1> QED
  BY <1>1 DEF OverlayMatchesFiles, Pending, InFile

LEMMA OverlayStep ==
  ASSUME "rename updated" \notin Irregular, "rename to deleted" \notin Irregular,
         OverlayInv, [Next]_vars
  PROVE  OverlayMatchesFiles' /\ RenamingFits'
<1>0. SecondoCatalogTypeOK /\ OverlayMatchesFiles /\ RenamingFits
  BY DEF OverlayInv, SecondoCommandsTypeOK
<1>00. ASSUME StartCommand
       PROVE  RenamingFits'
  BY <1>00 DEF StartCommand, Idle, RenamingFits
<1>1. CASE TypeCommand
  <2>1. PICK t \in TypeNames : Command_Type(t) \/ Command_DeleteType(t)
    BY <1>1 DEF TypeCommand
  <2> QED
    BY <1>0, <1>00, <2>1, TypeOperationMatches
       DEF Command_Type, Command_DeleteType, Succeeds
<1>2. ASSUME NEW o \in ObjectNames, NEW t, NEW v, InsertObject(o, t, v)
      PROVE  OverlayMatchesFiles'
  BY <1>0, <1>2, InsertObjectMatches
<1>3. ASSUME NEW o \in ObjectNames, NEW t, Command_Create(o, t)
      PROVE  OverlayMatchesFiles' /\ RenamingFits'
  BY <1>00, <1>2, <1>3 DEF Command_Create, Succeeds
<1>4. ASSUME NEW o \in ObjectNames, NEW v, Command_Let(o, v) \/ Command_LetFails(o)
      PROVE  OverlayMatchesFiles' /\ RenamingFits'
  BY <1>00, <1>2, <1>4 DEF Command_Let, Command_LetFails, Succeeds
<1>5. ASSUME NEW o \in ObjectNames, NEW v,
             Command_LetNt(o, v) \/ Command_QueryNt(o, v)
      PROVE  OverlayMatchesFiles' /\ RenamingFits'
  BY <1>0, <1>2, <1>5, UpdateObjectMatches
     DEF Command_LetNt, Command_QueryNt, Idle, sessionVars, RenamingFits
<1>6. ASSUME NEW o \in ObjectNames, NEW v,
             Command_Update(o, v) \/ Command_QuerySwitching(o, v)
      PROVE  OverlayMatchesFiles' /\ RenamingFits'
  BY <1>0, <1>00, <1>6, UpdateObjectMatches
     DEF Command_Update, Command_QuerySwitching, Succeeds
<1>7. ASSUME NEW o \in ObjectNames, Command_Delete(o) \/ Command_Kill(o)
      PROVE  OverlayMatchesFiles' /\ RenamingFits'
  BY <1>0, <1>00, <1>7, DeleteObjectMatches, KillObjectMatches
     DEF Command_Delete, Command_Kill, Succeeds
<1>8. ASSUME NEW old \in ObjectNames, NEW new \in ObjectNames,
             Command_ChangeNamePending(old, new) \/ Command_ChangeName(old, new)
      PROVE  OverlayMatchesFiles' /\ RenamingFits'
  <2>1. /\ objects[old].state # "update"
        /\ objects[new].state # "delete"
        /\ command' = "none"
        /\ renaming = NoRenaming
    BY <1>8 DEF Command_ChangeNamePending, Command_ChangeName, RenameStarts, Idle
  <2>2. CASE Command_ChangeNamePending(old, new)
    BY <1>0, <2>1, <2>2, RenameMatches
       DEF Command_ChangeNamePending, RenamingFits
  <2>3. CASE Command_ChangeName(old, new)
    <3>1. OverlayMatchesFiles' /\ ~Pending(new)'
      BY <1>0, <2>1, <2>3, RenameMatches DEF Command_ChangeName
    <3>2. renaming'.new = new
      BY <2>3 DEF Command_ChangeName
    <3> QED
      BY <2>1, <3>1, <3>2 DEF RenamingFits, Pending
  <2> QED
    BY <1>8, <2>2, <2>3
<1>9. CASE FinishRename
  <2>1. renaming.new \in ObjectNames /\ ~Pending(renaming.new)
    BY <1>0, <1>9 DEF FinishRename, RenamingFits, OverlayInv,
                      SecondoCommandsTypeOK, Renaming
  <2> QED
    BY <1>0, <1>9, <2>1, RenameInsertMatches DEF FinishRename, RenamingFits
<1>10. CASE CommandFails
  BY <1>0, <1>00, <1>10 DEF CommandFails, catalogVars, OverlayMatchesFiles,
                            Pending, InFile
<1>11. ASSUME CleanUpEntries, UNCHANGED renaming,
              command # "none" \/ renaming = NoRenaming
       PROVE  OverlayMatchesFiles' /\ RenamingFits'
  BY <1>0, <1>11, ClearedMatches DEF RenamingFits
<1>12. ASSUME CommitTransaction \/ AbortTransaction
       PROVE  CleanUpEntries
  BY <1>12 DEF CommitTransaction, CommitSucceeds, CommitRollsBack, AbortTransaction,
     FilesCommitted, FilesRolledBack
<1>13. ASSUME UNCHANGED <<catalogVars, renaming>>,
              command' = command \/ command' = "none"
       PROVE  OverlayMatchesFiles' /\ RenamingFits'
  BY <1>0, <1>13 DEF catalogVars, OverlayMatchesFiles, RenamingFits, Pending,
                     InFile
<1>14. CASE SwitchTransaction
  <2>1. CleanUpEntries
    BY <1>14 DEF SwitchTransaction, FilesCommitted, FilesRolledBack
  <2> QED
    BY <1>11, <1>14, <2>1 DEF SwitchTransaction
<1>15. CASE FinishCommand
  BY <1>11, <1>12, <1>13, <1>15 DEF FinishCommand
<1>16. CASE SessionCommand
  BY <1>11, <1>12, <1>13, <1>16
     DEF SessionCommand, Command_BeginTransaction, Command_CommitTransaction,
         Command_AbortTransaction, Command_OpenDatabase, Command_CloseDatabase,
         Terminate, Close, Idle
<1>17. CASE Crash
  BY <1>17, ClearedMatches DEF Crash, RenamingFits
<1>18. CASE UNCHANGED vars
  BY <1>13, <1>18 DEF vars, sessionVars
<1> QED
  BY <1>1, <1>3, <1>4, <1>5, <1>6, <1>7, <1>8, <1>9, <1>10, <1>14, <1>15,
     <1>16, <1>17, <1>18 DEF Next, ObjectCommand, RenameCommand

LEMMA OverlayInit == Init => OverlayMatchesFiles /\ RenamingFits
  BY DEF Init, CatalogInit, NoTypes, NoObjects, NoEntry, OverlayMatchesFiles,
         Pending, RenamingFits

\* Unless an object that the transaction has updated, or a name that it has
\* deleted, takes part in a changename, CleanUp never meets a key it cannot
\* insert, update or delete, so that nothing is lost with its result.
THEOREM OverlayCorrect ==
  ASSUME "rename updated" \notin Irregular, "rename to deleted" \notin Irregular
  PROVE  Spec => []OverlayMatchesFiles
<1>1. Init => OverlayInv
  BY TypeInit, OverlayInit DEF OverlayInv
<1>2. OverlayInv /\ [Next]_vars => OverlayInv'
  BY TypeStep, OverlayStep DEF OverlayInv
<1>3. OverlayInv => OverlayMatchesFiles
  BY DEF OverlayInv
<1> QED
  BY <1>1, <1>2, <1>3, PTL DEF Spec

-----------------------------------------------------------------------------
(* Transactions of the client and of the storage manager.                  *)

\* Without usrTxn nothing is undone.
Durable == (~txnStarted \/ ~dbOpen) => files = committed

\* Outside of a block each command ends its transaction.
CommandsEnd == (command = "none" /\ ~activeTransaction) => ~txnStarted

\* Outside of a block, letnt apart, nothing is pending.
NothingPending ==
  ("letnt" \notin Irregular /\ command = "none" /\ ~activeTransaction)
    => types = NoTypes /\ objects = NoObjects

\* A changename is not interrupted by another command.
RenamingAlone == renaming # NoRenaming => command = "none" /\ dbOpen

\* Inside a block the storage manager runs a transaction.
BlockRuns ==
  "begin closed" \notin Irregular => (activeTransaction => txnStarted /\ dbOpen)

NotSwitching == "switch" \notin Irregular => command # "switching"

SessionInv == /\ Durable
              /\ CommandsEnd
              /\ NothingPending
              /\ RenamingAlone
              /\ BlockRuns
              /\ NotSwitching

LEMMA SessionInit == Init => SessionInv
  BY DEF Init, CatalogInit, SessionInv, Durable, CommandsEnd, NothingPending,
         RenamingAlone, BlockRuns, NotSwitching

\* A command has run StartCommand and has still to finish.
LEMMA StartKeeps ==
  ASSUME SessionInv, StartCommand,
         \/ command' \in {"succeeded", "failed"}
         \/ command' = "switching" /\ "switch" \in Irregular
  PROVE  SessionInv'
  BY DEF SessionInv, Durable, CommandsEnd, NothingPending, RenamingAlone,
         BlockRuns, NotSwitching, StartCommand, Idle, Write

\* A transaction has ended.
LEMMA EndKeeps ==
  ASSUME SessionInv, CommitTransaction \/ AbortTransaction,
         command' = "none", UNCHANGED renaming,
         renaming # NoRenaming => dbOpen', ~activeTransaction'
  PROVE  SessionInv'
<1>1. CleanUpEntries /\ ~txnStarted'
  BY DEF CommitTransaction, CommitSucceeds, CommitRollsBack, AbortTransaction,
     FilesCommitted, FilesRolledBack
<1>2. files' = committed'
  <2>1. CASE CommitSucceeds
    <3>1. PICK failed : files' = CleanUpFiles(failed) /\ committed' = CleanUpFiles(failed)
      BY <2>1 DEF CommitSucceeds, FilesCommitted
    <3> QED
      BY <3>1
  <2>2. CASE CommitRollsBack
    BY <2>2 DEF CommitRollsBack, FilesRolledBack
  <2>3. CASE AbortTransaction
    BY <2>3 DEF AbortTransaction, SessionInv, Durable
  <2> QED
    BY <2>1, <2>2, <2>3 DEF CommitTransaction
<1> QED
  BY <1>1, <1>2 DEF CleanUpEntries, SessionInv, Durable, CommandsEnd,
     NothingPending, RenamingAlone, BlockRuns, NotSwitching

LEMMA SessionStep == SessionInv /\ [Next]_vars => SessionInv'
<1> SUFFICES ASSUME SessionInv, [Next]_vars
             PROVE  SessionInv'
  OBVIOUS
<1>1. CASE TypeCommand
  BY <1>1, StartKeeps DEF TypeCommand, Command_Type, Command_DeleteType, Succeeds
<1>2. ASSUME NEW o \in ObjectNames, NEW t, Command_Create(o, t)
      PROVE  SessionInv'
  BY <1>2, StartKeeps DEF Command_Create, Succeeds
<1>3. ASSUME NEW o \in ObjectNames, NEW v,
             Command_Let(o, v) \/ Command_Update(o, v) \/ Command_LetFails(o)
      PROVE  SessionInv'
  BY <1>3, StartKeeps DEF Command_Let, Command_Update, Command_LetFails, Succeeds
<1>4. ASSUME NEW o \in ObjectNames, NEW v, Command_QuerySwitching(o, v)
      PROVE  SessionInv'
  BY <1>4, StartKeeps DEF Command_QuerySwitching
<1>5. ASSUME NEW o \in ObjectNames, NEW v,
             Command_LetNt(o, v) \/ Command_QueryNt(o, v)
      PROVE  SessionInv'
  <2>1. UNCHANGED <<files, committed, sessionVars>>
    BY <1>5 DEF Command_LetNt, Command_QueryNt, InsertObject, UpdateObject
  <2>2. activeTransaction \/ "letnt" \in Irregular
    BY <1>5 DEF Command_LetNt, Command_QueryNt
  <2> QED
    BY <2>1, <2>2 DEF sessionVars, SessionInv, Durable, CommandsEnd,
       NothingPending, RenamingAlone, BlockRuns, NotSwitching
<1>6. ASSUME NEW o \in ObjectNames, Command_Delete(o) \/ Command_Kill(o)
      PROVE  SessionInv'
  BY <1>6, StartKeeps DEF Command_Delete, Command_Kill, Succeeds
<1>7. ASSUME NEW old \in ObjectNames, NEW new \in ObjectNames,
             Command_ChangeNamePending(old, new)
      PROVE  SessionInv'
  <2>1. objects # NoObjects
    BY <1>7 DEF Command_ChangeNamePending, RenameEntry, Pending, NoObjects,
                NoEntry
  <2> QED
    BY <1>7, <2>1 DEF Command_ChangeNamePending, RenameStarts, RenameEntry,
       Idle, SessionInv, Durable, CommandsEnd, NothingPending, RenamingAlone,
       BlockRuns, NotSwitching
<1>8. ASSUME NEW old \in ObjectNames, NEW new \in ObjectNames,
             Command_ChangeName(old, new)
      PROVE  SessionInv'
  BY <1>8 DEF Command_ChangeName, RenameStarts, RenameDeleteRecord, Write,
     Idle, SessionInv, Durable, CommandsEnd, NothingPending, RenamingAlone,
     BlockRuns, NotSwitching
<1>9. CASE FinishRename
  BY <1>9 DEF FinishRename, RenameInsertRecord, Write, SessionInv, Durable,
     CommandsEnd, NothingPending, RenamingAlone, BlockRuns, NotSwitching
<1>10. CASE CommandFails
  BY <1>10, StartKeeps DEF CommandFails
<1>11. CASE SwitchTransaction
  <2>1. files' = committed'
    <3>1. CASE FilesCommitted
      <4>1. PICK failed : /\ files' = CleanUpFiles(failed)
                          /\ committed' = CleanUpFiles(failed)
        BY <3>1 DEF FilesCommitted
      <4> QED
        BY <4>1
    <3>2. CASE FilesRolledBack
      BY <3>2 DEF FilesRolledBack
    <3> QED
      BY <1>11, <3>1, <3>2 DEF SwitchTransaction
  <2> QED
    BY <1>11, <2>1 DEF SwitchTransaction, SessionInv, Durable, CommandsEnd,
       NothingPending, RenamingAlone, BlockRuns, NotSwitching
<1>12. CASE FinishCommand
  <2>1. CASE activeTransaction
    BY <1>12, <2>1 DEF FinishCommand, catalogVars, SessionInv, Durable,
       CommandsEnd, NothingPending, RenamingAlone, BlockRuns, NotSwitching
  <2>2. CASE ~activeTransaction
    BY <1>12, <2>2, EndKeeps DEF FinishCommand, SessionInv, RenamingAlone
  <2> QED
    BY <2>1, <2>2
<1>13. CASE Command_BeginTransaction \/ Command_OpenDatabase
  <2>1. CASE Command_BeginTransaction
    <3>1. UNCHANGED <<files, types, objects, committed, dbOpen, renaming>>
      BY <2>1 DEF Command_BeginTransaction, catalogVars
    <3>2. txnStarted' /\ activeTransaction' /\ command' = "none"
      BY <2>1 DEF Command_BeginTransaction, Idle
    <3>3. files = committed /\ renaming = NoRenaming
      BY <2>1 DEF Command_BeginTransaction, Idle, SessionInv, Durable
    <3>4. "begin closed" \notin Irregular => dbOpen
      BY <2>1 DEF Command_BeginTransaction
    <3> QED
      BY <3>1, <3>2, <3>3, <3>4 DEF SessionInv, Durable, CommandsEnd,
         NothingPending, RenamingAlone, BlockRuns, NotSwitching
  <2>2. CASE Command_OpenDatabase
    BY <2>2 DEF Command_OpenDatabase, Idle, catalogVars, SessionInv, Durable,
       CommandsEnd, NothingPending, RenamingAlone, BlockRuns, NotSwitching
  <2> QED
    BY <1>13, <2>1, <2>2
<1>14. CASE Command_CommitTransaction \/ Command_AbortTransaction
  BY <1>14, EndKeeps
     DEF Command_CommitTransaction, Command_AbortTransaction, Idle
<1>15. CASE Command_CloseDatabase \/ Terminate
  <2>1. CASE activeTransaction
    BY <1>15, <2>1, EndKeeps DEF Command_CloseDatabase, Terminate, Idle
  <2>2. CASE ~activeTransaction
    BY <1>15, <2>2 DEF Command_CloseDatabase, Terminate, Idle, Close,
       CleanUpEntries, SessionInv, Durable, CommandsEnd, NothingPending,
       RenamingAlone, BlockRuns, NotSwitching
  <2> QED
    BY <2>1, <2>2
<1>16. CASE Crash
  BY <1>16 DEF Crash, CleanUpEntries, SessionInv, Durable, CommandsEnd,
     NothingPending, RenamingAlone, BlockRuns, NotSwitching
<1>17. CASE UNCHANGED vars
  BY <1>17 DEF vars, catalogVars, sessionVars, SessionInv, Durable,
     CommandsEnd, NothingPending, RenamingAlone, BlockRuns, NotSwitching
<1> QED
  BY <1>1, <1>2, <1>3, <1>4, <1>5, <1>6, <1>7, <1>8, <1>9, <1>10, <1>11,
     <1>12, <1>13, <1>14, <1>15, <1>16, <1>17
     DEF Next, ObjectCommand, RenameCommand, SessionCommand

\* Letnt apart, a command outside of a transaction block leaves nothing that
\* only the memory of the process knows.
THEOREM OutsideBlockCorrect ==
  ASSUME "letnt" \notin Irregular
  PROVE  Spec => []OutsideBlockDurable
<1>1. SecondoCommandsTypeOK /\ SessionInv => OutsideBlockDurable
  <2> SUFFICES ASSUME SecondoCommandsTypeOK, SessionInv, Idle, dbOpen,
                      ~activeTransaction
               PROVE  /\ VisibleTypes = committed.types
                      /\ VisibleObjects = Contents(committed)
    BY DEF OutsideBlockDurable
  <2>1. files = committed /\ types = NoTypes /\ objects = NoObjects
    BY DEF SessionInv, Durable, CommandsEnd, NothingPending, Idle
  <2>2. files.types \subseteq TypeNames
    BY DEF SecondoCommandsTypeOK, SecondoCatalogTypeOK, Files
  <2>3. VisibleTypes = files.types
    BY <2>1, <2>2 DEF VisibleTypes, MemberType, NoTypes
  <2>4. VisibleObjects = Contents(files)
    BY <2>1 DEF VisibleObjects, Contents, NoObjects, NoEntry
  <2> QED
    BY <2>1, <2>3, <2>4
<1> QED
  BY <1>1, TypeInit, TypeStep, SessionInit, SessionStep, PTL DEF Spec

\* A transaction block that was begun on an open database, and in which no
\* operator switches the transaction, makes nothing durable before it ends.
THEOREM BlockCorrect ==
  ASSUME "begin closed" \notin Irregular, "switch" \notin Irregular
  PROVE  Spec => BlockIsAtomic
<1>1. SessionInv /\ [Next]_vars =>
        [activeTransaction /\ activeTransaction' => UNCHANGED committed]_vars
  <2> SUFFICES ASSUME SessionInv, Next, activeTransaction, activeTransaction'
               PROVE  UNCHANGED committed
    OBVIOUS
  <2>1. txnStarted /\ dbOpen /\ command # "switching"
    BY DEF SessionInv, BlockRuns, NotSwitching
  <2>2. ASSUME StartCommand
        PROVE  UNCHANGED committed
    BY <2>1, <2>2 DEF StartCommand, Write
  <2>3. CASE TypeCommand \/ CommandFails
    BY <2>2, <2>3 DEF TypeCommand, Command_Type, Command_DeleteType, Succeeds,
                      CommandFails
  <2>4. CASE ObjectCommand
    BY <2>2, <2>4 DEF ObjectCommand, Command_Create, Command_Let,
       Command_Update, Command_QuerySwitching, Command_QueryNt,
       Command_LetNt, Command_LetFails,
       Command_Delete, Command_Kill, Succeeds
  <2>5. CASE RenameCommand
    BY <2>1, <2>5 DEF RenameCommand, Command_ChangeNamePending,
       Command_ChangeName, RenameStarts, FinishRename, Write
  <2>6. CASE SwitchTransaction
    BY <2>1, <2>6 DEF SwitchTransaction
  <2>7. CASE FinishCommand
    BY <2>7 DEF FinishCommand
  <2>8. CASE SessionCommand
    BY <2>8 DEF SessionCommand, Command_BeginTransaction,
       Command_CommitTransaction, Command_AbortTransaction,
       Command_OpenDatabase, Command_CloseDatabase, Terminate
  <2>9. CASE Crash
    BY <2>9 DEF Crash
  <2> QED
    BY <2>3, <2>4, <2>5, <2>6, <2>7, <2>8, <2>9 DEF Next
<1> QED
  BY <1>1, SessionInit, SessionStep, PTL DEF Spec, BlockIsAtomic
-----------------------------------------------------------------------------
(***************************************************************************)
(* Proofs about what the catalog of SecondoCommands holds: type names that *)
(* are defined, value records that exist and have one owner, and with both *)
(* that it implements CatalogStore.  For any sets of names, values and     *)
(* record numbers.  All of it rests on OverlayInv: an entry of the overlay *)
(* fits the record that CleanUp writes it to.                              *)
(***************************************************************************)

(* Type names.  What the client sees must use visible types only, deleted  *)
(* objects of the file included, because CleanUp decides by the overlay    *)
(* alone; and the files by themselves must be closed, because a rollback,  *)
(* Close and a restart forget the overlay.                                 *)

TypesKnown(fs) ==
  \A o \in ObjectNames :
    fs.objects[o] # Nothing => fs.objects[o].typeName \in fs.types \cup {NoType}

KnownNames == VisibleTypes \cup {NoType}

EntriesTyped ==
  \A o \in ObjectNames :
    objects[o].state \in {"insert", "update"} => objects[o].typeName \in KnownNames

RecordsTyped ==
  \A o \in ObjectNames : InFile(o) => files.objects[o].typeName \in KnownNames

CatalogTyped == TypesKnown(files) /\ EntriesTyped /\ RecordsTyped

RenamingTyped ==
  renaming # NoRenaming =>
    renaming.record.typeName \in KnownNames \cap (files.types \cup {NoType})

TypesInv == CatalogTyped /\ TypesKnown(committed) /\ RenamingTyped

\* A new type becomes visible, and a type that goes was used by nobody.
LEMMA TypeOperationTyped ==
  ASSUME SecondoCatalogTypeOK, CatalogTyped, NEW t \in TypeNames,
         InsertType(t) \/ DeleteType(t)
  PROVE  CatalogTyped'
<1>1. UNCHANGED <<files, objects>>
  BY DEF InsertType, DeleteType
<1>2. \A u \in TypeNames \ {t} : MemberType(u)' <=> MemberType(u)
  BY DEF InsertType, DeleteType, MemberType, SecondoCatalogTypeOK
<1>3. CASE InsertType(t)
  <2>1. ~MemberType(t)
    BY <1>3 DEF InsertType
  <2>2. VisibleTypes \subseteq VisibleTypes'
    BY <1>2, <2>1 DEF VisibleTypes
  <2> QED
    BY <1>1, <2>2 DEF CatalogTyped, TypesKnown, EntriesTyped, RecordsTyped,
                      KnownNames, InFile
<1>4. CASE DeleteType(t)
  <2>1. ~TypeUsedByObject(t)
    BY <1>4 DEF DeleteType
  <2>2. VisibleTypes \ {t} \subseteq VisibleTypes'
    BY <1>2 DEF VisibleTypes
  <2> QED
    BY <1>1, <2>1, <2>2 DEF CatalogTyped, TypesKnown, EntriesTyped,
       RecordsTyped, KnownNames, InFile, TypeUsedByObject
<1> QED
  BY <1>3, <1>4

\* One entry changes, and has a known type if it will be written.
LEMMA EntryTyped ==
  ASSUME SecondoCatalogTypeOK, CatalogTyped, NEW o \in ObjectNames, NEW entry,
         entry.state \in {"insert", "update"} => entry.typeName \in KnownNames,
         objects' = [objects EXCEPT ![o] = entry], UNCHANGED <<files, types>>
  PROVE  CatalogTyped'
<1>1. KnownNames' = KnownNames
  BY DEF KnownNames, VisibleTypes, MemberType
<1>2. \A p \in ObjectNames :
        objects'[p] = IF p = o THEN entry ELSE objects[p]
  BY DEF SecondoCatalogTypeOK
<1> QED
  BY <1>1, <1>2 DEF CatalogTyped, TypesKnown, EntriesTyped, RecordsTyped, InFile

LEMMA InsertObjectTyped ==
  ASSUME SecondoCatalogTypeOK, CatalogTyped, NEW o \in ObjectNames, NEW v,
         NEW t \in KnownNames, InsertObject(o, t, v)
  PROVE  CatalogTyped'
<1> DEFINE entry == [state |-> IF objects[o].state = "delete" THEN "update"
                                                            ELSE "insert",
                     typeName |-> t, value |-> v, valueRecordId |-> NoRecord]
<1>1. objects' = [objects EXCEPT ![o] = entry] /\ UNCHANGED <<files, types>>
  BY DEF InsertObject
<1>2. entry.typeName \in KnownNames
  OBVIOUS
<1> HIDE DEF entry
<1> QED
  BY <1>1, <1>2, EntryTyped

LEMMA UpdateObjectTyped ==
  ASSUME SecondoCatalogTypeOK, CatalogTyped, NEW o \in ObjectNames, NEW v,
         UpdateObject(o, v)
  PROVE  CatalogTyped'
<1> DEFINE entry == IF Pending(o) THEN [objects[o] EXCEPT !.value = v]
                    ELSE [state |-> "update",
                          typeName |-> files.objects[o].typeName, value |-> v,
                          valueRecordId |-> files.objects[o].valueRecordId]
<1>1. objects' = [objects EXCEPT ![o] = entry] /\ UNCHANGED <<files, types>>
  BY DEF UpdateObject
<1>2. entry.state \in {"insert", "update"} => entry.typeName \in KnownNames
  <2>1. CASE Pending(o)
    <3>1. objects[o] \in ObjectsCatalogEntry
      BY DEF SecondoCatalogTypeOK
    <3>2. entry.state = objects[o].state /\ entry.typeName = objects[o].typeName
      BY <2>1, <3>1 DEF ObjectsCatalogEntry
    <3> QED
      BY <3>2 DEF CatalogTyped, EntriesTyped
  <2>2. CASE ~Pending(o)
    BY <2>2 DEF UpdateObject, IsObjectName, CatalogTyped, RecordsTyped
  <2> QED
    BY <2>1, <2>2
<1> HIDE DEF entry
<1> QED
  BY <1>1, <1>2, EntryTyped

\* An entry that is removed or marked as deleted is not written.
LEMMA DroppedEntryTyped ==
  ASSUME SecondoCatalogTypeOK, CatalogTyped, NEW o \in ObjectNames,
         DeleteObject(o) \/ (KillObject(o) /\ Pending(o))
  PROVE  CatalogTyped'
<1>1. PICK entry : /\ objects' = [objects EXCEPT ![o] = entry]
                   /\ entry.state \in {"none", "delete"}
                   /\ UNCHANGED <<files, types>>
  <2>1. objects[o] \in ObjectsCatalogEntry
    BY DEF SecondoCatalogTypeOK
  <2>2. [objects[o] EXCEPT !.state = "delete"].state = "delete"
    BY <2>1 DEF ObjectsCatalogEntry
  <2>3. CASE DeleteObject(o)
    <3> DEFINE e == CASE objects[o].state = "insert" -> NoEntry
         [] objects[o].state = "update" -> [objects[o] EXCEPT !.state = "delete"]
         [] OTHER -> [state |-> "delete",
                      typeName |-> files.objects[o].typeName,
                      value |-> StoredValue(files.objects[o], files.values),
                      valueRecordId |-> NoRecord]
    <3>1. objects' = [objects EXCEPT ![o] = e] /\ UNCHANGED <<files, types>>
      BY <2>3 DEF DeleteObject
    <3>2. e.state \in {"none", "delete"}
      BY <2>2 DEF NoEntry
    <3> QED
      BY <3>1, <3>2
  <2>4. CASE KillObject(o) /\ Pending(o)
    <3> DEFINE e == IF objects[o].state = "insert" THEN NoEntry
                    ELSE [objects[o] EXCEPT !.state = "delete"]
    <3>1. objects' = [objects EXCEPT ![o] = e] /\ UNCHANGED <<files, types>>
      BY <2>4 DEF KillObject
    <3>2. e.state \in {"none", "delete"}
      BY <2>2 DEF NoEntry
    <3> QED
      BY <3>1, <3>2
  <2> QED
    BY <2>3, <2>4
<1> QED
  BY <1>1, EntryTyped

\* Records only go from the file.
LEMMA RecordsGoTyped ==
  ASSUME CatalogTyped, UNCHANGED <<types, objects>>, files'.types = files.types,
         \A o \in ObjectNames : files'.objects[o] \in {files.objects[o], Nothing}
  PROVE  CatalogTyped'
<1>1. KnownNames' = KnownNames
  BY DEF KnownNames, VisibleTypes, MemberType
<1> QED
  BY <1>1 DEF CatalogTyped, TypesKnown, EntriesTyped, RecordsTyped, InFile

LEMMA KillObjectTyped ==
  ASSUME SecondoCatalogTypeOK, CatalogTyped, NEW o \in ObjectNames, KillObject(o)
  PROVE  CatalogTyped'
<1>1. CASE Pending(o)
  BY <1>1, DroppedEntryTyped
<1>2. CASE ~Pending(o)
  <2>1. /\ UNCHANGED <<types, objects>>
        /\ files'.types = files.types
        /\ files'.objects = [files.objects EXCEPT ![o] = Nothing]
    BY <1>2 DEF KillObject, SecondoCatalogTypeOK, Files
  <2> QED
    BY <2>1, RecordsGoTyped DEF SecondoCatalogTypeOK, Files
<1> QED
  BY <1>1, <1>2

LEMMA RenameEntryTyped ==
  ASSUME SecondoCatalogTypeOK, CatalogTyped,
         NEW old \in ObjectNames, NEW new \in ObjectNames, RenameEntry(old, new)
  PROVE  CatalogTyped'
<1>1. KnownNames' = KnownNames /\ UNCHANGED files
  BY DEF RenameEntry, KnownNames, VisibleTypes, MemberType
<1>2. \A p \in ObjectNames : objects'[p] \in {NoEntry, objects[p], objects[old]}
  BY DEF RenameEntry, SecondoCatalogTypeOK
<1>3. NoEntry.state = "none"
  BY DEF NoEntry
<1>4. EntriesTyped'
  BY <1>1, <1>2, <1>3 DEF CatalogTyped, EntriesTyped
<1> QED
  BY <1>1, <1>4 DEF CatalogTyped, TypesKnown, RecordsTyped, InFile

\* The overlay fits the files, so that CleanUp writes the visible types.
LEMMA WrittenAreVisible ==
  ASSUME SecondoCatalogTypeOK, OverlayMatchesFiles
  PROVE  WrittenTypes = VisibleTypes
  BY DEF SecondoCatalogTypeOK, Files, TypeStates, OverlayMatchesFiles,
         WrittenTypes, VisibleTypes, MemberType

LEMMA CleanUpTyped ==
  ASSUME SecondoCatalogTypeOK, OverlayMatchesFiles, CatalogTyped, RecordsLeft,
         NEW failed
  PROVE  TypesKnown(CleanUpFiles(failed))
<1> SUFFICES ASSUME NEW o \in ObjectNames, DefinedRecord(o, failed) # Nothing
             PROVE  DefinedRecord(o, failed).typeName \in KnownNames
  BY WrittenAreVisible DEF TypesKnown, CleanUpFiles, KnownNames
<1>1. UndefinedRecord(o) \in ObjectRecord \cup {Nothing}
  BY UndefinedRecordType
<1>2. UndefinedRecord(o) # Nothing => UndefinedRecord(o).typeName \in KnownNames
  <2> SUFFICES ASSUME UndefinedRecord(o) # Nothing
               PROVE  UndefinedRecord(o).typeName \in KnownNames
    OBVIOUS
  <2>1. CASE objects[o].state = "insert" /\ ~InFile(o)
    BY <2>1 DEF UndefinedRecord, CatalogTyped, EntriesTyped
  <2>2. CASE objects[o].state = "update" /\ InFile(o)
    <3>1. files.objects[o] \in ObjectRecord
      BY <2>2 DEF InFile, SecondoCatalogTypeOK, Files
    <3>2. UndefinedRecord(o).typeName = objects[o].typeName
      BY <2>2, <3>1 DEF UndefinedRecord, ObjectRecord
    <3> QED
      BY <2>2, <3>2 DEF CatalogTyped, EntriesTyped
  <2>3. CASE objects[o].state = "delete"
    BY <2>3 DEF UndefinedRecord
  <2>4. CASE /\ ~(objects[o].state = "insert" /\ ~InFile(o))
             /\ ~(objects[o].state = "update" /\ InFile(o))
             /\ objects[o].state # "delete"
    <3>1. UndefinedRecord(o) = files.objects[o]
      BY <2>4 DEF UndefinedRecord
    <3> QED
      BY <3>1 DEF InFile, CatalogTyped, RecordsTyped
  <2> QED
    BY <2>1, <2>2, <2>3, <2>4
<1>3. CASE o \in Saved
  <2>1. UndefinedRecord(o) # Nothing /\ UndefinedRecord(o) \in ObjectRecord
    BY <1>1, <1>3 DEF Saved
  <2>2. DefinedRecord(o, failed).typeName = UndefinedRecord(o).typeName
    BY <1>3, <2>1 DEF DefinedRecord, ObjectRecord
  <2> QED
    BY <1>2, <2>1, <2>2
<1>4. CASE o \notin Saved
  BY <1>2, <1>4 DEF DefinedRecord, Appended
<1> QED
  BY <1>3, <1>4

\* Without an overlay the visible types are those of the files.
LEMMA ClearedTyped ==
  ASSUME CleanUpEntries, TypesKnown(files'), files' \in Files
  PROVE  CatalogTyped'
<1>1. VisibleTypes' = files'.types
  BY DEF CleanUpEntries, VisibleTypes, MemberType, NoTypes, Files
<1>2. EntriesTyped'
  BY DEF CleanUpEntries, NoObjects, NoEntry, EntriesTyped
<1> QED
  BY <1>1, <1>2 DEF CatalogTyped, TypesKnown, RecordsTyped, KnownNames, InFile

\* What a transaction leaves when it ends.
LEMMA EndTyped ==
  ASSUME DataTypeOK, OverlayMatchesFiles, CatalogTyped, TypesKnown(committed),
         CommitTransaction \/ AbortTransaction
  PROVE  CatalogTyped' /\ TypesKnown(committed')
<1>1. CleanUpEntries
  BY DEF CommitTransaction, CommitSucceeds, CommitRollsBack, AbortTransaction,
     FilesCommitted, FilesRolledBack
<1>2. files' \in Files
  BY CommitType, AbortType DEF DataTypeOK, SecondoCatalogTypeOK
<1>3. TypesKnown(files') /\ TypesKnown(committed')
  <2>1. CASE CommitSucceeds
    <3>1. PICK failed : /\ files' = CleanUpFiles(failed)
                        /\ committed' = CleanUpFiles(failed)
      BY <2>1 DEF CommitSucceeds, FilesCommitted
    <3>2. TypesKnown(CleanUpFiles(failed))
      BY <2>1, CleanUpTyped DEF CommitSucceeds, FilesCommitted, DataTypeOK
    <3> QED
      BY <3>1, <3>2
  <2>2. CASE CommitRollsBack
    BY <2>2 DEF CommitRollsBack, FilesRolledBack
  <2>3. CASE AbortTransaction
    BY <2>3 DEF AbortTransaction, CatalogTyped
  <2> QED
    BY <2>1, <2>2, <2>3 DEF CommitTransaction
<1> QED
  BY <1>1, <1>2, <1>3, ClearedTyped

\* Writing the files keeps what holds of files, whether usrTxn runs or not.
LEMMA WriteTyped ==
  ASSUME TypesKnown(files'), TypesKnown(committed), Write
  PROVE  TypesKnown(committed')
  BY DEF Write

LEMMA StartTyped ==
  ASSUME TypesInv, CatalogTyped', StartCommand
  PROVE  TypesInv'
<1>1. TypesKnown(files')
  BY DEF CatalogTyped
<1>2. TypesKnown(committed')
  BY <1>1, WriteTyped DEF TypesInv, StartCommand
<1> QED
  BY <1>2 DEF TypesInv, RenamingTyped, StartCommand, Idle, TypesKnown

\* Neither the catalog nor the durable files change.
LEMMA IdleTyped ==
  ASSUME TypesInv, UNCHANGED <<catalogVars, committed, renaming>>
  PROVE  TypesInv'
  BY DEF TypesInv, CatalogTyped, TypesKnown, EntriesTyped, RecordsTyped,
         RenamingTyped, KnownNames, VisibleTypes, MemberType, InFile, catalogVars

LEMMA TypesInit == Init => TypesInv
  BY DEF Init, CatalogInit, EmptyFiles, NoObjects, NoEntry, TypesInv,
         CatalogTyped, TypesKnown, EntriesTyped, RecordsTyped, RenamingTyped,
         InFile

LEMMA RenameTyped ==
  ASSUME SecondoCatalogTypeOK, TypesInv,
         NEW old \in ObjectNames, NEW new \in ObjectNames,
         Command_ChangeName(old, new)
  PROVE  TypesInv'
<1>1. /\ UNCHANGED <<types, objects>>
      /\ files'.types = files.types
      /\ files'.objects = [files.objects EXCEPT ![old] = Nothing]
  BY DEF Command_ChangeName, RenameDeleteRecord, SecondoCatalogTypeOK, Files
<1>2. CatalogTyped'
  BY <1>1, RecordsGoTyped DEF SecondoCatalogTypeOK, Files, TypesInv
<1>3. KnownNames' = KnownNames
  BY <1>1 DEF KnownNames, VisibleTypes, MemberType
<1>4. TypesKnown(committed')
  BY <1>2, WriteTyped DEF Command_ChangeName, TypesInv, CatalogTyped, TypesKnown
<1>5. renaming'.record = files.objects[old] /\ InFile(old)
  BY DEF Command_ChangeName, RenameDeleteRecord, RenamePossible, IsObjectName
<1>6. files.objects[old].typeName \in KnownNames \cap (files.types \cup {NoType})
  BY <1>5 DEF TypesInv, CatalogTyped, TypesKnown, RecordsTyped, InFile
<1> QED
  BY <1>1, <1>2, <1>3, <1>4, <1>5, <1>6 DEF TypesInv, RenamingTyped, TypesKnown

LEMMA FinishRenameTyped ==
  ASSUME SecondoCatalogTypeOK, TypesInv, FinishRename
  PROVE  TypesInv'
<1>1. /\ UNCHANGED <<types, objects>>
      /\ files'.types = files.types
      /\ \A o \in ObjectNames :
           files'.objects[o] \in {files.objects[o], renaming.record}
  BY DEF FinishRename, RenameInsertRecord, SecondoCatalogTypeOK, Files
<1>2. KnownNames' = KnownNames
  BY <1>1 DEF KnownNames, VisibleTypes, MemberType
<1>3. renaming.record.typeName \in KnownNames \cap (files.types \cup {NoType})
  BY DEF FinishRename, TypesInv, RenamingTyped
<1>4. CatalogTyped'
  BY <1>1, <1>2, <1>3 DEF TypesInv, CatalogTyped, TypesKnown, EntriesTyped,
                          RecordsTyped, InFile
<1>5. TypesKnown(committed')
  BY <1>4, WriteTyped DEF FinishRename, TypesInv, CatalogTyped, TypesKnown
<1> QED
  BY <1>4, <1>5 DEF TypesInv, RenamingTyped, FinishRename, TypesKnown

LEMMA TypesStep ==
  ASSUME OverlayInv, TypesInv, [Next]_vars
  PROVE  TypesInv'
<1>0. SecondoCatalogTypeOK /\ DataTypeOK /\ OverlayMatchesFiles /\ CatalogTyped
  BY DEF OverlayInv, SecondoCommandsTypeOK, DataTypeOK, TypesInv
<1>1. CASE TypeCommand
  <2>1. PICK t \in TypeNames : Command_Type(t) \/ Command_DeleteType(t)
    BY <1>1 DEF TypeCommand
  <2> QED
    BY <1>0, <2>1, TypeOperationTyped, StartTyped
       DEF Command_Type, Command_DeleteType, Succeeds
<1>2. ASSUME NEW o \in ObjectNames, NEW t \in TypeNames \cup {NoType},
             Command_Create(o, t)
      PROVE  TypesInv'
  <2>1. t \in KnownNames
    BY <1>2 DEF Command_Create, KnownNames, VisibleTypes
  <2> QED
    BY <1>0, <1>2, <2>1, InsertObjectTyped, StartTyped DEF Command_Create, Succeeds
<1>3. NoType \in KnownNames
  BY DEF KnownNames
<1>4. ASSUME NEW o \in ObjectNames, NEW v, Command_Let(o, v) \/ Command_LetFails(o)
      PROVE  TypesInv'
  BY <1>0, <1>3, <1>4, InsertObjectTyped, StartTyped
     DEF Command_Let, Command_LetFails, Succeeds
<1>5. ASSUME NEW o \in ObjectNames, NEW v,
             Command_LetNt(o, v) \/ Command_QueryNt(o, v)
      PROVE  TypesInv'
  <2>1. CatalogTyped'
    BY <1>0, <1>3, <1>5, InsertObjectTyped, UpdateObjectTyped
       DEF Command_LetNt, Command_QueryNt
  <2> QED
    BY <1>5, <2>1 DEF Command_LetNt, Command_QueryNt, sessionVars, Idle,
                      TypesInv, RenamingTyped, TypesKnown
<1>6. ASSUME NEW o \in ObjectNames, NEW v,
             Command_Update(o, v) \/ Command_QuerySwitching(o, v)
      PROVE  TypesInv'
  BY <1>0, <1>6, UpdateObjectTyped, StartTyped
     DEF Command_Update, Command_QuerySwitching, Succeeds
<1>7. ASSUME NEW o \in ObjectNames, Command_Delete(o) \/ Command_Kill(o)
      PROVE  TypesInv'
  BY <1>0, <1>7, DroppedEntryTyped, KillObjectTyped, StartTyped
     DEF Command_Delete, Command_Kill, Succeeds
<1>8. ASSUME NEW old \in ObjectNames, NEW new \in ObjectNames,
             Command_ChangeNamePending(old, new)
      PROVE  TypesInv'
  <2>1. CatalogTyped'
    BY <1>0, <1>8, RenameEntryTyped DEF Command_ChangeNamePending
  <2> QED
    BY <1>8, <2>1 DEF Command_ChangeNamePending, RenameStarts, Idle, TypesInv,
                      RenamingTyped, TypesKnown
<1>9. CASE CommandFails
  <2>1. CatalogTyped'
    BY <1>0, <1>9 DEF CommandFails, catalogVars, CatalogTyped, TypesKnown,
       EntriesTyped, RecordsTyped, KnownNames, VisibleTypes, MemberType, InFile
  <2> QED
    BY <1>9, <2>1, StartTyped DEF CommandFails
<1>10. ASSUME CatalogTyped', TypesKnown(committed'),
              UNCHANGED renaming, renaming = NoRenaming
       PROVE  TypesInv'
  BY <1>10 DEF TypesInv, RenamingTyped, TypesKnown
<1>11. CASE SwitchTransaction
  <2>1. /\ TypesKnown(files') /\ TypesKnown(committed')
        /\ CleanUpEntries /\ files' \in Files
    <3>1. CASE FilesCommitted
      <4>1. PICK failed : /\ files' = CleanUpFiles(failed)
                          /\ committed' = CleanUpFiles(failed)
        BY <3>1 DEF FilesCommitted
      <4>2. TypesKnown(CleanUpFiles(failed)) /\ CleanUpFiles(failed) \in Files
        BY <1>0, <3>1, CleanUpTyped, CleanUpType DEF FilesCommitted
      <4> QED
        BY <3>1, <4>1, <4>2 DEF FilesCommitted
    <3>2. CASE FilesRolledBack
      BY <1>0, <3>2 DEF FilesRolledBack, TypesInv, DataTypeOK
    <3> QED
      BY <1>11, <3>1, <3>2 DEF SwitchTransaction
  <2>2. CatalogTyped'
    BY <1>0, <2>1, ClearedTyped
  <2>3. renaming = NoRenaming
    BY <1>11 DEF SwitchTransaction, OverlayInv, RenamingFits
  <2> QED
    BY <1>10, <1>11, <2>1, <2>2, <2>3 DEF SwitchTransaction
<1>12. ASSUME CommitTransaction \/ AbortTransaction,
              UNCHANGED renaming, renaming = NoRenaming
       PROVE  TypesInv'
  BY <1>0, <1>10, <1>12, EndTyped DEF TypesInv
<1>13. CASE FinishCommand
  <2>1. renaming = NoRenaming /\ UNCHANGED renaming
    BY <1>13 DEF FinishCommand, OverlayInv, RenamingFits
  <2> QED
    BY <1>12, <1>13, <2>1, IdleTyped DEF FinishCommand
<1>14. ASSUME Close, UNCHANGED <<files, committed, renaming>>,
              renaming = NoRenaming
       PROVE  TypesInv'
  <2>1. TypesKnown(files') /\ TypesKnown(committed')
    BY <1>0, <1>14 DEF CatalogTyped, TypesInv
  <2> QED
    BY <1>0, <1>10, <1>14, <2>1, ClearedTyped DEF Close, SecondoCatalogTypeOK
<1>15. CASE SessionCommand
  BY <1>12, <1>14, <1>15, IdleTyped
     DEF SessionCommand, Command_BeginTransaction, Command_CommitTransaction,
         Command_AbortTransaction, Command_OpenDatabase, Command_CloseDatabase,
         Terminate, Idle
<1>16. CASE Crash
  <2>1. TypesKnown(files') /\ TypesKnown(committed') /\ files' \in Files
    BY <1>0, <1>16 DEF Crash, TypesInv, DataTypeOK
  <2>2. CatalogTyped'
    BY <1>16, <2>1, ClearedTyped DEF Crash
  <2> QED
    BY <1>16, <2>1, <2>2 DEF Crash, TypesInv, RenamingTyped, TypesKnown
<1>17. CASE UNCHANGED vars
  BY <1>17, IdleTyped DEF vars, sessionVars
<1> QED
  BY <1>0, <1>1, <1>2, <1>4, <1>5, <1>6, <1>7, <1>8, <1>9, <1>11, <1>13, <1>15,
     <1>16, <1>17, RenameTyped, FinishRenameTyped
     DEF Next, ObjectCommand, RenameCommand

\* Without the two changenames that OverlayCorrect excludes, whatever is
\* rolled back, switched or lost with the process: a durable object has no
\* type name or one that is defined.
THEOREM NoDanglingCorrect ==
  ASSUME "rename updated" \notin Irregular, "rename to deleted" \notin Irregular
  PROVE  Spec => []NoDanglingTypes
<1> DEFINE IInv == OverlayInv /\ TypesInv
<1>1. Init => IInv
  BY TypeInit, OverlayInit, TypesInit DEF OverlayInv
<1>2. IInv /\ [Next]_vars => IInv'
  BY TypeStep, OverlayStep, TypesStep DEF OverlayInv
<1>3. IInv => NoDanglingTypes
  BY DEF TypesInv, TypesKnown, NoDanglingTypes
<1> HIDE DEF IInv
<1> QED
  BY <1>1, <1>2, <1>3, PTL DEF Spec

-----------------------------------------------------------------------------
(* Value records.  What holds of the files by themselves ...               *)

Owned(fs, o) == fs.objects[o] # Nothing /\ fs.objects[o].valueRecordId # NoRecord

WellRecorded(fs) ==
  /\ \A o, p \in ObjectNames :
       (o # p /\ Owned(fs, o) /\ Owned(fs, p)) =>
         fs.objects[o].valueRecordId # fs.objects[p].valueRecordId
  /\ \A o \in ObjectNames :
       Owned(fs, o) => fs.values[fs.objects[o].valueRecordId] # Nothing

\* An object marked as defined has a record, if AppendRecord never fails.
DefinedOwned(fs) ==
  "save fails" \notin Irregular =>
    \A o \in ObjectNames :
      fs.objects[o] # Nothing /\ fs.objects[o].valueDefined => Owned(fs, o)

FilesOK(fs) == WellRecorded(fs) /\ DefinedOwned(fs)

\* ... and of the overlay: an entry knows the record of its own object or
\* none, and has a value if it will be written.
EntriesOwn ==
  \A o \in ObjectNames :
    /\ objects[o].valueRecordId # NoRecord =>
         /\ InFile(o)
         /\ objects[o].valueRecordId = files.objects[o].valueRecordId
         /\ Pending(o)
    /\ objects[o].state \in {"insert", "update"} => objects[o].value # Nothing

\* Between its two writes a changename holds a record that is not in the file.
RenamingOwns ==
  renaming # NoRenaming =>
    LET r == renaming.record.valueRecordId
    IN  /\ r # NoRecord => files.values[r] # Nothing
        /\ r # NoRecord => \A o \in ObjectNames :
                             Owned(files, o) => files.objects[o].valueRecordId # r
        /\ "save fails" \notin Irregular =>
             (renaming.record.valueDefined => r # NoRecord)

CatalogRecorded == FilesOK(files) /\ EntriesOwn

RecordsInv == CatalogRecorded /\ FilesOK(committed) /\ RenamingOwns

\* One entry changes.
LEMMA EntryOwns ==
  ASSUME SecondoCatalogTypeOK, CatalogRecorded, NEW o \in ObjectNames, NEW entry,
         entry.valueRecordId # NoRecord =>
           /\ InFile(o)
           /\ entry.valueRecordId = files.objects[o].valueRecordId
           /\ entry.state # "none",
         entry.state \in {"insert", "update"} => entry.value # Nothing,
         objects' = [objects EXCEPT ![o] = entry], UNCHANGED <<files, types>>
  PROVE  CatalogRecorded'
<1>1. \A p \in ObjectNames :
        objects'[p] = IF p = o THEN entry ELSE objects[p]
  BY DEF SecondoCatalogTypeOK
<1>2. EntriesOwn'
  BY <1>1 DEF CatalogRecorded, EntriesOwn, InFile, Pending
<1>3. FilesOK(files)'
  BY DEF CatalogRecorded, FilesOK, WellRecorded, DefinedOwned, Owned
<1> QED
  BY <1>2, <1>3 DEF CatalogRecorded

LEMMA InsertObjectOwns ==
  ASSUME SecondoCatalogTypeOK, CatalogRecorded, NEW o \in ObjectNames, NEW t,
         NEW v, v # Nothing, InsertObject(o, t, v)
  PROVE  CatalogRecorded'
<1> DEFINE entry == [state |-> IF objects[o].state = "delete" THEN "update"
                                                            ELSE "insert",
                     typeName |-> t, value |-> v, valueRecordId |-> NoRecord]
<1>1. objects' = [objects EXCEPT ![o] = entry] /\ UNCHANGED <<files, types>>
  BY DEF InsertObject
<1>2. entry.valueRecordId = NoRecord /\ entry.value # Nothing
  OBVIOUS
<1> HIDE DEF entry
<1> QED
  BY <1>1, <1>2, EntryOwns

LEMMA UpdateObjectOwns ==
  ASSUME SecondoCatalogTypeOK, CatalogRecorded, NEW o \in ObjectNames,
         NEW v, v # Nothing, UpdateObject(o, v)
  PROVE  CatalogRecorded'
<1> DEFINE entry == IF Pending(o) THEN [objects[o] EXCEPT !.value = v]
                    ELSE [state |-> "update",
                          typeName |-> files.objects[o].typeName, value |-> v,
                          valueRecordId |-> files.objects[o].valueRecordId]
<1>1. objects' = [objects EXCEPT ![o] = entry] /\ UNCHANGED <<files, types>>
  BY DEF UpdateObject
<1>2. /\ entry.value # Nothing
      /\ entry.valueRecordId # NoRecord =>
           /\ InFile(o)
           /\ entry.valueRecordId = files.objects[o].valueRecordId
           /\ entry.state # "none"
  <2>1. CASE Pending(o)
    <3>1. objects[o] \in ObjectsCatalogEntry
      BY DEF SecondoCatalogTypeOK
    <3>2. /\ entry.state = objects[o].state
          /\ entry.value = v
          /\ entry.valueRecordId = objects[o].valueRecordId
      BY <2>1, <3>1 DEF ObjectsCatalogEntry
    <3> HIDE DEF entry
    <3> QED
      BY <2>1, <3>2 DEF CatalogRecorded, EntriesOwn, Pending
  <2>2. CASE ~Pending(o)
    BY <2>2 DEF UpdateObject, IsObjectName
  <2> QED
    BY <2>1, <2>2
<1> HIDE DEF entry
<1> QED
  BY <1>1, <1>2, EntryOwns

\* A deleted entry keeps the record it knows, an inserted one knows none: its
\* object is not in the file.
LEMMA DroppedEntryOwns ==
  ASSUME SecondoCatalogTypeOK, CatalogRecorded, NEW o \in ObjectNames,
         DeleteObject(o) \/ (KillObject(o) /\ Pending(o))
  PROVE  CatalogRecorded'
<1>0. objects[o] \in ObjectsCatalogEntry
  BY DEF SecondoCatalogTypeOK
<1> DEFINE marked == [objects[o] EXCEPT !.state = "delete"]
           made   == [state |-> "delete",
                      typeName |-> files.objects[o].typeName,
                      value |-> StoredValue(files.objects[o], files.values),
                      valueRecordId |-> NoRecord]
<1>1. marked.state = "delete" /\ marked.valueRecordId = objects[o].valueRecordId
  BY <1>0 DEF ObjectsCatalogEntry
<1>2. made.state = "delete" /\ made.valueRecordId = NoRecord
  OBVIOUS
<1>3. NoEntry.state = "none" /\ NoEntry.valueRecordId = NoRecord
  BY DEF NoEntry
<1>4. \E entry \in {NoEntry, marked, made} :
        objects' = [objects EXCEPT ![o] = entry] /\ UNCHANGED <<files, types>>
  <2>1. CASE DeleteObject(o)
    <3>1. CASE objects[o].state = "insert"
      BY <2>1, <3>1 DEF DeleteObject
    <3>2. CASE objects[o].state = "update"
      BY <2>1, <3>2 DEF DeleteObject
    <3>3. CASE objects[o].state \notin {"insert", "update"}
      BY <2>1, <3>3 DEF DeleteObject
    <3> QED
      BY <3>1, <3>2, <3>3
  <2>2. CASE KillObject(o) /\ Pending(o)
    BY <2>2 DEF KillObject
  <2> QED
    BY <2>1, <2>2
<1> HIDE DEF marked, made
<1>5. PICK entry \in {NoEntry, marked, made} :
        objects' = [objects EXCEPT ![o] = entry] /\ UNCHANGED <<files, types>>
  BY <1>4
<1>6. /\ entry.valueRecordId # NoRecord =>
           /\ InFile(o)
           /\ entry.valueRecordId = files.objects[o].valueRecordId
           /\ entry.state # "none"
      /\ entry.state \notin {"insert", "update"}
  BY <1>1, <1>2, <1>3 DEF CatalogRecorded, EntriesOwn
<1> QED
  BY <1>5, <1>6, EntryOwns

\* The record of a killed object belongs to nobody else.
LEMMA KillObjectOwns ==
  ASSUME SecondoCatalogTypeOK, CatalogRecorded, NEW o \in ObjectNames, KillObject(o)
  PROVE  CatalogRecorded'
<1>1. CASE Pending(o)
  BY <1>1, DroppedEntryOwns
<1>2. CASE ~Pending(o)
  <2>1. /\ UNCHANGED <<types, objects>>
        /\ files'.objects = [files.objects EXCEPT ![o] = Nothing]
        /\ files'.values = [r \in RecordIds |->
                              IF r = files.objects[o].valueRecordId
                                THEN Nothing ELSE files.values[r]]
    BY <1>2 DEF KillObject, SecondoCatalogTypeOK, Files
  <2>2. InFile(o) /\ \A p \in ObjectNames : files'.objects[p] =
                       IF p = o THEN Nothing ELSE files.objects[p]
    BY <1>2, <2>1 DEF KillObject, IsObjectName, SecondoCatalogTypeOK, Files
  <2>3. \A p \in ObjectNames :
          Owned(files, p) => files.objects[p].valueRecordId \in RecordIds
    BY DEF SecondoCatalogTypeOK, Files, ObjectRecord, Owned
  <2>4. WellRecorded(files')
    BY <2>1, <2>2, <2>3
       DEF CatalogRecorded, FilesOK, WellRecorded, Owned, InFile
  <2>5. DefinedOwned(files')
    BY <2>2 DEF CatalogRecorded, FilesOK, DefinedOwned, Owned
  <2>6. EntriesOwn'
    BY <1>2, <2>1, <2>2 DEF CatalogRecorded, EntriesOwn, InFile, Pending
  <2> QED
    BY <2>4, <2>5, <2>6 DEF CatalogRecorded, FilesOK, WellRecorded,
                            DefinedOwned, Owned
<1> QED
  BY <1>1, <1>2

-----------------------------------------------------------------------------
(* CleanUp.                                                                *)

\* A record that goes with a deleted object is no other object's record.
LEMMA KeptRecords ==
  ASSUME SecondoCatalogTypeOK, CatalogRecorded, NEW o \in ObjectNames,
         Owned(files, o), objects[o].state # "delete"
  PROVE  /\ files.objects[o].valueRecordId \in RecordIds
         /\ files.objects[o].valueRecordId \notin DroppedRecords
         /\ RemainingValues[files.objects[o].valueRecordId] # Nothing
<1>1. files.objects[o].valueRecordId \in RecordIds
  BY DEF SecondoCatalogTypeOK, Files, ObjectRecord, Owned
<1>2. files.objects[o].valueRecordId \notin DroppedRecords
  BY CatalogAssumption DEF DroppedRecords, CatalogRecorded, FilesOK,
     WellRecorded, EntriesOwn, Owned, InFile
<1> QED
  BY <1>1, <1>2 DEF RemainingValues, CatalogRecorded, FilesOK, WellRecorded

\* The record number of an object after CleanUp: none, the one it had, or the
\* one that AppendRecord gave it.
LEMMA RecordAfterCleanUp ==
  ASSUME SecondoCatalogTypeOK, CatalogRecorded, RecordsLeft, NEW failed,
         NEW o \in ObjectNames, DefinedRecord(o, failed) # Nothing
  PROVE  LET r == DefinedRecord(o, failed).valueRecordId
         IN  \/ r = NoRecord
             \/ o \in Appended \ failed /\ r = AppendedRecord[o]
             \/ /\ Owned(files, o)
                /\ objects[o].state # "delete"
                /\ r = files.objects[o].valueRecordId
<1>1. UndefinedRecord(o) \in ObjectRecord \cup {Nothing}
  BY UndefinedRecordType
<1>2. CASE o \in Appended
  <2>1. UndefinedRecord(o) \in ObjectRecord
    BY <1>1, <1>2 DEF Appended, Saved
  <2>2. DefinedRecord(o, failed).valueRecordId =
          IF o \in failed THEN NoRecord ELSE AppendedRecord[o]
    BY <1>2, <2>1 DEF DefinedRecord, ObjectRecord
  <2> QED
    BY <1>2, <2>2
<1>3. CASE o \notin Appended
  <2>1. UndefinedRecord(o) # Nothing /\
          DefinedRecord(o, failed).valueRecordId = UndefinedRecord(o).valueRecordId
    <3>1. CASE o \in Saved
      <4>1. UndefinedRecord(o) \in ObjectRecord /\ UndefinedRecord(o) # Nothing
        BY <1>1, <3>1 DEF Saved
      <4> QED
        BY <1>3, <3>1, <4>1 DEF DefinedRecord, ObjectRecord
    <3>2. CASE o \notin Saved
      BY <1>3, <3>2 DEF DefinedRecord
    <3> QED
      BY <3>1, <3>2
  <2>2. CASE objects[o].state = "insert" /\ ~InFile(o)
    BY <2>1, <2>2 DEF UndefinedRecord
  <2>3. CASE objects[o].state = "update" /\ InFile(o)
    <3>1. files.objects[o] \in ObjectRecord
      BY <2>3 DEF InFile, SecondoCatalogTypeOK, Files
    <3>2. UndefinedRecord(o).valueRecordId = files.objects[o].valueRecordId
      BY <2>3, <3>1 DEF UndefinedRecord, ObjectRecord
    <3> QED
      BY <2>1, <2>3, <3>2 DEF Owned, InFile
  <2>4. CASE objects[o].state = "delete"
    BY <2>1, <2>4 DEF UndefinedRecord
  <2>5. CASE /\ ~(objects[o].state = "insert" /\ ~InFile(o))
             /\ ~(objects[o].state = "update" /\ InFile(o))
             /\ objects[o].state # "delete"
    BY <2>1, <2>5 DEF UndefinedRecord, Owned
  <2> QED
    BY <2>2, <2>3, <2>4, <2>5
<1> QED
  BY <1>2, <1>3

\* A record that remains, or that AppendRecord makes, has a value.
LEMMA ValueAfterCleanUp ==
  ASSUME SecondoCatalogTypeOK, CatalogRecorded, RecordsLeft, NEW failed,
         NEW r \in RecordIds,
         \/ RemainingValues[r] # Nothing
         \/ \E o \in Appended \ failed : AppendedRecord[o] = r
  PROVE  SavedValue(r, failed) # Nothing
<1>1. \A o \in Saved : objects[o].value # Nothing
  BY DEF Saved, CatalogRecorded, EntriesOwn
<1>2. Appended \subseteq Saved /\ Overwritten \subseteq Saved
  BY DEF Appended, Overwritten
<1> QED
  BY <1>1, <1>2 DEF SavedValue

LEMMA CleanUpRecorded ==
  ASSUME SecondoCatalogTypeOK, CatalogRecorded, RecordsLeft, NEW failed
  PROVE  WellRecorded(CleanUpFiles(failed))
<1> DEFINE fs == CleanUpFiles(failed)
<1>1. /\ \A o \in ObjectNames : fs.objects[o] = DefinedRecord(o, failed)
      /\ \A r \in RecordIds : fs.values[r] = SavedValue(r, failed)
  BY DEF CleanUpFiles
<1> HIDE DEF fs
<1>2. ASSUME NEW o \in ObjectNames, Owned(fs, o)
      PROVE  \/ /\ o \in Appended \ failed
                /\ fs.objects[o].valueRecordId = AppendedRecord[o]
             \/ /\ Owned(files, o)
                /\ objects[o].state # "delete"
                /\ fs.objects[o].valueRecordId = files.objects[o].valueRecordId
  BY <1>1, <1>2, RecordAfterCleanUp DEF Owned
<1>3. ASSUME NEW o \in Appended
      PROVE  /\ AppendedRecord[o] \in RecordIds
             /\ RemainingValues[AppendedRecord[o]] = Nothing
  BY <1>3, AppendedRecordIsNumbering
<1>4. ASSUME NEW o \in ObjectNames, NEW p \in ObjectNames, o # p,
             Owned(fs, o), Owned(fs, p)
      PROVE  fs.objects[o].valueRecordId # fs.objects[p].valueRecordId
  <2>1. ASSUME o \in Appended, p \in Appended
        PROVE  AppendedRecord[o] # AppendedRecord[p]
    BY <1>4, <2>1, AppendedRecordIsNumbering
  <2>2. ASSUME NEW q \in Appended, NEW k \in ObjectNames, Owned(files, k),
               objects[k].state # "delete"
        PROVE  AppendedRecord[q] # files.objects[k].valueRecordId
    BY <1>3, <2>2, KeptRecords
  <2>3. ASSUME Owned(files, o), Owned(files, p)
        PROVE  files.objects[o].valueRecordId # files.objects[p].valueRecordId
    BY <1>4, <2>3 DEF CatalogRecorded, FilesOK, WellRecorded
  <2> QED
    BY <1>2, <1>4, <2>1, <2>2, <2>3
<1>5. ASSUME NEW o \in ObjectNames, Owned(fs, o)
      PROVE  fs.values[fs.objects[o].valueRecordId] # Nothing
  <2>1. CASE /\ o \in Appended \ failed
             /\ fs.objects[o].valueRecordId = AppendedRecord[o]
    BY <1>1, <1>3, <2>1, ValueAfterCleanUp
  <2>2. CASE /\ Owned(files, o)
             /\ objects[o].state # "delete"
             /\ fs.objects[o].valueRecordId = files.objects[o].valueRecordId
    BY <1>1, <2>2, KeptRecords, ValueAfterCleanUp
  <2> QED
    BY <1>2, <1>5, <2>1, <2>2
<1> QED
  BY <1>4, <1>5 DEF WellRecorded, fs

\* Unless AppendRecord fails, an object is marked as defined only with a
\* record: the number given to it, or the one that its entry knew.
LEMMA CleanUpDefined ==
  ASSUME SecondoCatalogTypeOK, CatalogRecorded, RecordsLeft,
         NEW failed, "save fails" \notin Irregular => failed = {}
  PROVE  DefinedOwned(CleanUpFiles(failed))
<1> SUFFICES ASSUME "save fails" \notin Irregular, NEW o \in ObjectNames,
                    DefinedRecord(o, {}) # Nothing,
                    DefinedRecord(o, {}).valueDefined
             PROVE  DefinedRecord(o, {}).valueRecordId # NoRecord
  BY DEF DefinedOwned, Owned, CleanUpFiles
<1>1. UndefinedRecord(o) \in ObjectRecord \cup {Nothing}
  BY UndefinedRecordType
<1>2. CASE o \in Appended
  <2>1. UndefinedRecord(o) \in ObjectRecord
    BY <1>1, <1>2 DEF Appended, Saved
  <2>2. DefinedRecord(o, {}).valueRecordId = AppendedRecord[o]
    BY <1>2, <2>1 DEF DefinedRecord, ObjectRecord
  <2>3. AppendedRecord[o] \in RecordIds
    BY <1>2, AppendedRecordIsNumbering
  <2> QED
    BY <2>2, <2>3, CatalogAssumption
<1>3. CASE o \in Saved \ Appended
  <2>1. UndefinedRecord(o) \in ObjectRecord
    BY <1>1, <1>3 DEF Saved
  <2>2. DefinedRecord(o, {}).valueRecordId = UndefinedRecord(o).valueRecordId
    BY <1>3, <2>1 DEF DefinedRecord, ObjectRecord
  <2>3. /\ InFile(o)
        /\ files.objects[o].valueRecordId # NoRecord
        /\ objects[o].state \in {"insert", "update"}
    BY <1>3 DEF Saved, Appended, CatalogRecorded, EntriesOwn
  <2>4. files.objects[o] \in ObjectRecord
    BY <2>3 DEF InFile, SecondoCatalogTypeOK, Files
  <2>5. CASE objects[o].state = "update"
    <3>1. UndefinedRecord(o).valueRecordId = files.objects[o].valueRecordId
      BY <2>3, <2>4, <2>5 DEF UndefinedRecord, ObjectRecord
    <3> QED
      BY <2>2, <2>3, <3>1
  <2>6. CASE objects[o].state = "insert"
    <3>1. UndefinedRecord(o) = files.objects[o]
      BY <2>3, <2>6 DEF UndefinedRecord
    <3> QED
      BY <2>2, <2>3, <3>1
  <2> QED
    BY <2>3, <2>5, <2>6
<1>4. CASE o \notin Saved
  <2>1. DefinedRecord(o, {}) = UndefinedRecord(o)
    BY <1>4 DEF DefinedRecord, Appended
  <2>2. CASE objects[o].state = "insert" /\ ~InFile(o)
    <3> DEFINE rec == [typeName |-> objects[o].typeName,
                       valueDefined |-> FALSE, valueRecordId |-> NoRecord]
    <3>1. rec.valueDefined = FALSE
      OBVIOUS
    <3>2. UndefinedRecord(o) = rec
      BY <2>2 DEF UndefinedRecord
    <3> HIDE DEF rec
    <3> QED
      BY <2>1, <3>1, <3>2
  <2>3. CASE objects[o].state = "update" /\ InFile(o)
    <3>1. files.objects[o] \in ObjectRecord
      BY <2>3 DEF InFile, SecondoCatalogTypeOK, Files
    <3>2. UndefinedRecord(o).valueDefined = FALSE
      BY <2>3, <3>1 DEF UndefinedRecord, ObjectRecord
    <3> QED
      BY <2>1, <3>2
  <2>4. CASE objects[o].state = "delete"
    BY <2>1, <2>4 DEF UndefinedRecord
  <2>5. CASE /\ ~(objects[o].state = "insert" /\ ~InFile(o))
             /\ ~(objects[o].state = "update" /\ InFile(o))
             /\ objects[o].state # "delete"
    BY <2>1, <2>5 DEF UndefinedRecord, CatalogRecorded, FilesOK, DefinedOwned,
                      Owned
  <2> QED
    BY <2>2, <2>3, <2>4, <2>5
<1> QED
  BY <1>2, <1>3, <1>4

\* Without an overlay only the files matter.
LEMMA ClearedOwns ==
  ASSUME CleanUpEntries, FilesOK(files')
  PROVE  CatalogRecorded'
<1>1. EntriesOwn'
  BY DEF CleanUpEntries, NoObjects, NoEntry, EntriesOwn
<1> QED
  BY <1>1 DEF CatalogRecorded, FilesOK, WellRecorded, DefinedOwned, Owned

-----------------------------------------------------------------------------
(* Every step keeps the records.                                           *)

\* What a transaction leaves when it ends.
LEMMA EndOwns ==
  ASSUME DataTypeOK, CatalogRecorded, FilesOK(committed),
         CommitTransaction \/ AbortTransaction
  PROVE  CatalogRecorded' /\ FilesOK(committed')
<1>1. CleanUpEntries
  BY DEF CommitTransaction, CommitSucceeds, CommitRollsBack, AbortTransaction,
     FilesCommitted, FilesRolledBack
<1>2. FilesOK(files') /\ FilesOK(committed')
  <2>1. CASE CommitSucceeds
    <3>1. PICK failed \in IF "save fails" \in Irregular THEN SUBSET Appended
                                                        ELSE {{}} :
            /\ files' = CleanUpFiles(failed)
            /\ committed' = CleanUpFiles(failed)
      BY <2>1 DEF CommitSucceeds, FilesCommitted
    <3>2. FilesOK(CleanUpFiles(failed))
      BY <2>1, CleanUpRecorded, CleanUpDefined
         DEF CommitSucceeds, FilesCommitted, DataTypeOK, FilesOK
    <3> QED
      BY <3>1, <3>2
  <2>2. CASE CommitRollsBack
    BY <2>2 DEF CommitRollsBack, FilesRolledBack
  <2>3. CASE AbortTransaction
    BY <2>3 DEF AbortTransaction, CatalogRecorded
  <2> QED
    BY <2>1, <2>2, <2>3 DEF CommitTransaction
<1> QED
  BY <1>1, <1>2, ClearedOwns

\* FilesOK of the next state, whichever way it is written.
LEMMA FilesOKPrimed ==
  /\ FilesOK(files)' <=> FilesOK(files')
  /\ FilesOK(committed)' <=> FilesOK(committed')
  BY DEF FilesOK, WellRecorded, DefinedOwned, Owned

LEMMA WriteOwns ==
  ASSUME FilesOK(files'), FilesOK(committed), Write
  PROVE  FilesOK(committed')
  BY DEF Write

LEMMA StartOwns ==
  ASSUME RecordsInv, CatalogRecorded', StartCommand
  PROVE  RecordsInv'
<1>1. FilesOK(files')
  BY FilesOKPrimed DEF CatalogRecorded
<1>2. FilesOK(committed')
  BY <1>1, WriteOwns DEF RecordsInv, StartCommand
<1> QED
  BY <1>2, FilesOKPrimed DEF RecordsInv, RenamingOwns, StartCommand, Idle

LEMMA IdleOwns ==
  ASSUME RecordsInv, UNCHANGED <<catalogVars, committed, renaming>>
  PROVE  RecordsInv'
  BY DEF RecordsInv, CatalogRecorded, FilesOK, WellRecorded, DefinedOwned, Owned,
         EntriesOwn, RenamingOwns, Pending, InFile, catalogVars

LEMMA RecordsInit == Init => RecordsInv
<1> SUFFICES ASSUME Init PROVE RecordsInv
  OBVIOUS
<1>1. FilesOK(EmptyFiles)
  BY DEF EmptyFiles, FilesOK, WellRecorded, DefinedOwned, Owned
<1>2. EntriesOwn
  BY DEF Init, CatalogInit, NoObjects, NoEntry, EntriesOwn
<1> QED
  BY <1>1, <1>2 DEF Init, CatalogInit, RecordsInv, CatalogRecorded, RenamingOwns

\* An inserted entry knows no record, so that the new key of a changename
\* may take it over.
LEMMA RenameEntryOwns ==
  ASSUME SecondoCatalogTypeOK, OverlayMatchesFiles, CatalogRecorded,
         NEW old \in ObjectNames, NEW new \in ObjectNames,
         objects[old].state # "update", RenameEntry(old, new)
  PROVE  CatalogRecorded'
<1>1. objects[old].state = "insert"
  BY DEF RenameEntry, RenamePossible, IsObjectName, Pending,
         SecondoCatalogTypeOK, ObjectsCatalogEntry
<1>2. objects[old].valueRecordId = NoRecord
  BY <1>1 DEF OverlayMatchesFiles, Pending, CatalogRecorded, EntriesOwn
<1>3. \A p \in ObjectNames : objects'[p] \in {NoEntry, objects[p], objects[old]}
  BY DEF RenameEntry, SecondoCatalogTypeOK
<1>4. NoEntry.state = "none" /\ NoEntry.valueRecordId = NoRecord
  BY DEF NoEntry
<1>5. UNCHANGED files
  BY DEF RenameEntry
<1>6. EntriesOwn'
  BY <1>2, <1>3, <1>4, <1>5 DEF CatalogRecorded, EntriesOwn, Pending, InFile
<1> QED
  BY <1>5, <1>6, FilesOKPrimed DEF CatalogRecorded

\* The record leaves the file, and the changename alone knows it.
LEMMA RenameOwns ==
  ASSUME SecondoCatalogTypeOK, RecordsInv,
         NEW old \in ObjectNames, NEW new \in ObjectNames,
         Command_ChangeName(old, new)
  PROVE  RecordsInv'
<1>1. /\ UNCHANGED <<types, objects>>
      /\ files'.values = files.values
      /\ files'.objects = [files.objects EXCEPT ![old] = Nothing]
  BY DEF Command_ChangeName, RenameDeleteRecord, SecondoCatalogTypeOK, Files
<1>2. \A p \in ObjectNames : files'.objects[p] =
         IF p = old THEN Nothing ELSE files.objects[p]
  BY <1>1 DEF SecondoCatalogTypeOK, Files
<1>3. /\ renaming'.record = files.objects[old]
      /\ InFile(old)
      /\ ~Pending(old)
  BY DEF Command_ChangeName, RenameDeleteRecord, RenamePossible, IsObjectName
<1>4. FilesOK(files')
  <2>1. \A p \in ObjectNames :
          files'.objects[p] # Nothing => files'.objects[p] = files.objects[p]
    BY <1>2
  <2>2. \A p \in ObjectNames : Owned(files', p) => Owned(files, p)
    BY <2>1 DEF Owned
  <2>3. WellRecorded(files')
    BY <1>1, <2>1, <2>2
       DEF RecordsInv, CatalogRecorded, FilesOK, WellRecorded, Owned
  <2>4. DefinedOwned(files')
    BY <2>1 DEF RecordsInv, CatalogRecorded, FilesOK, DefinedOwned, Owned
  <2> QED
    BY <2>3, <2>4 DEF FilesOK
<1>5. EntriesOwn'
  BY <1>1, <1>2, <1>3 DEF RecordsInv, CatalogRecorded, EntriesOwn, Pending, InFile
<1>6. FilesOK(committed')
  BY <1>4, WriteOwns DEF Command_ChangeName, RecordsInv
<1>7. RenamingOwns'
  <2> DEFINE r == files.objects[old].valueRecordId
  <2>1. r # NoRecord => Owned(files, old)
    BY <1>3 DEF Owned, InFile
  <2>2. r # NoRecord => files'.values[r] # Nothing
    BY <1>1, <2>1 DEF RecordsInv, CatalogRecorded, FilesOK, WellRecorded
  <2>3. r # NoRecord => \A o \in ObjectNames :
          Owned(files', o) => files'.objects[o].valueRecordId # r
    BY <1>2, <2>1 DEF RecordsInv, CatalogRecorded, FilesOK, WellRecorded, Owned
  <2>4. "save fails" \notin Irregular =>
          (files.objects[old].valueDefined => r # NoRecord)
    BY <1>3 DEF RecordsInv, CatalogRecorded, FilesOK, DefinedOwned, Owned, InFile
  <2> QED
    BY <1>3, <2>2, <2>3, <2>4 DEF RenamingOwns, Owned
<1> QED
  BY <1>4, <1>5, <1>6, <1>7, FilesOKPrimed DEF RecordsInv, CatalogRecorded

LEMMA FinishRenameOwns ==
  ASSUME OverlayInv, RecordsInv, FinishRename
  PROVE  RecordsInv'
<1>1. SecondoCatalogTypeOK /\ renaming.new \in ObjectNames /\ ~Pending(renaming.new)
  BY DEF FinishRename, OverlayInv, SecondoCommandsTypeOK, Renaming, RenamingFits
<1>2. /\ UNCHANGED <<types, objects>>
      /\ files'.values = files.values
      /\ \A o \in ObjectNames : files'.objects[o] =
           IF o = renaming.new /\ ~InFile(o) THEN renaming.record
                                             ELSE files.objects[o]
  BY <1>1 DEF FinishRename, RenameInsertRecord, InFile, SecondoCatalogTypeOK, Files
<1>3. renaming # NoRenaming /\ renaming' = NoRenaming
  BY DEF FinishRename
<1>4. WellRecorded(files')
  <2> DEFINE rec == renaming.record
  <2>1. rec.valueRecordId # NoRecord =>
          /\ files.values[rec.valueRecordId] # Nothing
          /\ \A o \in ObjectNames : Owned(files, o) =>
               files.objects[o].valueRecordId # rec.valueRecordId
    BY <1>3 DEF RecordsInv, RenamingOwns
  <2>2. ASSUME NEW o \in ObjectNames, Owned(files', o)
        PROVE  \/ /\ o = renaming.new
                  /\ files'.objects[o] = rec
                  /\ rec.valueRecordId # NoRecord
               \/ Owned(files, o) /\ files'.objects[o] = files.objects[o]
    BY <1>2, <2>2 DEF Owned
  <2> HIDE DEF rec
  <2> QED
    BY <1>2, <2>1, <2>2 DEF RecordsInv, CatalogRecorded, FilesOK, WellRecorded
<1>5. DefinedOwned(files')
  BY <1>2, <1>3 DEF RecordsInv, CatalogRecorded, FilesOK, DefinedOwned, Owned,
                    RenamingOwns
<1>6. EntriesOwn'
  BY <1>1, <1>2 DEF RecordsInv, CatalogRecorded, EntriesOwn, Pending, InFile
<1>7. FilesOK(files') /\ FilesOK(committed')
  BY <1>4, <1>5, WriteOwns DEF FinishRename, RecordsInv, FilesOK
<1> QED
  BY <1>3, <1>6, <1>7, FilesOKPrimed DEF RecordsInv, CatalogRecorded, RenamingOwns

LEMMA RecordsStep ==
  ASSUME "rename updated" \notin Irregular, OverlayInv, RecordsInv, [Next]_vars
  PROVE  RecordsInv'
<1>0. SecondoCatalogTypeOK /\ DataTypeOK /\ OverlayMatchesFiles /\ CatalogRecorded
  BY DEF OverlayInv, SecondoCommandsTypeOK, DataTypeOK, RecordsInv
<1>1. \A v \in Values \cup {Undefined} : v # Nothing
  BY CatalogAssumption
<1>2. CASE TypeCommand
  <2>1. UNCHANGED <<files, objects>> /\ StartCommand
    BY <1>2 DEF TypeCommand, Command_Type, Command_DeleteType, InsertType,
                DeleteType, Succeeds
  <2>2. CatalogRecorded'
    BY <1>0, <2>1, FilesOKPrimed
       DEF CatalogRecorded, EntriesOwn, Pending, InFile
  <2> QED
    BY <2>1, <2>2, StartOwns
<1>3. ASSUME NEW o \in ObjectNames, NEW v, v # Nothing,
             UpdateObject(o, v) \/ \E t : InsertObject(o, t, v)
      PROVE  CatalogRecorded'
  BY <1>0, <1>3, InsertObjectOwns, UpdateObjectOwns
<1>4. ASSUME NEW o \in ObjectNames, NEW v, v # Nothing, StartCommand,
             UpdateObject(o, v) \/ \E t : InsertObject(o, t, v)
      PROVE  RecordsInv'
  BY <1>3, <1>4, StartOwns
<1>5. ASSUME NEW o \in ObjectNames, NEW t,
             Command_Create(o, t) \/ Command_LetFails(o)
      PROVE  RecordsInv'
  BY <1>1, <1>4, <1>5 DEF Command_Create, Command_LetFails, Succeeds
<1>6. ASSUME NEW o \in ObjectNames, NEW v \in Values,
             Command_Let(o, v) \/ Command_Update(o, v) \/ Command_QuerySwitching(o, v)
      PROVE  RecordsInv'
  BY <1>1, <1>4, <1>6
     DEF Command_Let, Command_Update, Command_QuerySwitching, Succeeds
<1>7. ASSUME NEW o \in ObjectNames, NEW v \in Values \cup {Undefined},
             Command_LetNt(o, v) \/ Command_QueryNt(o, v)
      PROVE  RecordsInv'
  <2>1. CatalogRecorded'
    BY <1>1, <1>3, <1>7 DEF Command_LetNt, Command_QueryNt
  <2>2. UNCHANGED <<committed, renaming>> /\ renaming = NoRenaming
    BY <1>7 DEF Command_LetNt, Command_QueryNt, sessionVars, Idle
  <2> QED
    BY <2>1, <2>2, FilesOKPrimed DEF RecordsInv, RenamingOwns
<1>8. ASSUME NEW o \in ObjectNames, Command_Delete(o) \/ Command_Kill(o)
      PROVE  RecordsInv'
  BY <1>0, <1>8, DroppedEntryOwns, KillObjectOwns, StartOwns
     DEF Command_Delete, Command_Kill, Succeeds
<1>9. ASSUME CatalogRecorded', FilesOK(committed'),
             UNCHANGED renaming, renaming = NoRenaming
      PROVE  RecordsInv'
  BY <1>9, FilesOKPrimed DEF RecordsInv, RenamingOwns
<1>10. ASSUME NEW old \in ObjectNames, NEW new \in ObjectNames,
              Command_ChangeNamePending(old, new)
       PROVE  RecordsInv'
  <2>1. /\ objects[old].state # "update"
        /\ UNCHANGED <<committed, renaming>>
        /\ renaming = NoRenaming
    BY <1>10 DEF Command_ChangeNamePending, RenameStarts, Idle
  <2>2. CatalogRecorded'
    BY <1>0, <1>10, <2>1, RenameEntryOwns DEF Command_ChangeNamePending
  <2> QED
    BY <1>9, <2>1, <2>2 DEF RecordsInv
<1>11. CASE CommandFails
  <2>1. CatalogRecorded'
    BY <1>0, <1>11, FilesOKPrimed
       DEF CommandFails, catalogVars, CatalogRecorded, EntriesOwn, Pending, InFile
  <2> QED
    BY <1>11, <2>1, StartOwns DEF CommandFails
<1>12. CASE SwitchTransaction
  <2>1. FilesOK(files') /\ FilesOK(committed') /\ CleanUpEntries
    <3>1. CASE FilesCommitted
      <4>1. PICK failed \in IF "save fails" \in Irregular THEN SUBSET Appended
                                                          ELSE {{}} :
              /\ files' = CleanUpFiles(failed)
              /\ committed' = CleanUpFiles(failed)
        BY <3>1 DEF FilesCommitted
      <4>2. FilesOK(CleanUpFiles(failed))
        BY <1>0, <3>1, CleanUpRecorded, CleanUpDefined DEF FilesCommitted, FilesOK
      <4> QED
        BY <3>1, <4>1, <4>2 DEF FilesCommitted
    <3>2. CASE FilesRolledBack
      BY <1>0, <3>2 DEF FilesRolledBack, RecordsInv
    <3> QED
      BY <1>12, <3>1, <3>2 DEF SwitchTransaction
  <2>2. CatalogRecorded' /\ FilesOK(committed')
    BY <2>1, ClearedOwns
  <2>3. renaming = NoRenaming
    BY <1>12 DEF SwitchTransaction, OverlayInv, RenamingFits
  <2> QED
    BY <1>9, <1>12, <2>2, <2>3 DEF SwitchTransaction
<1>13. ASSUME CommitTransaction \/ AbortTransaction,
              UNCHANGED renaming, renaming = NoRenaming
       PROVE  RecordsInv'
  BY <1>0, <1>9, <1>13, EndOwns DEF RecordsInv
<1>14. CASE FinishCommand
  <2>1. renaming = NoRenaming /\ UNCHANGED renaming
    BY <1>14 DEF FinishCommand, OverlayInv, RenamingFits
  <2> QED
    BY <1>13, <1>14, <2>1, IdleOwns DEF FinishCommand
<1>15. ASSUME Close, UNCHANGED <<files, committed, renaming>>,
              renaming = NoRenaming
       PROVE  RecordsInv'
  <2>1. FilesOK(files') /\ FilesOK(committed')
    BY <1>0, <1>15 DEF CatalogRecorded, RecordsInv
  <2> QED
    BY <1>9, <1>15, <2>1, ClearedOwns DEF Close
<1>16. CASE SessionCommand
  BY <1>13, <1>15, <1>16, IdleOwns
     DEF SessionCommand, Command_BeginTransaction, Command_CommitTransaction,
         Command_AbortTransaction, Command_OpenDatabase, Command_CloseDatabase,
         Terminate, Idle
<1>17. CASE Crash
  <2>1. FilesOK(files') /\ FilesOK(committed')
    BY <1>17 DEF Crash, RecordsInv
  <2>2. CatalogRecorded'
    BY <1>17, <2>1, ClearedOwns DEF Crash
  <2> QED
    BY <1>17, <2>1, <2>2, FilesOKPrimed DEF Crash, RecordsInv, RenamingOwns
<1>18. CASE UNCHANGED vars
  BY <1>18, IdleOwns DEF vars, sessionVars
<1> QED
  BY <1>0, <1>2, <1>5, <1>6, <1>7, <1>8, <1>10, <1>11, <1>12, <1>14,
     <1>16, <1>17, <1>18, RenameOwns, FinishRenameOwns
     DEF Next, ObjectCommand, RenameCommand

-----------------------------------------------------------------------------
(* The theorems.                                                           *)

ContentInv == OverlayInv /\ RecordsInv

LEMMA ContentInit == Init => ContentInv
  BY TypeInit, OverlayInit, RecordsInit DEF ContentInv, OverlayInv

LEMMA ContentStep ==
  ASSUME "rename updated" \notin Irregular, "rename to deleted" \notin Irregular
  PROVE  ContentInv /\ [Next]_vars => ContentInv'
  BY TypeStep, OverlayStep, RecordsStep DEF ContentInv, OverlayInv

\* Without the two changenames that OverlayCorrect excludes, even if records
\* cannot be appended: no value record has two owners, and an entry of the
\* overlay leads to the record of its own object.
THEOREM OwnersCorrect ==
  ASSUME "rename updated" \notin Irregular, "rename to deleted" \notin Irregular
  PROVE  Spec => []OneOwnerPerRecord
<1>1. ContentInv => OneOwnerPerRecord
  BY DEF ContentInv, RecordsInv, CatalogRecorded, FilesOK, WellRecorded, Owned,
         EntriesOwn, OneOwnerPerRecord, InFile
<1> QED
  BY <1>1, ContentInit, ContentStep, PTL DEF Spec

\* If records can also be appended, every durable object that is marked as
\* defined has a value, after every rollback, switch and restart.
THEOREM DefinedCorrect ==
  ASSUME "rename updated" \notin Irregular, "rename to deleted" \notin Irregular,
         "save fails" \notin Irregular
  PROVE  Spec => []DefinedHasValue
<1>1. ContentInv => DefinedHasValue
  BY DEF ContentInv, RecordsInv, FilesOK, WellRecorded, DefinedOwned, Owned,
         DefinedHasValue
<1> QED
  BY <1>1, ContentInit, ContentStep, PTL DEF Spec

-----------------------------------------------------------------------------
(* The catalog implements the store.  What the session sees of one name is *)
(* what its entry shows, and a record decides only if there is no entry.   *)

Shown(o, entry) ==
  CASE entry.state = "delete" -> Nothing
    [] entry.state \in {"insert", "update"} ->
         [typeName |-> entry.typeName, value |-> entry.value]
    [] OTHER -> Contents(files)[o]

\* The first write of a changename has taken effect on neither name: usrTxn
\* keeps it from the durable files, and the new name is free until the second.
RenamingRuns == renaming # NoRenaming => txnStarted /\ ~InFile(renaming.new)

StoreInv == ContentInv /\ TypesInv /\ SessionInv /\ RenamingRuns

\* What is not excluded: letnt outside of a block, and switchTransaction.
StoreKept ==
  {"rename updated", "rename to deleted", "rename outside", "begin closed",
   "save fails"} \cap Irregular = {}

LEMMA ContentsPrimed ==
  /\ Contents(files)' = Contents(files')
  /\ Contents(committed)' = Contents(committed')
  BY DEF Contents, Content, StoredValue

LEMMA ShownIsVisible ==
  \A o \in ObjectNames : VisibleObjects[o] = Shown(o, objects[o])
  BY DEF VisibleObjects, Shown

\* Every name that is in use is seen as a pair of a type name and a value.
LEMMA SeenIsContent ==
  ASSUME SecondoCatalogTypeOK, NEW o \in ObjectNames, IsObjectName(o)
  PROVE  \E t \in TypeNames \cup {NoType}, v \in Values \cup {Undefined, Nothing} :
           VisibleObjects[o] = [typeName |-> t, value |-> v]
<1>1. CASE Pending(o)
  <2>1. objects[o] \in ObjectsCatalogEntry /\ objects[o].state \in {"insert", "update"}
    BY <1>1 DEF SecondoCatalogTypeOK, ObjectsCatalogEntry, IsObjectName, Pending
  <2>2. VisibleObjects[o] = [typeName |-> objects[o].typeName,
                             value |-> objects[o].value]
    BY <2>1, ShownIsVisible DEF Shown
  <2> QED
    BY <2>1, <2>2 DEF ObjectsCatalogEntry
<1>2. CASE ~Pending(o)
  <2>1. /\ files.objects[o] \in ObjectRecord
        /\ StoredValue(files.objects[o], files.values)
             \in Values \cup {Undefined, Nothing}
        /\ files.objects[o] # Nothing
    BY <1>2, FileObjectType DEF IsObjectName, InFile
  <2>2. VisibleObjects[o] =
          [typeName |-> files.objects[o].typeName,
           value |-> StoredValue(files.objects[o], files.values)]
    BY <1>2, <2>1, ShownIsVisible DEF Shown, Pending, Contents, Content
  <2>3. files.objects[o].typeName \in TypeNames \cup {NoType}
    BY <2>1 DEF ObjectRecord
  <2> QED
    BY <2>1, <2>2, <2>3
<1> QED
  BY <1>1, <1>2

LEMMA SeenIsUsed ==
  ASSUME SecondoCatalogTypeOK, NEW o \in ObjectNames
  PROVE  VisibleObjects[o] # Nothing <=> IsObjectName(o)
<1>1. CASE IsObjectName(o)
  <2>1. PICK t \in TypeNames \cup {NoType}, v \in Values \cup {Undefined, Nothing} :
          VisibleObjects[o] = [typeName |-> t, value |-> v]
    BY <1>1, SeenIsContent
  <2> QED
    BY <1>1, <2>1, NothingAssumption
<1>2. CASE ~IsObjectName(o)
  <2>1. objects[o].state \in {"insert", "update", "delete", "none"}
    BY DEF SecondoCatalogTypeOK, ObjectsCatalogEntry
  <2> QED
    BY <1>2, <2>1, ShownIsVisible
       DEF Shown, IsObjectName, Pending, InFile, Contents, Content
<1> QED
  BY <1>1, <1>2

\* One entry changes, and what the session sees of its name.
LEMMA EntryShows ==
  ASSUME SecondoCatalogTypeOK, NEW o \in ObjectNames, NEW entry,
         objects' = [objects EXCEPT ![o] = entry], UNCHANGED <<files, types>>
  PROVE  /\ VisibleObjects' = [VisibleObjects EXCEPT ![o] = Shown(o, entry)]
         /\ VisibleTypes' = VisibleTypes
<1>1. \A p \in ObjectNames :
        objects'[p] = IF p = o THEN entry ELSE objects[p]
  BY DEF SecondoCatalogTypeOK
<1>2. Contents(files)' = Contents(files)
  BY ContentsPrimed
<1>3. \A p \in ObjectNames :
        VisibleObjects'[p] = IF p = o THEN Shown(o, entry) ELSE VisibleObjects[p]
  BY <1>1, <1>2 DEF VisibleObjects, Shown
<1>4. VisibleObjects' = [p \in ObjectNames |-> VisibleObjects'[p]]
  BY DEF VisibleObjects
<1>5. VisibleObjects = [p \in ObjectNames |-> VisibleObjects[p]]
  BY DEF VisibleObjects
<1>6. VisibleTypes' = VisibleTypes
  BY DEF VisibleTypes, MemberType
<1> HIDE DEF VisibleObjects
<1> QED
  BY <1>3, <1>4, <1>5, <1>6
\* InsertObject makes a name that was not seen.
LEMMA InsertShows ==
  ASSUME SecondoCatalogTypeOK, NEW o \in ObjectNames, NEW t, NEW v,
         InsertObject(o, t, v)
  PROVE  /\ VisibleObjects[o] = Nothing
         /\ VisibleObjects' = [VisibleObjects EXCEPT ![o] =
                                 [typeName |-> t, value |-> v]]
         /\ VisibleTypes' = VisibleTypes
<1> DEFINE entry == [state |-> IF objects[o].state = "delete" THEN "update"
                                                            ELSE "insert",
                     typeName |-> t, value |-> v, valueRecordId |-> NoRecord]
<1>1. objects' = [objects EXCEPT ![o] = entry] /\ UNCHANGED <<files, types>>
  BY DEF InsertObject
<1>2. Shown(o, entry) = [typeName |-> t, value |-> v]
  BY DEF Shown
<1> HIDE DEF entry
<1>3. VisibleObjects[o] = Nothing
  BY SeenIsUsed DEF InsertObject
<1> QED
  BY <1>1, <1>2, <1>3, EntryShows

\* UpdateObject leaves the type name as it is, wherever it is found.
LEMMA UpdateShows ==
  ASSUME SecondoCatalogTypeOK, NEW o \in ObjectNames, NEW v, UpdateObject(o, v)
  PROVE  /\ VisibleObjects[o] # Nothing
         /\ VisibleObjects' = [VisibleObjects EXCEPT ![o] =
                                 [VisibleObjects[o] EXCEPT !.value = v]]
         /\ VisibleTypes' = VisibleTypes
<1> DEFINE entry == IF Pending(o) THEN [objects[o] EXCEPT !.value = v]
                    ELSE [state |-> "update",
                          typeName |-> files.objects[o].typeName, value |-> v,
                          valueRecordId |-> files.objects[o].valueRecordId]
<1>1. objects' = [objects EXCEPT ![o] = entry] /\ UNCHANGED <<files, types>>
  BY DEF UpdateObject
<1>2. IsObjectName(o)
  BY DEF UpdateObject
<1>3. Shown(o, entry) = [VisibleObjects[o] EXCEPT !.value = v]
  <2>1. CASE Pending(o)
    <3>1. objects[o] \in ObjectsCatalogEntry /\ objects[o].state \in {"insert", "update"}
      BY <1>2, <2>1 DEF SecondoCatalogTypeOK, ObjectsCatalogEntry, IsObjectName,
                        Pending
    <3>2. /\ entry.state = objects[o].state
          /\ entry.typeName = objects[o].typeName
          /\ entry.value = v
      BY <2>1, <3>1 DEF ObjectsCatalogEntry
    <3>3. VisibleObjects[o] = [typeName |-> objects[o].typeName,
                               value |-> objects[o].value]
      BY <3>1, ShownIsVisible DEF Shown
    <3>4. Shown(o, entry) = [typeName |-> objects[o].typeName, value |-> v]
      BY <3>1, <3>2 DEF Shown
    <3> QED
      BY <3>3, <3>4
  <2>2. CASE ~Pending(o)
    <3>1. files.objects[o] # Nothing
      BY <1>2, <2>2 DEF IsObjectName, InFile
    <3>2. VisibleObjects[o] =
            [typeName |-> files.objects[o].typeName,
             value |-> StoredValue(files.objects[o], files.values)]
      BY <2>2, <3>1, ShownIsVisible DEF Shown, Pending, Contents, Content
    <3>3. Shown(o, entry) = [typeName |-> files.objects[o].typeName, value |-> v]
      BY <2>2 DEF Shown
    <3> QED
      BY <3>2, <3>3
  <2> QED
    BY <2>1, <2>2
<1> HIDE DEF entry
<1> QED
  BY <1>1, <1>2, <1>3, EntryShows, SeenIsUsed

\* An inserted entry that is removed uncovers no record.
LEMMA DropShows ==
  ASSUME SecondoCatalogTypeOK, OverlayMatchesFiles, NEW o \in ObjectNames,
         DeleteObject(o) \/ (KillObject(o) /\ Pending(o))
  PROVE  /\ VisibleObjects[o] # Nothing
         /\ VisibleObjects' = [VisibleObjects EXCEPT ![o] = Nothing]
         /\ VisibleTypes' = VisibleTypes
<1>0. objects[o] \in ObjectsCatalogEntry /\ IsObjectName(o)
  BY DEF SecondoCatalogTypeOK, DeleteObject, KillObject
<1> DEFINE marked == [objects[o] EXCEPT !.state = "delete"]
           made   == [state |-> "delete",
                      typeName |-> files.objects[o].typeName,
                      value |-> StoredValue(files.objects[o], files.values),
                      valueRecordId |-> NoRecord]
<1>1. marked.state = "delete" /\ made.state = "delete"
  BY <1>0 DEF ObjectsCatalogEntry
<1>2. \E entry \in {NoEntry, marked, made} :
        /\ objects' = [objects EXCEPT ![o] = entry]
        /\ UNCHANGED <<files, types>>
        /\ entry = NoEntry => objects[o].state = "insert"
  <2>0. NoEntry.state = "none"
    BY DEF NoEntry
  <2>1. CASE DeleteObject(o)
    <3>1. CASE objects[o].state = "insert"
      BY <2>1, <3>1 DEF DeleteObject
    <3>2. CASE objects[o].state = "update"
      BY <1>1, <2>0, <2>1, <3>2 DEF DeleteObject
    <3>3. CASE objects[o].state \notin {"insert", "update"}
      BY <1>1, <2>0, <2>1, <3>3 DEF DeleteObject
    <3> QED
      BY <3>1, <3>2, <3>3
  <2>2. CASE KillObject(o) /\ Pending(o)
    BY <1>1, <2>0, <2>2 DEF KillObject
  <2> QED
    BY <2>1, <2>2
<1> HIDE DEF marked, made
<1>3. PICK entry \in {NoEntry, marked, made} :
        /\ objects' = [objects EXCEPT ![o] = entry]
        /\ UNCHANGED <<files, types>>
        /\ entry = NoEntry => objects[o].state = "insert"
  BY <1>2
<1>4. Shown(o, entry) = Nothing
  <2>1. CASE entry = NoEntry
    <3>1. ~InFile(o)
      BY <1>3, <2>1 DEF OverlayMatchesFiles, Pending
    <3> QED
      BY <2>1, <3>1 DEF Shown, NoEntry, InFile, Contents, Content
  <2>2. CASE entry # NoEntry
    BY <1>1, <1>3, <2>2 DEF Shown
  <2> QED
    BY <2>1, <2>2
<1> QED
  BY <1>0, <1>3, <1>4, EntryShows, SeenIsUsed

\* The value record that KillObject deletes is read through no other name.
LEMMA KillShows ==
  ASSUME SecondoCatalogTypeOK, OverlayMatchesFiles, CatalogRecorded,
         NEW o \in ObjectNames, KillObject(o)
  PROVE  /\ VisibleObjects[o] # Nothing
         /\ VisibleObjects' = [VisibleObjects EXCEPT ![o] = Nothing]
         /\ VisibleTypes' = VisibleTypes
<1>1. CASE Pending(o)
  BY <1>1, DropShows
<1>2. CASE ~Pending(o)
  <2>1. /\ UNCHANGED <<types, objects>>
        /\ files'.types = files.types
        /\ files'.objects = [files.objects EXCEPT ![o] = Nothing]
        /\ files'.values = [r \in RecordIds |->
                              IF r = files.objects[o].valueRecordId
                                THEN Nothing ELSE files.values[r]]
    BY <1>2 DEF KillObject, SecondoCatalogTypeOK, Files
  <2>2. InFile(o) /\ \A p \in ObjectNames : files'.objects[p] =
                       IF p = o THEN Nothing ELSE files.objects[p]
    BY <1>2, <2>1 DEF KillObject, IsObjectName, SecondoCatalogTypeOK, Files
  <2>3. ASSUME NEW p \in ObjectNames, p # o
        PROVE  Content(files'.objects[p], files'.values) =
                 Content(files.objects[p], files.values)
    <3>1. CASE Owned(files, p)
      <4> DEFINE r == files.objects[p].valueRecordId
      <4>1. r \in RecordIds
        BY <3>1 DEF SecondoCatalogTypeOK, Files, ObjectRecord, Owned
      <4>2. r # files.objects[o].valueRecordId
        BY <2>2, <2>3, <3>1 DEF CatalogRecorded, FilesOK, WellRecorded, Owned,
                                InFile
      <4>3. files'.values[r] = files.values[r]
        BY <2>1, <4>1, <4>2
      <4> QED
        BY <2>2, <2>3, <4>3 DEF Content, StoredValue
    <3>2. CASE ~Owned(files, p)
      BY <2>2, <2>3, <3>2 DEF Content, StoredValue, Owned
    <3> QED
      BY <3>1, <3>2
  <2>4. \A p \in ObjectNames : VisibleObjects'[p] =
          IF p = o THEN Nothing ELSE VisibleObjects[p]
    <3>1. \A p \in ObjectNames : Contents(files)'[p] =
            IF p = o THEN Nothing ELSE Contents(files)[p]
      BY <2>2, <2>3, ContentsPrimed DEF Contents, Content
    <3>2. objects[o].state = "none"
      BY <1>2 DEF Pending
    <3> QED
      BY <2>1, <3>1, <3>2 DEF VisibleObjects
  <2>5. /\ VisibleObjects' = [p \in ObjectNames |-> VisibleObjects'[p]]
        /\ VisibleObjects = [p \in ObjectNames |-> VisibleObjects[p]]
    BY DEF VisibleObjects
  <2>6. VisibleTypes' = VisibleTypes
    BY <2>1 DEF VisibleTypes, MemberType
  <2>7. VisibleObjects[o] # Nothing
    BY SeenIsUsed DEF KillObject
  <2> HIDE DEF VisibleObjects
  <2> QED
    BY <2>4, <2>5, <2>6, <2>7
<1> QED
  BY <1>1, <1>2

\* An inserted entry that moves to another name uncovers no record.
LEMMA RenameEntryShows ==
  ASSUME SecondoCatalogTypeOK, OverlayMatchesFiles,
         NEW old \in ObjectNames, NEW new \in ObjectNames,
         objects[old].state # "update", RenameEntry(old, new)
  PROVE  /\ VisibleObjects[old] # Nothing
         /\ VisibleObjects[new] = Nothing
         /\ VisibleObjects' = [VisibleObjects EXCEPT
                                 ![old] = Nothing, ![new] = VisibleObjects[old]]
         /\ VisibleTypes' = VisibleTypes
<1>1. objects[old].state = "insert" /\ ~InFile(old)
  BY DEF RenameEntry, RenamePossible, IsObjectName, Pending,
         SecondoCatalogTypeOK, ObjectsCatalogEntry, OverlayMatchesFiles
<1>2. VisibleObjects[old] # Nothing /\ VisibleObjects[new] = Nothing
  BY SeenIsUsed DEF RenameEntry, RenamePossible
<1>3. /\ UNCHANGED <<files, types>>
      /\ \A p \in ObjectNames :
           objects'[p] = IF p = new THEN objects[old]
                         ELSE IF p = old THEN NoEntry ELSE objects[p]
  BY DEF RenameEntry, SecondoCatalogTypeOK
<1>4. Contents(files)' = Contents(files)
  BY <1>3, ContentsPrimed
<1>5. \A p \in ObjectNames : VisibleObjects'[p] =
        IF p = new THEN VisibleObjects[old]
        ELSE IF p = old THEN Nothing ELSE VisibleObjects[p]
  <2>1. ASSUME NEW p \in ObjectNames, p \notin {old, new}
        PROVE  VisibleObjects'[p] = VisibleObjects[p]
    BY <1>3, <1>4, <2>1 DEF VisibleObjects
  <2>2. VisibleObjects'[new] = VisibleObjects[old]
    BY <1>1, <1>3 DEF VisibleObjects
  <2>3. new # old => VisibleObjects'[old] = Nothing
    BY <1>1, <1>3, <1>4 DEF VisibleObjects, NoEntry, Contents, Content, InFile
  <2> QED
    BY <2>1, <2>2, <2>3
<1>6. /\ VisibleObjects' = [p \in ObjectNames |-> VisibleObjects'[p]]
      /\ VisibleObjects = [p \in ObjectNames |-> VisibleObjects[p]]
  BY DEF VisibleObjects
<1>7. VisibleTypes' = VisibleTypes
  BY <1>3 DEF VisibleTypes, MemberType
<1> QED
  BY <1>2, <1>5, <1>6, <1>7

\* The record that changename has taken out of the file is already seen
\* under the new name.
LEMMA RenameShows ==
  ASSUME SecondoCatalogTypeOK, NEW old \in ObjectNames, NEW new \in ObjectNames,
         renaming = NoRenaming, renaming' # NoRenaming,
         Command_ChangeName(old, new)
  PROVE  /\ RenamedObjects[old] # Nothing
         /\ RenamedObjects[new] = Nothing
         /\ RenamedObjects' = [RenamedObjects EXCEPT
                                 ![old] = Nothing, ![new] = RenamedObjects[old]]
         /\ VisibleTypes' = VisibleTypes
<1>1. /\ UNCHANGED <<types, objects>>
      /\ files'.values = files.values
      /\ files'.objects = [files.objects EXCEPT ![old] = Nothing]
      /\ files'.types = files.types
  BY DEF Command_ChangeName, RenameDeleteRecord, SecondoCatalogTypeOK, Files
<1>2. \A p \in ObjectNames : files'.objects[p] =
        IF p = old THEN Nothing ELSE files.objects[p]
  BY <1>1 DEF SecondoCatalogTypeOK, Files
<1>3. /\ IsObjectName(old) /\ ~IsObjectName(new) /\ ~Pending(old)
      /\ renaming'.new = new
      /\ renaming'.record = files.objects[old]
  BY DEF Command_ChangeName, RenameDeleteRecord, RenamePossible
<1>4. RenamedObjects = VisibleObjects
  BY DEF RenamedObjects, VisibleObjects
<1>5. VisibleObjects[old] # Nothing /\ VisibleObjects[new] = Nothing
  BY <1>3, SeenIsUsed
<1>6. \A p \in ObjectNames : RenamedObjects'[p] =
        IF p = new THEN VisibleObjects[old]
        ELSE IF p = old THEN Nothing ELSE VisibleObjects[p]
  <2>1. RenamedObjects'[new] = VisibleObjects[old]
    <3>1. RenamedObjects'[new] = Content(files.objects[old], files.values)
      BY <1>1, <1>3 DEF RenamedObjects, Content, StoredValue
    <3> QED
      BY <1>3, <3>1 DEF VisibleObjects, Pending, Contents
  <2>2. ASSUME NEW p \in ObjectNames, p # new
        PROVE  RenamedObjects'[p] = VisibleObjects'[p]
    BY <1>3, <2>2 DEF RenamedObjects
  <2>3. ASSUME NEW p \in ObjectNames
        PROVE  Contents(files)'[p] = IF p = old THEN Nothing ELSE Contents(files)[p]
    BY <1>1, <1>2 DEF Contents, Content, StoredValue
  <2>4. ASSUME NEW p \in ObjectNames
        PROVE  VisibleObjects'[p] = IF p = old THEN Nothing ELSE VisibleObjects[p]
    BY <1>1, <1>3, <2>3 DEF VisibleObjects, Pending
  <2> QED
    BY <2>1, <2>2, <2>4
<1>7. /\ RenamedObjects' = [p \in ObjectNames |-> RenamedObjects'[p]]
      /\ VisibleObjects = [p \in ObjectNames |-> VisibleObjects[p]]
  BY DEF RenamedObjects, VisibleObjects
<1>8. VisibleTypes' = VisibleTypes
  BY <1>1 DEF VisibleTypes, MemberType
<1> QED
  BY <1>4, <1>5, <1>6, <1>7, <1>8

\* The second write of changename shows nothing new.
LEMMA FinishRenameShows ==
  ASSUME OverlayInv, RenamingRuns, FinishRename
  PROVE  RenamedObjects' = RenamedObjects /\ VisibleTypes' = VisibleTypes
<1>1. /\ SecondoCatalogTypeOK
      /\ renaming # NoRenaming
      /\ renaming.new \in ObjectNames
      /\ ~Pending(renaming.new)
      /\ ~InFile(renaming.new)
  BY DEF FinishRename, OverlayInv, SecondoCommandsTypeOK, Renaming, RenamingFits,
         RenamingRuns
<1>2. /\ UNCHANGED <<types, objects>>
      /\ files'.values = files.values
      /\ files'.types = files.types
      /\ \A o \in ObjectNames : files'.objects[o] =
           IF o = renaming.new THEN renaming.record ELSE files.objects[o]
  BY <1>1 DEF FinishRename, RenameInsertRecord, InFile, SecondoCatalogTypeOK, Files
<1>3. ASSUME NEW o \in ObjectNames
      PROVE  RenamedObjects'[o] = RenamedObjects[o]
  <2>1. RenamedObjects'[o] = VisibleObjects'[o]
    BY DEF RenamedObjects, FinishRename
  <2>2. Contents(files)'[o] =
          IF o = renaming.new THEN Content(renaming.record, files.values)
                              ELSE Contents(files)[o]
    BY <1>2 DEF Contents, Content, StoredValue
  <2>3. CASE o = renaming.new
    BY <1>1, <1>2, <2>1, <2>2, <2>3 DEF RenamedObjects, VisibleObjects, Pending
  <2>4. CASE o # renaming.new
    <3>1. RenamedObjects[o] = VisibleObjects[o]
      BY <2>4 DEF RenamedObjects
    <3> QED
      BY <1>2, <2>1, <2>2, <2>4, <3>1 DEF VisibleObjects
  <2> QED
    BY <2>3, <2>4
<1>4. /\ RenamedObjects' = [o \in ObjectNames |-> RenamedObjects'[o]]
      /\ RenamedObjects = [o \in ObjectNames |-> RenamedObjects[o]]
  BY DEF RenamedObjects
<1>5. VisibleTypes' = VisibleTypes
  BY <1>2 DEF VisibleTypes, MemberType
<1> QED
  BY <1>3, <1>4, <1>5

\* A type that goes is used by no object that is seen: TypeUsedByObject looks
\* at more objects than those.
LEMMA TypeShows ==
  ASSUME SecondoCatalogTypeOK, OverlayMatchesFiles, NEW t \in TypeNames
  PROVE  /\ InsertType(t) => /\ t \notin VisibleTypes
                             /\ VisibleTypes' = VisibleTypes \cup {t}
                             /\ VisibleObjects' = VisibleObjects
         /\ DeleteType(t) =>
              /\ t \in VisibleTypes
              /\ \A o \in ObjectNames : VisibleObjects[o] # Nothing =>
                                          VisibleObjects[o].typeName # t
              /\ VisibleTypes' = VisibleTypes \ {t}
              /\ VisibleObjects' = VisibleObjects
<1>1. ASSUME UNCHANGED <<files, objects>>
      PROVE  VisibleObjects' = VisibleObjects
  BY <1>1 DEF VisibleObjects, Contents, Content, StoredValue
<1>2. CASE InsertType(t)
  <2>1. \A u \in TypeNames : MemberType(u)' <=> MemberType(u) \/ u = t
    BY <1>2 DEF InsertType, MemberType, SecondoCatalogTypeOK
  <2>2. VisibleTypes' = VisibleTypes \cup {t}
    BY <2>1 DEF VisibleTypes
  <2> QED
    BY <1>1, <1>2, <2>2 DEF InsertType, DeleteType, VisibleTypes
<1>3. CASE DeleteType(t)
  <2>1. \A u \in TypeNames : MemberType(u)' <=> MemberType(u) /\ u # t
    BY <1>3 DEF DeleteType, MemberType, SecondoCatalogTypeOK, OverlayMatchesFiles
  <2>2. VisibleTypes' = VisibleTypes \ {t}
    BY <2>1 DEF VisibleTypes
  <2>3. ASSUME NEW o \in ObjectNames, VisibleObjects[o] # Nothing
        PROVE  VisibleObjects[o].typeName # t
    <3>0. ~TypeUsedByObject(t)
      BY <1>3 DEF DeleteType
    <3>1. IsObjectName(o)
      BY <2>3, SeenIsUsed
    <3>2. CASE objects[o].state \in {"insert", "update"}
      <4>1. VisibleObjects[o] = [typeName |-> objects[o].typeName,
                                 value |-> objects[o].value]
        BY <3>2, ShownIsVisible DEF Shown
      <4> QED
        BY <3>0, <3>2, <4>1 DEF TypeUsedByObject
    <3>3. CASE ~Pending(o)
      <4>1. InFile(o)
        BY <3>1, <3>3 DEF IsObjectName
      <4>2. VisibleObjects[o] =
              [typeName |-> files.objects[o].typeName,
               value |-> StoredValue(files.objects[o], files.values)]
        BY <3>3, <4>1, ShownIsVisible
           DEF Shown, Pending, Contents, Content, InFile
      <4> QED
        BY <3>0, <4>1, <4>2 DEF TypeUsedByObject
    <3> QED
      BY <3>1, <3>2, <3>3
         DEF IsObjectName, Pending, SecondoCatalogTypeOK, ObjectsCatalogEntry
  <2>4. t \in VisibleTypes
    BY <1>3 DEF DeleteType, VisibleTypes
  <2> QED
    BY <1>1, <1>3, <2>2, <2>3, <2>4 DEF InsertType, DeleteType
<1> QED
  BY <1>2, <1>3

\* Without an overlay the session sees the files.
LEMMA ClearedShows ==
  ASSUME CleanUpEntries, files' \in Files, renaming' = NoRenaming
  PROVE  VisibleTypes' = files'.types /\ RenamedObjects' = Contents(files')
<1>1. VisibleTypes' = files'.types
  BY DEF CleanUpEntries, VisibleTypes, MemberType, NoTypes, Files
<1>2. VisibleObjects' = Contents(files)'
  BY DEF CleanUpEntries, VisibleObjects, NoObjects, NoEntry, Contents
<1>3. RenamedObjects' = VisibleObjects'
  BY DEF RenamedObjects, VisibleObjects
<1> QED
  BY <1>1, <1>2, <1>3, ContentsPrimed

\* The number that AppendRecord gives to an object leads to its value ...
LEMMA AppendedShows ==
  ASSUME RecordsLeft, NEW o \in Appended
  PROVE  /\ AppendedRecord[o] \in RecordIds
         /\ SavedValue(AppendedRecord[o], {}) = objects[o].value
<1>1. /\ AppendedRecord[o] \in RecordIds
      /\ \A p \in Appended \ {} : AppendedRecord[p] = AppendedRecord[o] => p = o
  BY AppendedRecordIsNumbering
<1> QED
  BY <1>1 DEF SavedValue

\* ... and the number that an object keeps leads to the value it is given, or
\* to the value it had.
LEMMA KeptShows ==
  ASSUME SecondoCatalogTypeOK, CatalogRecorded, RecordsLeft,
         NEW o \in ObjectNames, Owned(files, o), objects[o].state # "delete"
  PROVE  LET r == files.objects[o].valueRecordId
         IN  /\ (o \in Saved /\ objects[o].valueRecordId = r) =>
                   SavedValue(r, {}) = objects[o].value
             /\ ~Pending(o) => SavedValue(r, {}) = files.values[r]
<1> DEFINE r == files.objects[o].valueRecordId
<1>1. r \in RecordIds /\ r \notin DroppedRecords /\ RemainingValues[r] # Nothing
  BY KeptRecords
<1>2. RemainingValues[r] = files.values[r]
  BY <1>1 DEF RemainingValues
<1>3. ~\E p \in Appended \ {} : AppendedRecord[p] = r
  BY <1>1, AppendedRecordIsNumbering
<1>4. ASSUME NEW p \in Overwritten, objects[p].valueRecordId = r
      PROVE  p = o
  <2>1. p \in ObjectNames /\ r # NoRecord
    BY DEF Overwritten, Saved, Owned
  <2>2. Owned(files, p) /\ files.objects[p].valueRecordId = r
    BY <1>4, <2>1 DEF CatalogRecorded, EntriesOwn, Owned, InFile
  <2> QED
    BY <2>1, <2>2 DEF CatalogRecorded, FilesOK, WellRecorded
<1>5. ASSUME o \in Saved, objects[o].valueRecordId = r
      PROVE  SavedValue(r, {}) = objects[o].value
  <2>1. o \in Overwritten
    BY <1>1, <1>5 DEF Overwritten, Appended, Owned
  <2> HIDE DEF r
  <2>2. (CHOOSE p \in Overwritten : objects[p].valueRecordId = r) = o
    BY <1>4, <1>5, <2>1
  <2> QED
    BY <1>3, <1>5, <2>1, <2>2 DEF SavedValue
<1>6. ASSUME ~Pending(o)
      PROVE  SavedValue(r, {}) = files.values[r]
  <2>1. o \notin Overwritten
    BY <1>6 DEF Overwritten, Saved, Pending
  <2> HIDE DEF r
  <2> QED
    BY <1>2, <1>3, <1>4, <2>1 DEF SavedValue
<1> QED
  BY <1>5, <1>6

\* What an entry that is written leaves in the files.
LEMMA WrittenShows ==
  ASSUME SecondoCatalogTypeOK, OverlayMatchesFiles, CatalogRecorded, RecordsLeft,
         NEW o \in ObjectNames, objects[o].state \in {"insert", "update"}
  PROVE  LET rec == DefinedRecord(o, {})
         IN  /\ rec \in ObjectRecord
             /\ rec.typeName = objects[o].typeName
             /\ rec.valueDefined <=> objects[o].value # Undefined
             /\ rec.valueDefined =>
                  /\ rec.valueRecordId \in RecordIds
                  /\ SavedValue(rec.valueRecordId, {}) = objects[o].value
<1> DEFINE und == UndefinedRecord(o)
           rec == DefinedRecord(o, {})
           id  == objects[o].valueRecordId
<1>1. objects[o] \in ObjectsCatalogEntry
  BY DEF SecondoCatalogTypeOK
<1>2. /\ und \in ObjectRecord
      /\ und.typeName = objects[o].typeName
      /\ und.valueDefined = FALSE
      /\ id # NoRecord => und.valueRecordId = id /\ Owned(files, o)
                           /\ files.objects[o].valueRecordId = id
  <2>1. CASE objects[o].state = "insert"
    <3>1. ~InFile(o)
      BY <2>1 DEF OverlayMatchesFiles, Pending
    <3>2. und = [typeName |-> objects[o].typeName, valueDefined |-> FALSE,
                 valueRecordId |-> NoRecord]
      BY <2>1, <3>1 DEF UndefinedRecord
    <3>3. id = NoRecord
      BY <3>1 DEF CatalogRecorded, EntriesOwn
    <3> HIDE DEF und
    <3> QED
      BY <1>1, <3>2, <3>3 DEF ObjectRecord, ObjectsCatalogEntry
  <2>2. CASE objects[o].state = "update"
    <3>1. InFile(o)
      BY <2>2 DEF OverlayMatchesFiles, Pending
    <3>2. und = [files.objects[o] EXCEPT !.typeName = objects[o].typeName,
                                         !.valueDefined = FALSE]
      BY <2>2, <3>1 DEF UndefinedRecord
    <3>3. files.objects[o] \in ObjectRecord
      BY <3>1 DEF SecondoCatalogTypeOK, Files, InFile
    <3>4. id # NoRecord => id = files.objects[o].valueRecordId
      BY DEF CatalogRecorded, EntriesOwn
    <3> HIDE DEF und
    <3>5. /\ und \in ObjectRecord
          /\ und.typeName = objects[o].typeName
          /\ und.valueDefined = FALSE
          /\ und.valueRecordId = files.objects[o].valueRecordId
      BY <1>1, <3>2, <3>3 DEF ObjectRecord, ObjectsCatalogEntry
    <3> QED
      BY <3>1, <3>4, <3>5 DEF Owned, InFile
  <2> QED
    BY <2>1, <2>2
<1>3. und # Nothing
  BY <1>2, NothingAssumption
<1>4. CASE objects[o].value = Undefined
  <2>1. rec = und
    BY <1>4 DEF DefinedRecord, Appended, Saved
  <2> QED
    BY <1>2, <1>4, <2>1
<1>5. CASE objects[o].value # Undefined
  <2>1. o \in Saved
    BY <1>3, <1>5 DEF Saved
  <2>2. CASE id = NoRecord
    <3>1. o \in Appended
      BY <2>1, <2>2 DEF Appended
    <3>2. rec = [und EXCEPT !.valueDefined = TRUE,
                            !.valueRecordId = AppendedRecord[o]]
      BY <3>1 DEF DefinedRecord
    <3>3. /\ AppendedRecord[o] \in RecordIds
          /\ SavedValue(AppendedRecord[o], {}) = objects[o].value
      BY <3>1, AppendedShows
    <3> HIDE DEF und, rec
    <3>4. /\ rec \in ObjectRecord
          /\ rec.typeName = objects[o].typeName
          /\ rec.valueDefined = TRUE
          /\ rec.valueRecordId = AppendedRecord[o]
      BY <1>2, <3>2, <3>3 DEF ObjectRecord
    <3> QED
      BY <1>5, <3>3, <3>4 DEF rec
  <2>3. CASE id # NoRecord
    <3>1. o \in Saved \ Appended
      BY <2>1, <2>3 DEF Appended
    <3>2. rec = [und EXCEPT !.valueDefined = TRUE]
      BY <3>1 DEF DefinedRecord
    <3>3. id \in RecordIds /\ SavedValue(id, {}) = objects[o].value
      BY <1>1, <1>2, <2>1, <2>3, KeptShows DEF ObjectsCatalogEntry
    <3> HIDE DEF und, rec
    <3>4. /\ rec \in ObjectRecord
          /\ rec.typeName = objects[o].typeName
          /\ rec.valueDefined = TRUE
          /\ rec.valueRecordId = id
      BY <1>2, <2>3, <3>2 DEF ObjectRecord
    <3> QED
      BY <1>5, <3>3, <3>4 DEF rec
  <2> QED
    BY <2>2, <2>3
<1> QED
  BY <1>4, <1>5

\* CleanUp writes what the session sees.
LEMMA CleanUpShows ==
  ASSUME SecondoCatalogTypeOK, OverlayMatchesFiles, CatalogRecorded, RecordsLeft
  PROVE  Contents(CleanUpFiles({})) = VisibleObjects
<1> DEFINE values == [r \in RecordIds |-> SavedValue(r, {})]
<1>1. ASSUME NEW o \in ObjectNames
      PROVE  Content(DefinedRecord(o, {}), values) = Shown(o, objects[o])
  <2>0. objects[o].state \in {"insert", "update", "delete", "none"}
    BY <1>1 DEF SecondoCatalogTypeOK, ObjectsCatalogEntry
  <2>1. CASE objects[o].state \in {"insert", "update"}
    <3> DEFINE rec == DefinedRecord(o, {})
    <3>1. /\ rec \in ObjectRecord
          /\ rec.typeName = objects[o].typeName
          /\ rec.valueDefined <=> objects[o].value # Undefined
          /\ rec.valueDefined =>
               /\ rec.valueRecordId \in RecordIds
               /\ SavedValue(rec.valueRecordId, {}) = objects[o].value
      BY <1>1, <2>1, WrittenShows
    <3> HIDE DEF rec
    <3>2. rec # Nothing
      BY <3>1, NothingAssumption
    <3>3. StoredValue(rec, values) = objects[o].value
      BY <3>1, CatalogAssumption DEF StoredValue
    <3>4. Content(rec, values) = [typeName |-> objects[o].typeName,
                                  value |-> objects[o].value]
      BY <3>1, <3>2, <3>3 DEF Content
    <3> QED
      BY <2>1, <3>4 DEF Shown, rec
  <2>2. CASE objects[o].state = "delete"
    <3>1. DefinedRecord(o, {}) = Nothing
      BY <2>2 DEF DefinedRecord, UndefinedRecord, Appended, Saved
    <3> QED
      BY <2>2, <3>1 DEF Content, Shown
  <2>3. CASE objects[o].state = "none"
    <3>1. DefinedRecord(o, {}) = files.objects[o]
      BY <2>3 DEF DefinedRecord, UndefinedRecord, Appended, Saved
    <3>2. Content(files.objects[o], values) = Content(files.objects[o], files.values)
      <4>1. CASE Owned(files, o)
        <5> DEFINE r == files.objects[o].valueRecordId
        <5>1. r \in RecordIds /\ SavedValue(r, {}) = files.values[r]
          BY <1>1, <2>3, <4>1, KeptShows, KeptRecords DEF Pending
        <5> QED
          BY <5>1 DEF Content, StoredValue
      <4>2. CASE ~Owned(files, o)
        BY <4>2 DEF Content, StoredValue, Owned
      <4> QED
        BY <4>1, <4>2
    <3> QED
      BY <1>1, <2>3, <3>1, <3>2 DEF Shown, Contents
  <2> QED
    BY <2>0, <2>1, <2>2, <2>3
<1>2. VisibleObjects = [o \in ObjectNames |-> Shown(o, objects[o])]
  BY DEF VisibleObjects, Shown
<1> QED
  BY <1>1, <1>2 DEF Contents, CleanUpFiles

-----------------------------------------------------------------------------
(* Every step is a step of the store.                                      *)

LEMMA NotRenaming ==
  /\ renaming = NoRenaming => RenamedObjects = VisibleObjects
  /\ renaming' = NoRenaming => RenamedObjects' = VisibleObjects'
  BY DEF RenamedObjects, VisibleObjects

\* Only the overlay and the files change, no changename is on its way, and
\* usrTxn keeps the durable files as they are.
Quiet == renaming = NoRenaming /\ UNCHANGED <<committed, renaming>>

LEMMA QuietKeeps ==
  ASSUME Quiet
  PROVE  /\ RenamedObjects = VisibleObjects
         /\ RenamedObjects' = VisibleObjects'
         /\ committed.types' = committed.types
         /\ Contents(committed)' = Contents(committed)
  BY NotRenaming, ContentsPrimed DEF Quiet

LEMMA StartIsQuiet ==
  ASSUME StoreKept, SessionInv, StartCommand
  PROVE  Quiet
  BY DEF StoreKept, SessionInv, BlockRuns, StartCommand, Write, Idle, Quiet

LEMMA CreateStep ==
  ASSUME SecondoCatalogTypeOK, Quiet, NEW o \in ObjectNames, NEW t \in KnownNames,
         NEW v \in Values \cup {Undefined}, InsertObject(o, t, v)
  PROVE  Store!Create(o)
  BY InsertShows, QuietKeeps
     DEF Store!Create, Store!Exists, Store!Replace, KnownNames

LEMMA OverwriteStep ==
  ASSUME SecondoCatalogTypeOK, Quiet, NEW o \in ObjectNames, NEW v \in Values,
         UpdateObject(o, v)
  PROVE  Store!Overwrite(o)
  BY UpdateShows, QuietKeeps DEF Store!Overwrite, Store!Exists, Store!Replace

LEMMA RemoveStep ==
  ASSUME SecondoCatalogTypeOK, OverlayMatchesFiles, CatalogRecorded, Quiet,
         NEW o \in ObjectNames, DeleteObject(o) \/ KillObject(o)
  PROVE  Store!Remove(o)
  BY DropShows, KillShows, QuietKeeps
     DEF Store!Remove, Store!Exists, Store!Replace

LEMMA DefineStep ==
  ASSUME SecondoCatalogTypeOK, OverlayMatchesFiles, Quiet, NEW t \in TypeNames,
         InsertType(t) \/ DeleteType(t)
  PROVE  Store!DefineType(t) \/ Store!RemoveType(t)
<1>1. CASE InsertType(t)
  BY <1>1, TypeShows, QuietKeeps DEF Store!DefineType
<1>2. CASE DeleteType(t)
  <2>1. t \notin Store!UsedTypes
    BY <1>2, TypeShows, QuietKeeps DEF Store!UsedTypes, Store!Exists
  <2> QED
    BY <1>2, <2>1, TypeShows, QuietKeeps DEF Store!RemoveType
<1> QED
  BY <1>1, <1>2

LEMMA RenameStep ==
  ASSUME StoreKept, StoreInv, NEW old \in ObjectNames, NEW new \in ObjectNames,
         \/ Command_ChangeNamePending(old, new)
         \/ Command_ChangeName(old, new)
  PROVE  Store!Rename(old, new) /\ RenamingRuns'
<1>0. /\ SecondoCatalogTypeOK /\ OverlayMatchesFiles
      /\ renaming = NoRenaming
      /\ objects[old].state # "update"
      /\ objects[new].state # "delete"
      /\ txnStarted /\ txnStarted'
  BY DEF StoreInv, ContentInv, OverlayInv, SecondoCommandsTypeOK, StoreKept,
         Command_ChangeNamePending, Command_ChangeName, RenameStarts, Idle
<1>1. CASE Command_ChangeNamePending(old, new)
  <2>1. Quiet
    BY <1>0, <1>1 DEF Command_ChangeNamePending, Quiet
  <2>2. RenameEntry(old, new)
    BY <1>1 DEF Command_ChangeNamePending
  <2>3. Store!Rename(old, new)
    BY <1>0, <2>1, <2>2, RenameEntryShows, QuietKeeps
       DEF Store!Rename, Store!Exists, Store!Replace
  <2> QED
    BY <2>1, <2>3 DEF Quiet, RenamingRuns
<1>2. CASE Command_ChangeName(old, new)
  <2>1. UNCHANGED committed
    BY <1>0, <1>2 DEF Command_ChangeName, Write
  <2>2. committed.types' = committed.types /\ Contents(committed)' = Contents(committed)
    BY <2>1, ContentsPrimed
  <2>3. renaming' # NoRenaming
    <3>1. files.objects[old] \in ObjectRecord
      BY <1>0, <1>2, FileObjectType
         DEF Command_ChangeName, RenameDeleteRecord, RenamePossible
    <3> QED
      BY <1>2, <3>1, RenamingAssumption DEF Command_ChangeName, Renaming
  <2>4. Store!Rename(old, new)
    BY <1>0, <1>2, <2>2, <2>3, RenameShows
       DEF Store!Rename, Store!Exists, Store!Replace
  <2>5. ~InFile(new)
    BY <1>0, <1>2 DEF Command_ChangeName, RenameDeleteRecord, RenamePossible,
                      IsObjectName, Pending
  <2>6. /\ renaming'.new = new
        /\ files'.objects = [files.objects EXCEPT ![old] = Nothing]
    BY <1>0, <1>2 DEF Command_ChangeName, RenameDeleteRecord,
                      SecondoCatalogTypeOK, Files
  <2>7. ~InFile(new)'
    BY <1>0, <2>5, <2>6 DEF InFile, SecondoCatalogTypeOK, Files
  <2> QED
    BY <1>0, <2>4, <2>6, <2>7 DEF RenamingRuns, InFile
<1> QED
  BY <1>1, <1>2

\* The overlay goes: with what it has written, or without a trace.
LEMMA ClearedStep ==
  ASSUME CleanUpEntries, files' \in Files, renaming' = NoRenaming,
         files' = committed'
  PROVE  /\ UNCHANGED committed => Store!Rollback
         /\ committed' = CleanUpFiles({}) /\ RecordsLeft
              /\ SecondoCatalogTypeOK /\ OverlayMatchesFiles /\ CatalogRecorded
              /\ renaming = NoRenaming => Store!Commit
<1>1. /\ VisibleTypes' = committed.types'
      /\ RenamedObjects' = Contents(committed)'
  BY ClearedShows, ContentsPrimed
<1>2. ASSUME UNCHANGED committed
      PROVE  Store!Rollback
  <2>1. committed.types' = committed.types /\ Contents(committed)' = Contents(committed)
    BY <1>2, ContentsPrimed
  <2> QED
    BY <1>1, <2>1 DEF Store!Rollback
<1>3. ASSUME committed' = CleanUpFiles({}), RecordsLeft, SecondoCatalogTypeOK,
             OverlayMatchesFiles, CatalogRecorded, renaming = NoRenaming
      PROVE  Store!Commit
  <2>1. Contents(committed)' = RenamedObjects
    BY <1>3, CleanUpShows, ContentsPrimed, NotRenaming
  <2>2. CleanUpFiles({}).types = WrittenTypes
    BY DEF CleanUpFiles
  <2>3. committed.types' = VisibleTypes
    BY <1>3, <2>2, WrittenAreVisible
  <2> QED
    BY <1>1, <2>1, <2>3 DEF Store!Commit
<1> QED
  BY <1>2, <1>3

\* What follows from StoreInv for the step lemmas.
LEMMA StoreFacts ==
  ASSUME StoreInv
  PROVE  /\ SecondoCatalogTypeOK /\ DataTypeOK /\ OverlayMatchesFiles
         /\ CatalogRecorded /\ SessionInv
         /\ ~txnStarted => files = committed
  BY DEF StoreInv, ContentInv, OverlayInv, SecondoCommandsTypeOK, DataTypeOK,
         RecordsInv, SessionInv, Durable

LEMMA EndStep ==
  ASSUME StoreKept, StoreInv, CommitTransaction \/ AbortTransaction,
         renaming = NoRenaming, UNCHANGED renaming
  PROVE  Store!Commit \/ Store!Rollback
<1>1. files' \in Files
  BY StoreFacts, CommitType, AbortType DEF DataTypeOK, SecondoCatalogTypeOK
<1>2. CASE CommitSucceeds
  <2>1. files' = CleanUpFiles({}) /\ committed' = CleanUpFiles({})
    BY <1>2 DEF CommitSucceeds, FilesCommitted, StoreKept
  <2>2. CleanUpEntries /\ RecordsLeft
    BY <1>2 DEF CommitSucceeds, FilesCommitted
  <2> QED
    BY <1>1, <2>1, <2>2, ClearedStep, StoreFacts
<1>3. CASE CommitRollsBack \/ AbortTransaction
  <2>1. CleanUpEntries /\ UNCHANGED committed /\ files' = committed
    BY <1>3, StoreFacts DEF CommitRollsBack, FilesRolledBack, AbortTransaction
  <2> QED
    BY <1>1, <2>1, ClearedStep
<1> QED
  BY <1>2, <1>3 DEF CommitTransaction

\* Close forgets the overlay of a session that runs no transaction.
LEMMA CloseStep ==
  ASSUME StoreInv, Close, ~txnStarted, renaming = NoRenaming,
         UNCHANGED <<files, committed, renaming>>
  PROVE  Store!Rollback
<1>1. files' = committed' /\ files' \in Files /\ CleanUpEntries
  BY StoreFacts DEF Close, SecondoCatalogTypeOK
<1> QED
  BY <1>1, ClearedStep

\* Nothing that the store knows of changes.
LEMMA StutterStep ==
  ASSUME UNCHANGED <<catalogVars, committed, renaming>>
  PROVE  UNCHANGED Store!vars
<1>1. UNCHANGED <<VisibleObjects, VisibleTypes>>
  BY DEF catalogVars, VisibleObjects, VisibleTypes, MemberType, Contents, Content,
         StoredValue
<1>2. RenamedObjects' = RenamedObjects
  BY <1>1 DEF RenamedObjects, catalogVars, Content, StoredValue
<1>3. committed.types' = committed.types /\ Contents(committed)' = Contents(committed)
  BY ContentsPrimed
<1> QED
  BY <1>1, <1>2, <1>3 DEF Store!vars

LEMMA StoreStep ==
  ASSUME StoreKept, StoreInv, [Next]_vars
  PROVE  [Store!Next]_(Store!vars) /\ RenamingRuns'
<1>0. /\ SecondoCatalogTypeOK /\ OverlayMatchesFiles /\ CatalogRecorded
      /\ SessionInv
      /\ renaming # NoRenaming => command = "none"
  BY StoreFacts DEF SessionInv, RenamingAlone
<1>1. ASSUME renaming' = NoRenaming
      PROVE  RenamingRuns'
  BY <1>1 DEF RenamingRuns
<1>2. ASSUME Quiet
      PROVE  RenamingRuns'
  BY <1>1, <1>2 DEF Quiet
<1>3. CASE TypeCommand
  <2>1. PICK t \in TypeNames : Command_Type(t) \/ Command_DeleteType(t)
    BY <1>3 DEF TypeCommand
  <2>2. Quiet /\ (InsertType(t) \/ DeleteType(t))
    BY <1>0, <2>1, StartIsQuiet DEF Command_Type, Command_DeleteType, Succeeds
  <2> QED
    BY <1>0, <1>2, <2>2, DefineStep DEF Store!Next
<1>4. CASE ObjectCommand
  <2>1. PICK o \in ObjectNames :
          \/ \E t \in TypeNames \cup {NoType} : Command_Create(o, t)
          \/ \E v \in Values : \/ Command_Let(o, v)
                               \/ Command_Update(o, v)
                               \/ Command_QuerySwitching(o, v)
                               \/ Command_QueryNt(o, v)
          \/ \E v \in Values \cup {Undefined} : Command_LetNt(o, v)
          \/ Command_LetFails(o)
          \/ Command_Delete(o)
          \/ Command_Kill(o)
    BY <1>4 DEF ObjectCommand
  <2>2. Quiet
    BY <1>0, <2>1, StartIsQuiet
       DEF Command_Create, Command_Let, Command_Update, Command_QuerySwitching,
           Command_QueryNt, Command_LetNt, Command_LetFails, Command_Delete,
           Command_Kill, Succeeds, Quiet, Idle, sessionVars
  <2>3. \/ \E t \in KnownNames, v \in Values \cup {Undefined} : InsertObject(o, t, v)
        \/ \E v \in Values : UpdateObject(o, v)
        \/ DeleteObject(o) \/ KillObject(o)
    BY <2>1 DEF Command_Create, Command_Let, Command_Update,
       Command_QuerySwitching, Command_QueryNt, Command_LetNt, Command_LetFails,
       Command_Delete, Command_Kill, KnownNames, VisibleTypes
  <2>4. Store!Create(o) \/ Store!Overwrite(o) \/ Store!Remove(o)
    BY <1>0, <2>2, <2>3, CreateStep, OverwriteStep, RemoveStep
  <2> QED
    BY <1>2, <2>2, <2>4 DEF Store!Next
<1>5. CASE RenameCommand
  <2>1. CASE FinishRename
    <3>1. txnStarted /\ txnStarted'
      BY <2>1 DEF FinishRename, StoreInv, RenamingRuns
    <3>2. UNCHANGED committed /\ renaming' = NoRenaming
      BY <2>1, <3>1 DEF FinishRename, Write
    <3>3. RenamedObjects' = RenamedObjects /\ VisibleTypes' = VisibleTypes
      BY <2>1, FinishRenameShows DEF StoreInv, ContentInv
    <3>4. /\ committed.types' = committed.types
          /\ Contents(committed)' = Contents(committed)
      BY <3>2, ContentsPrimed
    <3> QED
      BY <1>1, <3>2, <3>3, <3>4 DEF Store!vars
  <2>2. CASE ~FinishRename
    BY <1>5, <2>2, RenameStep DEF RenameCommand, Store!Next
  <2> QED
    BY <2>1, <2>2
<1>6. CASE CommandFails
  <2>1. Quiet /\ UNCHANGED catalogVars
    BY <1>0, <1>6, StartIsQuiet DEF CommandFails
  <2> QED
    BY <1>2, <2>1, StutterStep DEF Quiet
<1>7. ASSUME CommitTransaction \/ AbortTransaction,
             renaming = NoRenaming, UNCHANGED renaming
      PROVE  [Store!Next]_(Store!vars) /\ RenamingRuns'
  BY <1>1, <1>7, EndStep DEF Store!Next
<1>8. CASE SwitchTransaction
  <2>1. renaming = NoRenaming /\ UNCHANGED renaming
    BY <1>0, <1>8 DEF SwitchTransaction
  <2>2. ASSUME FilesCommitted
        PROVE  Store!Commit
    <3>1. /\ files' = CleanUpFiles({}) /\ committed' = CleanUpFiles({})
          /\ CleanUpEntries /\ RecordsLeft
      BY <1>0, <2>2 DEF FilesCommitted, StoreKept
    <3>2. files' \in Files
      BY <1>0, <3>1, CleanUpType
    <3> QED
      BY <1>0, <2>1, <3>1, <3>2, ClearedStep
  <2>3. ASSUME FilesRolledBack
        PROVE  Store!Rollback
    <3>1. CleanUpEntries /\ UNCHANGED committed /\ files' = committed'
      BY <2>3 DEF FilesRolledBack
    <3>2. files' \in Files
      BY StoreFacts, <3>1 DEF DataTypeOK
    <3> QED
      BY <2>1, <3>1, <3>2, ClearedStep
  <2>4. Store!Commit \/ Store!Rollback
    BY <1>8, <2>2, <2>3 DEF SwitchTransaction
  <2> QED
    BY <1>1, <2>1, <2>4 DEF Store!Next
<1>9. CASE FinishCommand
  <2>1. renaming = NoRenaming /\ UNCHANGED renaming
    BY <1>0, <1>9 DEF FinishCommand
  <2>2. CASE activeTransaction
    BY <1>1, <1>9, <2>1, <2>2, StutterStep DEF FinishCommand
  <2>3. CASE ~activeTransaction
    BY <1>7, <1>9, <2>1, <2>3 DEF FinishCommand
  <2> QED
    BY <2>2, <2>3
<1>10. CASE SessionCommand
  <2>1. renaming = NoRenaming /\ UNCHANGED renaming /\ command = "none"
    BY <1>10 DEF SessionCommand, Command_BeginTransaction,
       Command_CommitTransaction, Command_AbortTransaction,
       Command_OpenDatabase, Command_CloseDatabase, Terminate, Idle
  <2>2. CASE Command_BeginTransaction \/ Command_OpenDatabase
    BY <1>1, <2>1, <2>2, StutterStep
       DEF Command_BeginTransaction, Command_OpenDatabase
  <2>3. CASE Command_CommitTransaction \/ Command_AbortTransaction
    BY <1>7, <2>1, <2>3 DEF Command_CommitTransaction, Command_AbortTransaction
  <2>4. CASE Command_CloseDatabase \/ Terminate
    <3>1. CASE activeTransaction
      BY <1>7, <2>1, <2>4, <3>1 DEF Command_CloseDatabase, Terminate
    <3>2. CASE ~activeTransaction
      <4>1. Close /\ UNCHANGED <<files, committed>>
        BY <2>4, <3>2 DEF Command_CloseDatabase, Terminate
      <4>2. ~txnStarted
        BY <1>0, <2>1, <3>2 DEF SessionInv, CommandsEnd
      <4> QED
        BY <1>1, <2>1, <4>1, <4>2, CloseStep DEF Store!Next
    <3> QED
      BY <3>1, <3>2
  <2> QED
    BY <1>10, <2>2, <2>3, <2>4 DEF SessionCommand
<1>11. CASE Crash
  <2>1. /\ CleanUpEntries /\ UNCHANGED committed /\ files' = committed
        /\ renaming' = NoRenaming
    BY <1>11 DEF Crash
  <2>2. files' \in Files
    BY <2>1, StoreFacts DEF DataTypeOK
  <2> QED
    BY <1>1, <2>1, <2>2, ClearedStep DEF Store!Next
<1>12. CASE UNCHANGED vars
  BY <1>12, StutterStep
     DEF vars, catalogVars, sessionVars, StoreInv, RenamingRuns, InFile
<1> QED
  BY <1>3, <1>4, <1>5, <1>6, <1>8, <1>9, <1>10, <1>11, <1>12 DEF Next

LEMMA StoreInitial == Init => StoreInv /\ Store!Init
<1> SUFFICES ASSUME Init PROVE StoreInv /\ Store!Init
  OBVIOUS
<1>1. StoreInv
  BY ContentInit, TypesInit, SessionInit DEF StoreInv, Init, RenamingRuns
<1>2. Contents(committed) = [o \in ObjectNames |-> Nothing]
  BY DEF Init, EmptyFiles, Contents, Content
<1>3. VisibleTypes = committed.types /\ committed.types = {}
  BY DEF Init, CatalogInit, EmptyFiles, NoTypes, VisibleTypes, MemberType
<1>4. RenamedObjects = Contents(committed)
  <2>1. RenamedObjects = VisibleObjects
    BY NotRenaming DEF Init
  <2>2. VisibleObjects = Contents(files)
    BY DEF Init, CatalogInit, NoObjects, NoEntry, VisibleObjects, Contents
  <2> QED
    BY <2>1, <2>2 DEF Init, CatalogInit
<1> QED
  BY <1>1, <1>2, <1>3, <1>4 DEF Store!Init

\* The catalog, its commands and the transactions implement CatalogStore, with
\* every crash and rollback, and with letnt and switchTransaction where they
\* like: what a client sees changes as its commands say, exactly that becomes
\* durable, and the rest disappears.  Excluded are the two changenames that
\* OverlayCorrect excludes, one outside of a block, a block begun before the
\* database is opened, and an AppendRecord that fails.
THEOREM StoreCorrect ==
  ASSUME StoreKept
  PROVE  Spec => ImplementsStore
<1>1. StoreInv /\ [Next]_vars => StoreInv' /\ [Store!Next]_(Store!vars)
  <2> SUFFICES ASSUME StoreInv, [Next]_vars
               PROVE  StoreInv' /\ [Store!Next]_(Store!vars)
    OBVIOUS
  <2>1. ContentInv'
    BY ContentStep DEF StoreInv, StoreKept
  <2>2. TypesInv'
    BY TypesStep DEF StoreInv, ContentInv
  <2> QED
    BY <2>1, <2>2, SessionStep, StoreStep DEF StoreInv
<1> QED
  BY <1>1, StoreInitial, PTL DEF Spec, ImplementsStore, Store!Spec
=============================================================================
