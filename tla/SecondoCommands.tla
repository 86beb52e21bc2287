--------------------------- MODULE SecondoCommands ---------------------------
(***************************************************************************)
(* The commands of one Secondo client on its database                      *)
(* (SecondoInterfaceTTY::Secondo): each runs catalog operations between    *)
(* StartCommand and FinishCommand, and SecondoSystem joins the CleanUp of  *)
(* the catalog with the transactions of the storage manager.  The process  *)
(* may die between any two steps, and then its memory is lost.             *)
(***************************************************************************)
EXTENDS SecondoCatalog

CONSTANTS
  NoRenaming,   \* no changename between its two writes
  Irregular     \* situations, among those below, that the instance includes

Situations ==
  {"rename updated",   \* changename of an object updated in the transaction
   "rename to deleted",\* changename to a name deleted in the transaction
   "rename outside",   \* changename outside of a transaction block
   "letnt",            \* letnt or querynt outside of a transaction block
   "begin closed",     \* begin transaction while no database is open
   "switch",           \* a query whose operator calls switchTransaction
   "save fails"}       \* AppendRecord fails in CleanUp

ASSUME CommandsAssumption == Irregular \subseteq Situations

VARIABLES
  committed,          \* the files as the last commit left them
  dbOpen,             \* SmiEnvironment::dbOpened
  txnStarted,         \* the storage manager runs usrTxn
  activeTransaction,  \* the client is in a transaction block
  command,            \* the command that has still to run FinishCommand
  renaming            \* the changename between its two writes

sessionVars == <<dbOpen, txnStarted, activeTransaction, command, renaming>>
vars == <<catalogVars, committed, sessionVars>>

Renaming == [old: ObjectNames, new: ObjectNames, record: ObjectRecord]

\* No changename is told from every changename.
ASSUME RenamingAssumption == NoRenaming \notin Renaming

SecondoCommandsTypeOK ==
  /\ SecondoCatalogTypeOK
  /\ committed \in Files
  /\ dbOpen \in BOOLEAN
  /\ txnStarted \in BOOLEAN
  /\ activeTransaction \in BOOLEAN
  /\ command \in {"none", "switching", "succeeded", "failed"}
  /\ renaming \in Renaming \cup {NoRenaming}

Init ==
  /\ CatalogInit
  /\ committed = EmptyFiles
  /\ dbOpen = FALSE
  /\ txnStarted = FALSE
  /\ activeTransaction = FALSE
  /\ command = "none"
  /\ renaming = NoRenaming

-----------------------------------------------------------------------------
(* SecondoSystem: the catalog and the storage manager together.            *)

\* CleanUp writes within usrTxn, and its result is not looked at.  Without
\* usrTxn every write is durable at once.
FilesCommitted ==
  /\ RecordsLeft
  /\ CleanUpEntries
  /\ \E failed \in IF "save fails" \in Irregular THEN SUBSET Appended ELSE {{}} :
       /\ files' = CleanUpFiles(failed)
       /\ committed' = CleanUpFiles(failed)

\* usrTxn was chosen to resolve a deadlock and must abort.
FilesRolledBack ==
  /\ txnStarted
  /\ CleanUpEntries
  /\ files' = committed
  /\ UNCHANGED committed

CommitSucceeds == FilesCommitted /\ txnStarted' = FALSE

CommitRollsBack == FilesRolledBack /\ txnStarted' = FALSE

CommitTransaction == CommitSucceeds \/ CommitRollsBack

\* mutant: CleanUp( true ) is not called
AbortFilesOnly ==
  /\ UNCHANGED <<types, objects, committed>>
  /\ txnStarted' = FALSE
  /\ files' = IF txnStarted THEN committed ELSE files

AbortTransaction ==
  /\ CleanUpEntries
  /\ txnStarted' = FALSE
  /\ files' = IF txnStarted THEN committed ELSE files
  /\ UNCHANGED committed

\* mutant: the files are opened with DB_AUTO_COMMIT and written without usrTxn
WriteAutoCommit == committed' = files'

\* What an operation of the catalog writes to the files.
Write == committed' = IF txnStarted' THEN committed ELSE files'

-----------------------------------------------------------------------------
(* Commands on types and objects.                                          *)

Idle == command = "none" /\ renaming = NoRenaming

\* BeginTransaction, unless the client has begun a transaction itself.
StartCommand ==
  /\ dbOpen
  /\ Idle
  /\ txnStarted' = (txnStarted \/ ~activeTransaction)
  /\ Write
  /\ UNCHANGED <<dbOpen, activeTransaction, renaming>>

Succeeds == StartCommand /\ command' = "succeeded"

\* The name is used or unknown, the type is in use, ...: no operation of
\* the catalog changes anything.
CommandFails ==
  /\ UNCHANGED catalogVars
  /\ StartCommand
  /\ command' = "failed"

Command_Type(t) == InsertType(t) /\ Succeeds

Command_DeleteType(t) == DeleteType(t) /\ Succeeds

\* create: the object has the given type and no value.
Command_Create(o, t) ==
  /\ t # NoType => MemberType(t)
  /\ InsertObject(o, t, Undefined)
  /\ Succeeds

\* let is CreateObject, then UpdateObject or CloneObject on the same entry.
Command_Let(o, v) ==
  /\ InsertObject(o, NoType, v)
  /\ RecordsLeft'
  /\ Succeeds

\* The evaluation of the expression fails after CreateObject.
Command_LetFails(o) ==
  /\ InsertObject(o, NoType, Undefined)
  /\ StartCommand
  /\ command' = "failed"

\* letnt is let without StartCommand and without a commit or an abort; v is
\* Undefined if the evaluation fails.
Command_LetNt(o, v) ==
  /\ activeTransaction \/ "letnt" \in Irregular
  /\ dbOpen
  /\ Idle
  /\ InsertObject(o, NoType, v)
  /\ RecordsLeft'
  /\ UNCHANGED <<committed, sessionVars>>

\* A query that modifies an object leaves what update leaves.
Command_Update(o, v) ==
  /\ UpdateObject(o, v)
  /\ RecordsLeft'
  /\ Succeeds

\* querynt is query without StartCommand and without a commit or an abort.
Command_QueryNt(o, v) ==
  /\ activeTransaction \/ "letnt" \in Irregular
  /\ dbOpen
  /\ Idle
  /\ UpdateObject(o, v)
  /\ RecordsLeft'
  /\ UNCHANGED <<committed, sessionVars>>

Command_Delete(o) == DeleteObject(o) /\ Succeeds

Command_Kill(o) == KillObject(o) /\ Succeeds

\* A query that modifies an object and whose root operator then calls
\* switchTransaction: the values modified so far are committed, or lost, and
\* a new transaction is begun while the query goes on.
Command_QuerySwitching(o, v) ==
  /\ "switch" \in Irregular
  /\ UpdateObject(o, v)
  /\ RecordsLeft'
  /\ StartCommand
  /\ command' = "switching"

SwitchTransaction ==
  /\ command = "switching"
  /\ FilesCommitted \/ FilesRolledBack
  /\ txnStarted' = TRUE
  /\ command' \in {"succeeded", "failed"}
  /\ UNCHANGED <<dbOpen, activeTransaction, renaming>>

\* changename runs neither StartCommand nor FinishCommand.
RenameStarts(old, new) ==
  /\ dbOpen
  /\ Idle
  /\ objects[old].state = "update" => "rename updated" \in Irregular
  /\ objects[new].state = "delete" => "rename to deleted" \in Irregular
  /\ ~txnStarted => "rename outside" \in Irregular
  /\ UNCHANGED <<dbOpen, txnStarted, activeTransaction, command>>

Command_ChangeNamePending(old, new) ==
  /\ RenameStarts(old, new)
  /\ RenameEntry(old, new)
  /\ UNCHANGED <<committed, renaming>>

Command_ChangeName(old, new) ==
  /\ RenameStarts(old, new)
  /\ RenameDeleteRecord(old, new)
  /\ Write
  /\ renaming' = [old |-> old, new |-> new, record |-> files.objects[old]]

FinishRename ==
  /\ renaming # NoRenaming
  /\ UNCHANGED <<dbOpen, txnStarted, activeTransaction, command>>
  /\ RenameInsertRecord(renaming.new, renaming.record)
  /\ Write
  /\ renaming' = NoRenaming

\* Inside a transaction block a command that failed is not undone.
FinishCommand ==
  /\ command \in {"succeeded", "failed"}
  /\ command' = "none"
  /\ IF activeTransaction
       THEN UNCHANGED <<catalogVars, committed, txnStarted>>
       ELSE IF command = "succeeded" THEN CommitTransaction
                                     ELSE AbortTransaction
  /\ UNCHANGED <<dbOpen, activeTransaction, renaming>>

-----------------------------------------------------------------------------
(* Transaction blocks and databases.                                       *)

Command_BeginTransaction ==
  /\ Idle
  /\ ~activeTransaction
  /\ ~txnStarted
  /\ ~dbOpen => "begin closed" \in Irregular
  /\ txnStarted' = TRUE
  /\ activeTransaction' = TRUE
  /\ UNCHANGED <<catalogVars, committed, dbOpen, command, renaming>>

Command_CommitTransaction ==
  /\ Idle
  /\ activeTransaction
  /\ CommitTransaction
  /\ activeTransaction' = FALSE
  /\ UNCHANGED <<dbOpen, command, renaming>>

Command_AbortTransaction ==
  /\ Idle
  /\ activeTransaction
  /\ AbortTransaction
  /\ activeTransaction' = FALSE
  /\ UNCHANGED <<dbOpen, command, renaming>>

\* SecondoSystem::OpenDatabase opens the files of the catalog between a
\* BeginTransaction, which is refused if usrTxn runs, and a CommitTransaction.
Command_OpenDatabase ==
  /\ Idle
  /\ ~dbOpen
  /\ dbOpen' = TRUE
  /\ txnStarted' = FALSE
  /\ UNCHANGED <<catalogVars, committed, activeTransaction, command, renaming>>

\* The transaction block is committed; then Close forgets the overlay.
Command_CloseDatabase ==
  /\ Idle
  /\ dbOpen
  /\ dbOpen' = FALSE
  /\ activeTransaction' = FALSE
  /\ IF activeTransaction
       THEN CommitTransaction
       ELSE Close /\ UNCHANGED <<files, committed, txnStarted>>
  /\ UNCHANGED <<command, renaming>>

\* SecondoInterfaceTTY::Terminate aborts the transaction block, then the
\* destructor of SecondoSystem closes the database.
Terminate ==
  /\ Idle
  /\ dbOpen
  /\ IF activeTransaction
       THEN AbortTransaction
       ELSE Close /\ UNCHANGED <<files, committed, txnStarted>>
  /\ dbOpen' = FALSE
  /\ activeTransaction' = FALSE
  /\ UNCHANGED <<command, renaming>>

\* The process dies; the storage manager recovers the committed files.
Crash ==
  /\ CleanUpEntries
  /\ files' = committed
  /\ dbOpen' = FALSE
  /\ txnStarted' = FALSE
  /\ activeTransaction' = FALSE
  /\ command' = "none"
  /\ renaming' = NoRenaming
  /\ UNCHANGED committed

TypeCommand == \E t \in TypeNames : Command_Type(t) \/ Command_DeleteType(t)

ObjectCommand ==
  \E o \in ObjectNames :
    \/ \E t \in TypeNames \cup {NoType} : Command_Create(o, t)
    \/ \E v \in Values : \/ Command_Let(o, v)
                         \/ Command_Update(o, v)
                         \/ Command_QuerySwitching(o, v)
                         \/ Command_QueryNt(o, v)
    \/ \E v \in Values \cup {Undefined} : Command_LetNt(o, v)
    \/ Command_LetFails(o)
    \/ Command_Delete(o)
    \/ Command_Kill(o)

RenameCommand ==
  \/ \E old, new \in ObjectNames : \/ Command_ChangeNamePending(old, new)
                                   \/ Command_ChangeName(old, new)
  \/ FinishRename

SessionCommand ==
  \/ Command_BeginTransaction
  \/ Command_CommitTransaction
  \/ Command_AbortTransaction
  \/ Command_OpenDatabase
  \/ Command_CloseDatabase
  \/ Terminate

Next ==
  \/ TypeCommand
  \/ ObjectCommand
  \/ RenameCommand
  \/ CommandFails
  \/ SwitchTransaction
  \/ FinishCommand
  \/ SessionCommand
  \/ Crash

Spec == Init /\ [][Next]_vars

-----------------------------------------------------------------------------
(* Properties.                                                             *)

\* An entry of the overlay fits the files it will be written to: CleanUp
\* inserts a key only where there is none, and updates and deletes keys
\* that are there, so that its ignored result could not have been false.
OverlayMatchesFiles ==
  /\ \A t \in TypeNames :
       types[t] # "none" => (types[t] = "insert" <=> t \notin files.types)
  /\ \A o \in ObjectNames :
       Pending(o) => (objects[o].state = "insert" <=> ~InFile(o))

\* No two objects share a value record, and an updated object is saved to
\* the record it has: UpdateObject, RenameObject, KillObject and CleanUp
\* hand valueRecordId from the file to the overlay and back.
OneOwnerPerRecord ==
  /\ \A o, p \in ObjectNames :
       (o # p /\ InFile(o) /\ InFile(p)) =>
          \/ files.objects[o].valueRecordId = NoRecord
          \/ files.objects[o].valueRecordId # files.objects[p].valueRecordId
  /\ \A o \in ObjectNames :
       objects[o].valueRecordId # NoRecord =>
          /\ InFile(o)
          /\ objects[o].valueRecordId = files.objects[o].valueRecordId

\* What is durable can be opened again: an object that is marked as defined
\* has a value record ("the objects are created with undefined values" when
\* the saving of values fails).
DefinedHasValue ==
  \A o \in ObjectNames :
    LET rec == committed.objects[o]
    IN  rec # Nothing /\ rec.valueDefined =>
          /\ rec.valueRecordId # NoRecord
          /\ committed.values[rec.valueRecordId] # Nothing

\* DeleteType refuses a type that an object uses, whether the object or the
\* type is in the overlay or in the files: no durable object has a type name
\* that is not defined.
NoDanglingTypes ==
  \A o \in ObjectNames :
    committed.objects[o] # Nothing =>
      committed.objects[o].typeName \in committed.types \cup {NoType}

\* "All commands not enclosed in a begin transaction ... block are implicitly
\* surrounded by a transaction": when such a command is finished, what the
\* client sees is what a restart would find.
OutsideBlockDurable ==
  (Idle /\ dbOpen /\ ~activeTransaction) =>
     /\ VisibleTypes = committed.types
     /\ VisibleObjects = Contents(committed)

\* Inside a transaction block nothing becomes durable, so that "abort
\* transaction" can revoke all changes.
BlockIsAtomic ==
  [][activeTransaction /\ activeTransaction' => UNCHANGED committed]_vars

\* "Commit a running transaction; all changes to the database will be
\* effective": what the client saw before the commit is what it and every
\* restart find afterwards, unless the storage manager rolled back.
CommitEffective ==
  [][(Command_CommitTransaction /\ CommitSucceeds) =>
       /\ Contents(committed)' = VisibleObjects
       /\ committed.types' = VisibleTypes]_vars

\* changename does not lose the object if the process dies in the middle.
RenamedStaysDurable ==
  (renaming # NoRenaming /\ ~txnStarted) =>
     renaming.record \in {committed.objects[renaming.old],
                          committed.objects[renaming.new]}

\* DeleteObject "deallocates the used memory": every durable value record
\* belongs to a durable object.
NoOrphanRecords ==
  \A r \in RecordIds : committed.values[r] # Nothing =>
    \E o \in ObjectNames : committed.objects[o] # Nothing
                            /\ committed.objects[o].valueRecordId = r

\* The catalog, the commands and the transactions together implement the
\* store of objects that a client is promised.  A changename between its
\* two writes already counts as done.
RenamedObjects ==
  [o \in ObjectNames |->
     IF renaming # NoRenaming /\ o = renaming.new
       THEN Content(renaming.record, files.values)
       ELSE VisibleObjects[o]]

Store == INSTANCE CatalogStore WITH
  durableTypes <- committed.types,
  durableObjects <- Contents(committed),
  visibleTypes <- VisibleTypes,
  visibleObjects <- RenamedObjects

ImplementsStore == Store!Spec
=============================================================================
