---------------------------- MODULE SecondoCatalog ----------------------------
(***************************************************************************)
(* The catalog of types and objects of an open database                    *)
(* (QueryProcessor/SecondoCatalog.cpp).  Three files hold the catalog; the *)
(* maps types and objects of the C++ class are an overlay over them: they  *)
(* keep what the current transaction has inserted, updated or deleted      *)
(* until CleanUp writes it to the files.  An operation is an action when   *)
(* it succeeds; the predicates say when it has nothing to work on.         *)
(***************************************************************************)
EXTENDS Naturals

CONSTANTS
  ObjectNames,  \* identifiers of objects
  TypeNames,    \* identifiers of types
  NoType,       \* the empty type name, of an object of an anonymous type
  Values,       \* values of objects
  Undefined,    \* what an object has while valueDefined is false
  RecordIds,    \* record numbers of objValueFile
  NoRecord,     \* valueRecordId = 0
  Nothing       \* a key without an entry, a record number without a record

ASSUME CatalogAssumption ==
  /\ NoType \notin TypeNames
  /\ Undefined \notin Values
  /\ NoRecord \notin RecordIds
  /\ Nothing \notin Values \cup {Undefined}

VARIABLES
  files,    \* typeCatalogFile, objCatalogFile, objValueFile
  types,    \* the map types: the pending change of each type name
  objects   \* the map objects: the pending change of each object name

catalogVars == <<files, types, objects>>

TypeStates == {"none", "insert", "update", "delete"}

\* A record of objCatalogFile.
ObjectRecord ==
  [typeName: TypeNames \cup {NoType}, valueDefined: BOOLEAN,
   valueRecordId: RecordIds \cup {NoRecord}]

\* A key without a record is told from one with a record.
ASSUME NothingAssumption ==
  Nothing \notin ObjectRecord
    \cup [typeName: TypeNames \cup {NoType}, value: Values \cup {Undefined, Nothing}]

\* The state "none": the map has no such key.  The value is Nothing if it
\* was looked up through a number that has no record.
ObjectsCatalogEntry ==
  [state: {"insert", "update", "delete", "none"},
   typeName: TypeNames \cup {NoType},
   value: Values \cup {Undefined, Nothing},
   valueRecordId: RecordIds \cup {NoRecord}]

Files ==
  [types: SUBSET TypeNames,
   objects: [ObjectNames -> ObjectRecord \cup {Nothing}],
   values: [RecordIds -> Values \cup {Nothing}]]

SecondoCatalogTypeOK ==
  /\ files \in Files
  /\ types \in [TypeNames -> TypeStates]
  /\ objects \in [ObjectNames -> ObjectsCatalogEntry]

NoEntry == [state |-> "none", typeName |-> NoType, value |-> Undefined,
            valueRecordId |-> NoRecord]

NoTypes == [t \in TypeNames |-> "none"]

NoObjects == [o \in ObjectNames |-> NoEntry]

EmptyFiles == [types |-> {}, objects |-> [o \in ObjectNames |-> Nothing],
               values |-> [r \in RecordIds |-> Nothing]]

CatalogInit ==
  /\ files = EmptyFiles
  /\ types = NoTypes
  /\ objects = NoObjects

-----------------------------------------------------------------------------
(* Look-ups.  An entry of the overlay hides the record of the file.        *)

InFile(o) == files.objects[o] # Nothing

Pending(o) == objects[o].state # "none"

IsObjectName(o) ==
  IF Pending(o) THEN objects[o].state # "delete" ELSE InFile(o)

MemberType(t) ==
  IF types[t] # "none" THEN types[t] # "delete" ELSE t \in files.types

\* An object that the transaction has deleted still counts if it is in the
\* file: only the overlay is filtered by state.
TypeUsedByObject(t) ==
  \/ \E o \in ObjectNames : objects[o].state \in {"insert", "update"}
                              /\ objects[o].typeName = t
  \/ \E o \in ObjectNames : InFile(o) /\ files.objects[o].typeName = t

\* The value that GetObject finds through a record of objCatalogFile.
StoredValue(rec, values) ==
  IF rec.valueDefined /\ rec.valueRecordId # NoRecord
    THEN values[rec.valueRecordId] ELSE Undefined

Content(rec, values) ==
  IF rec = Nothing THEN Nothing
  ELSE [typeName |-> rec.typeName, value |-> StoredValue(rec, values)]

\* What files hold under each name, as GetObjectExpr returns it.
Contents(fs) == [o \in ObjectNames |-> Content(fs.objects[o], fs.values)]

VisibleObjects ==
  [o \in ObjectNames |->
     CASE objects[o].state = "delete" -> Nothing
       [] objects[o].state \in {"insert", "update"} ->
            [typeName |-> objects[o].typeName, value |-> objects[o].value]
       [] OTHER -> Contents(files)[o]]

VisibleTypes == {t \in TypeNames : MemberType(t)}

-----------------------------------------------------------------------------
(* Types.                                                                  *)

InsertType(t) ==
  /\ ~MemberType(t)
  /\ types' = [types EXCEPT ![t] = IF @ = "delete" THEN "update" ELSE "insert"]
  /\ UNCHANGED <<files, objects>>

\* mutant: rc = 1 is not returned for an object of the overlay
DeleteTypeOverlayUnchecked(t) ==
  /\ MemberType(t)
  /\ ~\E o \in ObjectNames : InFile(o) /\ files.objects[o].typeName = t
  /\ types' = [types EXCEPT ![t] = IF @ = "insert" THEN "none" ELSE "delete"]
  /\ UNCHANGED <<files, objects>>

DeleteType(t) ==
  /\ MemberType(t)
  /\ ~TypeUsedByObject(t)
  /\ types' = [types EXCEPT ![t] = IF @ = "insert" THEN "none" ELSE "delete"]
  /\ UNCHANGED <<files, objects>>

-----------------------------------------------------------------------------
(* Objects.  CreateObject is InsertObject with an undefined value.         *)

\* mutant: the state of a deleted entry is not looked at
InsertObjectAlways(o, t, v) ==
  /\ ~IsObjectName(o)
  /\ objects' = [objects EXCEPT ![o] =
       [state |-> "insert", typeName |-> t, value |-> v,
        valueRecordId |-> NoRecord]]
  /\ UNCHANGED <<files, types>>

InsertObject(o, t, v) ==
  /\ ~IsObjectName(o)
  /\ objects' = [objects EXCEPT ![o] =
       [state |-> IF @.state = "delete" THEN "update" ELSE "insert",
        typeName |-> t, value |-> v, valueRecordId |-> NoRecord]]
  /\ UNCHANGED <<files, types>>

\* The entry that DeleteObject makes for an object of the file has no
\* valueRecordId: only UpdateObject reads it from the record.
DeleteObject(o) ==
  /\ IsObjectName(o)
  /\ objects' = [objects EXCEPT ![o] =
       CASE @.state = "insert" -> NoEntry
         [] @.state = "update" -> [@ EXCEPT !.state = "delete"]
         [] OTHER -> [state |-> "delete",
                      typeName |-> files.objects[o].typeName,
                      value |-> StoredValue(files.objects[o], files.values),
                      valueRecordId |-> NoRecord]]
  /\ UNCHANGED <<files, types>>

\* Objects of the file are removed from the files at once.
KillObject(o) ==
  /\ IsObjectName(o)
  /\ IF Pending(o)
       THEN /\ objects' = [objects EXCEPT ![o] =
                 IF @.state = "insert" THEN NoEntry
                                       ELSE [@ EXCEPT !.state = "delete"]]
            /\ UNCHANGED files
       ELSE /\ files' = [files EXCEPT
                 !.objects[o] = Nothing,
                 !.values = [r \in RecordIds |->
                               IF r = files.objects[o].valueRecordId
                                 THEN Nothing ELSE @[r]]]
            /\ UNCHANGED objects
  /\ UNCHANGED types

\* UpdateObject, CloneObject and ModifyObject differ in what they do with
\* the old value in memory, not in the entry they leave.
UpdateObject(o, v) ==
  /\ IsObjectName(o)
  /\ objects' = [objects EXCEPT ![o] =
       IF Pending(o) THEN [@ EXCEPT !.value = v]
       ELSE [state |-> "update",
             typeName |-> files.objects[o].typeName, value |-> v,
             valueRecordId |-> files.objects[o].valueRecordId]]
  /\ UNCHANGED <<files, types>>

RenamePossible(old, new) == ~IsObjectName(new) /\ IsObjectName(old)

\* The entry moves to the new key with the state it has.
RenameEntry(old, new) ==
  /\ RenamePossible(old, new)
  /\ Pending(old)
  /\ objects' = [objects EXCEPT ![old] = NoEntry, ![new] = objects[old]]
  /\ UNCHANGED <<files, types>>

\* mutant: the record of the old name is not deleted
RenameCopyRecord(old, new) ==
  /\ RenamePossible(old, new)
  /\ ~Pending(old)
  /\ UNCHANGED catalogVars

\* The object is only in the file: its record is deleted, then inserted
\* under the new name, by two calls of the storage manager.
RenameDeleteRecord(old, new) ==
  /\ RenamePossible(old, new)
  /\ ~Pending(old)
  /\ files' = [files EXCEPT !.objects[old] = Nothing]
  /\ UNCHANGED <<types, objects>>

\* InsertRecord fails if the file has the key, which the overlay may hide.
RenameInsertRecord(new, rec) ==
  /\ files' = [files EXCEPT !.objects[new] = IF @ = Nothing THEN rec ELSE @]
  /\ UNCHANGED <<types, objects>>

-----------------------------------------------------------------------------
(* CleanUp( false ): the overlay is written to the files, then cleared.    *)

WrittenTypes ==
  {t \in TypeNames : types[t] = "insert"}
    \cup {t \in files.types : types[t] \in {"none", "update"}}

\* The first iteration creates and updates objects with undefined values
\* and removes the deleted ones.  Writes to a key that InsertRecord or
\* SelectRecord refuses are skipped.
UndefinedRecord(o) ==
  CASE objects[o].state = "insert" /\ ~InFile(o) ->
         [typeName |-> objects[o].typeName, valueDefined |-> FALSE,
          valueRecordId |-> NoRecord]
    [] objects[o].state = "update" /\ InFile(o) ->
         [files.objects[o] EXCEPT !.typeName = objects[o].typeName,
                                  !.valueDefined = FALSE]
    [] objects[o].state = "delete" -> Nothing
    [] OTHER -> files.objects[o]

\* mutant: the state of the entry is not looked at
DroppedWithEntry ==
  {r \in RecordIds : \E o \in ObjectNames :
     InFile(o) /\ objects[o].valueRecordId = r}

\* Value records that go with a deleted object.
DroppedRecords ==
  {r \in RecordIds : \E o \in ObjectNames :
     InFile(o) /\ objects[o].state = "delete" /\ objects[o].valueRecordId = r}

RemainingValues ==
  [r \in RecordIds |-> IF r \in DroppedRecords THEN Nothing
                                               ELSE files.values[r]]

\* Objects whose value the second iteration saves: in a record of its own ...
Saved ==
  {o \in ObjectNames : /\ objects[o].state \in {"insert", "update"}
                       /\ objects[o].value # Undefined
                       /\ UndefinedRecord(o) # Nothing}

Appended == {o \in Saved : objects[o].valueRecordId = NoRecord}

\* ... or in the record that the object has.
Overwritten == {o \in Saved \ Appended :
                  RemainingValues[objects[o].valueRecordId] # Nothing}

\* The ways AppendRecord may number the new records.
Numberings ==
  {f \in [Appended -> {r \in RecordIds : RemainingValues[r] = Nothing}] :
     \A o, p \in Appended : f[o] = f[p] => o = p}

\* Bound: the record numbers of the model are not used up.
RecordsLeft == Numberings # {}

AppendedRecord == CHOOSE f \in Numberings : TRUE

\* mutant: the second iteration passes over updated objects
DefinedRecordInserted(o, failed) ==
  IF objects[o].state = "insert" /\ o \in Appended
    THEN [UndefinedRecord(o) EXCEPT !.valueDefined = TRUE,
                                    !.valueRecordId = AppendedRecord[o]]
    ELSE UndefinedRecord(o)

\* The second iteration; AppendRecord fails for the objects in failed, after
\* valueDefined has been written.
DefinedRecord(o, failed) ==
  CASE o \in Appended ->
         [UndefinedRecord(o) EXCEPT
            !.valueDefined = TRUE,
            !.valueRecordId = IF o \in failed THEN NoRecord
                                             ELSE AppendedRecord[o]]
    [] o \in Saved \ Appended -> [UndefinedRecord(o) EXCEPT !.valueDefined = TRUE]
    [] OTHER -> UndefinedRecord(o)

SavedValue(r, failed) ==
  IF \E o \in Appended \ failed : AppendedRecord[o] = r
    THEN objects[CHOOSE o \in Appended \ failed : AppendedRecord[o] = r].value
  ELSE IF \E o \in Overwritten : objects[o].valueRecordId = r
    THEN objects[CHOOSE o \in Overwritten : objects[o].valueRecordId = r].value
  ELSE RemainingValues[r]

CleanUpFiles(failed) ==
  [types |-> WrittenTypes,
   objects |-> [o \in ObjectNames |-> DefinedRecord(o, failed)],
   values |-> [r \in RecordIds |-> SavedValue(r, failed)]]

CleanUpEntries ==
  /\ types' = NoTypes
  /\ objects' = NoObjects

\* Close forgets the overlay without writing it, and so does CleanUp( true ).
Close == CleanUpEntries
=============================================================================
