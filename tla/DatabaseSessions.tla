-------------------------- MODULE DatabaseSessions --------------------------
(***************************************************************************)
(* Server processes that create, open, close and erase databases against   *)
(* one registrar.  A session is one SecondoServer process; the operations  *)
(* are those of SmiEnvironment (bdbEnvironment.cpp) as SecondoSystem calls *)
(* them.  Each access to shared state (the table of databases, the files,  *)
(* the registrar) is a step of its own, because nothing orders the steps   *)
(* of two processes between them.                                          *)
(***************************************************************************)
EXTENDS Registrar

CONSTANTS
  Sessions,     \* server processes
  UserOf,       \* the user name a session sends, SmiEnvironment::uid
  NoDatabase,   \* no operation has named a database yet
  MaxFailures,  \* bound on failing storage operations
  MaxCrashes    \* bound on server processes that die

ASSUME SessionAssumption ==
  /\ UserOf \in [Sessions -> Users]
  /\ NoDatabase \notin Databases
  /\ MaxFailures \in Nat
  /\ MaxCrashes \in Nat

VARIABLES
  databases,  \* names in the table bdbDatabases
  stored,     \* databases that have files on disk
  pc,         \* where a session is in the operation it executes
  target,     \* the database of that operation, SmiEnvironment::database
  creating,   \* the operation is CreateDatabase, not OpenDatabase
  usable,     \* the handles bdbSeq, bdbCatalog and bdbCatalogIndex are set
  granted,    \* history: the registrar granted the session's registration
  failures,   \* failing storage operations so far
  crashes     \* crashes so far

sharedVars == <<databases, stored, dbRegister, dbLocks>>
vars == <<databases, stored, dbRegister, dbLocks, pc, target, creating,
          usable, granted, failures, crashes>>

Steps == {"idle", "initialize", "insert", "register", "catalog", "open",
          "close", "erase", "lock", "delete", "remove", "unlock"}

\* Steps after RegisterDatabase and before UnregisterDatabase.
UsingSteps == {"catalog", "open", "close"}

\* Steps of EraseDatabase between LockDatabase and UnlockDatabase.
ErasingSteps == {"delete", "remove", "unlock"}

Using(s, db) == pc[s] \in UsingSteps /\ target[s] = db

Erasing(s, db) == pc[s] \in ErasingSteps /\ target[s] = db

DatabaseSessionsTypeOK ==
  /\ RegistrarTypeOK
  /\ databases \subseteq Databases
  /\ stored \subseteq Databases
  /\ pc \in [Sessions -> Steps]
  /\ target \in [Sessions -> Databases \cup {NoDatabase}]
  /\ creating \in [Sessions -> BOOLEAN]
  /\ usable \in [Sessions -> BOOLEAN]
  /\ granted \in [Sessions -> BOOLEAN]
  /\ failures \in 0 .. MaxFailures
  /\ crashes \in 0 .. MaxCrashes
  /\ \A s \in Sessions : pc[s] # "idle" => target[s] \in Databases

Init ==
  /\ RegistrarInit
  /\ databases = {}
  /\ stored = {}
  /\ pc = [s \in Sessions |-> "idle"]
  /\ target = [s \in Sessions |-> NoDatabase]
  /\ creating = [s \in Sessions |-> FALSE]
  /\ usable = [s \in Sessions |-> FALSE]
  /\ granted = [s \in Sessions |-> FALSE]
  /\ failures = 0
  /\ crashes = 0

Goto(s, step) == pc' = [pc EXCEPT ![s] = step]

Fail == failures < MaxFailures /\ failures' = failures + 1

-----------------------------------------------------------------------------
(* Commands.  An operation starts only in a session without an open        *)
(* database: otherwise it fails with E_SMI_DB_NOTCLOSED.                   *)

Start(s, db, step, create) ==
  /\ pc[s] = "idle"
  /\ target' = [target EXCEPT ![s] = db]
  /\ creating' = [creating EXCEPT ![s] = create]
  /\ Goto(s, step)
  /\ UNCHANGED <<sharedVars, usable, granted, failures, crashes>>

\* LookUpDatabase finds the name; otherwise ERR_IDENT_UNKNOWN_DB_NAME
OpenDatabase(s, db) == db \in databases /\ Start(s, db, "initialize", FALSE)

\* LookUpDatabase does not find the name; otherwise E_SMI_DB_EXISTING
CreateDatabase(s, db) ==
  db \notin databases /\ Start(s, db, "initialize", TRUE)

EraseDatabase(s, db) == Start(s, db, "erase", FALSE)

-----------------------------------------------------------------------------
(* Opening and creating.                                                   *)

AfterInitialize(s) == Goto(s, IF creating[s] THEN "insert" ELSE "register")

\* the files are opened with DB_CREATE, in whatever state the database is
InitializeDatabase(s) ==
  /\ pc[s] = "initialize"
  /\ stored' = stored \cup {target[s]}
  /\ usable' = [usable EXCEPT ![s] = TRUE]
  /\ AfterInitialize(s)
  /\ UNCHANGED <<databases, registrarVars, target, creating, granted,
                 failures, crashes>>

\* An open failed.  The handles are closed into the same rc that is then
\* returned, so the failure is reported only if closing fails as well.
InitializeDatabaseFails(s) ==
  /\ pc[s] = "initialize"
  /\ Fail
  /\ stored' \in {stored, stored \cup {target[s]}}
  /\ usable' = [usable EXCEPT ![s] = FALSE]
  /\ AfterInitialize(s) \/ Goto(s, "idle")
  /\ UNCHANGED <<databases, registrarVars, target, creating, granted, crashes>>

\* DB_NOOVERWRITE: fails if another session has inserted the name meanwhile
InsertDatabase(s) ==
  /\ pc[s] = "insert"
  /\ Goto(s, IF target[s] \in databases THEN "idle" ELSE "register")
  /\ databases' = databases \cup {target[s]}
  /\ UNCHANGED <<stored, registrarVars, target, creating, usable, granted,
                 failures, crashes>>

\* The result of RegisterDatabase is not looked at: dbOpened becomes true.
RegisterDatabase(s) ==
  /\ pc[s] = "register"
  /\ \/ /\ ExecRegister(target[s], UserOf[s])
        /\ granted' = [granted EXCEPT ![s] = TRUE]
     \/ /\ RegisterRefused(target[s])
        /\ UNCHANGED <<registrarVars, granted>>
  /\ Goto(s, "catalog")
  /\ UNCHANGED <<databases, stored, target, creating, usable, failures, crashes>>

\* SecondoCatalog::Open needs the handles
OpenCatalog(s) ==
  /\ pc[s] = "catalog"
  /\ Goto(s, IF usable[s] THEN "open" ELSE "close")
  /\ UNCHANGED <<sharedVars, target, creating, usable, granted, failures,
                 crashes>>

\* CloseDatabase, as a command or after OpenCatalog failed; in the second
\* case SecondoSystem::CreateDatabase goes on to erase what it created.
CloseDatabase(s) ==
  /\ pc[s] \in {"open", "close"}
  /\ \/ ExecUnregister(target[s], UserOf[s])
     \/ /\ UnregisterRefused(target[s], UserOf[s])
        /\ UNCHANGED registrarVars
  /\ granted' = [granted EXCEPT ![s] = FALSE]
  /\ usable' = [usable EXCEPT ![s] = FALSE]
  /\ Goto(s, IF pc[s] = "close" /\ creating[s] THEN "erase" ELSE "idle")
  /\ UNCHANGED <<databases, stored, target, creating, failures, crashes>>

-----------------------------------------------------------------------------
(* Erasing.                                                                *)

EraseLookUp(s) ==
  /\ pc[s] = "erase"
  /\ Goto(s, IF target[s] \in databases THEN "lock" ELSE "idle")
  /\ UNCHANGED <<sharedVars, target, creating, usable, granted, failures,
                 crashes>>

LockDatabase(s) ==
  /\ pc[s] = "lock"
  /\ \/ ExecLock(target[s], UserOf[s]) /\ Goto(s, "delete")
     \/ LockRefused(target[s]) /\ UNCHANGED registrarVars /\ Goto(s, "idle")
  /\ UNCHANGED <<databases, stored, target, creating, usable, granted,
                 failures, crashes>>

DeleteDatabase(s) ==
  /\ pc[s] = "delete"
  /\ databases' = databases \ {target[s]}
  /\ Goto(s, "remove")
  /\ UNCHANGED <<stored, registrarVars, target, creating, usable, granted,
                 failures, crashes>>

\* mutant: the session forgets to unlock after it has removed the files
RemoveFilesAndReturn(s) ==
  /\ pc[s] = "remove"
  /\ stored' = stored \ {target[s]}
  /\ Goto(s, "idle")
  /\ UNCHANGED <<databases, registrarVars, target, creating, usable, granted,
                 failures, crashes>>

RemoveFiles(s) ==
  /\ pc[s] = "remove"
  /\ stored' = stored \ {target[s]}
  /\ Goto(s, "unlock")
  /\ UNCHANGED <<databases, registrarVars, target, creating, usable, granted,
                 failures, crashes>>

\* ok = ok && UnlockDatabase(...): after a file that could not be removed
\* the lock is not released
RemoveFilesFails(s) ==
  /\ pc[s] = "remove"
  /\ Fail
  /\ Goto(s, "idle")
  /\ UNCHANGED <<sharedVars, target, creating, usable, granted, crashes>>

\* mutant: the answer is awaited, but the command is never sent
UnlockDatabaseUnsent(s) ==
  /\ pc[s] = "unlock"
  /\ Goto(s, "idle")
  /\ UNCHANGED <<sharedVars, target, creating, usable, granted, failures,
                 crashes>>

UnlockDatabase(s) ==
  /\ pc[s] = "unlock"
  /\ ExecUnlock(target[s], UserOf[s])
  /\ Goto(s, "idle")
  /\ UNCHANGED <<databases, stored, target, creating, usable, granted,
                 failures, crashes>>

-----------------------------------------------------------------------------
\* A server process dies anywhere; the listener starts another one for the
\* same user.  The registrar does not notice and keeps its entries.
Crash(s) ==
  /\ pc[s] # "idle"
  /\ crashes < MaxCrashes
  /\ crashes' = crashes + 1
  /\ Goto(s, "idle")
  /\ usable' = [usable EXCEPT ![s] = FALSE]
  /\ granted' = [granted EXCEPT ![s] = FALSE]
  /\ UNCHANGED <<sharedVars, target, creating, failures>>

\* The steps a session takes by itself once an operation has started.
Continue(s) ==
  \/ InitializeDatabase(s)
  \/ InitializeDatabaseFails(s)
  \/ InsertDatabase(s)
  \/ RegisterDatabase(s)
  \/ OpenCatalog(s)
  \/ CloseDatabase(s)
  \/ EraseLookUp(s)
  \/ LockDatabase(s)
  \/ DeleteDatabase(s)
  \/ RemoveFiles(s)
  \/ RemoveFilesFails(s)
  \/ UnlockDatabase(s)

Next ==
  \E s \in Sessions :
    \/ \E db \in Databases : OpenDatabase(s, db)
    \/ \E db \in Databases : CreateDatabase(s, db)
    \/ \E db \in Databases : EraseDatabase(s, db)
    \/ Continue(s)
    \/ Crash(s)

Spec == Init /\ [][Next]_vars

\* A process runs on until the operation it has started is over.  Nothing
\* makes a client close its database, so that command is not fair.
FairSpec == Spec /\ \A s \in Sessions : WF_vars(pc[s] # "open" /\ Continue(s))

-----------------------------------------------------------------------------
(* Properties.                                                             *)

\* No two sessions send the same user name.  The code does not ensure it: a
\* session without a user sends -UNKNOWN-.
DistinctUsers == \A s, t \in Sessions : UserOf[s] = UserOf[t] => s = t

\* A locked database has no registrations: ExecRegister and ExecLock exclude
\* each other whatever the order in which processes send their commands.
LockExcludesRegistration ==
  \A db \in Databases : IsLocked(db) => ~IsRegistered(db)

\* A session whose registration was granted has its database to itself as far
\* as EraseDatabase goes: nobody is between locking and unlocking it.
GrantedExcludesErasing ==
  \A s, t \in Sessions : granted[s] => ~Erasing(t, target[s])

\* Two sessions never erase one database at the same time.
OneEraser ==
  \A s, t \in Sessions, db \in Databases :
    Erasing(s, db) /\ Erasing(t, db) => s = t

\* A lock belongs to an EraseDatabase that is still running.
LockHasHolder ==
  \A db \in Databases : IsLocked(db) => \E s \in Sessions : Erasing(s, db)

\* A locked database is unlocked again, so that others can use the name.
LockReleased == \A db \in Databases : IsLocked(db) ~> ~IsLocked(db)

\* What RegisterDatabase is for (SecondoSMI.h): no database is erased while
\* a session has it open.
OpenExcludesErasing ==
  \A s, t \in Sessions, db \in Databases : Using(s, db) => ~Erasing(t, db)
=============================================================================
