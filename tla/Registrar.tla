------------------------------ MODULE Registrar ------------------------------
(***************************************************************************)
(* The tables of the Secondo registrar (ClientServer/SecondoRegistrar.cpp) *)
(* and the four commands by which server processes register, unregister,   *)
(* lock and unlock a database.  The registrar is a single process that     *)
(* reads one command from one connection and answers it before it accepts  *)
(* the next one, so a command is one atomic step.  A reply that starts     *)
(* with 0 is an action Exec...; a reply that starts with -1 is the state   *)
(* predicate under which the command is refused, and changes nothing.      *)
(***************************************************************************)
EXTENDS Naturals

CONSTANTS
  Databases,   \* database names
  Users,       \* user names, as sent in the commands
  NoUser       \* a database without an entry in dbLocks

ASSUME NoUserAssumption == NoUser \notin Users

VARIABLES
  dbRegister,  \* the multimap database -> user, as the count of each pair
  dbLocks      \* the map database -> user; NoUser: the database is absent

registrarVars == <<dbRegister, dbLocks>>

RegistrarTypeOK ==
  /\ dbRegister \in [Databases -> [Users -> Nat]]
  /\ dbLocks \in [Databases -> Users \cup {NoUser}]

RegistrarInit ==
  /\ dbRegister = [db \in Databases |-> [u \in Users |-> 0]]
  /\ dbLocks = [db \in Databases |-> NoUser]

IsLocked(db) == dbLocks[db] # NoUser

IsRegistered(db) == \E u \in Users : dbRegister[db][u] > 0

\* mutant: the map of locks is not searched
ExecRegisterUnchecked(db, u) ==
  /\ dbRegister' = [dbRegister EXCEPT ![db][u] = @ + 1]
  /\ UNCHANGED dbLocks

ExecRegister(db, u) ==
  /\ ~IsLocked(db)
  /\ dbRegister' = [dbRegister EXCEPT ![db][u] = @ + 1]
  /\ UNCHANGED dbLocks

\* mutant: multimap::erase by key, which erases every user's registration
ExecUnregisterAll(db, u) ==
  /\ dbRegister[db][u] > 0
  /\ dbRegister' = [dbRegister EXCEPT ![db] = [v \in Users |-> 0]]
  /\ UNCHANGED dbLocks

\* erases one pair (db, u); the user's other registrations of db stay
ExecUnregister(db, u) ==
  /\ dbRegister[db][u] > 0
  /\ dbRegister' = [dbRegister EXCEPT ![db][u] = @ - 1]
  /\ UNCHANGED dbLocks

\* mutant: only the registrations are searched, not the locks
ExecLockAgain(db, u) ==
  /\ ~IsRegistered(db)
  /\ dbLocks' = [dbLocks EXCEPT ![db] = u]
  /\ UNCHANGED dbRegister

ExecLock(db, u) ==
  /\ ~IsLocked(db)
  /\ ~IsRegistered(db)
  /\ dbLocks' = [dbLocks EXCEPT ![db] = u]
  /\ UNCHANGED dbRegister

\* the owner of the lock is not compared with the user of the command
ExecUnlock(db, u) ==
  /\ IsLocked(db)
  /\ dbLocks' = [dbLocks EXCEPT ![db] = NoUser]
  /\ UNCHANGED dbRegister

RegisterRefused(db) == IsLocked(db)

UnregisterRefused(db, u) == dbRegister[db][u] = 0

LockRefused(db) == IsLocked(db) \/ IsRegistered(db)
=============================================================================
