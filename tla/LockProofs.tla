----------------------------- MODULE LockProofs -----------------------------
(***************************************************************************)
(* Proofs about the two locks of a Secondo system: that of the registrar   *)
(* on a database (DatabaseSessions), for any sets of databases, users and  *)
(* sessions and any number of failures and crashes, and that of the master *)
(* on a server of a key-value store (RestructureLock), for any number of   *)
(* queries and threads and any number of closes that are not accounted for.*)
(***************************************************************************)
EXTENDS DatabaseSessions, RestructureLock, FiniteSetTheorems, TLAPS

-----------------------------------------------------------------------------
(* Type correctness.                                                       *)

\* The tables and the program counters stay in their types, whatever the
\* sessions do.
LEMMA TypeStep == DatabaseSessionsTypeOK /\ [Next]_vars
                    => DatabaseSessionsTypeOK'
<1> SUFFICES ASSUME DatabaseSessionsTypeOK, [Next]_vars
             PROVE  DatabaseSessionsTypeOK'
  OBVIOUS
<1> USE NoUserAssumption, SessionAssumption
    DEF DatabaseSessionsTypeOK, RegistrarTypeOK, Steps
<1>1. ASSUME NEW s \in Sessions, NEW db \in Databases,
             OpenDatabase(s, db) \/ CreateDatabase(s, db) \/ EraseDatabase(s, db)
      PROVE  DatabaseSessionsTypeOK'
  <2>1. ASSUME NEW step \in Steps \ {"idle"}, NEW create \in BOOLEAN,
               Start(s, db, step, create)
        PROVE  DatabaseSessionsTypeOK'
    BY <2>1 DEF Start, Goto, sharedVars
  <2> QED
    BY <1>1, <2>1 DEF OpenDatabase, CreateDatabase, EraseDatabase
<1>2. ASSUME NEW s \in Sessions, InitializeDatabase(s)
      PROVE  DatabaseSessionsTypeOK'
  BY <1>2 DEF InitializeDatabase, AfterInitialize, Goto, registrarVars
<1>3. ASSUME NEW s \in Sessions, InitializeDatabaseFails(s)
      PROVE  DatabaseSessionsTypeOK'
  BY <1>3 DEF InitializeDatabaseFails, AfterInitialize, Goto, Fail,
              registrarVars
<1>4. ASSUME NEW s \in Sessions, InsertDatabase(s)
      PROVE  DatabaseSessionsTypeOK'
  BY <1>4 DEF InsertDatabase, Goto, registrarVars
<1>5. ASSUME NEW s \in Sessions, RegisterDatabase(s)
      PROVE  DatabaseSessionsTypeOK'
  <2>1. target[s] \in Databases /\ UserOf[s] \in Users
    BY <1>5 DEF RegisterDatabase
  <2>2. dbRegister' \in [Databases -> [Users -> Nat]]
    BY <1>5, <2>1 DEF RegisterDatabase, ExecRegister, registrarVars
  <2>3. granted' \in [Sessions -> BOOLEAN]
    BY <1>5 DEF RegisterDatabase
  <2> QED
    BY <1>5, <2>2, <2>3 DEF RegisterDatabase, ExecRegister, Goto,
                            registrarVars
<1>6. ASSUME NEW s \in Sessions, OpenCatalog(s)
      PROVE  DatabaseSessionsTypeOK'
  BY <1>6 DEF OpenCatalog, Goto, sharedVars
<1>7. ASSUME NEW s \in Sessions, CloseDatabase(s)
      PROVE  DatabaseSessionsTypeOK'
  BY <1>7 DEF CloseDatabase, ExecUnregister, UnregisterRefused, Goto,
              registrarVars
<1>8. ASSUME NEW s \in Sessions, EraseLookUp(s)
      PROVE  DatabaseSessionsTypeOK'
  BY <1>8 DEF EraseLookUp, Goto, sharedVars
<1>9. ASSUME NEW s \in Sessions, LockDatabase(s)
      PROVE  DatabaseSessionsTypeOK'
  BY <1>9 DEF LockDatabase, ExecLock, LockRefused, Goto, registrarVars
<1>10. ASSUME NEW s \in Sessions, DeleteDatabase(s)
       PROVE  DatabaseSessionsTypeOK'
  BY <1>10 DEF DeleteDatabase, Goto, registrarVars
<1>11. ASSUME NEW s \in Sessions, RemoveFiles(s)
       PROVE  DatabaseSessionsTypeOK'
  BY <1>11 DEF RemoveFiles, Goto, registrarVars
<1>12. ASSUME NEW s \in Sessions, RemoveFilesFails(s)
       PROVE  DatabaseSessionsTypeOK'
  BY <1>12 DEF RemoveFilesFails, Goto, Fail, sharedVars
<1>13. ASSUME NEW s \in Sessions, UnlockDatabase(s)
       PROVE  DatabaseSessionsTypeOK'
  BY <1>13 DEF UnlockDatabase, ExecUnlock, Goto
<1>14. ASSUME NEW s \in Sessions, Crash(s)
       PROVE  DatabaseSessionsTypeOK'
  BY <1>14 DEF Crash, Goto, sharedVars
<1>15. CASE UNCHANGED vars
  BY <1>15 DEF vars
<1> QED
  BY <1>1, <1>2, <1>3, <1>4, <1>5, <1>6, <1>7, <1>8, <1>9, <1>10, <1>11,
     <1>12, <1>13, <1>14, <1>15 DEF Next, Continue

LEMMA TypeInit == Init => DatabaseSessionsTypeOK
  BY NoUserAssumption, SessionAssumption
     DEF Init, RegistrarInit, DatabaseSessionsTypeOK, RegistrarTypeOK, Steps

\* Every reachable state has the types the module states.
THEOREM TypeCorrect == Spec => []DatabaseSessionsTypeOK
  BY TypeInit, TypeStep, PTL DEF Spec

-----------------------------------------------------------------------------
(* The registrar excludes erasing.                                         *)
(*                                                                         *)
(* EraserHoldsLock is what OneEraser lacks to be inductive: LockDatabase   *)
(* is granted only if nobody holds the lock, and UnlockDatabase by the     *)
(* only eraser takes the lock away from no other one.                      *)

EraserHoldsLock ==
  \A s \in Sessions : pc[s] \in ErasingSteps => IsLocked(target[s])

Exclusion == /\ DatabaseSessionsTypeOK
             /\ LockExcludesRegistration
             /\ EraserHoldsLock
             /\ OneEraser

NoNewEraser ==
  \A t \in Sessions :
    pc'[t] \in ErasingSteps => pc[t] \in ErasingSteps /\ target'[t] = target[t]

\* A step that leaves the locks alone and makes nobody an eraser keeps both
\* the link from erasers to locks and their exclusion.
LEMMA QuietStep ==
  ASSUME EraserHoldsLock, OneEraser, UNCHANGED dbLocks, NoNewEraser
  PROVE  EraserHoldsLock' /\ OneEraser'
BY DEF EraserHoldsLock, OneEraser, Erasing, IsLocked, NoNewEraser

\* The three invariants that say how locks, registrations and erasers exclude
\* each other are kept by every step.
LEMMA ExclusionStep == Exclusion /\ [Next]_vars => Exclusion'
<1> SUFFICES ASSUME Exclusion, [Next]_vars
             PROVE  Exclusion'
  OBVIOUS
<1>1. DatabaseSessionsTypeOK /\ DatabaseSessionsTypeOK'
  BY TypeStep DEF Exclusion
<1> DEFINE Kept == LockExcludesRegistration' /\ EraserHoldsLock' /\ OneEraser'
<1> USE <1>1 DEF DatabaseSessionsTypeOK, RegistrarTypeOK
<1>2. ASSUME UNCHANGED registrarVars, NoNewEraser
      PROVE  Kept
  <2>1. LockExcludesRegistration'
    BY <1>2 DEF Exclusion, LockExcludesRegistration, IsLocked, IsRegistered,
                registrarVars
  <2> QED
    BY <1>2, <2>1, QuietStep DEF Exclusion, registrarVars
<1>3. ASSUME NEW s \in Sessions, NEW db \in Databases,
             OpenDatabase(s, db) \/ CreateDatabase(s, db) \/ EraseDatabase(s, db)
      PROVE  Kept
  <2>1. UNCHANGED registrarVars /\ NoNewEraser
    BY <1>3 DEF OpenDatabase, CreateDatabase, EraseDatabase, Start, Goto,
                sharedVars, registrarVars, NoNewEraser, ErasingSteps
  <2> QED
    BY <1>2, <2>1
<1>4. ASSUME NEW s \in Sessions,
             \/ InitializeDatabase(s)
             \/ InitializeDatabaseFails(s)
             \/ InsertDatabase(s)
             \/ OpenCatalog(s)
             \/ EraseLookUp(s)
             \/ DeleteDatabase(s)
             \/ RemoveFiles(s)
             \/ RemoveFilesFails(s)
             \/ Crash(s)
      PROVE  Kept
  <2>1. UNCHANGED <<registrarVars, target>>
    BY <1>4 DEF InitializeDatabase, InitializeDatabaseFails, InsertDatabase,
                OpenCatalog, EraseLookUp, DeleteDatabase, RemoveFiles,
                RemoveFilesFails, Crash, sharedVars, registrarVars
  <2>2. \E step \in {"idle", "insert", "register", "open", "close", "lock",
                     "remove", "unlock"} :
          /\ Goto(s, step)
          /\ step \in ErasingSteps => pc[s] \in ErasingSteps
    BY <1>4 DEF InitializeDatabase, InitializeDatabaseFails, InsertDatabase,
                OpenCatalog, EraseLookUp, DeleteDatabase, RemoveFiles,
                RemoveFilesFails, Crash, AfterInitialize, Goto, ErasingSteps
  <2>3. NoNewEraser
    BY <2>1, <2>2 DEF Goto, NoNewEraser
  <2> QED
    BY <1>2, <2>1, <2>3 DEF registrarVars
<1>5. ASSUME NEW s \in Sessions, RegisterDatabase(s)
      PROVE  Kept
  <2>1. UNCHANGED <<dbLocks, target>> /\ NoNewEraser /\ target[s] \in Databases
    BY <1>5 DEF RegisterDatabase, ExecRegister, registrarVars, Goto,
                NoNewEraser, ErasingSteps
  <2>2. ASSUME NEW db \in Databases, IsLocked(db), NEW u \in Users
        PROVE  dbRegister'[db][u] = dbRegister[db][u]
    BY <1>5, <2>1, <2>2 DEF RegisterDatabase, ExecRegister, RegisterRefused,
                            IsLocked, registrarVars
  <2>3. LockExcludesRegistration'
    BY <2>1, <2>2 DEF Exclusion, LockExcludesRegistration, IsLocked,
                      IsRegistered
  <2> QED
    BY <2>1, <2>3, QuietStep DEF Exclusion
<1>6. ASSUME NEW s \in Sessions, CloseDatabase(s)
      PROVE  Kept
  <2>1. UNCHANGED <<dbLocks, target>> /\ NoNewEraser /\ target[s] \in Databases
    BY <1>6 DEF CloseDatabase, ExecUnregister, registrarVars, Goto,
                NoNewEraser, ErasingSteps
  <2>2. ASSUME NEW db \in Databases, NEW u \in Users
        PROVE  dbRegister'[db][u] =< dbRegister[db][u]
    <3>1. UserOf[s] \in Users
      BY SessionAssumption
    <3> QED
      BY <1>6, <2>1, <3>1 DEF CloseDatabase, ExecUnregister, registrarVars
  <2>3. LockExcludesRegistration'
    BY <2>1, <2>2 DEF Exclusion, LockExcludesRegistration, IsLocked,
                      IsRegistered
  <2> QED
    BY <2>1, <2>3, QuietStep DEF Exclusion
<1>7. ASSUME NEW s \in Sessions, LockDatabase(s)
      PROVE  Kept
  <2>1. CASE LockRefused(target[s]) /\ UNCHANGED registrarVars /\ Goto(s, "idle")
    BY <1>2, <1>7, <2>1 DEF LockDatabase, Goto, NoNewEraser, ErasingSteps
  <2>2. CASE ExecLock(target[s], UserOf[s]) /\ Goto(s, "delete")
    <3>1. /\ target[s] \in Databases /\ UserOf[s] \in Users
          /\ UNCHANGED <<dbRegister, target>>
      BY <1>7, <2>2, SessionAssumption DEF LockDatabase, ExecLock
    <3>2. dbLocks' = [dbLocks EXCEPT ![target[s]] = UserOf[s]]
      BY <2>2 DEF ExecLock
    <3>3. UserOf[s] # NoUser
      BY <3>1, NoUserAssumption
    <3>4. LockExcludesRegistration'
      BY <2>2, <3>1, <3>2 DEF Exclusion, ExecLock, LockExcludesRegistration,
                              IsLocked, IsRegistered
    <3>5. \A t \in Sessions : pc'[t] \in ErasingSteps =>
                                t = s \/ pc[t] \in ErasingSteps
      BY <2>2 DEF Goto
    <3>6. EraserHoldsLock'
      BY <3>1, <3>2, <3>3, <3>5 DEF Exclusion, EraserHoldsLock, IsLocked
    <3>7. OneEraser'
      BY <2>2, <3>1, <3>5 DEF Exclusion, OneEraser, Erasing, EraserHoldsLock,
                              ExecLock
    <3> QED
      BY <3>4, <3>6, <3>7
  <2> QED
    BY <1>7, <2>1, <2>2 DEF LockDatabase
<1>8. ASSUME NEW s \in Sessions, UnlockDatabase(s)
      PROVE  Kept
  <2>1. /\ target[s] \in Databases /\ pc[s] \in ErasingSteps
        /\ UNCHANGED <<dbRegister, target>>
    BY <1>8 DEF UnlockDatabase, ExecUnlock, ErasingSteps
  <2>2. dbLocks' = [dbLocks EXCEPT ![target[s]] = NoUser] /\ Goto(s, "idle")
    BY <1>8 DEF UnlockDatabase, ExecUnlock
  <2>3. LockExcludesRegistration'
    BY <2>1, <2>2 DEF Exclusion, LockExcludesRegistration, IsLocked,
                      IsRegistered
  <2>4. \A t \in Sessions : pc'[t] \in ErasingSteps =>
                              t # s /\ pc[t] \in ErasingSteps
    BY <2>2 DEF Goto, ErasingSteps
  <2>5. EraserHoldsLock'
    BY <2>1, <2>2, <2>4 DEF Exclusion, EraserHoldsLock, OneEraser, Erasing,
                            IsLocked
  <2>6. OneEraser'
    BY <2>1, <2>4 DEF Exclusion, OneEraser, Erasing
  <2> QED
    BY <2>3, <2>5, <2>6
<1>9. ASSUME UNCHANGED vars
      PROVE  Kept
  <2>1. UNCHANGED registrarVars /\ NoNewEraser
    BY <1>9 DEF vars, registrarVars, NoNewEraser
  <2> QED
    BY <1>2, <2>1
<1> HIDE <1>1 DEF Kept, DatabaseSessionsTypeOK, RegistrarTypeOK
<1>10. Kept
  BY <1>3, <1>4, <1>5, <1>6, <1>7, <1>8, <1>9 DEF Next, Continue
<1> USE DEF Kept
<1> QED
  BY <1>1, <1>10 DEF Exclusion

LEMMA ExclusionInit == Init => Exclusion
  BY TypeInit, NoUserAssumption, SessionAssumption
     DEF Init, RegistrarInit, Exclusion, LockExcludesRegistration,
         EraserHoldsLock, OneEraser, Erasing, ErasingSteps, IsLocked

\* A locked database has no registrations, and at most one session erases a
\* database at a time.
THEOREM ExclusionCorrect ==
  Spec => []LockExcludesRegistration /\ []OneEraser
<1>1. Exclusion => LockExcludesRegistration /\ OneEraser
  BY DEF Exclusion
<1> QED
  BY <1>1, ExclusionInit, ExclusionStep, PTL DEF Spec

\* The second half by itself: two sessions never erase one database together.
THEOREM ErasersExclude == Spec => []OneEraser
  BY ExclusionCorrect, PTL

-----------------------------------------------------------------------------
(* A lock has a holder, as long as nothing fails: only LockDatabase makes a *)
(* lock, whose session is an eraser from then on, and only UnlockDatabase   *)
(* ends an eraser, whose lock it removes.                                  *)

NoFaults == MaxFailures = 0 /\ MaxCrashes = 0

ErasersStay ==
  \A t \in Sessions :
    pc[t] \in ErasingSteps => pc'[t] \in ErasingSteps /\ target'[t] = target[t]

\* A step that leaves the locks alone and ends no eraser keeps the holders.
LEMMA HolderKept ==
  ASSUME LockHasHolder, UNCHANGED dbLocks, ErasersStay
  PROVE  LockHasHolder'
BY DEF LockHasHolder, Erasing, IsLocked, ErasersStay

\* Without failures and crashes every step keeps the holders of the locks.
LEMMA HolderStep ==
  ASSUME NoFaults
  PROVE  Exclusion /\ LockHasHolder /\ [Next]_vars => LockHasHolder'
<1> SUFFICES ASSUME Exclusion, LockHasHolder, [Next]_vars
             PROVE  LockHasHolder'
  OBVIOUS
<1>1. DatabaseSessionsTypeOK
  BY DEF Exclusion
<1> USE <1>1 DEF DatabaseSessionsTypeOK, RegistrarTypeOK
<1>2. ASSUME NEW s \in Sessions, NEW db \in Databases,
             OpenDatabase(s, db) \/ CreateDatabase(s, db) \/ EraseDatabase(s, db)
      PROVE  LockHasHolder'
  <2>1. UNCHANGED dbLocks /\ ErasersStay
    BY <1>2 DEF OpenDatabase, CreateDatabase, EraseDatabase, Start, Goto,
                sharedVars, ErasersStay, ErasingSteps
  <2> QED
    BY <2>1, HolderKept
<1>3. ASSUME NEW s \in Sessions,
             \/ InitializeDatabase(s)
             \/ InitializeDatabaseFails(s)
             \/ InsertDatabase(s)
             \/ RegisterDatabase(s)
             \/ OpenCatalog(s)
             \/ CloseDatabase(s)
             \/ EraseLookUp(s)
      PROVE  LockHasHolder'
  <2>1. UNCHANGED <<dbLocks, target>> /\ pc[s] \notin ErasingSteps
    BY <1>3 DEF InitializeDatabase, InitializeDatabaseFails, InsertDatabase,
                RegisterDatabase, OpenCatalog, CloseDatabase, EraseLookUp,
                ExecRegister, ExecUnregister, sharedVars, registrarVars,
                ErasingSteps
  <2>2. \E step : Goto(s, step)
    BY <1>3 DEF InitializeDatabase, InitializeDatabaseFails, InsertDatabase,
                RegisterDatabase, OpenCatalog, CloseDatabase, EraseLookUp,
                AfterInitialize
  <2>3. ErasersStay
    BY <2>1, <2>2 DEF Goto, ErasersStay
  <2> QED
    BY <2>1, <2>3, HolderKept
<1>4. ASSUME NEW s \in Sessions, LockDatabase(s)
      PROVE  LockHasHolder'
  <2>1. pc[s] = "lock" /\ target' = target /\ target[s] \in Databases
    BY <1>4 DEF LockDatabase
  <2>2. CASE UNCHANGED registrarVars /\ Goto(s, "idle")
    <3>1. ErasersStay
      BY <2>1, <2>2 DEF Goto, ErasersStay, ErasingSteps
    <3> QED
      BY <2>2, <3>1, HolderKept DEF registrarVars
  <2>3. CASE ExecLock(target[s], UserOf[s]) /\ Goto(s, "delete")
    <3>1. ErasersStay /\ pc'[s] \in ErasingSteps
      BY <2>1, <2>3 DEF Goto, ErasersStay, ErasingSteps
    <3>2. \A db \in Databases : db # target[s] => dbLocks'[db] = dbLocks[db]
      BY <2>3 DEF ExecLock
    <3> QED
      BY <2>1, <3>1, <3>2 DEF LockHasHolder, Erasing, IsLocked, ErasersStay
  <2> QED
    BY <1>4, <2>2, <2>3 DEF LockDatabase
<1>5. ASSUME NEW s \in Sessions, DeleteDatabase(s) \/ RemoveFiles(s)
      PROVE  LockHasHolder'
  <2>1. UNCHANGED dbLocks /\ ErasersStay
    BY <1>5 DEF DeleteDatabase, RemoveFiles, Goto, registrarVars, ErasersStay,
                ErasingSteps
  <2> QED
    BY <2>1, HolderKept
<1>6. ASSUME NEW s \in Sessions, UnlockDatabase(s)
      PROVE  LockHasHolder'
  <2>1. /\ dbLocks' = [dbLocks EXCEPT ![target[s]] = NoUser]
        /\ Goto(s, "idle")
        /\ target' = target
    BY <1>6 DEF UnlockDatabase, ExecUnlock
  <2>2. ASSUME NEW db \in Databases, IsLocked(db)'
        PROVE  \E t \in Sessions : Erasing(t, db)'
    <3>1. db # target[s] /\ IsLocked(db)
      BY <2>1, <2>2 DEF IsLocked
    <3>2. PICK t \in Sessions : Erasing(t, db)
      BY <3>1 DEF LockHasHolder
    <3> QED
      BY <2>1, <3>1, <3>2 DEF Erasing, Goto
  <2> QED
    BY <2>2 DEF LockHasHolder
<1>7. ASSUME NEW s \in Sessions, RemoveFilesFails(s) \/ Crash(s)
      PROVE  FALSE
  BY <1>7 DEF RemoveFilesFails, Fail, Crash, NoFaults
<1>8. CASE UNCHANGED vars
  <2>1. UNCHANGED dbLocks /\ ErasersStay
    BY <1>8 DEF vars, ErasersStay
  <2> QED
    BY <2>1, HolderKept
<1> QED
  <2> HIDE DEF LockHasHolder, DatabaseSessionsTypeOK, RegistrarTypeOK
  <2> QED
    BY <1>2, <1>3, <1>4, <1>5, <1>6, <1>7, <1>8 DEF Next, Continue

\* Without failures and crashes a lock belongs to an EraseDatabase that runs.
THEOREM LocksHaveHolders ==
  ASSUME NoFaults
  PROVE  Spec => []LockHasHolder
<1>1. Init => LockHasHolder
  BY DEF Init, RegistrarInit, LockHasHolder, IsLocked
<1> QED
  BY <1>1, ExclusionInit, ExclusionStep, HolderStep, PTL DEF Spec

-----------------------------------------------------------------------------
(* A granted registration protects the database.                           *)
(*                                                                         *)
(* GrantedIsRegistered is the fact behind it: the entry that the session's *)
(* REGISTER made is still in dbRegister.  With a shared user name another  *)
(* session's UNREGISTER may take it away, hence DistinctUsers.             *)

GrantedIsRegistered ==
  \A s \in Sessions : granted[s] =>
    /\ pc[s] \in UsingSteps
    /\ dbRegister[target[s]][UserOf[s]] > 0

Protection == Exclusion /\ GrantedIsRegistered

\* Under DistinctUsers every step keeps the entry of a granted session.
LEMMA ProtectionStep ==
  ASSUME DistinctUsers
  PROVE  Protection /\ [Next]_vars => Protection'
<1> SUFFICES ASSUME Protection, [Next]_vars
             PROVE  GrantedIsRegistered'
  BY ExclusionStep DEF Protection
<1> USE DEF Protection, UsingSteps
<1>1. DatabaseSessionsTypeOK /\ DatabaseSessionsTypeOK'
  BY TypeStep DEF Exclusion
<1> USE <1>1 DEF DatabaseSessionsTypeOK, RegistrarTypeOK
<1>2. ASSUME NEW s \in Sessions, NEW db \in Databases,
             OpenDatabase(s, db) \/ CreateDatabase(s, db) \/ EraseDatabase(s, db)
      PROVE  GrantedIsRegistered'
  <2>1. ~granted[s] /\ UNCHANGED <<granted, dbRegister>>
    BY <1>2 DEF OpenDatabase, CreateDatabase, EraseDatabase, Start,
                GrantedIsRegistered, sharedVars
  <2>2. \A t \in Sessions : t # s => pc'[t] = pc[t] /\ target'[t] = target[t]
    BY <1>2 DEF OpenDatabase, CreateDatabase, EraseDatabase, Start, Goto
  <2> QED
    BY <2>1, <2>2 DEF GrantedIsRegistered
<1>3. ASSUME NEW s \in Sessions,
             \/ InitializeDatabase(s)
             \/ InitializeDatabaseFails(s)
             \/ InsertDatabase(s)
             \/ EraseLookUp(s)
             \/ LockDatabase(s)
             \/ DeleteDatabase(s)
             \/ RemoveFiles(s)
             \/ RemoveFilesFails(s)
             \/ UnlockDatabase(s)
      PROVE  GrantedIsRegistered'
  <2>1. /\ pc[s] \notin UsingSteps
        /\ UNCHANGED <<granted, dbRegister, target>>
    BY <1>3 DEF InitializeDatabase, InitializeDatabaseFails, InsertDatabase,
                EraseLookUp, LockDatabase, DeleteDatabase, RemoveFiles,
                RemoveFilesFails, UnlockDatabase, ExecLock, ExecUnlock,
                sharedVars, registrarVars
  <2>2. \E step : Goto(s, step)
    BY <1>3 DEF InitializeDatabase, InitializeDatabaseFails, InsertDatabase,
                EraseLookUp, LockDatabase, DeleteDatabase, RemoveFiles,
                RemoveFilesFails, UnlockDatabase, AfterInitialize
  <2>3. \A t \in Sessions : t # s => pc'[t] = pc[t]
    BY <2>2 DEF Goto
  <2> QED
    BY <2>1, <2>3 DEF GrantedIsRegistered
<1>4. ASSUME NEW s \in Sessions, RegisterDatabase(s)
      PROVE  GrantedIsRegistered'
  <2>1. /\ target[s] \in Databases /\ UserOf[s] \in Users
        /\ target' = target /\ pc' = [pc EXCEPT ![s] = "catalog"]
    BY <1>4, SessionAssumption DEF RegisterDatabase, Goto
  <2>2. \A db \in Databases, u \in Users : dbRegister'[db][u] >= dbRegister[db][u]
    <3>1. \/ UNCHANGED dbRegister
          \/ dbRegister' = [dbRegister EXCEPT ![target[s]][UserOf[s]] = @ + 1]
      BY <1>4 DEF RegisterDatabase, ExecRegister, registrarVars
    <3>2. dbRegister \in [Databases -> [Users -> Nat]]
      OBVIOUS
    <3> QED
      BY <2>1, <3>1, <3>2
  <2>3. granted'[s] => granted[s] \/ dbRegister'[target[s]][UserOf[s]] > 0
    BY <1>4, <2>1 DEF RegisterDatabase, ExecRegister
  <2>4. \A t \in Sessions : t # s => granted'[t] = granted[t]
    BY <1>4 DEF RegisterDatabase
  <2>5. \A t \in Sessions : granted[t] =>
          target[t] \in Databases /\ UserOf[t] \in Users
    BY SessionAssumption DEF GrantedIsRegistered
  <2> QED
    BY <2>1, <2>2, <2>3, <2>4, <2>5 DEF GrantedIsRegistered
<1>5. ASSUME NEW s \in Sessions, OpenCatalog(s)
      PROVE  GrantedIsRegistered'
  BY <1>5 DEF OpenCatalog, GrantedIsRegistered, Goto, sharedVars
<1>6. ASSUME NEW s \in Sessions, CloseDatabase(s)
      PROVE  GrantedIsRegistered'
  <2>1. ~granted'[s] /\ target' = target
    BY <1>6 DEF CloseDatabase
  <2>2. \A t \in Sessions : t # s => granted'[t] = granted[t] /\ pc'[t] = pc[t]
    BY <1>6 DEF CloseDatabase, Goto
  <2>3. ASSUME NEW t \in Sessions, t # s, granted[t]
        PROVE  dbRegister'[target[t]][UserOf[t]] = dbRegister[target[t]][UserOf[t]]
    <3>1. UserOf[t] # UserOf[s] /\ UserOf[t] \in Users /\ UserOf[s] \in Users
      BY <2>3, SessionAssumption DEF DistinctUsers
    <3>2. target[t] \in Databases /\ target[s] \in Databases
      BY <1>6, <2>3 DEF CloseDatabase, GrantedIsRegistered
    <3> QED
      BY <1>6, <3>1, <3>2 DEF CloseDatabase, ExecUnregister, registrarVars
  <2> QED
    BY <2>1, <2>2, <2>3 DEF GrantedIsRegistered
<1>7. ASSUME NEW s \in Sessions, Crash(s)
      PROVE  GrantedIsRegistered'
  BY <1>7 DEF Crash, GrantedIsRegistered, Goto, sharedVars
<1>8. CASE UNCHANGED vars
  BY <1>8 DEF vars, GrantedIsRegistered
<1> QED
  <2> HIDE DEF GrantedIsRegistered
  <2> QED
    BY <1>2, <1>3, <1>4, <1>5, <1>6, <1>7, <1>8 DEF Next, Continue

\* If no two sessions share a user name, a session whose registration was
\* granted never has its database erased under it.
THEOREM RegistrationProtects ==
  ASSUME DistinctUsers
  PROVE  Spec => []GrantedExcludesErasing
<1>1. Init => Protection
  BY ExclusionInit DEF Init, Protection, GrantedIsRegistered
<1>2. Protection => GrantedExcludesErasing
  <2> SUFFICES ASSUME Protection, NEW s \in Sessions, NEW t \in Sessions,
                      granted[s], Erasing(t, target[s])
               PROVE  FALSE
    BY DEF GrantedExcludesErasing
  <2>1. target[s] \in Databases /\ UserOf[s] \in Users
    BY SessionAssumption
       DEF Protection, Exclusion, DatabaseSessionsTypeOK, GrantedIsRegistered,
           UsingSteps
  <2>2. IsRegistered(target[s])
    BY <2>1 DEF Protection, GrantedIsRegistered, IsRegistered
  <2>3. IsLocked(target[s])
    BY DEF Protection, Exclusion, EraserHoldsLock, Erasing
  <2> QED
    BY <2>1, <2>2, <2>3 DEF Protection, Exclusion, LockExcludesRegistration
<1> QED
  BY <1>1, <1>2, ProtectionStep, PTL DEF Spec


-----------------------------------------------------------------------------
(* Queries that retrieve, counted.                                         *)

\* The lock was given to them and may still be counted.
Counted == {c \in Clients : client[c] \in {"retrieving", "hung"}}

\* The master has to wait for them.
WaitedFor == Retrieving \ givenUp

SetsOrdered ==
  /\ IsFiniteSet(Counted) /\ IsFiniteSet(Retrieving) /\ IsFiniteSet(WaitedFor)
  /\ Cardinality(Counted) \in 0 .. Cardinality(Clients)
  /\ Cardinality(Retrieving) \in 0 .. Cardinality(Counted)
  /\ Cardinality(WaitedFor) \in Nat
  /\ Cardinality(Clients) \in Nat

LEMMA SetsAreOrdered == SetsOrdered
<1>1. Counted \subseteq Clients /\ Retrieving \subseteq Counted /\ WaitedFor \subseteq Clients
  BY DEF Counted, Retrieving, WaitedFor
<1>2. IsFiniteSet(Clients)
  BY RestructureAssumption
<1>3. IsFiniteSet(Counted) /\ IsFiniteSet(Retrieving) /\ IsFiniteSet(WaitedFor)
  BY <1>1, <1>2, FS_Subset
<1> QED
  BY <1>1, <1>2, <1>3, FS_Subset, FS_CardinalityType DEF SetsOrdered

\* A query gets the lock.
LEMMA Joins ==
  ASSUME LockTypeOK, NEW c \in Clients, client[c] \in {"idle", "waiting"},
         client' = [client EXCEPT ![c] = "retrieving"], givenUp' = givenUp
  PROVE  /\ givenUp' \subseteq Retrieving'
         /\ Cardinality(Counted') = Cardinality(Counted) + 1
         /\ Cardinality(WaitedFor') = Cardinality(WaitedFor) + 1
<1>1. c \notin Counted /\ c \notin Retrieving
  BY DEF Counted, Retrieving
<1>2. Counted' = Counted \cup {c} /\ Retrieving' = Retrieving \cup {c}
  BY DEF Counted, Retrieving, LockTypeOK
<1>3. WaitedFor' = WaitedFor \cup {c} /\ c \notin WaitedFor
  BY <1>1, <1>2 DEF WaitedFor, LockTypeOK
<1> QED
  BY <1>1, <1>2, <1>3, SetsAreOrdered, FS_AddElement DEF SetsOrdered, LockTypeOK

\* A query no longer retrieves; if it was waited for there is one less.
LEMMA Leaves ==
  ASSUME LockTypeOK, NEW c \in Clients, client[c] = "retrieving",
         NEW state \in {"idle", "hung"},
         client' = [client EXCEPT ![c] = state], givenUp' = givenUp \ {c}
  PROVE  /\ givenUp' \subseteq Retrieving'
         /\ WaitedFor' = WaitedFor \ {c}
         /\ Cardinality(WaitedFor') =
              Cardinality(WaitedFor) - (IF c \in givenUp THEN 0 ELSE 1)
         /\ Cardinality(Counted') =
              Cardinality(Counted) - (IF state = "idle" THEN 1 ELSE 0)
<1>1. c \in Counted /\ c \in Retrieving
  BY DEF Counted, Retrieving
<1>2. /\ Counted' = IF state = "idle" THEN Counted \ {c} ELSE Counted
      /\ Retrieving' = Retrieving \ {c}
  BY DEF Counted, Retrieving, LockTypeOK
<1>3. WaitedFor' = WaitedFor \ {c} /\ (c \in WaitedFor <=> c \notin givenUp)
  BY <1>1, <1>2 DEF WaitedFor, LockTypeOK
<1>4. \A S, x : IsFiniteSet(S) => Cardinality(S) \in Nat /\
         Cardinality(S \ {x}) = IF x \in S THEN Cardinality(S) - 1 ELSE Cardinality(S)
  BY FS_RemoveElement, FS_CardinalityType
<1>5. Cardinality(Counted') = Cardinality(Counted) - (IF state = "idle" THEN 1 ELSE 0)
  BY <1>1, <1>2, <1>4, SetsAreOrdered DEF SetsOrdered
<1>6. Cardinality(WaitedFor') = Cardinality(WaitedFor) - (IF c \in givenUp THEN 0 ELSE 1)
  BY <1>3, <1>4, SetsAreOrdered DEF SetsOrdered
<1> QED
  BY <1>2, <1>3, <1>5, <1>6 DEF LockTypeOK

\* A query that did not retrieve changes its state.
LEMMA StaysOut ==
  ASSUME LockTypeOK, NEW c \in Clients, client[c] \in {"idle", "waiting"},
         NEW state \in {"idle", "waiting", "hung"},
         client' = [client EXCEPT ![c] = state], givenUp' \in {givenUp, givenUp \ {c}}
  PROVE  /\ Retrieving' = Retrieving /\ givenUp' = givenUp
         /\ WaitedFor' = WaitedFor /\ Counted \subseteq Counted'
         /\ Cardinality(Counted) <= Cardinality(Counted')
<1>1. Retrieving' = Retrieving /\ Counted \subseteq Counted' /\ c \notin Retrieving
  BY DEF Counted, Retrieving, LockTypeOK
<1>2. IsFiniteSet(Counted')
  <2>1. Counted' \subseteq Clients
    BY DEF Counted
  <2> QED
    BY <2>1, RestructureAssumption, FS_Subset
<1>3. givenUp' = givenUp
  BY <1>1 DEF LockTypeOK
<1> QED
  BY <1>1, <1>2, <1>3, FS_Subset, FS_CardinalityType DEF WaitedFor

-----------------------------------------------------------------------------
(* Type correctness.  A close leaks the count of one query at a time, so   *)
(* the counter is bounded by the queries and the leaks.                    *)

TypeInv ==
  /\ LockTypeOK
  /\ retrieveCounter <= Cardinality(Counted) + MaxLeaks

LEMMA BoundIsType ==
  ASSUME retrieveCounter \in Nat, retrieveCounter <= Cardinality(Counted) + MaxLeaks
  PROVE  retrieveCounter \in 0 .. (Cardinality(Clients) + MaxLeaks)
BY SetsAreOrdered, RestructureAssumption DEF SetsOrdered

\* A query's requests.
LEMMA ClientTypes ==
  ASSUME TypeInv, NEW c \in Clients,
         TryLock(c) \/ TryLockFails(c) \/ UnlockClient(c) \/ Close(c)
           \/ UpdateLock(c) \/ RequestHangs(c)
  PROVE  TypeInv'
<1> USE SetsAreOrdered, RestructureAssumption DEF TypeInv, SetsOrdered
<1>0. SetsOrdered'
  BY SetsAreOrdered, PTL
<1>1. /\ client' \in [Clients -> {"idle", "waiting", "retrieving", "hung"}]
      /\ outOfStep' \in BOOLEAN /\ restructuring' \in BOOLEAN /\ expired' \in BOOLEAN
      /\ phase' = phase /\ cleaner' = cleaner
  BY DEF LockTypeOK, TryLock, TryLockFails, UnlockClient, Close, UpdateLock,
       RequestHangs, lockVars, masterVars
<1>2. /\ givenUp' \subseteq Retrieving'
      /\ retrieveCounter' \in Nat
      /\ retrieveCounter' <= Cardinality(Counted') + MaxLeaks
  <2>0. /\ LockTypeOK /\ retrieveCounter \in Nat
        /\ retrieveCounter <= Cardinality(Counted) + MaxLeaks
        /\ Cardinality(Counted) \in Nat /\ Cardinality(Counted') \in Nat
        /\ Cardinality(Retrieving) \in 0 .. Cardinality(Counted)
        /\ MaxLeaks \in Nat
    BY <1>0 DEF LockTypeOK
  <2> HIDE DEF TypeInv, SetsOrdered
  <2>1. CASE TryLock(c) /\ ~restructuring
    BY <2>0, <2>1, Joins DEF TryLock
  <2>2. CASE TryLock(c) /\ restructuring
    <3>1. /\ client[c] \in {"idle", "waiting"}
          /\ client' = [client EXCEPT ![c] = "waiting"]
          /\ givenUp' = givenUp /\ retrieveCounter' = retrieveCounter
      BY <2>2 DEF TryLock
    <3>2. Retrieving' = Retrieving /\ Cardinality(Counted) <= Cardinality(Counted')
      BY <2>0, <3>1, StaysOut
    <3> QED
      BY <2>0, <3>1, <3>2 DEF LockTypeOK
  <2>3. CASE UnlockClient(c)
    <3>1. /\ client[c] = "retrieving"
          /\ client' = [client EXCEPT ![c] = "idle"] /\ givenUp' = givenUp \ {c}
          /\ retrieveCounter' =
               IF retrieveCounter > 0 THEN retrieveCounter - 1 ELSE 0
      BY <2>3 DEF UnlockClient
    <3>2. /\ givenUp' \subseteq Retrieving'
          /\ Cardinality(Counted') = Cardinality(Counted) - 1
      BY <2>0, <3>1, Leaves
    <3> QED
      BY <2>0, <3>1, <3>2
  <2>4. CASE Close(c)
    <3>1. /\ client[c] = "retrieving"
          /\ client' = [client EXCEPT ![c] = "idle"] /\ givenUp' = givenUp \ {c}
          /\ retrieveCounter' = retrieveCounter
          /\ retrieveCounter < Cardinality(Retrieving) + MaxLeaks
      BY <2>4 DEF Close, lockVars
    <3>2. /\ givenUp' \subseteq Retrieving'
          /\ Cardinality(Counted') = Cardinality(Counted) - 1
      BY <2>0, <3>1, Leaves
    <3> QED
      BY <2>0, <3>1, <3>2
  <2>5. CASE UpdateLock(c)
    BY <2>0, <2>5 DEF UpdateLock, lockVars, Counted, Retrieving, LockTypeOK
  <2>6. CASE RequestHangs(c)
    <3>1. /\ client' = [client EXCEPT ![c] = "hung"] /\ givenUp' = givenUp \ {c}
          /\ retrieveCounter' = retrieveCounter
          /\ client[c] \in {"idle", "waiting", "retrieving"}
      BY <2>0, <2>6 DEF RequestHangs, lockVars, LockTypeOK
    <3>2. CASE client[c] = "retrieving"
      <4>1. /\ givenUp' \subseteq Retrieving'
            /\ Cardinality(Counted') = Cardinality(Counted) - 0
        BY <2>0, <3>1, <3>2, Leaves
      <4> QED
        BY <2>0, <3>1, <4>1
    <3>3. CASE client[c] \in {"idle", "waiting"}
      <4>1. /\ Retrieving' = Retrieving /\ givenUp' = givenUp
            /\ Cardinality(Counted) <= Cardinality(Counted')
        BY <2>0, <3>1, <3>3, StaysOut
      <4> QED
        BY <2>0, <3>1, <4>1 DEF LockTypeOK
    <3> QED
      BY <3>1, <3>2, <3>3
  <2>7. CASE TryLockFails(c)
    <3>1. PICK next \in {"idle", "waiting"} : client' = [client EXCEPT ![c] = next]
      BY <2>7 DEF TryLockFails
    <3>2. /\ client[c] \in {"idle", "waiting"}
          /\ givenUp' = givenUp /\ retrieveCounter' = retrieveCounter
      BY <2>7 DEF TryLockFails, lockVars
    <3>3. Retrieving' = Retrieving /\ Cardinality(Counted) <= Cardinality(Counted')
      BY <2>0, <3>1, <3>2, StaysOut
    <3> QED
      BY <2>0, <3>2, <3>3 DEF LockTypeOK
  <2> QED
    BY <2>1, <2>2, <2>3, <2>4, <2>5, <2>6, <2>7
<1>3. retrieveCounter' \in 0 .. (Cardinality(Clients) + MaxLeaks)
  BY <1>0, <1>2
<1> QED
  BY <1>1, <1>2, <1>3 DEF LockTypeOK

\* The master and the clock leave the queries alone.
LEMMA MasterTypes ==
  ASSUME TypeInv, Expire \/ StartRestructuring \/ Restructure
  PROVE  TypeInv'
<1>1. client' = client /\ retrieveCounter' \in {retrieveCounter, 0}
  BY DEF Expire, StartRestructuring, Restructure, StartCleaning, JoinCleaners, Lock,
       Unlock, lockVars, masterVars
<1>2. Counted' = Counted /\ Retrieving' = Retrieving
  BY <1>1 DEF Counted, Retrieving
<1>3. /\ restructuring' \in BOOLEAN /\ expired' \in BOOLEAN /\ outOfStep' \in BOOLEAN
      /\ phase' \in {"normal", "distribute", "clean"}
      /\ cleaner' \in [Cleaners -> {"none", "start", "sleep", "clean"}]
      /\ givenUp' \subseteq Retrieving
  BY DEF TypeInv, LockTypeOK, Expire, StartRestructuring, Restructure, StartCleaning,
       JoinCleaners, Lock, Unlock, lockVars, masterVars
<1>4. 0 <= Cardinality(Counted) + MaxLeaks /\ 0 \in 0 .. (Cardinality(Clients) + MaxLeaks)
  BY SetsAreOrdered, RestructureAssumption DEF SetsOrdered
<1> QED
  BY <1>1, <1>2, <1>3, <1>4 DEF TypeInv, LockTypeOK

LEMMA TypeInvariant == RestructureSpec => []TypeInv
<1>1. RestructureInit => TypeInv
  <2> SUFFICES ASSUME RestructureInit PROVE TypeInv
    OBVIOUS
  <2>1. retrieveCounter <= Cardinality(Counted) + MaxLeaks /\ retrieveCounter \in Nat
    BY SetsAreOrdered, RestructureAssumption DEF RestructureInit, SetsOrdered
  <2>2. retrieveCounter \in 0 .. (Cardinality(Clients) + MaxLeaks)
    BY <2>1, BoundIsType
  <2> QED
    BY <2>1, <2>2 DEF RestructureInit, TypeInv, LockTypeOK
<1>2. TypeInv /\ [RestructureNext]_restructureVars => TypeInv'
  <2> SUFFICES ASSUME TypeInv, [RestructureNext]_restructureVars PROVE TypeInv'
    OBVIOUS
  <2>1. CASE UNCHANGED restructureVars
    BY <2>1 DEF TypeInv, LockTypeOK, Counted, Retrieving, restructureVars, lockVars, masterVars
  <2>2. CASE RestructureNext
    BY <2>2, ClientTypes, MasterTypes DEF RestructureNext
  <2> QED
    BY <2>1, <2>2
<1> QED
  BY <1>1, <1>2, PTL DEF RestructureSpec

(* Every variable keeps its type, and the counter stays within the number  *)
(* of queries and of unaccounted closes, although unlock resets it and     *)
(* closes leak it (RestructureLock); for every choice of Irregular.        *)
THEOREM RestructureTypeCorrect == RestructureSpec => []LockTypeOK
BY TypeInvariant, PTL DEF TypeInv
-----------------------------------------------------------------------------
(* Exclusion.  A server has one thread, and a query that was given up ends *)
(* before another one gets the lock.                                       *)

Regular == "server twice" \notin Irregular /\ "late end" \notin Irregular

Busy(k) == cleaner[k] # "none"

\* From the start of a restructuring until its thread unlocks, queries are
\* refused.
KeptOut ==
  /\ \A j, k \in Cleaners : Busy(j) /\ Busy(k) => j = k
  /\ \A k \in Cleaners : Busy(k) => phase = "clean"
  /\ phase = "distribute" \/ (\E k \in Cleaners : Busy(k)) => restructuring

\* The counter misses nobody whom the master still waits for.
CounterCovers == Cardinality(WaitedFor) <= retrieveCounter

ExclusionInv == KeptOut /\ CounterCovers /\ CleaningExcludes

\* Queries come and go while the master does nothing.
LEMMA ClientExclusion ==
  ASSUME Regular, LockTypeOK, ExclusionInv, NEW c \in Clients,
         TryLock(c) \/ TryLockFails(c) \/ UnlockClient(c) \/ Close(c)
           \/ UpdateLock(c) \/ RequestHangs(c)
  PROVE  ExclusionInv'
<1>1. UNCHANGED <<restructuring, phase, cleaner>>
  BY DEF TryLock, TryLockFails, UnlockClient, Close, UpdateLock, RequestHangs,
       lockVars, masterVars
<1>2. KeptOut'
  BY <1>1 DEF ExclusionInv, KeptOut, Busy
<1>3. /\ retrieveCounter \in Nat /\ Cardinality(WaitedFor) \in Nat
      /\ Cardinality(WaitedFor) <= retrieveCounter
  BY SetsAreOrdered DEF ExclusionInv, CounterCovers, SetsOrdered, LockTypeOK
<1> DEFINE
      StillOut ==
        /\ client[c] \in {"idle", "waiting"}
        /\ \E state \in {"idle", "waiting", "hung"} :
             client' = [client EXCEPT ![c] = state]
        /\ givenUp' \in {givenUp, givenUp \ {c}}
        /\ retrieveCounter' = retrieveCounter
      Ends ==
        /\ client[c] = "retrieving"
        /\ client' = [client EXCEPT ![c] = "idle"]
             \/ client' = [client EXCEPT ![c] = "hung"]
        /\ givenUp' = givenUp \ {c}
        /\ \/ retrieveCounter' = retrieveCounter
           \/ /\ c \notin givenUp \/ retrieveCounter = 0
              /\ retrieveCounter' =
                   IF retrieveCounter > 0 THEN retrieveCounter - 1 ELSE 0
<1>4. CounterCovers' /\ CleaningExcludes'
  <2>1. CASE TryLock(c) /\ ~restructuring
    <3>1. \A k \in Cleaners : cleaner'[k] # "clean"
      BY <1>1, <2>1 DEF ExclusionInv, KeptOut, Busy
    <3>2. Cardinality(WaitedFor') = Cardinality(WaitedFor) + 1
      BY <2>1, Joins DEF TryLock
    <3> QED
      BY <1>3, <2>1, <3>1, <3>2 DEF TryLock, CounterCovers, CleaningExcludes
  <2>2. CASE StillOut
    <3>1. Retrieving' = Retrieving /\ givenUp' = givenUp /\ WaitedFor' = WaitedFor
      BY <2>2, StaysOut
    <3> QED
      BY <1>1, <2>2, <3>1 DEF ExclusionInv, CounterCovers, CleaningExcludes
  <2>3. CASE Ends
    <3>1. /\ Cardinality(WaitedFor') =
               Cardinality(WaitedFor) - (IF c \in givenUp THEN 0 ELSE 1)
          /\ Retrieving' = Retrieving \ {c}
      BY <2>3, Leaves DEF Retrieving, LockTypeOK
    <3>2. CounterCovers'
      BY <1>3, <2>3, <3>1 DEF CounterCovers
    <3>3. CleaningExcludes'
      BY <1>1, <2>3, <3>1 DEF ExclusionInv, CleaningExcludes
    <3> QED
      BY <3>2, <3>3
  <2>4. CASE UpdateLock(c)
    BY <2>4 DEF UpdateLock, ExclusionInv, CounterCovers, CleaningExcludes, WaitedFor,
         Retrieving, lockVars, masterVars
  <2>5. (TryLock(c) /\ restructuring) \/ TryLockFails(c) => StillOut
    BY DEF TryLock, TryLockFails, lockVars
  <2>6. UnlockClient(c) \/ Close(c) => Ends
    <3>1. UnlockClient(c) /\ retrieveCounter > 0 => c \notin givenUp
      BY DEF UnlockClient, Regular
    <3>2. retrieveCounter > 0 \/ retrieveCounter = 0
      BY <1>3
    <3> QED
      BY <3>1, <3>2 DEF UnlockClient, Close, lockVars
  <2>7. RequestHangs(c) => StillOut \/ Ends
    BY DEF RequestHangs, lockVars, LockTypeOK
  <2> HIDE DEF StillOut, Ends
  <2> QED
    BY <2>1, <2>2, <2>3, <2>4, <2>5, <2>6, <2>7
<1> QED
  BY <1>2, <1>4 DEF ExclusionInv

LEMMA MasterExclusion ==
  ASSUME Regular, LockTypeOK, ExclusionInv, Expire \/ StartRestructuring \/ Restructure
  PROVE  ExclusionInv'
<1>1. client' = client /\ Retrieving' = Retrieving
  BY DEF Expire, StartRestructuring, Restructure, StartCleaning, JoinCleaners, Lock,
       Unlock, lockVars, masterVars, Retrieving
<1>2. CASE Expire \/ StartRestructuring \/ JoinCleaners
  <2>1. UNCHANGED <<retrieveCounter, cleaner, givenUp>>
    BY <1>2 DEF Expire, StartRestructuring, JoinCleaners, lockVars, masterVars
  <2>2. KeptOut'
    BY <1>2 DEF Expire, StartRestructuring, JoinCleaners, lockVars, masterVars,
         ExclusionInv, KeptOut, Busy
  <2> QED
    BY <1>1, <2>1, <2>2 DEF ExclusionInv, CounterCovers, CleaningExcludes, WaitedFor
<1>3. CASE StartCleaning
  <2>1. UNCHANGED <<restructuring, retrieveCounter, givenUp>>
    BY <1>3 DEF StartCleaning, lockVars
  <2>2. KeptOut' /\ \A k \in Cleaners : cleaner'[k] # "clean"
    BY <1>3 DEF StartCleaning, lockVars, ExclusionInv, KeptOut, Busy, Regular
  <2> QED
    BY <1>1, <2>1, <2>2 DEF ExclusionInv, CounterCovers, CleaningExcludes, WaitedFor
<1>4. ASSUME NEW k \in Cleaners, Lock(k)
      PROVE  ExclusionInv'
  <2>1. KeptOut'
    BY <1>4 DEF Lock, ExclusionInv, KeptOut, Busy, LockTypeOK
  <2>2. CASE retrieveCounter > 0 /\ MayClean
    <3>1. Retrieving' \subseteq givenUp' /\ WaitedFor' = {}
      BY <1>1, <1>4, <2>2 DEF Lock, WaitedFor
    <3>2. Cardinality(WaitedFor') = 0
      BY <3>1, FS_EmptySet
    <3> QED
      BY <1>4, <2>1, <2>2, <3>1, <3>2
         DEF Lock, ExclusionInv, CounterCovers, CleaningExcludes, LockTypeOK
  <2>3. CASE retrieveCounter = 0
    <3>1. IsFiniteSet(WaitedFor) /\ Cardinality(WaitedFor) = 0
      BY <2>3, SetsAreOrdered DEF ExclusionInv, CounterCovers, SetsOrdered
    <3>2. Retrieving \subseteq givenUp
      BY <3>1, FS_EmptySet DEF WaitedFor
    <3>3. givenUp' = givenUp /\ retrieveCounter' = retrieveCounter
      BY <1>4, <2>3 DEF Lock
    <3> QED
      BY <1>1, <2>1, <3>2, <3>3
         DEF ExclusionInv, CounterCovers, CleaningExcludes, WaitedFor
  <2>4. CASE ~ MayClean
    BY <1>1, <1>4, <2>1, <2>4
       DEF Lock, ExclusionInv, CounterCovers, CleaningExcludes, WaitedFor, LockTypeOK
  <2> QED
    BY <2>2, <2>3, <2>4 DEF LockTypeOK
<1>5. ASSUME NEW k \in Cleaners, Unlock(k)
      PROVE  ExclusionInv'
  <2>1. Retrieving \subseteq givenUp /\ givenUp' = givenUp
    BY <1>5 DEF Unlock, ExclusionInv, CleaningExcludes
  <2>2. WaitedFor' = {} /\ Cardinality(WaitedFor') = 0
    BY <1>1, <2>1, FS_EmptySet DEF WaitedFor
  <2>3. KeptOut'
    BY <1>5 DEF Unlock, ExclusionInv, KeptOut, Busy, LockTypeOK
  <2> QED
    BY <1>1, <1>5, <2>1, <2>2, <2>3
       DEF Unlock, ExclusionInv, CounterCovers, CleaningExcludes
<1> QED
  BY <1>2, <1>3, <1>4, <1>5 DEF Restructure

(* While a thread cleans up, only queries that the master has given up     *)
(* retrieve: the counter that unlock resets and closes leak never hides    *)
(* one (tryLockClient, unlockClient, lock, unlock), as long as a server    *)
(* has one thread and queries that were given up end by themselves.        *)
THEOREM CleaningCorrect ==
  ASSUME Regular
  PROVE  RestructureSpec => []CleaningExcludes
<1>1. RestructureInit => ExclusionInv
  <2> SUFFICES ASSUME RestructureInit PROVE ExclusionInv
    OBVIOUS
  <2>1. WaitedFor = {} /\ Cardinality(WaitedFor) = 0
    BY FS_EmptySet DEF RestructureInit, WaitedFor, Retrieving
  <2> QED
    BY <2>1 DEF RestructureInit, ExclusionInv, KeptOut, Busy, CounterCovers, CleaningExcludes
<1>2. LockTypeOK /\ ExclusionInv /\ [RestructureNext]_restructureVars => ExclusionInv'
  <2> SUFFICES ASSUME LockTypeOK, ExclusionInv,
                      [RestructureNext]_restructureVars
               PROVE  ExclusionInv'
    OBVIOUS
  <2>1. CASE UNCHANGED restructureVars
    BY <2>1 DEF restructureVars, lockVars, masterVars, ExclusionInv, KeptOut, Busy, CounterCovers,
         CleaningExcludes, WaitedFor, Retrieving
  <2>2. CASE RestructureNext
    BY <2>2, ClientExclusion, MasterExclusion DEF RestructureNext
  <2> QED
    BY <2>1, <2>2
<1>3. ExclusionInv => CleaningExcludes
  BY DEF ExclusionInv
<1> QED
  BY <1>1, <1>2, <1>3, RestructureTypeCorrect, PTL DEF RestructureSpec
=============================================================================
