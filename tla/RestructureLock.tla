---------------------------- MODULE RestructureLock ----------------------------
(***************************************************************************)
(* RestructureLock (Algebras/KeyValueStore): queries that retrieve data on *)
(* a server ask the master for its lock; the master, when it has moved     *)
(* data to other servers, waits for them before it cleans up.  It gives    *)
(* them up when nobody has asked for the lock for 30 seconds.              *)
(*                                                                         *)
(* One server.  Each function of the class runs under its mutex, which     *)
(* lock() releases only to sleep, and a request of the server is one       *)
(* handler of the master.                                                  *)
(***************************************************************************)
EXTENDS Integers, FiniteSets

CONSTANTS
  Clients,    \* queries with kvsRetrieve on the server
  Cleaners,   \* threads of restructureCleanData for the server
  MaxLeaks,   \* bound: closes that are not accounted for
  Irregular

Situations ==
  {"server twice", \* in two entries of involvedServers
   "late end",     \* a query that was given up ends when another one retrieves
   "slow query"}   \* a query asks for a tuple after more than 10 seconds

ASSUME RestructureAssumption ==
  /\ IsFiniteSet(Clients)
  /\ Cleaners # {}
  /\ MaxLeaks \in Nat
  /\ Irregular \subseteq Situations

VARIABLES
  restructuring, retrieveCounter,
  expired,    \* lastUpdate is TIMEOUTINTERVAL ago
  phase,      \* what the master does
  cleaner,    \* where a thread is
  client,     \* what a query does
  outOfStep,  \* the master takes the next bytes from the server for an id
  givenUp     \* history: queries for which lock did not wait

lockVars == <<restructuring, retrieveCounter, expired>>
masterVars == <<phase, cleaner>>
restructureVars == <<lockVars, masterVars, client, outOfStep, givenUp>>

Retrieving == {c \in Clients : client[c] = "retrieving"}

LockTypeOK ==
  /\ restructuring \in BOOLEAN /\ expired \in BOOLEAN
  /\ retrieveCounter \in 0 .. (Cardinality(Clients) + MaxLeaks)
  /\ phase \in {"normal", "distribute", "clean"}
  /\ cleaner \in [Cleaners -> {"none", "start", "sleep", "clean"}]
  /\ client \in [Clients -> {"idle", "waiting", "retrieving", "hung"}]
  /\ outOfStep \in BOOLEAN
  /\ givenUp \subseteq Retrieving

RestructureInit ==
  /\ restructuring = FALSE /\ retrieveCounter = 0
  /\ expired = TRUE           \* lastUpdate = 0
  /\ phase = "normal"
  /\ cleaner = [k \in Cleaners |-> "none"]
  /\ client = [c \in Clients |-> "idle"]
  /\ outOfStep = FALSE
  /\ givenUp = {}

(***************************************************************************)
(* kvsRetrieve: the requests of a query                                    *)
(***************************************************************************)
(* The connection delivers no answer any more, and its mutex is held. *)
RequestHangs(c) ==
  /\ outOfStep
  /\ client[c] # "hung"
  /\ client' = [client EXCEPT ![c] = "hung"]
  /\ givenUp' = givenUp \ {c}
  /\ UNCHANGED <<lockVars, masterVars, outOfStep>>

(* OPEN; a query that is refused tries again. *)
TryLock(c) ==
  /\ client[c] \in {"idle", "waiting"}
  /\ ~outOfStep
  /\ IF ~restructuring
       THEN /\ retrieveCounter' = retrieveCounter + 1
            /\ expired' = FALSE
            /\ client' = [client EXCEPT ![c] = "retrieving"]
       ELSE /\ client' = [client EXCEPT ![c] = "waiting"]
            /\ UNCHANGED <<retrieveCounter, expired>>
  /\ UNCHANGED <<restructuring, masterVars, outOfStep, givenUp>>

(* The master is not connected or does not know the server: -1 cancels the
   query.  An answer lost within the server counts as a refusal. *)
TryLockFails(c) ==
  /\ client[c] \in {"idle", "waiting"}
  /\ ~outOfStep
  /\ \E next \in {"idle", "waiting"} : client' = [client EXCEPT ![c] = next]
  /\ UNCHANGED <<lockVars, masterVars, outOfStep, givenUp>>

(* Mutant: the counter is not looked at. *)
UnlockClientUnchecked(c) ==
  /\ client[c] = "retrieving"
  /\ ~outOfStep
  /\ c \in givenUp /\ retrieveCounter > 0 => "late end" \in Irregular
  /\ retrieveCounter' = retrieveCounter - 1
  /\ client' = [client EXCEPT ![c] = "idle"]
  /\ givenUp' = givenUp \ {c}
  /\ UNCHANGED <<restructuring, expired, masterVars, outOfStep>>

(* The last REQUEST gives the lock back. *)
UnlockClient(c) ==
  /\ client[c] = "retrieving"
  /\ ~outOfStep
  /\ c \in givenUp /\ retrieveCounter > 0 => "late end" \in Irregular
  /\ retrieveCounter' = IF retrieveCounter > 0 THEN retrieveCounter - 1 ELSE 0
  /\ client' = [client EXCEPT ![c] = "idle"]
  /\ givenUp' = givenUp \ {c}
  /\ UNCHANGED <<restructuring, expired, masterVars, outOfStep>>

(* Mutant: every CLOSE gives it back, also the one after the end. *)
CloseUnlocks(c) ==
  /\ client[c] \in {"idle", "retrieving"}
  /\ retrieveCounter > 0
  /\ retrieveCounter' = retrieveCounter - 1
  /\ client' = [client EXCEPT ![c] = "idle"]
  /\ givenUp' = givenUp \ {c}
  /\ UNCHANGED <<restructuring, expired, masterVars, outOfStep>>

(* CLOSE before the end does not. *)
Close(c) ==
  /\ client[c] = "retrieving"
  /\ retrieveCounter < Cardinality(Retrieving) + MaxLeaks
  /\ client' = [client EXCEPT ![c] = "idle"]
  /\ givenUp' = givenUp \ {c}
  /\ UNCHANGED <<lockVars, masterVars, outOfStep>>

(* A REQUEST after 10 seconds: the message lacks the id that the master
   reads. *)
UpdateLock(c) ==
  /\ "slow query" \in Irregular
  /\ client[c] = "retrieving"
  /\ ~outOfStep
  /\ outOfStep' = TRUE
  /\ UNCHANGED <<lockVars, masterVars, client, givenUp>>

(* Nobody gets the lock for 30 seconds. *)
Expire ==
  /\ ~expired
  /\ expired' = TRUE
  /\ UNCHANGED <<restructuring, retrieveCounter, masterVars, client, outOfStep,
                 givenUp>>

(***************************************************************************)
(* The master                                                              *)
(***************************************************************************)
(* restructure: the server is involved. *)
StartRestructuring ==
  /\ phase = "normal"
  /\ restructuring' = TRUE
  /\ phase' = "distribute"
  /\ UNCHANGED <<retrieveCounter, expired, cleaner, client, outOfStep, givenUp>>

(* restructurePhaseTwo: the data is distributed, one thread per entry is
   started. *)
StartCleaning ==
  /\ phase = "distribute"
  /\ \E threads \in SUBSET Cleaners :
       /\ threads # {}
       /\ "server twice" \notin Irregular => \A j, k \in threads : j = k
       /\ cleaner' = [k \in Cleaners |->
                        IF k \in threads THEN "start" ELSE "none"]
  /\ phase' = "clean"
  /\ UNCHANGED <<lockVars, client, outOfStep, givenUp>>

MayClean == retrieveCounter = 0 \/ expired

(* restructureCleanData: lock *)
Lock(k) ==
  /\ cleaner[k] \in {"start", "sleep"}
  /\ restructuring' = (restructuring \/ cleaner[k] = "start")
  /\ IF MayClean
       THEN /\ cleaner' = [cleaner EXCEPT ![k] = "clean"]
            /\ givenUp' = IF retrieveCounter > 0 THEN Retrieving ELSE givenUp
       ELSE /\ cleaner' = [cleaner EXCEPT ![k] = "sleep"]
            /\ UNCHANGED givenUp
  /\ UNCHANGED <<retrieveCounter, expired, phase, client, outOfStep>>

(* Mutant: the queries stay out. *)
UnlockRestructuring(k) ==
  /\ cleaner[k] = "clean"
  /\ retrieveCounter' = 0
  /\ cleaner' = [cleaner EXCEPT ![k] = "none"]
  /\ UNCHANGED <<restructuring, expired, phase, client, outOfStep, givenUp>>

(* restructureCleanData: unlock *)
Unlock(k) ==
  /\ cleaner[k] = "clean"
  /\ restructuring' = FALSE
  /\ retrieveCounter' = 0
  /\ cleaner' = [cleaner EXCEPT ![k] = "none"]
  /\ UNCHANGED <<expired, phase, client, outOfStep, givenUp>>

JoinCleaners ==
  /\ phase = "clean"
  /\ \A k \in Cleaners : cleaner[k] = "none"
  /\ phase' = "normal"
  /\ UNCHANGED <<lockVars, cleaner, client, outOfStep, givenUp>>

Restructure ==
  StartCleaning \/ JoinCleaners \/ \E k \in Cleaners : Lock(k) \/ Unlock(k)

RestructureNext ==
  \/ \E c \in Clients :
       TryLock(c) \/ TryLockFails(c) \/ UnlockClient(c) \/ Close(c)
         \/ UpdateLock(c) \/ RequestHangs(c)
  \/ Expire
  \/ StartRestructuring \/ Restructure

RestructureSpec == RestructureInit /\ [][RestructureNext]_restructureVars

(* The master goes on once it has begun, and time passes.  It restructures
   at most every 30 seconds (RESTRUCTURE_INTERVAL), and a query that was
   refused tries again after half a second: it meets the gap, and its request
   does not fail each time.  No query has to end. *)
FairRestructureSpec ==
  /\ RestructureSpec
  /\ WF_restructureVars(Expire)
  /\ WF_restructureVars(StartCleaning) /\ WF_restructureVars(JoinCleaners)
  /\ \A k \in Cleaners : WF_restructureVars(Lock(k)) /\ WF_restructureVars(Unlock(k))
  /\ \A c \in Clients :
       SF_restructureVars(client[c] = "waiting" /\ ~restructuring /\ TryLock(c))

(***************************************************************************)
(* Properties                                                              *)
(***************************************************************************)
(* While a thread cleans up, no query retrieves except those that it has   *)
(* given up: the counter, which is reset, leaked by closes and given back  *)
(* late, never hides one (tryLockClient, unlockClient, lock, unlock).      *)
CleaningExcludes ==
  (\E k \in Cleaners : cleaner[k] = "clean") => Retrieving \subseteq givenUp

(* "clients currently retrieving": violated, CLOSE does not unlock.        *)
CounterIsExact == retrieveCounter = Cardinality(Retrieving)

(* Nobody waits for ever: a restructuring ends although queries may never  *)
(* end, or never tell, and a query that was refused gets the lock as long  *)
(* as the master understands the server (lock, kvsRetrieve OPEN).          *)
WaitsEnd ==
  /\ phase # "normal" ~> phase = "normal"
  /\ \A c \in Clients :
       client[c] = "waiting" ~> client[c] # "waiting" \/ outOfStep
=============================================================================
