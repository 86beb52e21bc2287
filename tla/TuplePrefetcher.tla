---------------------------- MODULE TuplePrefetcher ----------------------------
(***************************************************************************)
(* CassandraTuplePrefetcher (Algebras/Cassandra): threads fetch the rows   *)
(* of a relation from a cluster and hand them over a bounded queue to the  *)
(* operator ccollect, whose stream may be closed early.                    *)
(*                                                                         *)
(* Everybody sleeps on the one condition variable, and the mutex is held   *)
(* from a wake-up to the next sleep or to the end of a function: each such *)
(* stretch is one step.  A queue element is the number of the query that   *)
(* the tuple comes from, or Null.                                          *)
(***************************************************************************)
EXTENDS Naturals, Sequences, FiniteSets

CONSTANTS
  Producers,     \* startTuplePrefetch starts one; the class allows for more
  Consumer,
  Null,
  MaxPrefetch,   \* MAX_PREFETCH_TUPLES
  MaxQueries,    \* bound: statements of a relation
  MaxRows,       \* bound: rows of one statement
  Irregular

Situations ==
  {"uninitialized", \* the constructor for several statements
   "fetch fails"}   \* hasNext says that there are no more rows

ASSUME PrefetcherAssumption ==
  /\ IsFiniteSet(Producers)
  /\ Consumer \notin Producers
  /\ Null \notin Nat
  /\ MaxPrefetch \in Nat \ {0}
  /\ MaxQueries \in Nat
  /\ MaxRows \in Nat
  /\ Irregular \subseteq Situations

VARIABLES
  rows,       \* how many tuples each statement has
  queries,    \* how many statements nobody has executed: the last one is next
  tuples, producerThreads, receivedTerminals, shutdown, workdone,
  asleep,     \* threads in pthread_cond_wait
  producer,   \* where a producer thread is
  fetching,   \* the statement that it executes, and the rows left
  left,
  holding,    \* what it inserts
  consumer,   \* what the stream of the operator does
  closing,    \* called by shutdownQueue
  delivered   \* history: tuples that the operator has got

producerVars == <<queries, producer, fetching, left, holding>>
flags == <<shutdown, workdone>>
vars == <<rows, producerVars, tuples, producerThreads, receivedTerminals,
          flags, asleep, consumer, closing, delivered>>

Queries == 0 .. MaxQueries

Relations == UNION {[1 .. n -> 0 .. MaxRows] : n \in Queries}

PrefetcherTypeOK ==
  /\ rows \in Relations
  /\ queries \in 0 .. Len(rows)
  /\ tuples \in Seq(1 .. Len(rows) \cup {Null}) /\ Len(tuples) <= MaxPrefetch
  /\ producerThreads \subseteq Producers
  /\ receivedTerminals \in 0 .. Cardinality(Producers)
  /\ shutdown \in BOOLEAN /\ workdone \in BOOLEAN /\ closing \in BOOLEAN
  /\ asleep \subseteq Producers \cup {Consumer}
  /\ producer \in [Producers -> {"next", "fetch", "insert", "done"}]
  /\ fetching \in [Producers -> Queries]
  /\ left \in [Producers -> 0 .. MaxRows]
  /\ holding \in [Producers -> 1 .. Len(rows) \cup {Null}]
  /\ consumer \in {"idle", "getting", "joining", "finished", "destroyed"}
  /\ delivered \in [1 .. Len(rows) -> Nat]

(* The constructors and startTuplePrefetch. *)
Init ==
  /\ rows \in Relations
  /\ queries = Len(rows)
  /\ producerThreads \in (SUBSET Producers) \ {{}}
  /\ producer = [t \in Producers |->
                   IF t \in producerThreads THEN "next" ELSE "done"]
  /\ shutdown \in BOOLEAN /\ workdone \in BOOLEAN
  /\ shutdown \/ workdone => "uninitialized" \in Irregular
  /\ tuples = <<>> /\ receivedTerminals = 0 /\ asleep = {}
  /\ fetching = [t \in Producers |-> 0]
  /\ left = [t \in Producers |-> 0]
  /\ holding = [t \in Producers |-> Null]
  /\ consumer = "idle" /\ closing = FALSE
  /\ delivered = [q \in 1 .. Len(rows) |-> 0]

(***************************************************************************)
(* prefetchTuple                                                           *)
(***************************************************************************)
GetNextResult(t) ==
  /\ producer[t] = "next"
  /\ \/ /\ queries > 0
        /\ fetching' = [fetching EXCEPT ![t] = queries]
        /\ left' = [left EXCEPT ![t] = rows[queries]]
        /\ queries' = queries - 1
        /\ producer' = [producer EXCEPT ![t] = "fetch"]
        /\ UNCHANGED holding
     \/ /\ queries = 0
        /\ holding' = [holding EXCEPT ![t] = Null]
        /\ producer' = [producer EXCEPT ![t] = "insert"]
        /\ UNCHANGED <<queries, fetching, left>>
  /\ UNCHANGED <<rows, tuples, producerThreads, receivedTerminals, flags,
                 asleep, consumer, closing, delivered>>

(* hasNext and the loop condition *)
Fetch(t) ==
  /\ producer[t] = "fetch"
  /\ \/ /\ left[t] > 0
        /\ ~shutdown
        /\ left' = [left EXCEPT ![t] = @ - 1]
        /\ holding' = [holding EXCEPT ![t] = fetching[t]]
        /\ producer' = [producer EXCEPT ![t] = "insert"]
     \/ /\ left[t] = 0 \/ shutdown \/ "fetch fails" \in Irregular
        /\ producer' = [producer EXCEPT ![t] = "next"]
        /\ UNCHANGED <<left, holding>>
  /\ UNCHANGED <<rows, queries, tuples, producerThreads, receivedTerminals,
                 flags, asleep, fetching, consumer, closing, delivered>>

Sleep(t) == asleep' = asleep \cup {t}
Broadcast == asleep' = {}

(* Mutant: only the second tuple wakes the others. *)
InsertToQueueQuiet(t) ==
  /\ producer[t] = "insert"
  /\ t \notin asleep
  /\ \/ /\ Len(tuples) >= MaxPrefetch
        /\ Sleep(t)
        /\ UNCHANGED <<tuples, producer>>
     \/ /\ Len(tuples) < MaxPrefetch
        /\ tuples' = Append(tuples, holding[t])
        /\ producer' = [producer EXCEPT ![t] =
                          IF holding[t] = Null THEN "done" ELSE "fetch"]
        /\ IF tuples # <<>> THEN Broadcast ELSE UNCHANGED asleep
  /\ UNCHANGED <<rows, queries, producerThreads, receivedTerminals, flags,
                 fetching, left, holding, consumer, closing, delivered>>

(* The producers sleep while the queue is full; a tuple in an empty queue
   wakes everybody. *)
InsertToQueue(t) ==
  /\ producer[t] = "insert"
  /\ t \notin asleep
  /\ \/ /\ Len(tuples) >= MaxPrefetch
        /\ Sleep(t)
        /\ UNCHANGED <<tuples, producer>>
     \/ /\ Len(tuples) < MaxPrefetch
        /\ tuples' = Append(tuples, holding[t])
        /\ producer' = [producer EXCEPT ![t] =
                          IF holding[t] = Null THEN "done" ELSE "fetch"]
        /\ IF tuples = <<>> THEN Broadcast ELSE UNCHANGED asleep
  /\ UNCHANGED <<rows, queries, producerThreads, receivedTerminals, flags,
                 fetching, left, holding, consumer, closing, delivered>>

(***************************************************************************)
(* The operator.                                                           *)
(***************************************************************************)
(* REQUEST; after the end of the stream there is none *)
Request ==
  /\ consumer = "idle"
  /\ consumer' = "getting"
  /\ UNCHANGED <<rows, producerVars, tuples, producerThreads,
                 receivedTerminals, flags, asleep, closing, delivered>>

(* Mutant: the first Null is the end. *)
AllTerminalsFirst(n) == n > 0

(* receivedTerminals == producerThreads.size() *)
AllTerminals(n) == n = Cardinality(producerThreads)

(* shutdownQueue deletes the tuple, and goes on unless all work is done. *)
Deliver(q) ==
  IF closing
    THEN /\ consumer' = IF workdone THEN "destroyed" ELSE "getting"
         /\ UNCHANGED delivered
    ELSE /\ consumer' = "idle"
         /\ delivered' = [delivered EXCEPT ![q] = @ + 1]

(* Mutant: no thread is woken. *)
TakeSilent ==
  /\ tuples' = Tail(tuples)
  /\ UNCHANGED asleep

(* A place in a full queue wakes everybody. *)
Take ==
  /\ tuples' = Tail(tuples)
  /\ IF Len(tuples) >= MaxPrefetch THEN Broadcast ELSE UNCHANGED asleep

GetNextTuple ==
  /\ consumer = "getting"
  /\ Consumer \notin asleep
  /\ \/ /\ tuples = <<>>
        /\ Sleep(Consumer)
        /\ UNCHANGED <<tuples, receivedTerminals, workdone, consumer, delivered>>
     \/ /\ tuples # <<>>
        /\ Take
        /\ IF Head(tuples) # Null
             THEN /\ Deliver(Head(tuples))
                  /\ UNCHANGED <<receivedTerminals, workdone>>
             ELSE /\ receivedTerminals' = receivedTerminals + 1
                  /\ IF AllTerminals(receivedTerminals + 1)
                       THEN consumer' = "joining" /\ workdone' = TRUE
                       ELSE UNCHANGED <<consumer, workdone>>
                  /\ UNCHANGED delivered
  /\ UNCHANGED <<rows, producerVars, producerThreads, shutdown, closing>>

(* joinThreads, after workdone is set; the operator then gets the Null. *)
JoinThreads ==
  /\ consumer = "joining"
  /\ \A t \in producerThreads : producer[t] = "done"
  /\ producerThreads' = {}
  /\ consumer' = IF closing THEN "destroyed" ELSE "finished"
  /\ UNCHANGED <<rows, producerVars, tuples, receivedTerminals, flags, asleep,
                 closing, delivered>>

(* Mutant: the prefetcher is deleted without shutdownQueue. *)
CloseAtOnce ==
  /\ consumer \in {"idle", "finished"}
  /\ shutdown' = TRUE
  /\ closing' = TRUE
  /\ consumer' = "destroyed"
  /\ UNCHANGED <<rows, producerVars, tuples, producerThreads,
                 receivedTerminals, workdone, asleep, delivered>>

(* CLOSE: shutdownQueue takes what comes until the end, then delete. *)
Close ==
  /\ consumer \in {"idle", "finished"}
  /\ shutdown' = TRUE
  /\ closing' = TRUE
  /\ consumer' = IF workdone THEN "destroyed" ELSE "getting"
  /\ UNCHANGED <<rows, producerVars, tuples, producerThreads,
                 receivedTerminals, workdone, asleep, delivered>>

(* pthread_cond_wait may return without a broadcast. *)
SpuriousWakeup(t) ==
  /\ t \in asleep
  /\ asleep' = asleep \ {t}
  /\ UNCHANGED <<rows, producerVars, tuples, producerThreads,
                 receivedTerminals, flags, consumer, closing, delivered>>

Produce(t) == GetNextResult(t) \/ Fetch(t) \/ InsertToQueue(t)
Consume == GetNextTuple \/ JoinThreads

Next ==
  \/ \E t \in Producers : Produce(t)
  \/ Request \/ Consume \/ Close
  \/ \E t \in Producers \cup {Consumer} : SpuriousWakeup(t)

Spec == Init /\ [][Next]_vars

(* The threads run; nobody has to ask for another tuple. *)
FairSpec ==
  Spec /\ WF_vars(Consume) /\ \A t \in Producers : WF_vars(Produce(t))

(***************************************************************************)
(* Properties                                                              *)
(***************************************************************************)
(* No wake-up is lost although there is one condition variable and two     *)
(* reasons to wait, and a broadcast only at the limits: the operator       *)
(* sleeps only before an empty queue, a producer only before a full one    *)
(* (insertToQueue, getNextTuple).                                          *)
SleepersWait ==
  /\ Consumer \in asleep => tuples = <<>>
  /\ \A t \in Producers : t \in asleep => Len(tuples) = MaxPrefetch

(* The operator gets the Null only when it has got every tuple of every    *)
(* statement once, and none twice, whichever thread ends first             *)
(* (getNextTuple, prefetchTuple).                                          *)
EndMeansAll == consumer = "finished" => delivered = rows

(* When the prefetcher is deleted, with its mutexes and its queue, no      *)
(* thread uses it any more, also if the stream is closed early             *)
(* (shutdownQueue, ~CCollectLocalInfo).                                    *)
DestroyedQuiet ==
  consumer = "destroyed" => \A t \in Producers : producer[t] = "done"

(* Every request of a tuple and every close of the stream ends.            *)
RequestsEnd ==
  consumer \in {"getting", "joining"} ~> consumer \notin {"getting", "joining"}
=============================================================================
