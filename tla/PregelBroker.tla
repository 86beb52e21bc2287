----------------------------- MODULE PregelBroker -----------------------------
(***************************************************************************)
(* Supersteps of the Pregel algebra and the message brokers that carry the *)
(* messages (Algebras/Pregel).  Each worker has one MessageServer, that is  *)
(* one thread and one socket, for every other worker and for the master.    *)
(* A superstep is over on a worker when a Monitor has counted an EMPTY or   *)
(* FINISH message of every other worker; the messages that the servers have *)
(* queued then move to the inbox.                                          *)
(*                                                                         *)
(* One action is one step of a thread between two points at which others    *)
(* can see it.  What a worker sends at the end of its computation is sent   *)
(* in one step: the sockets delay it as long as separate steps would.       *)
(***************************************************************************)
EXTENDS Integers, Sequences, FiniteSets

CONSTANTS
  Workers,
  Master,
  None,
  MaxSuperstep, \* bound: supersteps of all computations together
  MaxInits,     \* bound: commands that supply messages
  MaxSent,      \* bound: workers that one command or computation sends to
  Irregular     \* situations, among those below, that the instance includes

Situations ==
  {"late init",       \* startPregel overtakes the last INIT_DONE
   "missed notify",   \* setMonitor notifies between a test and the wait
   "unread messages", \* a function that closes its stream early
   "unasked messages"}\* a function that sends without having received

ASSUME PregelAssumption ==
  /\ IsFiniteSet(Workers)
  /\ Cardinality(Workers) > 1
  /\ Master \notin Workers
  /\ None \notin Workers \cup {Master} \cup Nat
  /\ MaxSuperstep \in Nat
  /\ MaxInits \in Nat
  /\ MaxSent \in Nat
  /\ Irregular \subseteq Situations

Peers(w) == Workers \ {w}
Servers(w) == Peers(w) \cup {Master}
Nodes == Workers \cup {Master}
Parities == {0, 1}

Messages == [type : {"DATA"}, round : 0 .. MaxSuperstep]
              \cup [type : {"EMPTY", "FINISH", "INIT_DONE"}]

VARIABLES
  \* the query that a worker evaluates
  pc, query, rounds, superstep, round, busy, allEmpty,
  inbox,     \* messages of the broker, by the parity of their superstep and
             \* the server, or the worker itself, that they came from
  \* startNewRound in the receiver thread, and the Monitor it creates
  unmonitored, unstarted, received, monitors, counter, silent,
  \* a MessageServer: its thread, State, monitor, queue and socket
  thread, mark, state, monitor, queue, socket,
  inits

queryVars == <<pc, query, rounds, superstep, round, busy, allEmpty>>
receiverVars == <<unmonitored, unstarted>>
monitorVars == <<monitors, counter, silent>>
serverVars == <<thread, mark, state, monitor, queue>>
vars == <<queryVars, inbox, receiverVars, received, monitorVars,
          serverVars, socket, inits>>

Indexed(S) == [Workers -> [Nodes -> S]]

PregelTypeOK ==
  /\ pc \in [Workers -> {"idle", "begin", "compute", "join"}]
  /\ query \in {"startPregelWorker", "initPregelMessagesWorker"}
  /\ rounds \in 0 .. MaxSuperstep
  /\ superstep \in [Workers -> 0 .. MaxSuperstep]
  /\ round \in [Workers -> 0 .. MaxSuperstep]
  /\ busy \in [Workers -> BOOLEAN]
  /\ allEmpty \in [Workers -> BOOLEAN]
  /\ inbox \in [Workers -> [Parities -> [Nodes -> Nat]]]
  /\ unmonitored \in [Workers -> SUBSET Nodes]
  /\ unstarted \in [Workers -> Nodes \cup {None}]
  /\ received \in [Workers -> BOOLEAN]
  /\ monitors \in [Workers -> Nat]
  /\ counter \in [Workers -> Int]
  /\ silent \in [Workers -> BOOLEAN]
  /\ thread \in Indexed({"reading", "ended", "tested", "asleep"})
  /\ mark \in Indexed({"EMPTY", "FINISH"})
  /\ state \in Indexed({"READING", "WAITING"})
  /\ monitor \in Indexed(Nat \cup {None})
  /\ queue \in Indexed([Parities -> Nat])
  /\ socket \in Indexed(Seq(Messages))
  /\ inits \in 0 .. MaxInits

Everywhere(x) == [w \in Workers |-> [p \in Nodes |-> x]]
NoMessages == [b \in Parities |-> 0]
EmptyInbox == [b \in Parities |-> [p \in Nodes |-> 0]]

(* After setupPregel: the server threads are in waitToResumeReading. *)
Init ==
  /\ pc = [w \in Workers |-> "idle"]
  /\ query = "startPregelWorker"
  /\ rounds = 0
  /\ superstep = [w \in Workers |-> 0]
  /\ round = [w \in Workers |-> 0]
  /\ busy = [w \in Workers |-> FALSE]
  /\ allEmpty = [w \in Workers |-> FALSE]
  /\ inbox = [w \in Workers |-> EmptyInbox]
  /\ unmonitored = [w \in Workers |-> {}]
  /\ unstarted = [w \in Workers |-> None]
  /\ received = [w \in Workers |-> FALSE]
  /\ monitors = [w \in Workers |-> 0]
  /\ counter = [w \in Workers |-> 0]
  /\ silent = [w \in Workers |-> TRUE]
  /\ thread = Everywhere("reading")
  /\ mark = Everywhere("EMPTY")
  /\ state = Everywhere("WAITING")
  /\ monitor = Everywhere(None)
  /\ queue = Everywhere(NoMessages)
  /\ socket = Everywhere(<<>>)
  /\ inits = 0

(***************************************************************************)
(* The master.  Its queries end when all workers have answered.            *)
(***************************************************************************)
Destinations == {D \in SUBSET Workers : Cardinality(D) <= MaxSent}
Data(r) == [type |-> "DATA", round |-> r]
Mark(t) == [type |-> t]
AllIdle == \A w \in Workers : pc[w] = "idle"
InitDone == \A w \in Workers : socket[w][Master] = <<>>

(* expectPregelMessages on the workers, then the messages: those of the
   master carry its own superstep, which is always 0. *)
InitPregelMessages(D) ==
  /\ AllIdle
  /\ inits < MaxInits
  /\ inits' = inits + 1
  /\ state' = [w \in Workers |-> [p \in Nodes |->
                 IF p \in Servers(w) THEN "READING" ELSE state[w][p]]]
  /\ socket' = [w \in Workers |-> [socket[w] EXCEPT ![Master] =
                  @ \o (IF w \in D THEN <<Data(0)>> ELSE <<>>)
                    \o <<Mark("INIT_DONE")>>]]
  /\ UNCHANGED <<queryVars, inbox, receiverVars, received, monitorVars,
                 thread, mark, monitor, queue>>

MayStart == AllIdle /\ (InitDone \/ "late init" \in Irregular)

StartPregel(n) ==
  /\ MayStart
  /\ n > 0
  /\ \A w \in Workers : superstep[w] + n <= MaxSuperstep
  /\ query' = "startPregelWorker"
  /\ rounds' = n
  /\ round' = [w \in Workers |-> 0]
  /\ pc' = [w \in Workers |-> "begin"]
  /\ UNCHANGED <<superstep, busy, allEmpty, inbox, receiverVars, received,
                 monitorVars, serverVars, socket, inits>>

(* remotePregelCommand with initPregelMessagesWorker. *)
InitOnWorkers ==
  /\ MayStart
  /\ inits < MaxInits
  /\ inits' = inits + 1
  /\ query' = "initPregelMessagesWorker"
  /\ pc' = [w \in Workers |-> "begin"]
  /\ UNCHANGED <<rounds, superstep, round, busy, allEmpty, inbox,
                 receiverVars, received, monitorVars, serverVars, socket>>

ClearMessages ==
  /\ MayStart
  /\ inbox' = [w \in Workers |-> EmptyInbox]
  /\ UNCHANGED <<queryVars, receiverVars, received, monitorVars, serverVars,
                 socket, inits>>

(***************************************************************************)
(* The query thread of a worker and the receiver thread it starts.         *)
(***************************************************************************)
(* howManyMessagesInInbox(round) > 0 *)
HasMessages(w, r) == \E p \in Nodes : inbox[w][r % 2][p] > 0

(* startNewRound creates a Monitor for the servers of the other workers. *)
NewMonitor(w) ==
  /\ monitors' = [monitors EXCEPT ![w] = @ + 1]
  /\ counter' = [counter EXCEPT ![w] = Cardinality(Servers(w)) - 1]
  /\ silent' = [silent EXCEPT ![w] = TRUE]
  /\ received' = [received EXCEPT ![w] = FALSE]
  /\ unmonitored' = [unmonitored EXCEPT ![w] = Servers(w)]

(* Mutant: the inbox of the superstep that begins. *)
BeginSuperstepOther(w) ==
  LET s == superstep[w] IN
  /\ pc[w] = "begin"
  /\ query = "startPregelWorker"
  /\ superstep' = [superstep EXCEPT ![w] = s + 1]
  /\ busy' = [busy EXCEPT ![w] = HasMessages(w, s + 1)]
  /\ allEmpty' = [allEmpty EXCEPT ![w] = ~HasMessages(w, s + 1)]
  /\ NewMonitor(w)
  /\ pc' = [pc EXCEPT ![w] = "compute"]
  /\ UNCHANGED <<query, rounds, round, inbox, unstarted, serverVars, socket,
                 inits>>

BeginSuperstep(w) ==
  LET s == superstep[w] IN
  /\ pc[w] = "begin"
  /\ query = "startPregelWorker"
  /\ superstep' = [superstep EXCEPT ![w] = s + 1]
  /\ busy' = [busy EXCEPT ![w] = HasMessages(w, s)]
  /\ allEmpty' = [allEmpty EXCEPT ![w] = ~HasMessages(w, s)]
  /\ NewMonitor(w)
  /\ pc' = [pc EXCEPT ![w] = "compute"]
  /\ UNCHANGED <<query, rounds, round, inbox, unstarted, serverVars, socket,
                 inits>>

BeginInit(w) ==
  /\ pc[w] = "begin"
  /\ query = "initPregelMessagesWorker"
  /\ busy' = [busy EXCEPT ![w] = TRUE]
  /\ allEmpty' = [allEmpty EXCEPT ![w] = FALSE]
  /\ NewMonitor(w)
  /\ pc' = [pc EXCEPT ![w] = "compute"]
  /\ UNCHANGED <<query, rounds, superstep, round, inbox, unstarted,
                 serverVars, socket, inits>>

(* messageDistribute: own messages take the loopback into the inbox. *)
Sent(w, D) ==
  [v \in Workers |-> [socket[v] EXCEPT ![w] =
     IF v = w THEN @
     ELSE @ \o (IF v \in D THEN <<Data(superstep[w])>> ELSE <<>>)
            \o <<Mark(IF busy[w] THEN "FINISH" ELSE "EMPTY")>>]]

Looped(w, D, box) ==
  [box EXCEPT ![superstep[w] % 2][w] = IF w \in D THEN @ + 1 ELSE @]

Feed(box, r, unread) ==
  [box EXCEPT ![r % 2] = [p \in Nodes |-> IF p \in unread THEN @[p] ELSE 0]]

(* The function reads messageFeed, whose messages are those of the superstep
   before, and the answers are distributed; broadcast of EMPTY or FINISH. *)
Compute(w, D) ==
  LET last == superstep[w] - 1 IN
  /\ pc[w] = "compute"
  /\ query = "startPregelWorker"
  /\ D # {} => HasMessages(w, last) \/ "unasked messages" \in Irregular
  /\ \E unread \in SUBSET Nodes :
       /\ unread = {} \/ "unread messages" \in Irregular
       /\ inbox' = [inbox EXCEPT ![w] = Looped(w, D, Feed(@, last, unread))]
  /\ socket' = Sent(w, D)
  /\ pc' = [pc EXCEPT ![w] = "join"]
  /\ UNCHANGED <<query, rounds, superstep, round, busy, allEmpty,
                 receiverVars, received, monitorVars, serverVars, inits>>

Distribute(w, D) ==
  /\ pc[w] = "compute"
  /\ query = "initPregelMessagesWorker"
  /\ inbox' = [inbox EXCEPT ![w] = Looped(w, D, @)]
  /\ socket' = Sent(w, D)
  /\ pc' = [pc EXCEPT ![w] = "join"]
  /\ UNCHANGED <<query, rounds, superstep, round, busy, allEmpty,
                 receiverVars, received, monitorVars, serverVars, inits>>

(* Mutant: the receiver does not wait for the end of the superstep. *)
ReceiverDoneEarly(w) == unmonitored[w] = {} /\ unstarted[w] = None

ReceiverDone(w) ==
  received[w] /\ unmonitored[w] = {} /\ unstarted[w] = None

(* After receiver.join(): the loop ends when everything was empty, or after
   the given number of rounds. *)
Join(w) ==
  /\ pc[w] = "join"
  /\ ReceiverDone(w)
  /\ \/ /\ query = "startPregelWorker"
        /\ IF allEmpty[w]
             THEN /\ pc' = [pc EXCEPT ![w] = "idle"]
                  /\ UNCHANGED round
             ELSE /\ round' = [round EXCEPT ![w] = @ + 1]
                  /\ pc' = [pc EXCEPT ![w] =
                              IF round[w] + 1 < rounds THEN "begin" ELSE "idle"]
     \/ /\ query = "initPregelMessagesWorker"
        /\ pc' = [pc EXCEPT ![w] = "idle"]
        /\ UNCHANGED round
  /\ UNCHANGED <<query, rounds, superstep, busy, allEmpty, inbox,
                 receiverVars, received, monitorVars, serverVars, socket,
                 inits>>

(* Mutant: no notification. *)
SetMonitorSilent(w, p) ==
  /\ p \in unmonitored[w]
  /\ p = Master => unmonitored[w] = {Master}
  /\ unstarted[w] = None
  /\ monitor' = [monitor EXCEPT ![w][p] = monitors[w]]
  /\ thread' = [thread EXCEPT ![w][p] = @]
  /\ unmonitored' = [unmonitored EXCEPT ![w] = @ \ {p}]
  /\ unstarted' = [unstarted EXCEPT ![w] = p]
  /\ UNCHANGED <<queryVars, inbox, received, monitorVars, mark, state, queue,
                 socket, inits>>

(* The loop of startNewRound over the servers: the other workers have
   connected in some order, the master after them (setupPregel).  The
   notification wakes a thread that waits for the monitor, unless that thread
   is still on its way to the wait. *)
SetMonitor(w, p) ==
  /\ p \in unmonitored[w]
  /\ p = Master => unmonitored[w] = {Master}
  /\ unstarted[w] = None
  /\ monitor' = [monitor EXCEPT ![w][p] = monitors[w]]
  /\ thread' = [thread EXCEPT ![w][p] = IF @ = "asleep" THEN "ended" ELSE @]
  /\ unmonitored' = [unmonitored EXCEPT ![w] = @ \ {p}]
  /\ unstarted' = [unstarted EXCEPT ![w] = p]
  /\ UNCHANGED <<queryVars, inbox, received, monitorVars, mark, state, queue,
                 socket, inits>>

StartReading(w) ==
  /\ unstarted[w] # None
  /\ state' = [state EXCEPT ![w][unstarted[w]] = "READING"]
  /\ unstarted' = [unstarted EXCEPT ![w] = None]
  /\ UNCHANGED <<queryVars, inbox, unmonitored, received, monitorVars, thread,
                 mark, monitor, queue, socket, inits>>

(***************************************************************************)
(* The thread of the server of worker w for node p.                        *)
(***************************************************************************)
(* processMessage, which waitToResumeReading or the loop of run leads to *)
Readable(w, p, type) ==
  /\ thread[w][p] = "reading"
  /\ state[w][p] = "READING"
  /\ socket[w][p] # <<>>
  /\ Head(socket[w][p]).type = type

Popped(w, p) == [socket EXCEPT ![w][p] = Tail(@)]

(* Mutant: messages of a worker that is ahead join those of this superstep. *)
ReadDataCurrent(w, p) ==
  /\ Readable(w, p, "DATA")
  /\ queue' = [queue EXCEPT ![w][p][superstep[w] % 2] = @ + 1]
  /\ socket' = Popped(w, p)
  /\ UNCHANGED <<queryVars, inbox, receiverVars, received, monitorVars,
                 thread, mark, state, monitor, inits>>

ReadData(w, p) ==
  /\ Readable(w, p, "DATA")
  /\ queue' = [queue EXCEPT ![w][p][Head(socket[w][p]).round % 2] = @ + 1]
  /\ socket' = Popped(w, p)
  /\ UNCHANGED <<queryVars, inbox, receiverVars, received, monitorVars,
                 thread, mark, state, monitor, inits>>

ReadMark(w, p) ==
  /\ \E t \in {"EMPTY", "FINISH"} :
       /\ Readable(w, p, t)
       /\ mark' = [mark EXCEPT ![w][p] = t]
  /\ socket' = Popped(w, p)
  /\ thread' = [thread EXCEPT ![w][p] = "ended"]
  /\ UNCHANGED <<queryVars, inbox, receiverVars, received, monitorVars,
                 state, monitor, queue, inits>>

(* while(monitor==nullptr) monitorCond.wait(lock).  The notification does not
   take the lock, so it can come between the test and the wait. *)
AwaitMonitor(w, p) ==
  /\ thread[w][p] \in {"ended", "tested"}
  /\ thread[w][p] = "ended" => monitor[w][p] = None
  /\ thread' = [thread EXCEPT ![w][p] =
                  IF @ = "ended" /\ "missed notify" \in Irregular
                    THEN "tested" ELSE "asleep"]
  /\ UNCHANGED <<queryVars, inbox, receiverVars, received, monitorVars, mark,
                 state, monitor, queue, socket, inits>>

(* collectFromAllServers *)
CollectFromAllServers(w, queues) ==
  LET s == superstep[w] % 2 IN
  /\ inbox' = [inbox EXCEPT ![w][s] =
                 [p \in Nodes |-> @[p] + queues[p][s]]]
  /\ queue' = [queue EXCEPT ![w] =
                 [p \in Nodes |-> [queues[p] EXCEPT ![s] = 0]]]

(* Monitor::empty and Monitor::finish with the callback of startNewRound:
   the last end of a superstep collects the messages of all servers. *)
Last(w, m) == m = monitors[w] /\ counter[w] = 1

(* Mutant: only the other workers decide whether all is empty. *)
CountedOthers(w, m, empty) ==
  LET current == m = monitors[w] IN
  /\ counter' = [counter EXCEPT ![w] = IF current THEN @ - 1 ELSE @]
  /\ silent' = [silent EXCEPT ![w] = @ /\ (current => empty)]
  /\ allEmpty' = [allEmpty EXCEPT ![w] =
                    IF Last(w, m) THEN silent'[w] ELSE @]
  /\ received' = [received EXCEPT ![w] = @ \/ Last(w, m)]

Counted(w, m, empty) ==
  LET current == m = monitors[w] IN
  /\ counter' = [counter EXCEPT ![w] = IF current THEN @ - 1 ELSE @]
  /\ silent' = [silent EXCEPT ![w] = @ /\ (current => empty)]
  /\ allEmpty' = [allEmpty EXCEPT ![w] =
                    IF Last(w, m) THEN @ /\ silent'[w] ELSE @]
  /\ received' = [received EXCEPT ![w] = @ \/ Last(w, m)]

(* handleEmptyMessage, handleFinishedMessage *)
HandleMark(w, p) ==
  /\ thread[w][p] = "ended"
  /\ monitor[w][p] # None
  /\ state' = [state EXCEPT ![w][p] = "WAITING"]
  /\ monitor' = [monitor EXCEPT ![w][p] = None]
  /\ thread' = [thread EXCEPT ![w][p] = "reading"]
  /\ Counted(w, monitor[w][p], mark[w][p] = "EMPTY")
  /\ IF Last(w, monitor[w][p])
       THEN CollectFromAllServers(w, queue[w])
       ELSE UNCHANGED <<inbox, queue>>
  /\ UNCHANGED <<pc, query, rounds, superstep, round, busy, monitors,
                 receiverVars, mark, socket, inits>>

(* bringMessagesToRound *)
Brought(queues, p, s) ==
  [queues EXCEPT ![p] = [b \in Parities |->
     IF b = s % 2 THEN @[0] + @[1] ELSE 0]]

(* handleInitDoneMessage.  A monitor that was set meanwhile is told that a
   worker has finished, whose end of the superstep nobody has seen. *)
HandleInitDone(w, p) ==
  /\ Readable(w, p, "INIT_DONE")
  /\ socket' = Popped(w, p)
  /\ Counted(w, monitor[w][p], FALSE)
  /\ monitor' = [monitor EXCEPT ![w][p] = None]
  /\ CollectFromAllServers(w, Brought(queue[w], p, superstep[w]))
  /\ state' = [state EXCEPT ![w] = [q \in Nodes |->
                 IF q \in Servers(w) THEN "READING" ELSE @[q]]]
  /\ UNCHANGED <<pc, query, rounds, superstep, round, busy, receiverVars,
                 monitors, thread, mark, inits>>

(***************************************************************************)
(* The specification.  The threads run on; the master may stop.            *)
(***************************************************************************)
Commands ==
  \/ \E D \in Destinations : InitPregelMessages(D)
  \/ \E n \in 1 .. MaxSuperstep : StartPregel(n)
  \/ InitOnWorkers
  \/ ClearMessages

Query(w) ==
  \/ BeginSuperstep(w)
  \/ BeginInit(w)
  \/ \E D \in Destinations : Compute(w, D) \/ Distribute(w, D)
  \/ Join(w)

Receiver(w) == StartReading(w) \/ \E p \in Nodes : SetMonitor(w, p)

Server(w, p) ==
  \/ ReadData(w, p)
  \/ ReadMark(w, p)
  \/ AwaitMonitor(w, p)
  \/ HandleMark(w, p)
  \/ HandleInitDone(w, p)

Next ==
  \/ Commands
  \/ \E w \in Workers :
       Query(w) \/ Receiver(w) \/ \E p \in Servers(w) : Server(w, p)

Spec == Init /\ [][Next]_vars

Threads ==
  \A w \in Workers :
    /\ WF_vars(Query(w))
    /\ WF_vars(Receiver(w))
    /\ \A p \in Servers(w) : WF_vars(Server(w, p))

FairSpec == Spec /\ Threads

(***************************************************************************)
(* Properties                                                              *)
(***************************************************************************)
(* A round is over on a worker only when all others have sent everything   *)
(* that belongs to it, and nobody is ahead by more than the round that the *)
(* others have finished: the barrier of marks, counters and monitors       *)
(* (MessageServer, Monitor, startNewRound).                                *)
Barrier ==
  \A v, w \in Workers : v # w =>
    /\ received[w] => \/ monitors[v] > monitors[w]
                      \/ monitors[v] = monitors[w] /\ pc[v] # "compute"
    /\ monitors[v] > monitors[w] =>
         monitors[v] = monitors[w] + 1 /\ pc[w] # "compute"

(* All workers leave the loop of startPregelWorker after the same superstep *)
(* whether the limit or the silence of all of them ends it: nobody goes on *)
(* while another worker has already answered the master.                   *)
EndTogether ==
  \A v, w \in Workers :
    pc[v] = "idle" /\ pc[w] # "idle" =>
      superstep[v] = superstep[w] /\ pc[w] = "join"

(* Messages of node p to worker w that belong to superstep s.  The place of
   a message tells its superstep by the parity, next to that of the worker;
   those of the master are for the next superstep, whenever they come. *)
Arriving(w, p, r) ==
  Cardinality({i \in DOMAIN socket[w][p] : socket[w][p][i] = Data(r)})

Mail(w, s, p) ==
  (IF s \in {superstep[w] - 1, superstep[w]} THEN inbox[w][s % 2][p] ELSE 0)
  + CASE p = w -> 0
      [] p \in Peers(w) ->
           Arriving(w, p, s) + IF s \in {superstep[w], superstep[w] + 1}
                                 THEN queue[w][p][s % 2] ELSE 0
      [] p = Master ->
           IF s = superstep[w]
             THEN Arriving(w, p, 0) + queue[w][p][0] + queue[w][p][1] ELSE 0

(* A computation ends before its limit only if no message is left anywhere *)
(* and no worker had one to process: EMPTY of all workers means the end    *)
(* (StartPregelWorker::valueMapping, Monitor).                             *)
SilentEnd ==
  [][\A w \in Workers :
       (pc[w] = "join" /\ pc'[w] = "idle" /\ allEmpty[w]) =>
         \A v \in Workers :
           /\ ~busy[v]
           /\ \A s \in 0 .. MaxSuperstep, p \in Nodes : Mail(v, s, p) = 0]_vars

(* Every message is read exactly once, in the superstep after the one in   *)
(* which it was sent, wherever it waits meanwhile: in a socket, in the     *)
(* queue of a server or in the inbox.                                      *)
Steps == INSTANCE Supersteps WITH
  computing <- IF query = "startPregelWorker"
                 THEN {w \in Workers : pc[w] = "compute"} ELSE {},
  mail <- [w \in Workers |-> [s \in 0 .. MaxSuperstep |->
             [p \in Nodes |-> Mail(w, s, p)]]]

ImplementsSupersteps == Steps!Spec

(* A query on the workers ends: no thread waits for ever for a monitor, a  *)
(* mark or the other threads.                                              *)
QueriesEnd == \A w \in Workers : pc[w] # "idle" ~> pc[w] = "idle"
=============================================================================
