-------------------------- MODULE PregelBrokerProofs --------------------------
(***************************************************************************)
(* Theorems about PregelBroker, for any number of workers and supersteps.  *)
(***************************************************************************)
EXTENDS PregelBroker, SequenceTheorems, FiniteSetTheorems, TLAPS

USE PregelAssumption

-----------------------------------------------------------------------------
(* Types.                                                                  *)

\* What is left of a computation fits below the bound of the supersteps.
RoundsOK ==
  query = "startPregelWorker" =>
    \A w \in Workers :
      /\ pc[w] = "begin" =>
           /\ round[w] < rounds
           /\ superstep[w] + (rounds - round[w]) <= MaxSuperstep
      /\ pc[w] \in {"compute", "join"} =>
           /\ round[w] < rounds
           /\ superstep[w] + (rounds - round[w]) <= MaxSuperstep + 1

TypeInv == PregelTypeOK /\ RoundsOK

LEMMA ParityType ==
  ASSUME NEW n \in Int
  PROVE  n % 2 \in Parities
  BY DEF Parities

LEMMA MessageTypes ==
  /\ \A r \in 0 .. MaxSuperstep : Data(r) \in Messages
  /\ \A t \in {"EMPTY", "FINISH", "INIT_DONE"} : Mark(t) \in Messages
  BY DEF Data, Mark, Messages

LEMMA NodeTypes ==
  /\ Workers \subseteq Nodes
  /\ Master \in Nodes
  /\ \A w \in Workers : Servers(w) \subseteq Nodes /\ Peers(w) \subseteq Workers
  BY DEF Nodes, Servers, Peers

LEMMA TypeInit == Init => TypeInv
<1> SUFFICES ASSUME Init PROVE TypeInv
  OBVIOUS
<1>1. NoMessages \in [Parities -> Nat] /\ EmptyInbox \in [Parities -> [Nodes -> Nat]]
  BY DEF NoMessages, EmptyInbox
<1>2. /\ thread \in Indexed({"reading", "ended", "tested", "asleep"})
      /\ mark \in Indexed({"EMPTY", "FINISH"})
      /\ state \in Indexed({"READING", "WAITING"})
      /\ monitor \in Indexed(Nat \cup {None})
  BY DEF Init, Everywhere, Indexed
<1>3. queue \in Indexed([Parities -> Nat])
  BY <1>1 DEF Init, Everywhere, Indexed
<1>4. socket \in Indexed(Seq(Messages))
  <2>1. <<>> \in Seq(Messages)
    BY EmptySeq
  <2> QED
    BY <2>1 DEF Init, Everywhere, Indexed
<1>5. PregelTypeOK
  BY <1>1, <1>2, <1>3, <1>4 DEF Init, PregelTypeOK
<1>6. RoundsOK
  BY DEF Init, RoundsOK
<1> QED
  BY <1>5, <1>6 DEF TypeInv

-----------------------------------------------------------------------------
(* What the parts of the actions do to the types.                          *)

\* Two commands of the master.
LEMMA TypeInitPregelMessages ==
  ASSUME TypeInv, NEW D \in Destinations, InitPregelMessages(D)
  PROVE  TypeInv'
<1>1. socket' \in Indexed(Seq(Messages))
  <2>1. ASSUME NEW w \in Workers
        PROVE  socket[w][Master] \o (IF w \in D THEN <<Data(0)>> ELSE <<>>)
                 \o <<Mark("INIT_DONE")>> \in Seq(Messages)
    <3>1. socket[w][Master] \in Seq(Messages)
      BY NodeTypes DEF TypeInv, PregelTypeOK, Indexed
    <3>2. (IF w \in D THEN <<Data(0)>> ELSE <<>>) \in Seq(Messages)
      BY MessageTypes, EmptySeq
    <3>3. <<Mark("INIT_DONE")>> \in Seq(Messages)
      BY MessageTypes
    <3> QED
      BY <3>1, <3>2, <3>3, ConcatProperties
  <2>2. \A w \in Workers : socket[w] \in [Nodes -> Seq(Messages)]
    BY DEF TypeInv, PregelTypeOK, Indexed
  <2> QED
    BY <2>1, <2>2 DEF InitPregelMessages, Indexed
<1>2. state' \in Indexed({"READING", "WAITING"})
  BY DEF InitPregelMessages, TypeInv, PregelTypeOK, Indexed
<1>3. inits' \in 0 .. MaxInits
  BY DEF InitPregelMessages, TypeInv, PregelTypeOK
<1>4. UNCHANGED <<queryVars, inbox, receiverVars, received, monitorVars,
                 thread, mark, monitor, queue>>
  BY DEF InitPregelMessages
<1> QED
  BY <1>1, <1>2, <1>3, <1>4
  DEF TypeInv, PregelTypeOK, RoundsOK, Indexed, queryVars, receiverVars, monitorVars

LEMMA TypeCommands ==
  ASSUME TypeInv, Commands
  PROVE  TypeInv'
<1> USE DEF TypeInv, PregelTypeOK, RoundsOK, queryVars, receiverVars, monitorVars, serverVars
<1>1. CASE \E D \in Destinations : InitPregelMessages(D)
  BY <1>1, TypeInitPregelMessages
<1>2. ASSUME NEW n \in 1 .. MaxSuperstep, StartPregel(n)
      PROVE  TypeInv'
  <2>1. PregelTypeOK'
    BY <1>2 DEF StartPregel, Indexed
  <2>2. RoundsOK'
    BY <1>2 DEF StartPregel
  <2> QED
    BY <2>1, <2>2
<1>3. CASE InitOnWorkers
  BY <1>3 DEF InitOnWorkers, Indexed
<1>4. CASE ClearMessages
  BY <1>4 DEF ClearMessages, Indexed, EmptyInbox
<1> QED
  BY <1>1, <1>2, <1>3, <1>4 DEF Commands

LEMMA TypeNewMonitor ==
  ASSUME TypeInv, NEW w \in Workers, NewMonitor(w)
  PROVE  /\ monitors' \in [Workers -> Nat]
         /\ counter' \in [Workers -> Int]
         /\ silent' \in [Workers -> BOOLEAN]
         /\ received' \in [Workers -> BOOLEAN]
         /\ unmonitored' \in [Workers -> SUBSET Nodes]
<1>1. IsFiniteSet(Servers(w))
  BY FS_AddElement, FS_RemoveElement DEF Servers, Peers
<1>2. Cardinality(Servers(w)) \in Nat
  BY <1>1, FS_CardinalityType
<1> QED
  BY <1>2, NodeTypes DEF NewMonitor, TypeInv, PregelTypeOK

LEMMA TypeBegin ==
  ASSUME TypeInv, NEW w \in Workers, BeginSuperstep(w) \/ BeginInit(w)
  PROVE  TypeInv'
<1> USE DEF TypeInv, serverVars
<1>1. CASE BeginSuperstep(w)
  <2>1. NewMonitor(w)
    BY <1>1 DEF BeginSuperstep
  <2>2. /\ superstep' \in [Workers -> 0 .. MaxSuperstep]
        /\ pc' \in [Workers -> {"idle", "begin", "compute", "join"}]
        /\ busy' \in [Workers -> BOOLEAN]
        /\ allEmpty' \in [Workers -> BOOLEAN]
    <3>1. superstep[w] + 1 \in 0 .. MaxSuperstep
      BY <1>1 DEF BeginSuperstep, PregelTypeOK, RoundsOK
    <3>2. HasMessages(w, superstep[w]) \in BOOLEAN
      BY DEF HasMessages
    <3> QED
      BY <1>1, <3>1, <3>2 DEF BeginSuperstep, PregelTypeOK
  <2>3. PregelTypeOK'
    BY <1>1, <2>1, <2>2, TypeNewMonitor DEF BeginSuperstep, PregelTypeOK, Indexed
  <2>4. RoundsOK'
    BY <1>1 DEF BeginSuperstep, PregelTypeOK, RoundsOK
  <2> QED
    BY <2>3, <2>4
<1>2. CASE BeginInit(w)
  <2>1. NewMonitor(w)
    BY <1>2 DEF BeginInit
  <2>2. /\ pc' \in [Workers -> {"idle", "begin", "compute", "join"}]
        /\ busy' \in [Workers -> BOOLEAN]
        /\ allEmpty' \in [Workers -> BOOLEAN]
    BY <1>2 DEF BeginInit, PregelTypeOK
  <2>3. PregelTypeOK'
    BY <1>2, <2>1, <2>2, TypeNewMonitor DEF BeginInit, PregelTypeOK, Indexed
  <2>4. RoundsOK'
    BY <1>2 DEF BeginInit, PregelTypeOK, RoundsOK
  <2> QED
    BY <2>3, <2>4
<1> QED
  BY <1>1, <1>2

\* What a worker sends to another one, at the end of what the socket holds.
Ending(w, D, v) ==
  (IF v \in D THEN <<Data(superstep[w])>> ELSE <<>>)
    \o <<Mark(IF busy[w] THEN "FINISH" ELSE "EMPTY")>>

LEMMA TypeSent ==
  ASSUME TypeInv, NEW w \in Workers, NEW D, NEW v \in Workers
  PROVE  /\ socket[v][w] \in Seq(Messages)
         /\ (IF v \in D THEN <<Data(superstep[w])>> ELSE <<>>) \in Seq(Messages)
         /\ Mark(IF busy[w] THEN "FINISH" ELSE "EMPTY") \in Messages
         /\ Sent(w, D) \in Indexed(Seq(Messages))
<1>1. superstep[w] \in 0 .. MaxSuperstep
  BY DEF TypeInv, PregelTypeOK
<1>2. ASSUME NEW u \in Workers
      PROVE  /\ socket[u][w] \in Seq(Messages)
             /\ (IF u \in D THEN <<Data(superstep[w])>> ELSE <<>>) \in Seq(Messages)
             /\ <<Mark(IF busy[w] THEN "FINISH" ELSE "EMPTY")>> \in Seq(Messages)
  <2>1. socket[u][w] \in Seq(Messages)
    BY NodeTypes DEF TypeInv, PregelTypeOK, Indexed
  <2>2. Data(superstep[w]) \in Messages
    BY <1>1, MessageTypes
  <2>3. (IF u \in D THEN <<Data(superstep[w])>> ELSE <<>>) \in Seq(Messages)
    BY <2>2, EmptySeq
  <2>4. Mark(IF busy[w] THEN "FINISH" ELSE "EMPTY") \in Messages
    BY MessageTypes
  <2> QED
    BY <2>1, <2>3, <2>4
<1>3. \A u \in Workers :
        socket[u][w] \o (IF u \in D THEN <<Data(superstep[w])>> ELSE <<>>)
          \o <<Mark(IF busy[w] THEN "FINISH" ELSE "EMPTY")>> \in Seq(Messages)
  BY <1>2, ConcatProperties
<1>4. \A u \in Workers : socket[u] \in [Nodes -> Seq(Messages)]
  BY DEF TypeInv, PregelTypeOK, Indexed
<1>5. Sent(w, D) \in Indexed(Seq(Messages))
  BY <1>3, <1>4 DEF Sent, Indexed
<1> QED
  BY <1>2, <1>5, MessageTypes

LEMMA TypeLooped ==
  ASSUME NEW w \in Workers, superstep[w] \in Nat, NEW D,
         NEW box \in [Parities -> [Nodes -> Nat]]
  PROVE  Looped(w, D, box) \in [Parities -> [Nodes -> Nat]]
  BY ParityType, NodeTypes DEF Looped

LEMMA TypeFeed ==
  ASSUME NEW r \in Int, NEW unread, NEW box \in [Parities -> [Nodes -> Nat]]
  PROVE  Feed(box, r, unread) \in [Parities -> [Nodes -> Nat]]
  BY ParityType DEF Feed

LEMMA TypeCompute ==
  ASSUME TypeInv, NEW w \in Workers, NEW D, Compute(w, D) \/ Distribute(w, D)
  PROVE  TypeInv'
<1>1. socket' \in Indexed(Seq(Messages))
  <2>1. socket' = Sent(w, D)
    BY DEF Compute, Distribute
  <2> QED
    BY <2>1, TypeSent
<1>2. pc[w] = "compute" /\ pc' = [pc EXCEPT ![w] = "join"]
  BY DEF Compute, Distribute
<1>3. superstep[w] \in Nat /\ inbox[w] \in [Parities -> [Nodes -> Nat]]
  BY DEF TypeInv, PregelTypeOK
<1>4. inbox' \in [Workers -> [Parities -> [Nodes -> Nat]]]
  <2>1. CASE Compute(w, D)
    <3>1. PICK unread \in SUBSET Nodes :
            inbox' = [inbox EXCEPT ![w] =
                        Looped(w, D, Feed(@, superstep[w] - 1, unread))]
      BY <2>1 DEF Compute
    <3>2. Feed(inbox[w], superstep[w] - 1, unread) \in [Parities -> [Nodes -> Nat]]
      <4>1. PICK r \in Int : r = superstep[w] - 1
        BY <1>3
      <4>2. Feed(inbox[w], r, unread) \in [Parities -> [Nodes -> Nat]]
        BY <1>3, TypeFeed
      <4> QED
        BY <4>1, <4>2
    <3>3. Looped(w, D, Feed(inbox[w], superstep[w] - 1, unread))
            \in [Parities -> [Nodes -> Nat]]
      BY <1>3, <3>2, TypeLooped
    <3> QED
      BY <3>1, <3>3 DEF TypeInv, PregelTypeOK
  <2>2. CASE Distribute(w, D)
    BY <1>3, <2>2, TypeLooped DEF TypeInv, PregelTypeOK, Distribute
  <2> QED
    BY <2>1, <2>2
<1>5. UNCHANGED <<query, rounds, superstep, round, busy, allEmpty,
                 receiverVars, received, monitorVars, serverVars, inits>>
  BY DEF Compute, Distribute
<1>6. PregelTypeOK'
  BY <1>1, <1>2, <1>4, <1>5 DEF TypeInv, PregelTypeOK, Indexed, receiverVars, monitorVars, serverVars
<1>7. RoundsOK'
  BY <1>2, <1>5 DEF TypeInv, PregelTypeOK, RoundsOK
<1> QED
  BY <1>6, <1>7 DEF TypeInv

LEMMA TypeJoin ==
  ASSUME TypeInv, NEW w \in Workers, Join(w)
  PROVE  TypeInv'
<1> USE DEF TypeInv, receiverVars, monitorVars, serverVars
<1>1. pc' \in [Workers -> {"idle", "begin", "compute", "join"}]
  BY DEF Join, PregelTypeOK
<1>2. round' \in [Workers -> 0 .. MaxSuperstep]
  <2>1. CASE query = "startPregelWorker"
    <3>1. round[w] + 1 \in 0 .. MaxSuperstep
      BY <2>1 DEF Join, PregelTypeOK, RoundsOK
    <3>2. UNCHANGED round \/ round' = [round EXCEPT ![w] = @ + 1]
      BY <2>1 DEF Join
    <3> QED
      BY <3>1, <3>2 DEF PregelTypeOK
  <2>2. CASE query # "startPregelWorker"
    BY <2>2 DEF Join, PregelTypeOK
  <2> QED
    BY <2>1, <2>2
<1>3. PregelTypeOK'
  BY <1>1, <1>2 DEF Join, PregelTypeOK, Indexed
<1>4. RoundsOK'
  <2>1. UNCHANGED <<query, rounds, superstep>>
    BY DEF Join
  <2>2. \A v \in Workers : v # w => pc'[v] = pc[v] /\ round'[v] = round[v]
    BY DEF Join, PregelTypeOK
  <2>3. /\ round \in [Workers -> 0 .. MaxSuperstep] /\ superstep[w] \in Nat
        /\ rounds \in Nat
    BY DEF PregelTypeOK
  <2>4. query = "startPregelWorker" =>
          \/ pc'[w] = "idle"
          \/ pc'[w] = "begin" /\ round'[w] = round[w] + 1 /\ round'[w] < rounds
    BY DEF Join, PregelTypeOK
  <2>5. query = "startPregelWorker" =>
          superstep[w] + rounds - round[w] <= MaxSuperstep + 1
    BY DEF Join, RoundsOK
  <2> QED
    BY <2>1, <2>2, <2>3, <2>4, <2>5 DEF RoundsOK
<1> QED
  BY <1>3, <1>4

LEMMA TypeReceiver ==
  ASSUME TypeInv, NEW w \in Workers, Receiver(w)
  PROVE  TypeInv'
<1> USE DEF TypeInv, PregelTypeOK, RoundsOK, queryVars, monitorVars
<1>1. CASE StartReading(w)
  <2>1. state' \in Indexed({"READING", "WAITING"})
    BY <1>1 DEF StartReading, Indexed
  <2>2. unstarted' \in [Workers -> Nodes \cup {None}]
    BY <1>1 DEF StartReading
  <2> QED
    BY <1>1, <2>1, <2>2 DEF StartReading, Indexed
<1>2. ASSUME NEW p \in Nodes, SetMonitor(w, p)
      PROVE  TypeInv'
  <2>1. /\ monitor' \in Indexed(Nat \cup {None})
        /\ thread' \in Indexed({"reading", "ended", "tested", "asleep"})
        /\ unmonitored' \in [Workers -> SUBSET Nodes]
        /\ unstarted' \in [Workers -> Nodes \cup {None}]
    BY <1>2 DEF SetMonitor, Indexed
  <2> QED
    BY <1>2, <2>1 DEF SetMonitor, Indexed
<1> QED
  BY <1>1, <1>2 DEF Receiver

LEMMA TypePopped ==
  ASSUME TypeInv, NEW w \in Workers, NEW p \in Nodes, socket[w][p] # <<>>
  PROVE  /\ Popped(w, p) \in Indexed(Seq(Messages))
         /\ socket[w][p] \in Seq(Messages)
         /\ Head(socket[w][p]) \in Messages
<1>1. socket[w][p] \in Seq(Messages)
  BY DEF TypeInv, PregelTypeOK, Indexed
<1>2. Tail(socket[w][p]) \in Seq(Messages) /\ Head(socket[w][p]) \in Messages
  BY <1>1, HeadTailProperties
<1> QED
  BY <1>1, <1>2 DEF Popped, TypeInv, PregelTypeOK, Indexed

LEMMA TypeCounted ==
  ASSUME TypeInv, NEW w \in Workers, NEW number, NEW empty \in BOOLEAN,
         Counted(w, number, empty)
  PROVE  /\ counter' \in [Workers -> Int]
         /\ silent' \in [Workers -> BOOLEAN]
         /\ allEmpty' \in [Workers -> BOOLEAN]
         /\ received' \in [Workers -> BOOLEAN]
<1>1. counter' \in [Workers -> Int]
  BY DEF Counted, TypeInv, PregelTypeOK
<1>2. silent' \in [Workers -> BOOLEAN]
  BY DEF Counted, TypeInv, PregelTypeOK
<1>3. allEmpty' \in [Workers -> BOOLEAN]
  BY <1>2 DEF Counted, TypeInv, PregelTypeOK
<1>4. received' \in [Workers -> BOOLEAN]
  BY DEF Counted, TypeInv, PregelTypeOK, Last
<1> QED
  BY <1>1, <1>2, <1>3, <1>4

LEMMA TypeCollect ==
  ASSUME TypeInv, NEW w \in Workers, NEW queues \in [Nodes -> [Parities -> Nat]],
         CollectFromAllServers(w, queues)
  PROVE  /\ inbox' \in [Workers -> [Parities -> [Nodes -> Nat]]]
         /\ queue' \in Indexed([Parities -> Nat])
<1>1. superstep[w] % 2 \in Parities
  BY ParityType DEF TypeInv, PregelTypeOK
<1>2. [inbox[w] EXCEPT ![superstep[w] % 2] =
         [p \in Nodes |-> @[p] + queues[p][superstep[w] % 2]]]
        \in [Parities -> [Nodes -> Nat]]
  BY <1>1 DEF TypeInv, PregelTypeOK
<1>3. [p \in Nodes |-> [queues[p] EXCEPT ![superstep[w] % 2] = 0]]
        \in [Nodes -> [Parities -> Nat]]
  BY <1>1
<1>4. inbox' = [inbox EXCEPT ![w] = [inbox[w] EXCEPT ![superstep[w] % 2] =
                 [p \in Nodes |-> @[p] + queues[p][superstep[w] % 2]]]]
  BY DEF CollectFromAllServers, TypeInv, PregelTypeOK
<1> QED
  BY <1>2, <1>3, <1>4 DEF CollectFromAllServers, TypeInv, PregelTypeOK, Indexed

LEMMA TypeServer ==
  ASSUME TypeInv, NEW w \in Workers, NEW p \in Servers(w), Server(w, p)
  PROVE  TypeInv'
<1> USE DEF queryVars, receiverVars, monitorVars
<1>1. p \in Nodes
  BY NodeTypes
<1>2. CASE ReadData(w, p)
  <2>1. Head(socket[w][p]).round \in 0 .. MaxSuperstep
    BY <1>1, <1>2, TypePopped DEF ReadData, Readable, Messages
  <2>2. queue' \in Indexed([Parities -> Nat])
    <3>1. PICK b \in Parities : b = Head(socket[w][p]).round % 2
      BY <2>1, ParityType
    <3>2. queue' = [queue EXCEPT ![w][p][b] = @ + 1]
      BY <1>2, <3>1 DEF ReadData
    <3>3. queue \in [Workers -> [Nodes -> [Parities -> Nat]]]
      BY DEF TypeInv, PregelTypeOK, Indexed
    <3>4. queue' \in [Workers -> [Nodes -> [Parities -> Nat]]]
      BY <1>1, <3>2, <3>3
    <3> QED
      BY <3>4 DEF Indexed
  <2>3. socket' \in Indexed(Seq(Messages))
    BY <1>1, <1>2, TypePopped DEF ReadData, Readable
  <2> QED
    BY <1>2, <2>2, <2>3 DEF ReadData, TypeInv, PregelTypeOK, RoundsOK, Indexed
<1>3. CASE ReadMark(w, p)
  <2>1. mark' \in Indexed({"EMPTY", "FINISH"})
        /\ thread' \in Indexed({"reading", "ended", "tested", "asleep"})
    BY <1>1, <1>3 DEF ReadMark, TypeInv, PregelTypeOK, Indexed
  <2>2. socket' \in Indexed(Seq(Messages))
    BY <1>1, <1>3, TypePopped DEF ReadMark, Readable
  <2> QED
    BY <1>3, <2>1, <2>2 DEF ReadMark, TypeInv, PregelTypeOK, RoundsOK, Indexed
<1>4. CASE AwaitMonitor(w, p)
  <2>1. PICK t \in {"tested", "asleep"} : thread' = [thread EXCEPT ![w][p] = t]
    BY <1>4 DEF AwaitMonitor
  <2>2. thread' \in Indexed({"reading", "ended", "tested", "asleep"})
    BY <1>1, <2>1 DEF TypeInv, PregelTypeOK, Indexed
  <2>3. UNCHANGED <<queryVars, inbox, receiverVars, received, monitorVars, mark,
                 state, monitor, queue, socket, inits>>
    BY <1>4 DEF AwaitMonitor
  <2> QED
    BY <2>2, <2>3 DEF TypeInv, PregelTypeOK, RoundsOK, Indexed
<1>5. CASE HandleMark(w, p)
  <2>1. Counted(w, monitor[w][p], mark[w][p] = "EMPTY")
    BY <1>5 DEF HandleMark
  <2>2. queue[w] \in [Nodes -> [Parities -> Nat]]
    BY DEF TypeInv, PregelTypeOK, Indexed
  <2>3. /\ inbox' \in [Workers -> [Parities -> [Nodes -> Nat]]]
        /\ queue' \in Indexed([Parities -> Nat])
    BY <1>5, <2>2, TypeCollect DEF HandleMark, TypeInv, PregelTypeOK
  <2>4. /\ state' \in Indexed({"READING", "WAITING"})
        /\ monitor' \in Indexed(Nat \cup {None})
        /\ thread' \in Indexed({"reading", "ended", "tested", "asleep"})
    BY <1>1, <1>5 DEF HandleMark, TypeInv, PregelTypeOK, Indexed
  <2>5. /\ counter' \in [Workers -> Int]
        /\ silent' \in [Workers -> BOOLEAN]
        /\ allEmpty' \in [Workers -> BOOLEAN]
        /\ received' \in [Workers -> BOOLEAN]
    BY <2>1, TypeCounted
  <2> QED
    BY <1>5, <2>3, <2>4, <2>5
    DEF HandleMark, TypeInv, PregelTypeOK, RoundsOK, Indexed
<1>6. CASE HandleInitDone(w, p)
  <2>1. Counted(w, monitor[w][p], FALSE)
    BY <1>6 DEF HandleInitDone
  <2>2. queue[w] \in [Nodes -> [Parities -> Nat]]
    BY DEF TypeInv, PregelTypeOK, Indexed
  <2>3. Brought(queue[w], p, superstep[w]) \in [Nodes -> [Parities -> Nat]]
    <3>1. queue[w][p][0] + queue[w][p][1] \in Nat
      BY <1>1, <2>2 DEF Parities
    <3> QED
      BY <2>2, <3>1 DEF Brought
  <2>4. /\ inbox' \in [Workers -> [Parities -> [Nodes -> Nat]]]
        /\ queue' \in Indexed([Parities -> Nat])
    BY <1>6, <2>3, TypeCollect DEF HandleInitDone
  <2>5. /\ state' \in Indexed({"READING", "WAITING"})
        /\ monitor' \in Indexed(Nat \cup {None})
    BY <1>1, <1>6 DEF HandleInitDone, TypeInv, PregelTypeOK, Indexed
  <2>6. /\ counter' \in [Workers -> Int]
        /\ silent' \in [Workers -> BOOLEAN]
        /\ allEmpty' \in [Workers -> BOOLEAN]
        /\ received' \in [Workers -> BOOLEAN]
    BY <2>1, TypeCounted
  <2>7. socket' \in Indexed(Seq(Messages))
    BY <1>1, <1>6, TypePopped DEF HandleInitDone, Readable
  <2> QED
    BY <1>6, <2>4, <2>5, <2>6, <2>7
    DEF HandleInitDone, TypeInv, PregelTypeOK, RoundsOK, Indexed
<1> QED
  BY <1>2, <1>3, <1>4, <1>5, <1>6 DEF Server

LEMMA TypeStep == TypeInv /\ [Next]_vars => TypeInv'
<1> SUFFICES ASSUME TypeInv, [Next]_vars PROVE TypeInv'
  OBVIOUS
<1>1. CASE Commands
  BY <1>1, TypeCommands
<1>2. ASSUME NEW w \in Workers, Query(w)
      PROVE  TypeInv'
  BY <1>2, TypeBegin, TypeCompute, TypeJoin DEF Query
<1>3. ASSUME NEW w \in Workers, Receiver(w)
      PROVE  TypeInv'
  BY <1>3, TypeReceiver
<1>4. ASSUME NEW w \in Workers, NEW p \in Servers(w), Server(w, p)
      PROVE  TypeInv'
  BY <1>4, TypeServer
<1>5. CASE UNCHANGED vars
  BY <1>5 DEF vars, queryVars, receiverVars, monitorVars, serverVars, TypeInv,
              PregelTypeOK, RoundsOK, Indexed
<1> QED
  BY <1>1, <1>2, <1>3, <1>4, <1>5 DEF Next

(* Every variable keeps its type: the supersteps stay below the bound that *)
(* startPregel was called with, whatever order the threads run in.         *)
THEOREM TypeCorrect == Spec => []PregelTypeOK
<1>1. TypeInv => PregelTypeOK
  BY DEF TypeInv
<1> QED
  BY <1>1, TypeInit, TypeStep, PTL DEF Spec

-----------------------------------------------------------------------------
(* Messages in a socket.                                                   *)

\* Where a socket has messages of a set.
Places(s, M) == {i \in DOMAIN s : s[i] \in M}
Number(s, M) == Cardinality(Places(s, M))

LEMMA NumberType ==
  ASSUME NEW s \in Seq(Messages), NEW M
  PROVE  IsFiniteSet(Places(s, M)) /\ Number(s, M) \in Nat
<1>1. Len(s) \in Nat /\ DOMAIN s = 1 .. Len(s)
  BY LenProperties
<1>2. IsFiniteSet(DOMAIN s)
  BY <1>1, FS_Interval
<1>3. IsFiniteSet(Places(s, M))
  BY <1>2, FS_Subset DEF Places
<1> QED
  BY <1>3, FS_CardinalityType DEF Number

LEMMA NumberAppend ==
  ASSUME NEW s \in Seq(Messages), NEW m \in Messages, NEW M
  PROVE  Number(Append(s, m), M) = Number(s, M) + (IF m \in M THEN 1 ELSE 0)
<1> DEFINE n == Len(s)
           longer == Append(s, m)
<1>1. n \in Nat /\ DOMAIN s = 1 .. n
  BY LenProperties
<1>2. /\ DOMAIN longer = 1 .. n + 1
      /\ \A i \in 1 .. n : longer[i] = s[i]
      /\ longer[n + 1] = m
  BY AppendProperties, LenProperties
<1>3. IsFiniteSet(Places(s, M)) /\ Number(s, M) \in Nat
  BY NumberType
<1>4. CASE m \in M
  <2>1. Places(longer, M) = Places(s, M) \cup {n + 1} /\ n + 1 \notin Places(s, M)
    BY <1>1, <1>2, <1>4 DEF Places
  <2> QED
    BY <1>3, <1>4, <2>1, FS_AddElement DEF Number
<1>5. CASE m \notin M
  <2>1. Places(longer, M) = Places(s, M)
    BY <1>1, <1>2, <1>5 DEF Places
  <2> QED
    BY <1>3, <1>5, <2>1 DEF Number
<1> QED
  BY <1>4, <1>5

LEMMA NumberTail ==
  ASSUME NEW s \in Seq(Messages), s # <<>>, NEW M
  PROVE  Number(s, M) = Number(Tail(s), M) + (IF Head(s) \in M THEN 1 ELSE 0)
<1> DEFINE n == Len(s)
           shorter == Tail(s)
           others == Places(s, M) \ {1}
<1>1. n \in Nat \ {0} /\ DOMAIN s = 1 .. n
  BY LenProperties, EmptySeq
<1>2. /\ shorter \in Seq(Messages)
      /\ Head(s) = s[1]
      /\ DOMAIN shorter = 1 .. n - 1
      /\ \A i \in 1 .. n - 1 : shorter[i] = s[i + 1]
  BY <1>1, HeadTailProperties, LenProperties
<1>3. IsFiniteSet(Places(s, M)) /\ IsFiniteSet(Places(shorter, M)) /\ Number(shorter, M) \in Nat
  BY <1>2, NumberType
<1>4. Cardinality(others) = Number(shorter, M)
  <2> DEFINE shift == [i \in Places(shorter, M) |-> i + 1]
  <2>1. Places(shorter, M) \subseteq 1 .. n - 1
    BY <1>2 DEF Places
  <2>2. \A i \in Places(shorter, M) : i + 1 \in others
    BY <1>1, <1>2, <2>1 DEF Places
  <2>3. \A j \in others : j - 1 \in Places(shorter, M) /\ j \in Int
    BY <1>1, <1>2 DEF Places
  <2>4. shift \in Bijection(Places(shorter, M), others)
    <3>1. shift \in [Places(shorter, M) -> others]
      BY <2>2
    <3>2. shift \in Injection(Places(shorter, M), others)
      BY <2>1, <3>1 DEF Injection, IsInjective
    <3>3. \A j \in others : \E i \in Places(shorter, M) : shift[i] = j
      BY <2>3
    <3>4. shift \in Surjection(Places(shorter, M), others)
      BY <3>1, <3>3 DEF Surjection
    <3> QED
      BY <3>2, <3>4 DEF Bijection
  <2>5. ExistsBijection(Places(shorter, M), others)
    BY <2>4 DEF ExistsBijection
  <2> QED
    BY <1>3, <2>5, FS_Bijection DEF Number
<1>5. CASE Head(s) \in M
  <2>1. Places(s, M) = others \cup {1} /\ 1 \notin others
    BY <1>1, <1>2, <1>5 DEF Places
  <2>2. IsFiniteSet(others)
    BY <1>3, FS_Subset
  <2>3. Cardinality(Places(s, M)) = Cardinality(others) + 1
    BY <2>1, <2>2, FS_AddElement
  <2> QED
    BY <1>4, <1>5, <2>3 DEF Number
<1>6. CASE Head(s) \notin M
  <2>1. Places(s, M) = others
    BY <1>1, <1>2, <1>6 DEF Places
  <2>2. Number(s, M) = Cardinality(others)
    BY <2>1 DEF Number
  <2> HIDE DEF others, shorter
  <2>3. Number(s, M) = Number(Tail(s), M)
    BY <1>4, <2>2 DEF shorter
  <2>4. Number(Tail(s), M) \in Nat
    BY <1>3 DEF shorter
  <2> QED
    BY <1>6, <2>3, <2>4
<1> QED
  BY <1>5, <1>6

\* The ends of supersteps that are still in a socket.
IsEnd(m) == m.type \in {"EMPTY", "FINISH"}
EndMarks == {m \in Messages : IsEnd(m)}
Ends(s) == {i \in DOMAIN s : IsEnd(s[i])}
NrEnds(s) == Cardinality(Ends(s))

LEMMA EndsPlaces ==
  ASSUME NEW s \in Seq(Messages)
  PROVE  Ends(s) = Places(s, EndMarks) /\ NrEnds(s) = Number(s, EndMarks)
<1>1. \A i \in DOMAIN s : s[i] \in Messages
  BY ElementOfSeq, LenProperties
<1>2. Ends(s) = Places(s, EndMarks)
  BY <1>1 DEF Ends, Places, EndMarks
<1> QED
  BY <1>2 DEF NrEnds, Number

LEMMA EndsType ==
  ASSUME NEW s \in Seq(Messages)
  PROVE  IsFiniteSet(Ends(s)) /\ NrEnds(s) \in Nat
  BY EndsPlaces, NumberType

LEMMA NoEnds == NrEnds(<<>>) = 0
  BY FS_EmptySet DEF NrEnds, Ends

LEMMA EndsAppend ==
  ASSUME NEW s \in Seq(Messages), NEW m \in Messages
  PROVE  NrEnds(Append(s, m)) = NrEnds(s) + (IF IsEnd(m) THEN 1 ELSE 0)
<1>1. Append(s, m) \in Seq(Messages)
  BY AppendProperties
<1>2. m \in EndMarks <=> IsEnd(m)
  BY DEF EndMarks
<1>3. NrEnds(Append(s, m)) = Number(Append(s, m), EndMarks) /\ NrEnds(s) = Number(s, EndMarks)
  BY <1>1, EndsPlaces
<1>4. Number(Append(s, m), EndMarks) = Number(s, EndMarks) + (IF m \in EndMarks THEN 1 ELSE 0)
  BY NumberAppend
<1> QED
  BY <1>2, <1>3, <1>4

LEMMA EndsTail ==
  ASSUME NEW s \in Seq(Messages), s # <<>>
  PROVE  NrEnds(s) = NrEnds(Tail(s)) + (IF IsEnd(Head(s)) THEN 1 ELSE 0)
<1>1. Tail(s) \in Seq(Messages) /\ Head(s) \in Messages
  BY HeadTailProperties, ElementOfSeq, LenProperties, EmptySeq
<1>2. Head(s) \in EndMarks <=> IsEnd(Head(s))
  BY <1>1 DEF EndMarks
<1> QED
  BY <1>1, <1>2, EndsPlaces, NumberTail

-----------------------------------------------------------------------------
(* The barrier.                                                            *)

\* The monitor of the superstep of w waits for an end of p.
Pending(w, p) == p \in unmonitored[w] \/ monitor[w][p] # None
Open(w) == {p \in Peers(w) : Pending(w, p)}

\* Ends that p has sent; those that a server thread of w has in its hand,
\* and those that the monitors of w have counted.
Ended(p) == IF pc[p] = "compute" THEN monitors[p] - 1 ELSE monitors[p]
Held(w, p) == IF thread[w][p] = "reading" THEN 0 ELSE 1
Handled(w, p) == IF Pending(w, p) THEN monitors[w] - 1 ELSE monitors[w]

EndsOK ==
  \A w \in Workers : \A p \in Peers(w) :
    Handled(w, p) + Held(w, p) + NrEnds(socket[w][p]) = Ended(p)

MonitorsOK ==
  \A w \in Workers : \A p \in Peers(w) :
    /\ monitor[w][p] \in {None, monitors[w]}
    /\ p \in unmonitored[w] => monitor[w][p] = None

CountersOK ==
  \A w \in Workers :
    /\ pc[w] \in {"idle", "begin"} \/ received[w] => Open(w) = {}
    /\ pc[w] \in {"compute", "join"} => counter[w] = Cardinality(Open(w))

\* The master sends no ends of supersteps, and the workers nothing else than
\* messages and ends.
FromPeer == {m \in Messages : m.type # "INIT_DONE"}
FromMaster == {m \in Messages : m.type \in {"DATA", "INIT_DONE"}}

SocketsOK ==
  /\ \A w \in Workers :
       /\ \A p \in Peers(w) : socket[w][p] \in Seq(FromPeer)
       /\ socket[w][Master] \in Seq(FromMaster)
       /\ thread[w][Master] = "reading"
  /\ AllIdle \/ InitDone

BarrierInv == TypeInv /\ EndsOK /\ MonitorsOK /\ CountersOK /\ SocketsOK

LEMMA PeersOf ==
  ASSUME NEW w \in Workers
  PROVE  /\ IsFiniteSet(Peers(w))
         /\ Cardinality(Servers(w)) - 1 = Cardinality(Peers(w))
         /\ Master \notin Peers(w)
         /\ Open(w) \subseteq Peers(w)
         /\ IsFiniteSet(Open(w))
         /\ Cardinality(Open(w)) \in Nat
<1>1. IsFiniteSet(Peers(w)) /\ Master \notin Peers(w)
  BY FS_RemoveElement DEF Peers
<1>2. Cardinality(Servers(w)) = Cardinality(Peers(w)) + 1
  BY <1>1, FS_AddElement DEF Servers
<1>3. Open(w) \subseteq Peers(w)
  BY DEF Open
<1>4. IsFiniteSet(Open(w))
  BY <1>1, <1>3, FS_Subset
<1> QED
  BY <1>1, <1>2, <1>3, <1>4, FS_CardinalityType

LEMMA BarrierInit == Init => BarrierInv
<1> SUFFICES ASSUME Init PROVE BarrierInv
  OBVIOUS
<1>1. \A w \in Workers : Open(w) = {} /\ \A p \in Nodes : ~Pending(w, p)
  BY NodeTypes DEF Init, Open, Pending, Everywhere, Peers, Nodes
<1>2. EndsOK
  BY <1>1, NoEnds, NodeTypes
  DEF Init, EndsOK, Handled, Held, Ended, Everywhere, Peers, Nodes
<1>3. MonitorsOK
  BY DEF Init, MonitorsOK, Everywhere, Peers, Nodes
<1>4. CountersOK
  BY <1>1 DEF Init, CountersOK
<1>5. SocketsOK
  BY EmptySeq DEF Init, SocketsOK, Everywhere, AllIdle, InitDone, Peers, Nodes
<1> QED
  BY <1>2, <1>3, <1>4, <1>5, TypeInit DEF BarrierInv

LEMMA BarrierHolds == BarrierInv => Barrier
<1> SUFFICES ASSUME BarrierInv, NEW v \in Workers, NEW w \in Workers, v # w
             PROVE  /\ received[w] => \/ monitors[v] > monitors[w]
                                      \/ monitors[v] = monitors[w] /\ pc[v] # "compute"
                    /\ monitors[v] > monitors[w] =>
                         monitors[v] = monitors[w] + 1 /\ pc[w] # "compute"
  BY DEF Barrier
<1>1. v \in Peers(w) /\ w \in Peers(v)
  BY DEF Peers
<1>2. monitors[v] \in Nat /\ monitors[w] \in Nat
  BY DEF BarrierInv, TypeInv, PregelTypeOK
<1>3. NrEnds(socket[w][v]) \in Nat /\ NrEnds(socket[v][w]) \in Nat
  <2>1. socket[w][v] \in Seq(Messages) /\ socket[v][w] \in Seq(Messages)
    BY NodeTypes DEF BarrierInv, TypeInv, PregelTypeOK, Indexed
  <2> QED
    BY <2>1, EndsType
<1>4. /\ Handled(w, v) + Held(w, v) + NrEnds(socket[w][v]) = Ended(v)
      /\ Handled(v, w) + Held(v, w) + NrEnds(socket[v][w]) = Ended(w)
  BY <1>1 DEF BarrierInv, EndsOK
<1>5. received[w] => ~Pending(w, v)
  BY <1>1 DEF BarrierInv, CountersOK, Open
<1> QED
  BY <1>2, <1>3, <1>4, <1>5 DEF Handled, Held, Ended

\* The variables that the barrier depends on.
barrierVars == <<pc, unmonitored, received, monitors, counter, thread, monitor,
                 socket>>

LEMMA BarrierUnchanged ==
  ASSUME EndsOK, MonitorsOK, CountersOK, SocketsOK, UNCHANGED barrierVars
  PROVE  EndsOK' /\ MonitorsOK' /\ CountersOK' /\ SocketsOK'
<1> USE DEF barrierVars
<1>1. EndsOK'
  BY DEF EndsOK, Handled, Held, Ended, Pending
<1>2. MonitorsOK'
  BY DEF MonitorsOK
<1>3. CountersOK'
  BY DEF CountersOK, Open, Pending
<1>4. SocketsOK'
  BY DEF SocketsOK, AllIdle, InitDone
<1> QED
  BY <1>1, <1>2, <1>3, <1>4

LEMMA MasterTypes ==
  /\ <<Data(0)>> \in Seq(FromMaster)
  /\ <<Mark("INIT_DONE")>> \in Seq(FromMaster)
  /\ <<>> \in Seq(FromMaster)
<1>1. 0 \in 0 .. MaxSuperstep
  OBVIOUS
<1>2. Data(0) \in Messages /\ Mark("INIT_DONE") \in Messages
  BY <1>1, MessageTypes
<1>3. Data(0) \in FromMaster /\ Mark("INIT_DONE") \in FromMaster
  BY <1>2 DEF FromMaster, Data, Mark
<1> QED
  BY <1>3, EmptySeq

LEMMA BarrierCommands ==
  ASSUME "late init" \notin Irregular, BarrierInv, Commands
  PROVE  EndsOK' /\ MonitorsOK' /\ CountersOK' /\ SocketsOK'
<1> USE DEF BarrierInv
<1>1. ASSUME NEW D \in Destinations, InitPregelMessages(D)
      PROVE  EndsOK' /\ MonitorsOK' /\ CountersOK' /\ SocketsOK'
  <2>1. UNCHANGED <<pc, unmonitored, received, monitors, counter, thread, monitor>>
    BY <1>1 DEF InitPregelMessages, queryVars, receiverVars, monitorVars
  <2>2. \A w \in Workers :
          /\ \A p \in Peers(w) : socket'[w][p] = socket[w][p]
          /\ socket'[w][Master] =
                socket[w][Master] \o (IF w \in D THEN <<Data(0)>> ELSE <<>>)
                  \o <<Mark("INIT_DONE")>>
    <3>1. \A w \in Workers : socket[w] \in [Nodes -> Seq(Messages)]
      BY DEF TypeInv, PregelTypeOK, Indexed
    <3> QED
      BY <1>1, <3>1 DEF InitPregelMessages, Peers, Nodes
  <2>3. EndsOK'
    <3>1. \A w \in Workers : \A p \in Peers(w) :
            /\ Ended(p)' = Ended(p)
            /\ Handled(w, p)' = Handled(w, p)
            /\ Held(w, p)' = Held(w, p)
      BY <2>1 DEF Handled, Held, Ended, Pending
    <3> QED
      BY <2>2, <3>1 DEF EndsOK
  <2>4. MonitorsOK' /\ CountersOK'
    BY <2>1 DEF MonitorsOK, CountersOK, Open, Pending
  <2>5. SocketsOK'
    <3>1. ASSUME NEW w \in Workers
          PROVE  socket'[w][Master] \in Seq(FromMaster)
      <4>2. (IF w \in D THEN <<Data(0)>> ELSE <<>>) \in Seq(FromMaster)
        BY MasterTypes
      <4>3. <<Mark("INIT_DONE")>> \in Seq(FromMaster)
        BY MasterTypes
      <4>4. socket[w][Master] \in Seq(FromMaster)
        BY DEF SocketsOK
      <4>5. socket[w][Master] \o (IF w \in D THEN <<Data(0)>> ELSE <<>>) \in Seq(FromMaster)
        BY <4>2, <4>4, ConcatProperties
      <4>6. (socket[w][Master] \o (IF w \in D THEN <<Data(0)>> ELSE <<>>))
              \o <<Mark("INIT_DONE")>> \in Seq(FromMaster)
        BY <4>3, <4>5, ConcatProperties
      <4> QED
        BY <2>2, <4>6
    <3>2. AllIdle'
      BY <1>1, <2>1 DEF InitPregelMessages, AllIdle
    <3> QED
      BY <2>1, <2>2, <3>1, <3>2 DEF SocketsOK
  <2> QED
    BY <2>3, <2>4, <2>5
<1>2. ASSUME MayStart, pc' = [w \in Workers |-> "begin"],
             UNCHANGED <<unmonitored, received, monitors, counter, thread, monitor, socket>>
      PROVE  EndsOK' /\ MonitorsOK' /\ CountersOK' /\ SocketsOK'
  <2>1. \A w \in Workers : pc[w] = "idle" /\ pc'[w] = "begin"
    BY <1>2 DEF MayStart, AllIdle
  <2>2. EndsOK'
    <3>1. \A w \in Workers : \A p \in Peers(w) :
            /\ Ended(p)' = Ended(p)
            /\ Handled(w, p)' = Handled(w, p)
            /\ Held(w, p)' = Held(w, p)
      BY <1>2, <2>1 DEF Handled, Held, Ended, Pending, Peers
    <3> QED
      BY <1>2, <3>1 DEF EndsOK
  <2>3. MonitorsOK' /\ CountersOK'
    BY <1>2, <2>1 DEF MonitorsOK, CountersOK, Open, Pending
  <2>4. SocketsOK'
    BY <1>2 DEF SocketsOK, MayStart, InitDone
  <2> QED
    BY <2>2, <2>3, <2>4
<1>3. CASE InitOnWorkers \/ \E n \in 1 .. MaxSuperstep : StartPregel(n)
  BY <1>2, <1>3
  DEF InitOnWorkers, StartPregel, receiverVars, monitorVars, serverVars
<1>4. CASE ClearMessages
  BY <1>4, BarrierUnchanged
  DEF ClearMessages, barrierVars, queryVars, receiverVars, monitorVars, serverVars
<1> QED
  BY <1>1, <1>3, <1>4 DEF Commands

LEMMA BarrierBegin ==
  ASSUME BarrierInv, NEW w \in Workers, BeginSuperstep(w) \/ BeginInit(w)
  PROVE  EndsOK' /\ MonitorsOK' /\ CountersOK' /\ SocketsOK'
<1> USE DEF BarrierInv
<1>1. /\ NewMonitor(w)
      /\ pc[w] = "begin"
      /\ pc' = [pc EXCEPT ![w] = "compute"]
      /\ UNCHANGED <<thread, monitor, socket>>
  BY DEF BeginSuperstep, BeginInit, serverVars
<1>2. /\ pc \in [Workers -> {"idle", "begin", "compute", "join"}]
      /\ monitors \in [Workers -> Nat]
      /\ unmonitored \in [Workers -> SUBSET Nodes]
      /\ received \in [Workers -> BOOLEAN]
      /\ counter \in [Workers -> Int]
  BY DEF TypeInv, PregelTypeOK
<1>3. \A p \in Peers(w) : ~Pending(w, p)
  BY <1>1 DEF CountersOK, Open
<1>4. \A v \in Workers \ {w} :
        /\ pc'[v] = pc[v] /\ monitors'[v] = monitors[v]
        /\ unmonitored'[v] = unmonitored[v] /\ received'[v] = received[v]
        /\ counter'[v] = counter[v]
  BY <1>1, <1>2 DEF NewMonitor
<1>5. /\ pc'[w] = "compute" /\ monitors'[w] = monitors[w] + 1
      /\ unmonitored'[w] = Servers(w) /\ received'[w] = FALSE
      /\ counter'[w] = Cardinality(Servers(w)) - 1
  BY <1>1, <1>2 DEF NewMonitor
<1>6. Peers(w) \subseteq Servers(w)
  BY DEF Servers
<1>7. EndsOK'
  <2>1. ASSUME NEW v \in Workers, NEW p \in Peers(v)
        PROVE  Handled(v, p)' = Handled(v, p) /\ Ended(p)' = Ended(p)
               /\ Held(v, p)' = Held(v, p)
    <3>1. p \in Workers /\ v \in Workers
      BY DEF Peers
    <3>2. Ended(p)' = Ended(p)
      BY <1>1, <1>2, <1>4, <1>5, <3>1 DEF Ended
    <3>3. Handled(v, p)' = Handled(v, p)
      <4>1. CASE v = w
        BY <1>2, <1>3, <1>5, <1>6, <4>1 DEF Handled, Pending
      <4>2. CASE v # w
        BY <1>1, <1>4, <4>2 DEF Handled, Pending
      <4> QED
        BY <4>1, <4>2
    <3> QED
      BY <1>1, <3>2, <3>3 DEF Held
  <2> QED
    BY <1>1, <2>1 DEF EndsOK
<1>8. MonitorsOK'
  BY <1>1, <1>3, <1>4 DEF MonitorsOK, Pending
<1>9. CountersOK'
  <2>1. ASSUME NEW v \in Workers, v # w
        PROVE  Open(v)' = Open(v)
    BY <1>1, <1>4, <2>1 DEF Open, Pending
  <2>2. Open(w)' = Peers(w)
    BY <1>5, <1>6 DEF Open, Pending
  <2> QED
    BY <1>4, <1>5, <2>1, <2>2, PeersOf DEF CountersOK
<1>10. SocketsOK'
  BY <1>1 DEF SocketsOK, AllIdle, InitDone
<1> QED
  BY <1>7, <1>8, <1>9, <1>10

LEMMA BarrierCompute ==
  ASSUME BarrierInv, NEW w \in Workers, NEW D, Compute(w, D) \/ Distribute(w, D)
  PROVE  EndsOK' /\ MonitorsOK' /\ CountersOK' /\ SocketsOK'
<1> USE DEF BarrierInv
<1>1. /\ socket' = Sent(w, D)
      /\ pc[w] = "compute"
      /\ pc' = [pc EXCEPT ![w] = "join"]
      /\ UNCHANGED <<unmonitored, received, monitors, counter, thread, monitor>>
  BY DEF Compute, Distribute, receiverVars, monitorVars, serverVars
<1>2. /\ pc \in [Workers -> {"idle", "begin", "compute", "join"}]
      /\ monitors \in [Workers -> Nat]
      /\ socket \in [Workers -> [Nodes -> Seq(Messages)]]
  BY DEF TypeInv, PregelTypeOK, Indexed
<1>3. \A v \in Workers, p \in Nodes :
        p # w \/ v = w => socket'[v][p] = socket[v][p]
  BY <1>1, <1>2 DEF Sent
<1>4. PICK m : m = Mark(IF busy[w] THEN "FINISH" ELSE "EMPTY")
  OBVIOUS
<1>5. m \in Messages /\ m \in FromPeer /\ IsEnd(m)
  BY <1>4, MessageTypes DEF FromPeer, IsEnd, Mark
<1>6. ASSUME NEW v \in Workers, v # w
      PROVE  /\ NrEnds(socket'[v][w]) = NrEnds(socket[v][w]) + 1
             /\ socket'[v][w] \in Seq(FromPeer)
  <2>1. w \in Nodes /\ w \in Peers(v)
    BY <1>6 DEF Nodes, Peers
  <2>2. PICK d : d = Data(superstep[w])
    OBVIOUS
  <2>3. d \in Messages /\ d \in FromPeer /\ ~IsEnd(d)
    <3>1. superstep[w] \in 0 .. MaxSuperstep
      BY DEF TypeInv, PregelTypeOK
    <3> QED
      BY <2>2, <3>1, MessageTypes DEF FromPeer, IsEnd, Data
  <2>4. socket[v][w] \in Seq(Messages) /\ socket[v][w] \in Seq(FromPeer)
    BY <1>2, <2>1 DEF SocketsOK
  <2>5. PICK s : s = socket[v][w] \o (IF v \in D THEN <<d>> ELSE <<>>)
    OBVIOUS
  <2>6. s \in Seq(Messages) /\ s \in Seq(FromPeer) /\ NrEnds(s) = NrEnds(socket[v][w])
    <3>1. CASE v \in D
      <4>1. s = Append(socket[v][w], d)
        BY <2>3, <2>4, <2>5, <3>1, AppendIsConcat
      <4>2. NrEnds(s) = NrEnds(socket[v][w]) + 0
        BY <2>3, <2>4, <4>1, EndsAppend
      <4>3. s \in Seq(Messages) /\ s \in Seq(FromPeer)
        BY <2>3, <2>4, <4>1, AppendProperties
      <4> QED
        BY <2>4, <4>2, <4>3, EndsType
    <3>2. CASE v \notin D
      BY <2>4, <2>5, <3>2, ConcatEmptySeq
    <3> QED
      BY <3>1, <3>2
  <2>7. socket'[v][w] = s \o <<m>>
    BY <1>1, <1>2, <1>4, <1>6, <2>1, <2>2, <2>5 DEF Sent
  <2>8. socket'[v][w] = Append(s, m)
    BY <1>5, <2>6, <2>7, AppendIsConcat
  <2>9. NrEnds(socket'[v][w]) = NrEnds(s) + 1
    BY <1>5, <2>6, <2>8, EndsAppend
  <2> QED
    BY <1>5, <2>6, <2>8, <2>9, AppendProperties
<1>7. EndsOK'
  <2>1. ASSUME NEW v \in Workers, NEW p \in Peers(v)
        PROVE  (Handled(v, p) + Held(v, p) + NrEnds(socket[v][p]) = Ended(p))'
    <3>1. Handled(v, p) + Held(v, p) + NrEnds(socket[v][p]) = Ended(p)
      BY DEF EndsOK
    <3>2. Handled(v, p)' = Handled(v, p) /\ Held(v, p)' = Held(v, p)
      BY <1>1 DEF Handled, Held, Pending
    <3>3. Handled(v, p) \in Int /\ Held(v, p) \in Int
      BY <1>2 DEF Handled, Held
    <3>4. CASE p = w
      <4>1. v # w
        BY <3>4 DEF Peers
      <4>2. NrEnds(socket'[v][p]) = NrEnds(socket[v][p]) + 1
        BY <1>6, <3>4, <4>1
      <4>3. NrEnds(socket[v][p]) \in Nat
        BY <1>2, <3>4, EndsType, NodeTypes
      <4>4. Ended(p)' = Ended(p) + 1
        BY <1>1, <1>2, <3>4 DEF Ended
      <4> QED
        BY <3>1, <3>2, <3>3, <4>2, <4>3, <4>4
    <3>5. CASE p # w
      <4>1. p \in Workers /\ p \in Nodes
        BY DEF Peers, Nodes
      <4>2. Ended(p)' = Ended(p)
        BY <1>1, <1>2, <3>5, <4>1 DEF Ended
      <4> QED
        BY <1>3, <3>1, <3>2, <3>5, <4>1, <4>2
    <3> QED
      BY <3>4, <3>5
  <2> QED
    BY <2>1 DEF EndsOK
<1>8. MonitorsOK'
  BY <1>1 DEF MonitorsOK
<1>9. CountersOK'
  BY <1>1, <1>2 DEF CountersOK, Open, Pending
<1>10. SocketsOK'
  <2>1. ASSUME NEW v \in Workers, NEW p \in Peers(v)
        PROVE  socket'[v][p] \in Seq(FromPeer)
    <3>1. p \in Nodes /\ p # v
      BY DEF Peers, Nodes
    <3> QED
      BY <1>3, <1>6, <3>1 DEF SocketsOK
  <2>2. \A v \in Workers : socket'[v][Master] = socket[v][Master]
    BY <1>3 DEF Nodes
  <2>3. InitDone
    BY <1>1 DEF SocketsOK, AllIdle
  <2> QED
    BY <1>1, <2>1, <2>2, <2>3 DEF SocketsOK, InitDone
<1> QED
  BY <1>7, <1>8, <1>9, <1>10

LEMMA BarrierJoin ==
  ASSUME BarrierInv, NEW w \in Workers, Join(w)
  PROVE  EndsOK' /\ MonitorsOK' /\ CountersOK' /\ SocketsOK'
<1> USE DEF BarrierInv
<1>1. PICK next \in {"begin", "idle"} : pc' = [pc EXCEPT ![w] = next]
  BY DEF Join
<1>2. /\ pc[w] = "join" /\ received[w]
      /\ UNCHANGED <<unmonitored, received, monitors, counter, thread, monitor, socket>>
  BY DEF Join, ReceiverDone, receiverVars, monitorVars, serverVars
<1>3. pc \in [Workers -> {"idle", "begin", "compute", "join"}]
  BY DEF TypeInv, PregelTypeOK
<1>4. EndsOK'
  <2>1. \A v \in Workers : \A p \in Peers(v) :
          /\ Ended(p)' = Ended(p)
          /\ Handled(v, p)' = Handled(v, p)
          /\ Held(v, p)' = Held(v, p)
    BY <1>1, <1>2, <1>3 DEF Handled, Held, Ended, Pending, Peers
  <2> QED
    BY <1>2, <2>1 DEF EndsOK
<1>5. MonitorsOK'
  BY <1>2 DEF MonitorsOK
<1>6. CountersOK'
  <2>1. \A v \in Workers : Open(v)' = Open(v)
    BY <1>2 DEF Open, Pending
  <2> QED
    BY <1>1, <1>2, <1>3, <2>1 DEF CountersOK
<1>7. SocketsOK'
  <2>1. InitDone
    BY <1>2 DEF SocketsOK, AllIdle
  <2> QED
    BY <1>2, <2>1 DEF SocketsOK, InitDone
<1> QED
  BY <1>4, <1>5, <1>6, <1>7

LEMMA BarrierReceiver ==
  ASSUME BarrierInv, NEW w \in Workers, Receiver(w)
  PROVE  EndsOK' /\ MonitorsOK' /\ CountersOK' /\ SocketsOK'
<1> USE DEF BarrierInv
<1>1. CASE StartReading(w)
  BY <1>1, BarrierUnchanged
  DEF StartReading, barrierVars, queryVars, receiverVars, monitorVars
<1>2. ASSUME NEW q \in Nodes, SetMonitor(w, q)
      PROVE  EndsOK' /\ MonitorsOK' /\ CountersOK' /\ SocketsOK'
  <2>1. /\ q \in unmonitored[w]
        /\ monitor' = [monitor EXCEPT ![w][q] = monitors[w]]
        /\ thread' = [thread EXCEPT ![w][q] = IF @ = "asleep" THEN "ended" ELSE @]
        /\ unmonitored' = [unmonitored EXCEPT ![w] = @ \ {q}]
        /\ UNCHANGED <<pc, received, monitors, counter, socket>>
    BY <1>2 DEF SetMonitor, queryVars, monitorVars
  <2>2. /\ monitor \in [Workers -> [Nodes -> Nat \cup {None}]]
        /\ thread \in [Workers -> [Nodes -> {"reading", "ended", "tested", "asleep"}]]
        /\ unmonitored \in [Workers -> SUBSET Nodes]
        /\ monitors[w] \in Nat
    BY DEF TypeInv, PregelTypeOK, Indexed
  <2>3. ASSUME NEW v \in Workers, NEW p \in Nodes
        PROVE  /\ Pending(v, p)' = Pending(v, p)
               /\ Held(v, p)' = Held(v, p)
               /\ (v # w \/ p # q) => /\ monitor'[v][p] = monitor[v][p]
                                      /\ p \in unmonitored'[v] <=> p \in unmonitored[v]
               /\ (v = w /\ p = q) => /\ monitor'[v][p] = monitors[v]
                                      /\ p \notin unmonitored'[v]
    <3>1. CASE v = w /\ p = q
      <4>1. Held(v, p)' = Held(v, p)
        BY <2>1, <2>2, <3>1 DEF Held
      <4>2. monitor'[v][p] = monitors[v] /\ p \notin unmonitored'[v]
        BY <2>1, <2>2, <3>1
      <4> QED
        BY <2>1, <2>2, <3>1, <4>1, <4>2 DEF Pending
    <3>2. CASE v # w \/ p # q
      <4>1. /\ monitor'[v][p] = monitor[v][p]
            /\ thread'[v][p] = thread[v][p]
            /\ p \in unmonitored'[v] <=> p \in unmonitored[v]
        BY <2>1, <2>2, <3>2
      <4> QED
        BY <3>2, <4>1 DEF Pending, Held
    <3> QED
      BY <3>1, <3>2
  <2>4. \A v \in Workers : Peers(v) \subseteq Nodes /\ Peers(v) \subseteq Workers
    BY DEF Peers, Nodes
  <2>5. EndsOK'
    <3>1. \A v \in Workers : \A p \in Peers(v) :
            /\ Ended(p)' = Ended(p)
            /\ Handled(v, p)' = Handled(v, p)
            /\ Held(v, p)' = Held(v, p)
      BY <2>1, <2>3, <2>4 DEF Handled, Ended
    <3> QED
      BY <2>1, <3>1 DEF EndsOK
  <2>6. MonitorsOK'
    <3>1. ASSUME NEW v \in Workers, NEW p \in Peers(v)
          PROVE  /\ monitor'[v][p] \in {None, monitors'[v]}
                 /\ p \in unmonitored'[v] => monitor'[v][p] = None
      BY <2>1, <2>3, <2>4 DEF MonitorsOK
    <3> QED
      BY <3>1 DEF MonitorsOK
  <2>7. CountersOK'
    <3>1. \A v \in Workers : Open(v)' = Open(v)
      BY <2>3, <2>4 DEF Open
    <3> QED
      BY <2>1, <3>1 DEF CountersOK
  <2>8. SocketsOK'
    <3>1. \A v \in Workers : thread'[v][Master] = "reading"
      <4>1. \A v \in Workers : Held(v, Master)' = Held(v, Master)
        BY <2>3, NodeTypes
      <4> QED
        BY <4>1 DEF SocketsOK, Held
    <3> QED
      BY <2>1, <3>1 DEF SocketsOK, AllIdle, InitDone
  <2> QED
    BY <2>5, <2>6, <2>7, <2>8
<1> QED
  BY <1>1, <1>2 DEF Receiver

\* A server reads the first message of its socket.
LEMMA BarrierPopped ==
  ASSUME BarrierInv, NEW w \in Workers, NEW q \in Servers(w),
         socket[w][q] # <<>>, socket' = Popped(w, q)
  PROVE  /\ \A v \in Workers, p \in Nodes :
              v # w \/ p # q => socket'[v][p] = socket[v][p]
         /\ \A v \in Workers, p \in Nodes : NrEnds(socket[v][p]) \in Nat
         /\ NrEnds(socket'[w][q]) \in Nat
         /\ NrEnds(socket[w][q]) =
               NrEnds(socket'[w][q]) + (IF IsEnd(Head(socket[w][q])) THEN 1 ELSE 0)
         /\ q \in Peers(w) => Head(socket[w][q]) \in FromPeer
         /\ q = Master => Head(socket[w][q]) \in FromMaster
         /\ \A v \in Workers :
              /\ \A p \in Peers(v) : socket'[v][p] \in Seq(FromPeer)
              /\ socket'[v][Master] \in Seq(FromMaster)
         /\ (AllIdle \/ InitDone) /\ UNCHANGED pc => AllIdle' \/ InitDone'
<1> USE DEF BarrierInv
<1>1. q \in Nodes
  BY NodeTypes
<1>2. socket \in [Workers -> [Nodes -> Seq(Messages)]]
  BY DEF TypeInv, PregelTypeOK, Indexed
<1>3. socket'[w][q] = Tail(socket[w][q])
  BY <1>1, <1>2 DEF Popped
<1>4. \A v \in Workers, p \in Nodes : v # w \/ p # q => socket'[v][p] = socket[v][p]
  BY <1>1, <1>2 DEF Popped
<1>5. \A v \in Workers, p \in Nodes : NrEnds(socket[v][p]) \in Nat
  BY <1>2, EndsType
<1>6. /\ socket[w][q] \in Seq(Messages)
      /\ Tail(socket[w][q]) \in Seq(Messages)
  BY <1>1, <1>2, HeadTailProperties
<1>7. /\ NrEnds(socket'[w][q]) \in Nat
      /\ NrEnds(socket[w][q]) =
            NrEnds(socket'[w][q]) + (IF IsEnd(Head(socket[w][q])) THEN 1 ELSE 0)
  BY <1>3, <1>6, EndsType, EndsTail
<1>8. ASSUME q \in Peers(w)
      PROVE  Head(socket[w][q]) \in FromPeer /\ socket'[w][q] \in Seq(FromPeer)
  <2>1. socket[w][q] \in Seq(FromPeer)
    BY <1>8 DEF SocketsOK
  <2> QED
    BY <1>3, <2>1, HeadTailProperties
<1>9. ASSUME q = Master
      PROVE  Head(socket[w][q]) \in FromMaster /\ socket'[w][q] \in Seq(FromMaster)
  <2>1. socket[w][q] \in Seq(FromMaster)
    BY <1>9 DEF SocketsOK
  <2> QED
    BY <1>3, <2>1, HeadTailProperties
<1>10. ASSUME NEW v \in Workers
       PROVE  /\ \A p \in Peers(v) : socket'[v][p] \in Seq(FromPeer)
              /\ socket'[v][Master] \in Seq(FromMaster)
  <2>1. ASSUME NEW p \in Peers(v) PROVE socket'[v][p] \in Seq(FromPeer)
    <3>1. p \in Nodes
      BY DEF Peers, Nodes
    <3> QED
      BY <1>4, <1>8, <3>1 DEF SocketsOK
  <2>2. socket'[v][Master] \in Seq(FromMaster)
    BY <1>4, <1>9, NodeTypes DEF SocketsOK
  <2> QED
    BY <2>1, <2>2
<1>11. ASSUME AllIdle \/ InitDone, UNCHANGED pc
       PROVE  AllIdle' \/ InitDone'
  <2>1. CASE AllIdle
    BY <1>11, <2>1 DEF AllIdle
  <2>2. CASE InitDone
    <3>1. q # Master
      BY <2>2 DEF InitDone
    <3> QED
      BY <1>4, <2>2, <3>1, NodeTypes DEF InitDone
  <2> QED
    BY <1>11, <2>1, <2>2
<1> QED
  BY <1>4, <1>5, <1>7, <1>8, <1>9, <1>10, <1>11

LEMMA BarrierRead ==
  ASSUME BarrierInv, NEW w \in Workers, NEW q \in Servers(w),
         ReadData(w, q) \/ ReadMark(w, q)
  PROVE  EndsOK' /\ MonitorsOK' /\ CountersOK' /\ SocketsOK'
<1>1. /\ thread[w][q] = "reading"
      /\ socket[w][q] # <<>>
      /\ socket' = Popped(w, q)
      /\ UNCHANGED <<pc, unmonitored, received, monitors, counter, monitor>>
  BY DEF ReadData, ReadMark, Readable, queryVars, receiverVars, monitorVars
<1>2. CASE ReadData(w, q)
  <2>1. UNCHANGED thread /\ ~IsEnd(Head(socket[w][q]))
    BY <1>2 DEF ReadData, Readable, IsEnd
  <2>2. /\ \A v \in Workers, p \in Nodes : NrEnds(socket'[v][p]) = NrEnds(socket[v][p])
        /\ \A v \in Workers :
              /\ \A p \in Peers(v) : socket'[v][p] \in Seq(FromPeer)
              /\ socket'[v][Master] \in Seq(FromMaster)
        /\ (AllIdle \/ InitDone) /\ UNCHANGED pc => AllIdle' \/ InitDone'
    BY <1>1, <2>1, BarrierPopped
  <2>3. EndsOK'
    <3>1. \A v \in Workers : \A p \in Peers(v) :
            /\ Ended(p)' = Ended(p)
            /\ Handled(v, p)' = Handled(v, p)
            /\ Held(v, p)' = Held(v, p)
            /\ NrEnds(socket'[v][p]) = NrEnds(socket[v][p])
      BY <1>1, <2>1, <2>2 DEF Handled, Held, Ended, Pending, Peers, Nodes
    <3> QED
      BY <3>1 DEF BarrierInv, EndsOK
  <2>4. MonitorsOK' /\ CountersOK'
    BY ZenonT(30), <1>1 DEF BarrierInv, MonitorsOK, CountersOK, Open, Pending
  <2>5. SocketsOK'
    BY <1>1, <2>1, <2>2 DEF BarrierInv, SocketsOK
  <2> QED
    BY <2>3, <2>4, <2>5
<1>3. CASE ReadMark(w, q)
  <2>1. thread' = [thread EXCEPT ![w][q] = "ended"] /\ IsEnd(Head(socket[w][q]))
    BY <1>3 DEF ReadMark, Readable, IsEnd
  <2>2. q \in Peers(w) /\ q \in Nodes
    <3>1. q # Master
      BY <1>1, <2>1, BarrierPopped DEF FromMaster, IsEnd
    <3> QED
      BY <3>1 DEF Servers, Peers, Nodes
  <2>3. thread \in [Workers -> [Nodes -> {"reading", "ended", "tested", "asleep"}]]
    BY DEF BarrierInv, TypeInv, PregelTypeOK, Indexed
  <2>4. \A v \in Workers, p \in Nodes : v # w \/ p # q => thread'[v][p] = thread[v][p]
    BY <2>1, <2>2, <2>3
  <2>5. thread'[w][q] = "ended"
    BY <2>1, <2>2, <2>3
  <2>6. /\ \A v \in Workers, p \in Nodes :
              v # w \/ p # q => socket'[v][p] = socket[v][p]
        /\ NrEnds(socket'[w][q]) \in Nat
        /\ NrEnds(socket[w][q]) = NrEnds(socket'[w][q]) + 1
    BY <1>1, <2>1, BarrierPopped
  <2>7. EndsOK'
    <3>1. ASSUME NEW v \in Workers, NEW p \in Peers(v)
          PROVE  (Handled(v, p) + Held(v, p) + NrEnds(socket[v][p]) = Ended(p))'
      <4>1. /\ Ended(p)' = Ended(p)
            /\ Handled(v, p)' = Handled(v, p)
        BY <1>1 DEF Handled, Ended, Pending
      <4>2. Handled(v, p) + Held(v, p) + NrEnds(socket[v][p]) = Ended(p)
        BY DEF BarrierInv, EndsOK
      <4>3. CASE v = w /\ p = q
        <5>1. Held(v, p) = 0 /\ Held(v, p)' = 1
          BY <1>1, <2>5, <4>3 DEF Held
        <5>2. Handled(v, p) \in Int
          BY DEF Handled, BarrierInv, TypeInv, PregelTypeOK
        <5> QED
          BY <2>6, <4>1, <4>2, <4>3, <5>1, <5>2
      <4>4. CASE v # w \/ p # q
        <5>1. p \in Nodes
          BY DEF Peers, Nodes
        <5>2. Held(v, p)' = Held(v, p) /\ socket'[v][p] = socket[v][p]
          BY <2>4, <2>6, <4>4, <5>1 DEF Held
        <5> QED
          BY <4>1, <4>2, <5>2
      <4> QED
        BY <4>3, <4>4
    <3> QED
      BY <3>1 DEF EndsOK
  <2>8. MonitorsOK' /\ CountersOK'
    BY <1>1 DEF BarrierInv, MonitorsOK, CountersOK, Open, Pending
  <2>9. SocketsOK'
    <3>1. \A v \in Workers : thread'[v][Master] = "reading"
      BY <2>2, <2>4, NodeTypes, PeersOf DEF BarrierInv, SocketsOK
    <3> QED
      BY <1>1, <3>1, BarrierPopped DEF BarrierInv, SocketsOK
  <2> QED
    BY <2>7, <2>8, <2>9
<1> QED
  BY <1>2, <1>3

LEMMA BarrierWait ==
  ASSUME BarrierInv, NEW w \in Workers, NEW q \in Servers(w),
         AwaitMonitor(w, q)
  PROVE  EndsOK' /\ MonitorsOK' /\ CountersOK' /\ SocketsOK'
<1>1. PICK t \in {"tested", "asleep"} : thread' = [thread EXCEPT ![w][q] = t]
  BY DEF AwaitMonitor
<1>2. /\ thread[w][q] # "reading"
      /\ UNCHANGED <<pc, unmonitored, received, monitors, counter, monitor, socket>>
  BY DEF AwaitMonitor, queryVars, receiverVars, monitorVars
<1>3. thread \in [Workers -> [Nodes -> {"reading", "ended", "tested", "asleep"}]]
  BY DEF BarrierInv, TypeInv, PregelTypeOK, Indexed
<1>4. \A v \in Workers, p \in Nodes : Held(v, p)' = Held(v, p)
  BY <1>1, <1>2, <1>3, NodeTypes DEF Held
<1>5. EndsOK'
  <2>1. \A v \in Workers : \A p \in Peers(v) :
          /\ Ended(p)' = Ended(p)
          /\ Handled(v, p)' = Handled(v, p)
          /\ Held(v, p)' = Held(v, p)
    BY <1>2, <1>4 DEF Handled, Ended, Pending, Peers, Nodes
  <2> QED
    BY <1>2, <2>1 DEF BarrierInv, EndsOK
<1>6. MonitorsOK' /\ CountersOK'
  BY <1>2 DEF BarrierInv, MonitorsOK, CountersOK, Open, Pending
<1>7. SocketsOK'
  <2>1. \A v \in Workers : thread'[v][Master] = "reading"
    BY <1>4, NodeTypes DEF Held, BarrierInv, SocketsOK
  <2> QED
    BY <1>2, <2>1 DEF BarrierInv, SocketsOK, AllIdle, InitDone
<1> QED
  BY <1>5, <1>6, <1>7

LEMMA BarrierHandleMark ==
  ASSUME BarrierInv, NEW w \in Workers, NEW q \in Servers(w), HandleMark(w, q)
  PROVE  EndsOK' /\ MonitorsOK' /\ CountersOK' /\ SocketsOK'
<1> USE DEF BarrierInv
<1>1. /\ thread[w][q] = "ended" /\ monitor[w][q] # None
      /\ thread' = [thread EXCEPT ![w][q] = "reading"]
      /\ monitor' = [monitor EXCEPT ![w][q] = None]
      /\ Counted(w, monitor[w][q], mark[w][q] = "EMPTY")
      /\ UNCHANGED <<pc, unmonitored, monitors, socket>>
  BY DEF HandleMark, receiverVars
<1>2. q \in Peers(w) /\ q \in Nodes /\ q # Master
  <2>1. q # Master
    BY <1>1 DEF SocketsOK
  <2> QED
    BY <2>1 DEF Servers, Peers, Nodes
<1>3. /\ thread \in [Workers -> [Nodes -> {"reading", "ended", "tested", "asleep"}]]
      /\ monitor \in [Workers -> [Nodes -> Nat \cup {None}]]
      /\ monitors \in [Workers -> Nat]
      /\ received \in [Workers -> BOOLEAN]
      /\ counter \in [Workers -> Int]
  BY DEF TypeInv, PregelTypeOK, Indexed
<1>4. monitor[w][q] = monitors[w] /\ q \notin unmonitored[w]
  BY <1>1, <1>2 DEF MonitorsOK
<1>5. /\ \A v \in Workers, p \in Nodes : v # w \/ p # q =>
            thread'[v][p] = thread[v][p] /\ monitor'[v][p] = monitor[v][p]
      /\ thread'[w][q] = "reading" /\ monitor'[w][q] = None
  BY <1>1, <1>2, <1>3
<1>6. /\ counter' = [counter EXCEPT ![w] = @ - 1]
      /\ received' = [received EXCEPT ![w] = @ \/ counter[w] = 1]
  BY <1>4, <1>1 DEF Counted, Last
<1>7. EndsOK'
  <2>1. ASSUME NEW v \in Workers, NEW p \in Peers(v)
        PROVE  (Handled(v, p) + Held(v, p) + NrEnds(socket[v][p]) = Ended(p))'
    <3>1. p \in Nodes /\ Ended(p)' = Ended(p)
      BY <1>1 DEF Ended, Peers, Nodes
    <3>2. Handled(v, p) + Held(v, p) + NrEnds(socket[v][p]) = Ended(p)
      BY DEF EndsOK
    <3>3. CASE v = w /\ p = q
      <4>1. Held(v, p) = 1 /\ Held(v, p)' = 0
        BY <1>1, <1>5, <3>3 DEF Held
      <4>2. Handled(v, p) = monitors[w] - 1 /\ Handled(v, p)' = monitors[w]
        BY <1>1, <1>4, <1>5, <3>3 DEF Handled, Pending
      <4> QED
        BY <1>1, <1>3, <3>1, <3>2, <4>1, <4>2
    <3>4. CASE v # w \/ p # q
      <4>1. Held(v, p)' = Held(v, p) /\ Handled(v, p)' = Handled(v, p)
        BY <1>1, <1>5, <3>1, <3>4 DEF Held, Handled, Pending
      <4> QED
        BY <1>1, <3>1, <3>2, <4>1
    <3> QED
      BY <3>3, <3>4
  <2> QED
    BY <2>1 DEF EndsOK
<1>8. MonitorsOK'
  <2>1. ASSUME NEW v \in Workers, NEW p \in Peers(v)
        PROVE  /\ monitor'[v][p] \in {None, monitors'[v]}
               /\ p \in unmonitored'[v] => monitor'[v][p] = None
    <3>1. p \in Nodes
      BY DEF Peers, Nodes
    <3> QED
      BY <1>1, <1>5, <3>1 DEF MonitorsOK
  <2> QED
    BY <2>1 DEF MonitorsOK
<1>9. CountersOK'
  <2>1. ASSUME NEW v \in Workers, v # w
        PROVE  Open(v)' = Open(v)
    BY <1>1, <1>5, <2>1 DEF Open, Pending, Peers, Nodes
  <2>2. q \in Open(w) /\ Open(w)' = Open(w) \ {q}
    <3>1. q \in Open(w)
      BY <1>1, <1>2 DEF Open, Pending
    <3>2. ~Pending(w, q)'
      BY <1>1, <1>4, <1>5 DEF Pending
    <3>3. \A p \in Peers(w) \ {q} : Pending(w, p)' = Pending(w, p)
      BY <1>1, <1>5 DEF Pending, Peers, Nodes
    <3> QED
      BY <3>1, <3>2, <3>3 DEF Open
  <2>3. Cardinality(Open(w)') = Cardinality(Open(w)) - 1
    BY ZenonT(30), <2>2, PeersOf, FS_RemoveElement
  <2>4. counter[w] = 1 /\ pc[w] \in {"compute", "join"} => Open(w)' = {}
    <3>1. ASSUME counter[w] = 1, pc[w] \in {"compute", "join"}
          PROVE  Open(w)' = {}
      <4>1. Cardinality(Open(w)) = 1
        BY <3>1 DEF CountersOK
      <4>2. IsFiniteSet(Open(w)') /\ Cardinality(Open(w)') = 0
        BY <2>2, <2>3, <4>1, PeersOf, FS_Subset
      <4> QED
        BY <4>2, FS_EmptySet
    <3> QED
      BY <3>1
  <2>5. pc[w] \in {"compute", "join"} /\ ~received[w]
    BY <2>2 DEF CountersOK, TypeInv, PregelTypeOK
  <2>6. /\ pc'[w] \in {"idle", "begin"} \/ received'[w] => Open(w)' = {}
        /\ counter'[w] = Cardinality(Open(w)')
    BY <1>1, <1>3, <1>6, <2>3, <2>4, <2>5, PeersOf DEF CountersOK
  <2>7. \A v \in Workers : v # w =>
          /\ pc'[v] = pc[v] /\ received'[v] = received[v] /\ counter'[v] = counter[v]
    BY <1>1, <1>3, <1>6
  <2>8. ASSUME NEW v \in Workers
        PROVE  /\ pc'[v] \in {"idle", "begin"} \/ received'[v] => Open(v)' = {}
               /\ pc'[v] \in {"compute", "join"} => counter'[v] = Cardinality(Open(v)')
    BY <2>1, <2>6, <2>7 DEF CountersOK
  <2> QED
    BY <2>8 DEF CountersOK
<1>10. SocketsOK'
  <2>1. \A v \in Workers : thread'[v][Master] = "reading"
    BY <1>2, <1>5, NodeTypes DEF SocketsOK
  <2> QED
    BY <1>1, <2>1 DEF SocketsOK, AllIdle, InitDone
<1> QED
  BY <1>7, <1>8, <1>9, <1>10

LEMMA BarrierHandleInitDone ==
  ASSUME BarrierInv, NEW w \in Workers, NEW q \in Servers(w), HandleInitDone(w, q)
  PROVE  EndsOK' /\ MonitorsOK' /\ CountersOK' /\ SocketsOK'
<1> USE DEF BarrierInv
<1>1. /\ socket[w][q] # <<>>
      /\ Head(socket[w][q]).type = "INIT_DONE"
      /\ socket' = Popped(w, q)
      /\ monitor' = [monitor EXCEPT ![w][q] = None]
      /\ Counted(w, monitor[w][q], FALSE)
      /\ UNCHANGED <<pc, unmonitored, monitors, thread>>
  BY DEF HandleInitDone, Readable, receiverVars
<1>2. q = Master
  <2>1. q \notin Peers(w)
    BY <1>1, BarrierPopped DEF FromPeer
  <2> QED
    BY <2>1 DEF Servers, Peers
<1>3. \A v \in Workers : pc[v] = "idle" /\ pc'[v] = "idle"
  BY <1>1, <1>2 DEF SocketsOK, AllIdle, InitDone
<1>4. /\ monitor \in [Workers -> [Nodes -> Nat \cup {None}]]
      /\ received \in [Workers -> BOOLEAN]
  BY DEF TypeInv, PregelTypeOK, Indexed
<1>5. \A v \in Workers : \A p \in Peers(v) : monitor'[v][p] = monitor[v][p]
  BY <1>1, <1>2, <1>4, PeersOf DEF Peers, Nodes
<1>6. \A v \in Workers : \A p \in Peers(v) : Pending(v, p)' = Pending(v, p)
  BY <1>1, <1>5 DEF Pending
<1>7. \A v \in Workers : Open(v)' = Open(v)
  BY <1>6 DEF Open
<1>8. \A v \in Workers : \A p \in Peers(v) :
        socket'[v][p] = socket[v][p]
  BY <1>1, <1>2, BarrierPopped, PeersOf DEF Peers, Nodes
<1>9. EndsOK'
  <2>1. \A v \in Workers : \A p \in Peers(v) :
          /\ Ended(p)' = Ended(p)
          /\ Handled(v, p)' = Handled(v, p)
          /\ Held(v, p)' = Held(v, p)
    BY <1>1, <1>6 DEF Handled, Held, Ended
  <2> QED
    BY <1>8, <2>1 DEF EndsOK
<1>10. MonitorsOK'
  BY <1>1, <1>5 DEF MonitorsOK
<1>11. CountersOK'
  BY <1>3, <1>7 DEF CountersOK
<1>12. SocketsOK'
  BY <1>1, BarrierPopped DEF SocketsOK
<1> QED
  BY <1>9, <1>10, <1>11, <1>12

LEMMA BarrierStep ==
  "late init" \notin Irregular /\ BarrierInv /\ [Next]_vars => BarrierInv'
<1> SUFFICES ASSUME "late init" \notin Irregular, BarrierInv, [Next]_vars
             PROVE  EndsOK' /\ MonitorsOK' /\ CountersOK' /\ SocketsOK'
  BY TypeStep DEF BarrierInv
<1>1. CASE Commands
  BY <1>1, BarrierCommands
<1>2. ASSUME NEW w \in Workers, Query(w)
      PROVE  EndsOK' /\ MonitorsOK' /\ CountersOK' /\ SocketsOK'
  <2>1. CASE BeginSuperstep(w) \/ BeginInit(w)
    BY <2>1, BarrierBegin
  <2>2. ASSUME NEW D \in Destinations, Compute(w, D) \/ Distribute(w, D)
        PROVE  EndsOK' /\ MonitorsOK' /\ CountersOK' /\ SocketsOK'
    BY <2>2, BarrierCompute
  <2>3. CASE Join(w)
    BY <2>3, BarrierJoin
  <2> QED
    BY <1>2, <2>1, <2>2, <2>3 DEF Query
<1>3. ASSUME NEW w \in Workers, Receiver(w)
      PROVE  EndsOK' /\ MonitorsOK' /\ CountersOK' /\ SocketsOK'
  BY <1>3, BarrierReceiver
<1>4. ASSUME NEW w \in Workers, NEW p \in Servers(w), Server(w, p)
      PROVE  EndsOK' /\ MonitorsOK' /\ CountersOK' /\ SocketsOK'
  BY <1>4, BarrierRead, BarrierWait, BarrierHandleMark, BarrierHandleInitDone
  DEF Server
<1>5. CASE UNCHANGED vars
  BY <1>5, BarrierUnchanged
  DEF vars, queryVars, receiverVars, monitorVars, serverVars, barrierVars, BarrierInv
<1> QED
  BY <1>1, <1>2, <1>3, <1>4, <1>5 DEF Next

(* No worker takes a round for finished before the others have sent all of *)
(* it, for any number of workers, unless a computation starts before the   *)
(* end of the messages that the master has supplied has been read.         *)
THEOREM BarrierKept ==
  ASSUME "late init" \notin Irregular
  PROVE  Spec => []Barrier
<1>1. Init => BarrierInv
  BY BarrierInit
<1>2. BarrierInv /\ [Next]_vars => BarrierInv'
  BY BarrierStep
<1>3. BarrierInv => Barrier
  BY BarrierHolds
<1> QED
  BY <1>1, <1>2, <1>3, PTL DEF Spec

-----------------------------------------------------------------------------
(* The end of a computation.                                               *)

\* The end that p sends, or has sent, after its current superstep.
Says(p) == IF busy[p] THEN "FINISH" ELSE "EMPTY"

\* A socket ends with an end, and the end that p has sent last is that of its
\* current superstep.
LastsOK ==
  \A w \in Workers : \A p \in Peers(w) :
    LET s == socket[w][p] IN
    /\ s # <<>> => IsEnd(s[Len(s)])
    /\ pc[p] # "compute" =>
         /\ s # <<>> => s[Len(s)] = Mark(Says(p))
         /\ s = <<>> /\ thread[w][p] # "reading" => mark[w][p] = Says(p)

\* What w still has to read begins with a FINISH of p.
FirstEnd(s, type) ==
  \E i \in DOMAIN s : s[i].type = type /\ \A j \in 1 .. i - 1 : ~IsEnd(s[j])
FinishNext(w, p) ==
  IF thread[w][p] # "reading" THEN mark[w][p] = "FINISH"
                              ELSE FirstEnd(socket[w][p], "FINISH")

\* Somebody has messages in the superstep of w, as w knows or will know.
Loud(w) == busy[w] \/ ~silent[w] \/ \E p \in Open(w) : FinishNext(w, p)

Starting == query = "startPregelWorker"
InRound(w) == pc[w] \in {"compute", "join"}
Goes(w) == Starting /\ pc[w] = "begin" /\ round[w] > 0
NobodyAhead(w) == \A p \in Workers : monitors[p] <= monitors[w]

\* As long as nobody has begun the next superstep, what a worker has counted
\* is what the others had in theirs.
CountsOK ==
  \A w \in Workers :
    /\ InRound(w) \/ Goes(w) =>
         /\ NobodyAhead(w) =>
              (silent[w] <=> \A p \in Peers(w) \ Open(w) : ~busy[p])
         /\ allEmpty[w] <=> ~busy[w] /\ (received[w] => silent[w])
    /\ Goes(w) => received[w]

\* Who goes on, or is left behind, has a reason to go on.
LoudOK ==
  \A w \in Workers :
    /\ Goes(w) => Loud(w)
    /\ Starting /\ pc[w] = "join" /\ ~NobodyAhead(w) => Loud(w)

\* Supersteps, monitors and rounds of the workers count the same.
Counts(w) == round[w] + (IF InRound(w) THEN 1 ELSE 0)
RanksOK ==
  \A v, w \in Workers :
    IF Starting
      THEN /\ superstep[v] - monitors[v] = superstep[w] - monitors[w]
           /\ pc[v] # "idle" /\ pc[w] # "idle" =>
                monitors[v] - Counts(v) = monitors[w] - Counts(w)
      ELSE /\ superstep[v] = superstep[w]
           /\ monitors[v] + (IF pc[v] = "begin" THEN 1 ELSE 0) =
                monitors[w] + (IF pc[w] = "begin" THEN 1 ELSE 0)

\* When one worker has ended the others do.
LeaveOK ==
  \A v, w \in Workers : pc[v] = "idle" =>
    /\ monitors[v] = monitors[w]
    /\ pc[w] \in {"idle", "join"}
    /\ Starting /\ pc[w] = "join" =>
         round[w] + 1 >= rounds \/ \A u \in Workers : ~busy[u]

EndInv == BarrierInv /\ LastsOK /\ CountsOK /\ LoudOK /\ RanksOK /\ LeaveOK

\* The types that the following proofs use.
LEMMA EndTypes ==
  ASSUME TypeInv
  PROVE  /\ pc \in [Workers -> {"idle", "begin", "compute", "join"}]
         /\ query \in {"startPregelWorker", "initPregelMessagesWorker"}
         /\ rounds \in Nat
         /\ superstep \in [Workers -> Nat] /\ round \in [Workers -> Nat]
         /\ busy \in [Workers -> BOOLEAN] /\ allEmpty \in [Workers -> BOOLEAN]
         /\ received \in [Workers -> BOOLEAN] /\ silent \in [Workers -> BOOLEAN]
         /\ monitors \in [Workers -> Nat]
         /\ thread \in [Workers -> [Nodes -> {"reading", "ended", "tested", "asleep"}]]
         /\ mark \in [Workers -> [Nodes -> {"EMPTY", "FINISH"}]]
         /\ monitor \in [Workers -> [Nodes -> Nat \cup {None}]]
         /\ unmonitored \in [Workers -> SUBSET Nodes]
         /\ socket \in [Workers -> [Nodes -> Seq(Messages)]]
  BY DEF TypeInv, PregelTypeOK, Indexed

LEMMA EndInit == Init => EndInv
<1> SUFFICES ASSUME Init PROVE EndInv
  OBVIOUS
<1>1. LastsOK
  BY NodeTypes DEF Init, LastsOK, Everywhere, Peers, Nodes
<1>2. CountsOK /\ LoudOK
  BY DEF Init, CountsOK, LoudOK, InRound, Goes
<1>3. RanksOK
  BY DEF Init, RanksOK
<1>4. LeaveOK
  BY DEF Init, LeaveOK
<1> QED
  BY <1>1, <1>2, <1>3, <1>4, BarrierInit DEF EndInv

\* Steps of receivers and servers leave the queries alone.
queriesOnly == <<pc, query, rounds, superstep, round, busy, monitors>>

LEMMA RanksKept ==
  ASSUME RanksOK, LeaveOK, UNCHANGED queriesOnly
  PROVE  RanksOK' /\ LeaveOK'
<1> USE DEF queriesOnly
<1>1. RanksOK'
  BY DEF RanksOK, Starting, Counts, InRound
<1>2. LeaveOK'
  BY DEF LeaveOK, Starting
<1> QED
  BY <1>1, <1>2

LEMMA CountsKept ==
  ASSUME CountsOK, LoudOK, UNCHANGED queriesOnly,
         UNCHANGED <<silent, allEmpty, received>>,
         \A v \in Workers : Open(v)' = Open(v),
         \A v \in Workers : \A p \in Open(v) : FinishNext(v, p) => FinishNext(v, p)'
  PROVE  CountsOK' /\ LoudOK'
<1> USE DEF queriesOnly
<1>1. \A v \in Workers : /\ InRound(v)' = InRound(v) /\ Goes(v)' = Goes(v)
                         /\ NobodyAhead(v)' = NobodyAhead(v)
  BY DEF InRound, Goes, NobodyAhead, Starting
<1>2. CountsOK'
  BY <1>1 DEF CountsOK
<1>3. \A v \in Workers : Loud(v) => Loud(v)'
  BY DEF Loud
<1>4. LoudOK'
  BY <1>1, <1>3 DEF LoudOK, Starting
<1> QED
  BY <1>2, <1>4

LEMMA EndCommands ==
  ASSUME EndInv, Commands
  PROVE  LastsOK' /\ CountsOK' /\ LoudOK' /\ RanksOK' /\ LeaveOK'
<1> USE DEF EndInv, BarrierInv
<1>1. AllIdle
  BY DEF Commands, InitPregelMessages, StartPregel, InitOnWorkers, ClearMessages, MayStart
<1>2. \A w \in Workers : pc[w] = "idle"
  BY <1>1 DEF AllIdle
<1>3. /\ UNCHANGED <<busy, silent, received, allEmpty, superstep, monitors, thread, mark>>
      /\ \A w \in Workers : \A p \in Peers(w) : socket'[w][p] = socket[w][p]
  <2>1. UNCHANGED <<busy, silent, received, allEmpty, superstep, monitors, thread, mark>>
    BY DEF Commands, InitPregelMessages, StartPregel, InitOnWorkers, ClearMessages,
           queryVars, receiverVars, monitorVars, serverVars
  <2>2. CASE \E D \in Destinations : InitPregelMessages(D)
    BY <2>1, <2>2, EndTypes DEF InitPregelMessages, Peers, Nodes
  <2>3. CASE UNCHANGED socket
    BY <2>1, <2>3
  <2> QED
    BY <2>1, <2>2, <2>3 DEF Commands, StartPregel, InitOnWorkers, ClearMessages
<1>4. \A v, w \in Workers : monitors[v] = monitors[w] /\ superstep[v] = superstep[w]
  <2>1. \A v, w \in Workers : monitors[v] = monitors[w]
    BY <1>2 DEF LeaveOK
  <2> QED
    BY <1>2, <2>1, EndTypes DEF RanksOK
<1>5. CASE UNCHANGED <<pc, query, rounds, round>>
  <2>1. LastsOK'
    BY <1>3, <1>5 DEF LastsOK, Says, Peers
  <2>2. CountsOK' /\ LoudOK'
    BY <1>2, <1>5 DEF CountsOK, LoudOK, InRound, Goes
  <2>3. RanksOK' /\ LeaveOK'
    BY <1>3, <1>5, RanksKept DEF queriesOnly
  <2> QED
    BY <2>1, <2>2, <2>3
<1>6. CASE /\ pc' = [w \in Workers |-> "begin"]
           /\ query' = "startPregelWorker" => round' = [w \in Workers |-> 0]
  <2>1. \A w \in Workers : pc'[w] = "begin"
    BY <1>6
  <2>2. LastsOK'
    BY <1>2, <1>3, <2>1 DEF LastsOK, Says, Peers
  <2>3. CountsOK' /\ LoudOK'
    BY <1>6, <2>1 DEF CountsOK, LoudOK, InRound, Goes, Starting
  <2>4. RanksOK'
    BY <1>3, <1>4, <1>6, <2>1 DEF RanksOK, Counts, InRound, Starting
  <2>5. LeaveOK'
    BY <2>1 DEF LeaveOK
  <2> QED
    BY <2>2, <2>3, <2>4, <2>5
<1> QED
  BY <1>5, <1>6
  DEF Commands, InitPregelMessages, StartPregel, InitOnWorkers, ClearMessages, queryVars

\* Reading.  What is left of a socket ends as before, and a FINISH that comes
\* next still does.
LEMMA LastOfTail ==
  ASSUME NEW s \in Seq(Messages), s # <<>>, Tail(s) # <<>>
  PROVE  Tail(s)[Len(Tail(s))] = s[Len(s)]
<1>1. Len(s) \in Nat \ {0}
  BY LenProperties, EmptySeq
<1>2. Tail(s) \in Seq(Messages) /\ Len(Tail(s)) = Len(s) - 1
      /\ \A i \in 1 .. Len(Tail(s)) : Tail(s)[i] = s[i + 1]
  BY HeadTailProperties
<1>3. Len(Tail(s)) \in Nat \ {0}
  BY <1>2, LenProperties, EmptySeq
<1>4. Len(s) - 1 + 1 = Len(s) /\ Len(s) - 1 \in 1 .. Len(Tail(s))
  BY <1>1, <1>2, <1>3
<1> QED
  BY <1>2, <1>4

LEMMA OneLeft ==
  ASSUME NEW s \in Seq(Messages), s # <<>>, Tail(s) = <<>>
  PROVE  s[Len(s)] = Head(s)
<1>1. Len(s) = 1
  <2> PICK k, l \in Nat : k = Len(s) /\ l = Len(Tail(s)) /\ l = k - 1
    BY HeadTailProperties, LenProperties
  <2>1. l = 0
    BY EmptySeq
  <2> QED
    BY <2>1
<1>2. s[Len(s)] = s[1]
  BY <1>1
<1>3. Head(s) = s[1]
  BY HeadTailProperties
<1> QED
  BY <1>2, <1>3

LEMMA FirstEndTail ==
  ASSUME NEW s \in Seq(Messages), s # <<>>, ~IsEnd(Head(s)), FirstEnd(s, "FINISH")
  PROVE  FirstEnd(Tail(s), "FINISH")
<1>1. PICK i \in DOMAIN s : s[i].type = "FINISH" /\ \A j \in 1 .. i - 1 : ~IsEnd(s[j])
  BY DEF FirstEnd
<1>2. DOMAIN s = 1 .. Len(s) /\ Len(s) \in Nat /\ Head(s) = s[1]
  BY LenProperties, HeadTailProperties
<1>3. i # 1
  BY <1>1, <1>2 DEF IsEnd
<1>4. /\ Tail(s) \in Seq(Messages) /\ Len(Tail(s)) = Len(s) - 1
      /\ \A k \in 1 .. Len(Tail(s)) : Tail(s)[k] = s[k + 1]
  BY HeadTailProperties
<1>5. i - 1 \in 1 .. Len(Tail(s)) /\ DOMAIN Tail(s) = 1 .. Len(Tail(s)) /\ (i - 1) + 1 = i
  BY <1>2, <1>3, <1>4, LenProperties
<1>6. Tail(s)[i - 1].type = "FINISH"
  BY <1>1, <1>4, <1>5
<1>7. ASSUME NEW j \in 1 .. (i - 1) - 1
      PROVE  ~IsEnd(Tail(s)[j])
  <2>1. j \in 1 .. Len(Tail(s)) /\ j + 1 \in 1 .. i - 1
    BY <1>2, <1>5
  <2> QED
    BY <1>1, <1>4, <2>1
<1> QED
  BY <1>5, <1>6, <1>7 DEF FirstEnd

LEMMA FirstEndHead ==
  ASSUME NEW s \in Seq(Messages), s # <<>>, IsEnd(Head(s)), FirstEnd(s, "FINISH")
  PROVE  Head(s).type = "FINISH"
<1>1. PICK i \in DOMAIN s : s[i].type = "FINISH" /\ \A j \in 1 .. i - 1 : ~IsEnd(s[j])
  BY DEF FirstEnd
<1>2. DOMAIN s = 1 .. Len(s) /\ Len(s) \in Nat /\ Head(s) = s[1]
  BY LenProperties, HeadTailProperties
<1>3. i = 1
  BY <1>1, <1>2
<1> QED
  BY <1>1, <1>2, <1>3

LEMMA FirstEndAppend ==
  ASSUME NEW s \in Seq(Messages), NEW m \in Messages, FirstEnd(s, "FINISH")
  PROVE  FirstEnd(Append(s, m), "FINISH")
<1>1. PICK i \in DOMAIN s : s[i].type = "FINISH" /\ \A j \in 1 .. i - 1 : ~IsEnd(s[j])
  BY DEF FirstEnd
<1>2. DOMAIN s = 1 .. Len(s) /\ Len(s) \in Nat
  BY LenProperties
<1>3. /\ Append(s, m) \in Seq(Messages) /\ Len(Append(s, m)) = Len(s) + 1
      /\ \A k \in 1 .. Len(s) : Append(s, m)[k] = s[k]
  BY AppendProperties
<1>4. i \in DOMAIN Append(s, m) /\ \A j \in 1 .. i - 1 : j \in 1 .. Len(s)
  BY <1>2, <1>3, LenProperties
<1> QED
  BY <1>1, <1>2, <1>3, <1>4 DEF FirstEnd

LEMMA EndReceiver ==
  ASSUME EndInv, NEW w \in Workers, Receiver(w)
  PROVE  LastsOK' /\ CountsOK' /\ LoudOK' /\ RanksOK' /\ LeaveOK'
<1> USE DEF EndInv, BarrierInv
<1>1. /\ UNCHANGED queriesOnly
      /\ UNCHANGED <<silent, allEmpty, received, mark, socket>>
  BY DEF Receiver, StartReading, SetMonitor, queryVars, queriesOnly, monitorVars
<1>2. \A v \in Workers : \A p \in Peers(v) :
        /\ Pending(v, p)' = Pending(v, p)
        /\ thread[v][p] = "reading" <=> thread'[v][p] = "reading"
  <2>1. CASE StartReading(w)
    <3>1. UNCHANGED <<unmonitored, monitor, thread>>
      BY <2>1 DEF StartReading
    <3> QED
      BY <3>1 DEF Pending
  <2>2. ASSUME NEW q \in Nodes, SetMonitor(w, q), NEW v \in Workers, NEW p \in Peers(v)
        PROVE  /\ Pending(v, p)' = Pending(v, p)
               /\ thread[v][p] = "reading" <=> thread'[v][p] = "reading"
    <3>1. /\ q \in unmonitored[w]
          /\ monitor' = [monitor EXCEPT ![w][q] = monitors[w]]
          /\ thread' = [thread EXCEPT ![w][q] = IF @ = "asleep" THEN "ended" ELSE @]
          /\ unmonitored' = [unmonitored EXCEPT ![w] = @ \ {q}]
      BY <2>2 DEF SetMonitor
    <3>2. p \in Nodes
      BY DEF Peers, Nodes
    <3>3. CASE v = w /\ p = q
      <4>1. monitors[w] \in Nat /\ monitor'[v][p] = monitors[w]
        BY <3>1, <3>2, <3>3, EndTypes
      <4>2. thread[v][p] = "reading" <=> thread'[v][p] = "reading"
        BY <3>1, <3>2, <3>3, EndTypes
      <4> QED
        BY <3>1, <3>3, <4>1, <4>2 DEF Pending
    <3>4. CASE v # w \/ p # q
      <4>1. /\ monitor'[v][p] = monitor[v][p]
            /\ thread'[v][p] = thread[v][p]
            /\ p \in unmonitored'[v] <=> p \in unmonitored[v]
        BY <3>1, <3>2, <3>4, EndTypes
      <4> QED
        BY <4>1 DEF Pending
    <3> QED
      BY <3>3, <3>4
  <2> QED
    BY <2>1, <2>2 DEF Receiver
<1>3. \A v \in Workers : Open(v)' = Open(v)
  BY <1>2 DEF Open
<1>4. LastsOK'
  BY <1>1, <1>2 DEF LastsOK, Says, queriesOnly
<1>5. \A v \in Workers : \A p \in Open(v) : FinishNext(v, p)' = FinishNext(v, p)
  BY <1>1, <1>2 DEF FinishNext, Open
<1>6. CountsOK' /\ LoudOK'
  BY <1>1, <1>3, <1>5, CountsKept
<1> QED
  BY <1>1, <1>4, <1>6, RanksKept

LEMMA EndRead ==
  ASSUME EndInv, NEW w \in Workers, NEW q \in Servers(w),
         ReadData(w, q) \/ ReadMark(w, q)
  PROVE  LastsOK' /\ CountsOK' /\ LoudOK' /\ RanksOK' /\ LeaveOK'
<1> USE DEF EndInv, BarrierInv
<1> PICK s : s = socket[w][q]
  OBVIOUS
<1>1. /\ UNCHANGED queriesOnly /\ UNCHANGED <<silent, allEmpty, received>>
      /\ \A v \in Workers : Open(v)' = Open(v)
      /\ thread[w][q] = "reading" /\ s # <<>> /\ socket' = Popped(w, q)
  BY DEF ReadData, ReadMark, Readable, queryVars, queriesOnly, receiverVars, monitorVars,
         Open, Pending
<1>2. q \in Nodes /\ \A v \in Workers : Peers(v) \subseteq Nodes
  BY DEF Servers, Peers, Nodes
<1>3. s \in Seq(Messages) /\ socket'[w][q] = Tail(s)
      /\ \A v \in Workers, p \in Nodes : v # w \/ p # q => socket'[v][p] = socket[v][p]
  BY <1>1, <1>2, EndTypes DEF Popped
<1>4. Tail(s) # <<>> => Tail(s)[Len(Tail(s))] = s[Len(s)]
  BY <1>1, <1>3, LastOfTail
<1>5. Tail(s) = <<>> => s[Len(s)] = Head(s)
  BY <1>1, <1>3, OneLeft
<1>6. q \in Peers(w) => /\ IsEnd(s[Len(s)])
                        /\ pc[q] # "compute" => s[Len(s)] = Mark(Says(q))
  BY <1>1 DEF LastsOK
<1>7. \A p \in Workers : pc'[p] = pc[p] /\ Says(p)' = Says(p)
  BY <1>1 DEF queriesOnly, Says
<1>8. CASE ReadData(w, q)
  <2>1. UNCHANGED <<thread, mark>> /\ ~IsEnd(Head(s))
    BY <1>8 DEF ReadData, Readable, IsEnd
  <2>2. q \in Peers(w) => Tail(s) # <<>>
    BY <1>5, <1>6, <2>1
  <2>3. LastsOK'
    <3>1. ASSUME NEW v \in Workers, NEW p \in Peers(v), v # w \/ p # q
          PROVE  socket'[v][p] = socket[v][p]
      BY <1>2, <1>3, <3>1
    <3>2. q \in Peers(w) => /\ socket'[w][q] # <<>>
                            /\ socket'[w][q][Len(socket'[w][q])] = s[Len(s)]
      BY <1>3, <1>4, <2>2
    <3>3. ASSUME NEW v \in Workers, NEW p \in Peers(v)
          PROVE  /\ socket'[v][p] # <<>> => IsEnd(socket'[v][p][Len(socket'[v][p])])
                 /\ pc'[p] # "compute" =>
                      /\ socket'[v][p] # <<>> =>
                           socket'[v][p][Len(socket'[v][p])] = Mark(Says(p)')
                      /\ socket'[v][p] = <<>> /\ thread'[v][p] # "reading" =>
                           mark'[v][p] = Says(p)'
      <4>1. p \in Workers
        BY DEF Peers
      <4>2. CASE v = w /\ p = q
        BY <1>6, <1>7, <2>1, <3>2, <4>1, <4>2
      <4>3. CASE v # w \/ p # q
        <5>1. socket'[v][p] = socket[v][p]
          BY <3>1, <4>3
        <5> QED
          BY <1>7, <2>1, <4>1, <5>1 DEF LastsOK
      <4> QED
        BY <4>2, <4>3
    <3> QED
      BY <3>3 DEF LastsOK, Mark
  <2>4. ASSUME NEW v \in Workers, NEW p \in Open(v), FinishNext(v, p)
        PROVE  FinishNext(v, p)'
    <3>1. p \in Nodes
      BY <1>2 DEF Open
    <3>2. CASE v = w /\ p = q
      <4>1. FirstEnd(s, "FINISH")
        BY <1>1, <2>4, <3>2 DEF FinishNext
      <4>2. FirstEnd(Tail(s), "FINISH")
        BY <1>1, <1>3, <2>1, <4>1, FirstEndTail
      <4> QED
        BY <1>1, <1>3, <2>1, <3>2, <4>2 DEF FinishNext
    <3>3. CASE v # w \/ p # q
      <4>1. socket'[v][p] = socket[v][p]
        BY <1>3, <3>1, <3>3
      <4> QED
        BY <2>1, <2>4, <4>1 DEF FinishNext
    <3> QED
      BY <3>2, <3>3
  <2> QED
    BY <1>1, <2>3, <2>4, CountsKept, RanksKept
<1>9. CASE ReadMark(w, q)
  <2> PICK t \in {"EMPTY", "FINISH"} :
             Head(s).type = t /\ mark' = [mark EXCEPT ![w][q] = t]
    BY <1>9 DEF ReadMark, Readable
  <2>1. thread' = [thread EXCEPT ![w][q] = "ended"] /\ IsEnd(Head(s))
    BY <1>9 DEF ReadMark, IsEnd
  <2>2. /\ thread'[w][q] = "ended" /\ mark'[w][q] = t
        /\ \A v \in Workers, p \in Nodes :
             v # w \/ p # q => thread'[v][p] = thread[v][p] /\ mark'[v][p] = mark[v][p]
    BY <1>2, <2>1, EndTypes
  <2>3. q \in Peers(w) /\ pc[q] # "compute" /\ Tail(s) = <<>> => t = Says(q)
    BY <1>5, <1>6 DEF Mark
  <2>4. LastsOK'
    <3>1. ASSUME NEW v \in Workers, NEW p \in Peers(v)
          PROVE  /\ socket'[v][p] # <<>> => IsEnd(socket'[v][p][Len(socket'[v][p])])
                 /\ pc'[p] # "compute" =>
                      /\ socket'[v][p] # <<>> =>
                           socket'[v][p][Len(socket'[v][p])] = Mark(Says(p)')
                      /\ socket'[v][p] = <<>> /\ thread'[v][p] # "reading" =>
                           mark'[v][p] = Says(p)'
      <4>1. p \in Workers /\ p \in Nodes
        BY DEF Peers, Nodes
      <4>2. CASE v = w /\ p = q
        BY ZenonT(30), <1>3, <1>4, <1>6, <1>7, <2>2, <2>3, <4>1, <4>2
      <4>3. CASE v # w \/ p # q
        <5>1. /\ socket'[v][p] = socket[v][p] /\ thread'[v][p] = thread[v][p]
              /\ mark'[v][p] = mark[v][p]
          BY <1>3, <2>2, <4>1, <4>3
        <5> QED
          BY <1>7, <4>1, <5>1 DEF LastsOK
      <4> QED
        BY <4>2, <4>3
    <3> QED
      BY <3>1 DEF LastsOK, Mark
  <2>5. ASSUME NEW v \in Workers, NEW p \in Open(v), FinishNext(v, p)
        PROVE  FinishNext(v, p)'
    <3>1. p \in Nodes
      BY <1>2 DEF Open
    <3>2. CASE v = w /\ p = q
      <4>1. FirstEnd(s, "FINISH")
        BY <1>1, <2>5, <3>2 DEF FinishNext
      <4>2. t = "FINISH"
        BY <1>1, <1>3, <2>1, <4>1, FirstEndHead
      <4> QED
        BY <2>2, <3>2, <4>2 DEF FinishNext
    <3>3. CASE v # w \/ p # q
      <4>1. /\ socket'[v][p] = socket[v][p] /\ thread'[v][p] = thread[v][p]
            /\ mark'[v][p] = mark[v][p]
        BY <1>3, <2>2, <3>1, <3>3
      <4> QED
        BY <2>5, <4>1 DEF FinishNext
    <3> QED
      BY <3>2, <3>3
  <2> QED
    BY <1>1, <2>4, <2>5, CountsKept, RanksKept
<1> QED
  BY <1>8, <1>9

LEMMA EndWait ==
  ASSUME EndInv, NEW w \in Workers, NEW q \in Servers(w), AwaitMonitor(w, q)
  PROVE  LastsOK' /\ CountsOK' /\ LoudOK' /\ RanksOK' /\ LeaveOK'
<1> USE DEF EndInv, BarrierInv
<1>1. PICK t \in {"tested", "asleep"} : thread' = [thread EXCEPT ![w][q] = t]
  BY DEF AwaitMonitor
<1>2. /\ thread[w][q] # "reading"
      /\ UNCHANGED queriesOnly
      /\ UNCHANGED <<silent, allEmpty, received, mark, socket, unmonitored, monitor>>
  BY DEF AwaitMonitor, queryVars, receiverVars, monitorVars, queriesOnly
<1>3. \A v \in Workers, p \in Nodes : thread[v][p] = "reading" <=> thread'[v][p] = "reading"
  BY <1>1, <1>2, EndTypes, NodeTypes
<1>4. \A v \in Workers : Peers(v) \subseteq Nodes
  BY NodeTypes
<1>5. LastsOK'
  BY <1>2, <1>3, <1>4 DEF LastsOK, Says, queriesOnly
<1>6. \A v \in Workers : Open(v)' = Open(v)
  BY <1>2 DEF Open, Pending
<1>7. \A v \in Workers : \A p \in Open(v) : FinishNext(v, p)' = FinishNext(v, p)
  BY <1>2, <1>3, <1>4 DEF FinishNext, Open
<1> QED
  BY <1>2, <1>5, <1>6, <1>7, CountsKept, RanksKept

\* The monitor of w counts an end.
LEMMA EndHandleMark ==
  ASSUME EndInv, NEW w \in Workers, NEW q \in Servers(w), HandleMark(w, q)
  PROVE  LastsOK' /\ CountsOK' /\ LoudOK' /\ RanksOK' /\ LeaveOK'
<1> USE DEF EndInv, BarrierInv
<1>1. /\ thread[w][q] = "ended" /\ monitor[w][q] # None
      /\ thread' = [thread EXCEPT ![w][q] = "reading"]
      /\ monitor' = [monitor EXCEPT ![w][q] = None]
      /\ Counted(w, monitor[w][q], mark[w][q] = "EMPTY")
      /\ UNCHANGED queriesOnly /\ UNCHANGED <<unmonitored, mark, socket>>
  BY DEF HandleMark, receiverVars, queriesOnly
<1>2. q \in Peers(w) /\ q \in Nodes /\ q \in Workers
  <2>1. q # Master
    BY <1>1 DEF SocketsOK
  <2> QED
    BY <2>1 DEF Servers, Peers, Nodes
<1>3. monitor[w][q] = monitors[w] /\ q \notin unmonitored[w]
  BY <1>1, <1>2 DEF MonitorsOK
<1>4. /\ \A v \in Workers, p \in Nodes : v # w \/ p # q =>
            thread'[v][p] = thread[v][p] /\ monitor'[v][p] = monitor[v][p]
      /\ thread'[w][q] = "reading" /\ monitor'[w][q] = None
  BY <1>1, <1>2, EndTypes
<1>5. /\ silent'[w] = (silent[w] /\ mark[w][q] = "EMPTY")
      /\ received'[w] = (received[w] \/ counter[w] = 1)
      /\ allEmpty'[w] = IF counter[w] = 1 THEN allEmpty[w] /\ silent'[w] ELSE allEmpty[w]
      /\ \A v \in Workers \ {w} : /\ silent'[v] = silent[v] /\ received'[v] = received[v]
                                  /\ allEmpty'[v] = allEmpty[v]
  BY <1>1, <1>3, EndTypes DEF Counted, Last
<1>6. q \in Open(w) /\ Open(w)' = Open(w) \ {q}
      /\ \A v \in Workers \ {w} : Open(v)' = Open(v)
  <2>1. q \in Open(w) /\ ~Pending(w, q)'
    BY <1>1, <1>2, <1>3, <1>4 DEF Open, Pending
  <2>2. \A v \in Workers : \A p \in Peers(v) :
          v # w \/ p # q => Pending(v, p)' = Pending(v, p)
    BY <1>1, <1>4 DEF Pending, Peers, Nodes
  <2> QED
    BY <1>2, <2>1, <2>2 DEF Open
<1>7. InRound(w) /\ ~received[w]
  BY <1>6, EndTypes DEF CountersOK, InRound
<1>8. \A v \in Workers : /\ InRound(v)' = InRound(v) /\ Goes(v)' = Goes(v)
                         /\ NobodyAhead(v)' = NobodyAhead(v) /\ busy'[v] = busy[v]
                         /\ pc'[v] = pc[v]
  BY <1>1 DEF queriesOnly, InRound, Goes, NobodyAhead, Starting
<1>9. \A v \in Workers : \A p \in Open(v) :
        v # w \/ p # q => FinishNext(v, p)' = FinishNext(v, p)
  BY <1>1, <1>4, PeersOf DEF FinishNext, Open, Peers, Nodes
<1>10. FinishNext(w, q) <=> mark[w][q] = "FINISH"
  BY <1>1 DEF FinishNext
<1>11. mark[w][q] \in {"EMPTY", "FINISH"}
  BY <1>2, EndTypes
<1>12. LastsOK'
  <2>1. ASSUME NEW v \in Workers, NEW p \in Peers(v)
        PROVE  /\ socket'[v][p] = socket[v][p] /\ mark'[v][p] = mark[v][p]
               /\ Says(p)' = Says(p) /\ pc'[p] = pc[p]
               /\ thread'[v][p] # "reading" => thread[v][p] # "reading"
    <3>1. p \in Workers /\ p \in Nodes
      BY DEF Peers, Nodes
    <3> QED
      BY <1>1, <1>4, <1>8, <3>1 DEF Says
  <2> QED
    BY <2>1 DEF LastsOK, Mark
<1>13. ASSUME NobodyAhead(w)
       PROVE  mark[w][q] = Says(q)
  <2>1. Handled(w, q) = monitors[w] - 1 /\ Held(w, q) = 1
    BY <1>1, <1>6 DEF Handled, Held, Open
  <2>2. Handled(w, q) + Held(w, q) + NrEnds(socket[w][q]) = Ended(q)
    BY <1>2 DEF EndsOK
  <2>3. monitors[q] <= monitors[w] /\ monitors[q] \in Nat /\ monitors[w] \in Nat
    BY <1>2, <1>13, EndTypes DEF NobodyAhead
  <2>4. socket[w][q] \in Seq(Messages) /\ NrEnds(socket[w][q]) \in Nat
    BY <1>2, EndTypes, EndsType
  <2>5. NrEnds(socket[w][q]) = 0 /\ pc[q] # "compute"
    BY <2>1, <2>2, <2>3, <2>4 DEF Ended
  <2>6. ASSUME socket[w][q] # <<>>
        PROVE  FALSE
    <3>1. Len(socket[w][q]) \in DOMAIN socket[w][q]
      BY <2>4, <2>6, LenProperties, EmptySeq
    <3>2. Len(socket[w][q]) \in Ends(socket[w][q])
      BY <1>2, <2>6, <3>1 DEF LastsOK, Ends
    <3> QED
      BY <2>4, <2>5, <3>2, EndsType, FS_EmptySet DEF NrEnds
  <2> QED
    BY <1>1, <1>2, <2>5, <2>6 DEF LastsOK
<1>14. CountsOK'
  <2>1. ASSUME NEW v \in Workers, v # w
        PROVE  /\ InRound(v)' \/ Goes(v)' =>
                    /\ NobodyAhead(v)' =>
                         (silent'[v] <=> \A p \in Peers(v) \ Open(v)' : ~busy'[p])
                    /\ allEmpty'[v] <=> ~busy'[v] /\ (received'[v] => silent'[v])
               /\ Goes(v)' => received'[v]
    <3>1. \A p \in Peers(v) : busy'[p] = busy[p]
      BY <1>8 DEF Peers
    <3> QED
      BY <1>5, <1>6, <1>8, <2>1, <3>1 DEF CountsOK
  <2>2. ASSUME NobodyAhead(w)
        PROVE  silent'[w] <=> \A p \in Peers(w) \ Open(w)' : ~busy'[p]
    <3>1. silent[w] <=> \A p \in Peers(w) \ Open(w) : ~busy[p]
      BY <1>7, <2>2 DEF CountsOK
    <3>2. mark[w][q] = "EMPTY" <=> ~busy[q]
      BY <1>13, <2>2 DEF Says
    <3>3. Peers(w) \ Open(w)' = (Peers(w) \ Open(w)) \cup {q}
      BY <1>2, <1>6
    <3>4. \A p \in Peers(w) : busy'[p] = busy[p]
      BY <1>8 DEF Peers
    <3> QED
      BY <1>2, <1>5, <3>1, <3>2, <3>3, <3>4
  <2>3. allEmpty'[w] <=> ~busy'[w] /\ (received'[w] => silent'[w])
    <3>1. allEmpty[w] <=> ~busy[w]
      BY <1>7 DEF CountsOK
    <3> QED
      BY <1>5, <1>7, <1>8, <3>1
  <2>4. ~Goes(w)'
    BY <1>7, <1>8 DEF InRound, Goes
  <2> QED
    BY <1>8, <2>1, <2>2, <2>3, <2>4 DEF CountsOK
<1>15. ASSUME NEW v \in Workers, Loud(v)
       PROVE  Loud(v)'
  <2>1. CASE v # w
    BY <1>5, <1>6, <1>8, <1>9, <1>15, <2>1 DEF Loud
  <2>2. CASE v = w
    <3>1. CASE busy[w] \/ ~silent[w]
      BY <1>5, <1>8, <2>2, <3>1 DEF Loud
    <3>2. CASE FinishNext(w, q)
      BY <1>5, <1>10, <2>2, <3>2 DEF Loud
    <3>3. ASSUME NEW p \in Open(w) \ {q}, FinishNext(w, p)
          PROVE  Loud(v)'
      BY <1>6, <1>9, <2>2, <3>3 DEF Loud
    <3> QED
      BY <1>15, <2>2, <3>1, <3>2, <3>3 DEF Loud
  <2> QED
    BY <2>1, <2>2
<1>16. LoudOK'
  BY <1>1, <1>8, <1>15 DEF LoudOK, Starting, queriesOnly
<1> QED
  BY <1>1, <1>12, <1>14, <1>16, RanksKept

LEMMA EndHandleInitDone ==
  ASSUME EndInv, NEW w \in Workers, NEW q \in Servers(w), HandleInitDone(w, q)
  PROVE  LastsOK' /\ CountsOK' /\ LoudOK' /\ RanksOK' /\ LeaveOK'
<1> USE DEF EndInv, BarrierInv
<1>1. /\ socket[w][q] # <<>>
      /\ Head(socket[w][q]).type = "INIT_DONE"
      /\ socket' = Popped(w, q)
      /\ UNCHANGED queriesOnly /\ UNCHANGED <<thread, mark>>
  BY DEF HandleInitDone, Readable, queriesOnly
<1>2. q = Master
  <2>1. q \notin Peers(w)
    BY <1>1, BarrierPopped DEF FromPeer
  <2> QED
    BY <2>1 DEF Servers, Peers
<1>3. \A v \in Workers : pc[v] = "idle" /\ pc'[v] = "idle"
  BY <1>1, <1>2 DEF SocketsOK, AllIdle, InitDone, queriesOnly
<1>4. \A v \in Workers : \A p \in Peers(v) : socket'[v][p] = socket[v][p]
  BY <1>1, <1>2, BarrierPopped, PeersOf DEF Peers, Nodes
<1>5. LastsOK'
  BY <1>1, <1>4 DEF LastsOK, Says, queriesOnly
<1>6. CountsOK' /\ LoudOK'
  BY <1>3 DEF CountsOK, LoudOK, InRound, Goes
<1> QED
  BY <1>1, <1>5, <1>6, RanksKept

LEMMA OnlyEnd ==
  ASSUME NEW s \in Seq(Messages), NrEnds(s) = 1, IsEnd(s[Len(s)]),
         s[Len(s)].type = "FINISH", s # <<>>
  PROVE  FirstEnd(s, "FINISH")
<1>1. Len(s) \in Nat \ {0} /\ DOMAIN s = 1 .. Len(s)
  BY LenProperties, EmptySeq
<1>2. \E x : Ends(s) = {x}
  BY EndsType, FS_Singleton DEF NrEnds
<1>3. Len(s) \in Ends(s)
  BY <1>1 DEF Ends
<1>4. ASSUME NEW j \in 1 .. Len(s) - 1
      PROVE  ~IsEnd(s[j])
  <2> PICK l \in Nat : l = Len(s)
    BY <1>1
  <2>1. DOMAIN s = 1 .. l /\ j \in 1 .. l - 1
    BY <1>1
  <2>2. j \in 1 .. l /\ j # l
    BY <2>1
  <2> QED
    BY <1>2, <1>3, <2>1, <2>2 DEF Ends
<1> QED
  BY <1>1, <1>4 DEF FirstEnd

\* A worker sends an end after its messages.
LEMMA SentEnd ==
  ASSUME TypeInv, NEW w \in Workers, NEW D, NEW v \in Workers, v # w, socket' = Sent(w, D)
  PROVE  \E s \in Seq(Messages) :
           /\ socket'[v][w] = Append(s, Mark(Says(w)))
           /\ FirstEnd(socket[v][w], "FINISH") => FirstEnd(s, "FINISH")
<1> PICK m : m = Mark(IF busy[w] THEN "FINISH" ELSE "EMPTY")
  OBVIOUS
<1> PICK d : d = Data(superstep[w])
  OBVIOUS
<1>1. m \in Messages /\ d \in Messages
  <2>1. superstep[w] \in 0 .. MaxSuperstep
    BY DEF TypeInv, PregelTypeOK
  <2> QED
    BY <2>1, MessageTypes
<1>2. socket \in [Workers -> [Nodes -> Seq(Messages)]] /\ w \in Nodes
  BY EndTypes, NodeTypes
<1> PICK s : s = socket[v][w] \o (IF v \in D THEN <<d>> ELSE <<>>)
  OBVIOUS
<1>3. s \in Seq(Messages) /\ (FirstEnd(socket[v][w], "FINISH") => FirstEnd(s, "FINISH"))
  <2>1. socket[v][w] \in Seq(Messages)
    BY <1>2
  <2>2. CASE v \in D
    <3>1. s = Append(socket[v][w], d)
      BY <1>1, <2>1, <2>2, AppendIsConcat
    <3>2. s \in Seq(Messages)
      BY <1>1, <2>1, <3>1, AppendProperties
    <3>3. FirstEnd(socket[v][w], "FINISH") => FirstEnd(Append(socket[v][w], d), "FINISH")
      BY <1>1, <2>1, FirstEndAppend
    <3> QED
      BY <3>1, <3>2, <3>3
  <2>3. CASE v \notin D
    <3>1. s = socket[v][w]
      BY <2>1, <2>3, ConcatEmptySeq
    <3> QED
      BY <2>1, <3>1
  <2> QED
    BY <2>2, <2>3
<1>4. socket'[v][w] = s \o <<m>>
  BY <1>2 DEF Sent
<1>5. socket'[v][w] = Append(s, m)
  BY <1>1, <1>3, <1>4, AppendIsConcat
<1> QED
  BY <1>3, <1>5 DEF Says

LEMMA EndCompute ==
  ASSUME EndInv, NEW w \in Workers, NEW D, Compute(w, D) \/ Distribute(w, D)
  PROVE  LastsOK' /\ CountsOK' /\ LoudOK' /\ RanksOK' /\ LeaveOK'
<1> USE DEF EndInv, BarrierInv
<1>1. /\ socket' = Sent(w, D)
      /\ pc[w] = "compute"
      /\ pc' = [pc EXCEPT ![w] = "join"]
      /\ UNCHANGED <<query, rounds, superstep, round, busy, allEmpty, silent,
                     unmonitored, received, monitors, thread, mark, monitor>>
  BY DEF Compute, Distribute, receiverVars, monitorVars, serverVars
<1>2. pc'[w] = "join" /\ \A v \in Workers : v # w => pc'[v] = pc[v]
  BY <1>1, EndTypes
<1>3. \A v \in Workers, p \in Nodes : p # w \/ v = w => socket'[v][p] = socket[v][p]
  BY <1>1, EndTypes DEF Sent
<1>4. Mark(Says(w)) \in Messages /\ IsEnd(Mark(Says(w)))
  BY MessageTypes DEF Says, IsEnd, Mark
<1>5. ASSUME NEW v \in Workers, v # w
      PROVE  /\ socket'[v][w] # <<>>
             /\ socket'[v][w][Len(socket'[v][w])] = Mark(Says(w))
             /\ FirstEnd(socket[v][w], "FINISH") => FirstEnd(socket'[v][w], "FINISH")
  <2>1. PICK s \in Seq(Messages) :
           /\ socket'[v][w] = Append(s, Mark(Says(w)))
           /\ FirstEnd(socket[v][w], "FINISH") => FirstEnd(s, "FINISH")
    BY <1>1, <1>5, SentEnd
  <2> PICK t : t = Append(s, Mark(Says(w)))
    OBVIOUS
  <2>2. FirstEnd(s, "FINISH") => FirstEnd(t, "FINISH")
    BY <1>4, FirstEndAppend
  <2>3. t # <<>> /\ t[Len(t)] = Mark(Says(w))
    BY <1>4, AppendProperties
  <2> QED
    BY <2>1, <2>2, <2>3
<1>6. LastsOK'
  <2>1. ASSUME NEW v \in Workers, NEW p \in Peers(v)
        PROVE  /\ socket'[v][p] # <<>> => IsEnd(socket'[v][p][Len(socket'[v][p])])
               /\ pc'[p] # "compute" =>
                    /\ socket'[v][p] # <<>> =>
                         socket'[v][p][Len(socket'[v][p])] = Mark(Says(p))
                    /\ socket'[v][p] = <<>> /\ thread'[v][p] # "reading" =>
                         mark'[v][p] = Says(p)
    <3>1. p \in Workers /\ p \in Nodes /\ p # v
      BY DEF Peers, Nodes
    <3>2. CASE p = w
      BY <1>4, <1>5, <3>1, <3>2
    <3>3. CASE p # w
      <4>1. socket'[v][p] = socket[v][p] /\ pc'[p] = pc[p]
        BY <1>2, <1>3, <3>1, <3>3
      <4> QED
        BY <1>1, <4>1 DEF LastsOK
    <3> QED
      BY <3>2, <3>3
  <2>2. \A p \in Workers : Says(p)' = Says(p)
    BY <1>1 DEF Says
  <2> QED
    BY <2>1, <2>2 DEF LastsOK, Mark, Peers
<1>7. \A v \in Workers : /\ InRound(v)' = InRound(v) /\ Goes(v)' = Goes(v)
                         /\ NobodyAhead(v)' = NobodyAhead(v) /\ Open(v)' = Open(v)
                         /\ Counts(v)' = Counts(v)
  <2>1. \A v \in Workers : NobodyAhead(v)' = NobodyAhead(v) /\ Open(v)' = Open(v)
    BY <1>1 DEF NobodyAhead, Open, Pending
  <2>2. \A v \in Workers : InRound(v)' = InRound(v) /\ Goes(v)' = Goes(v)
    BY <1>1, <1>2 DEF InRound, Goes, Starting
  <2> QED
    BY <1>1, <2>1, <2>2 DEF Counts
<1>8. CountsOK'
  BY <1>1, <1>7 DEF CountsOK
<1>9. ASSUME NEW v \in Workers, Loud(v)
      PROVE  Loud(v)'
  <2>1. ASSUME NEW p \in Open(v), FinishNext(v, p)
        PROVE  FinishNext(v, p)'
    <3>1. p \in Nodes /\ p # v
      BY PeersOf DEF Open, Peers, Nodes
    <3>2. CASE p = w
      BY <1>1, <1>5, <2>1, <3>1, <3>2 DEF FinishNext
    <3>3. CASE p # w
      <4>1. socket'[v][p] = socket[v][p]
        BY <1>3, <3>1, <3>3
      <4> QED
        BY <1>1, <2>1, <4>1 DEF FinishNext
    <3> QED
      BY <3>2, <3>3
  <2> QED
    BY <1>1, <1>7, <1>9, <2>1 DEF Loud
<1>10. NobodyAhead(w)
  <2>1. \A v \in Workers \ {w} : ~(monitors[v] > monitors[w])
    BY <1>1, BarrierHolds DEF Barrier
  <2>2. \A v \in Workers : monitors[v] \in Nat
    BY EndTypes
  <2>3. \A v \in Workers : monitors[v] <= monitors[w]
    BY <2>1, <2>2
  <2> QED
    BY <2>3 DEF NobodyAhead
<1>11. LoudOK'
  BY <1>1, <1>2, <1>7, <1>9, <1>10 DEF LoudOK, Starting
<1>12. RanksOK'
  BY <1>1, <1>2, <1>7 DEF RanksOK, Starting
<1>13. LeaveOK'
  BY <1>1, <1>2 DEF LeaveOK, Starting
<1> QED
  BY <1>6, <1>8, <1>11, <1>12, <1>13

\* An end that is sent and not yet counted is in the hand of the server or the
\* last message, and the only end, of the socket.
LEMMA EndOnItsWay ==
  ASSUME EndInv, NEW v \in Workers, NEW u \in Open(v),
         pc[u] # "compute", monitors[u] = monitors[v], busy[u]
  PROVE  FinishNext(v, u)
<1> USE DEF EndInv, BarrierInv
<1>1. u \in Peers(v) /\ u \in Workers /\ u \in Nodes /\ Pending(v, u)
  BY DEF Open, Peers, Nodes
<1> PICK s : s = socket[v][u]
  OBVIOUS
<1>2. s \in Seq(Messages)
  BY <1>1, EndTypes
<1>3. monitors[v] - 1 + Held(v, u) + NrEnds(s) = monitors[v]
  BY <1>1 DEF EndsOK, Handled, Ended
<1>4. NrEnds(s) \in Nat /\ monitors[v] \in Nat
  BY <1>2, EndsType, EndTypes
<1>5. /\ s # <<>> => IsEnd(s[Len(s)]) /\ s[Len(s)] = Mark(Says(u))
      /\ s = <<>> /\ thread[v][u] # "reading" => mark[v][u] = Says(u)
  BY <1>1 DEF LastsOK
<1>6. Says(u) = "FINISH"
  BY DEF Says
<1>7. CASE thread[v][u] = "reading"
  <2>1. NrEnds(s) = 1
    BY <1>3, <1>4, <1>7 DEF Held
  <2>2. s # <<>>
    BY <2>1, NoEnds
  <2>3. s[Len(s)].type = "FINISH"
    BY <1>5, <1>6, <2>2 DEF Mark
  <2>4. FirstEnd(s, "FINISH")
    BY <1>2, <1>5, <2>1, <2>2, <2>3, OnlyEnd
  <2> QED
    BY <1>7, <2>4 DEF FinishNext
<1>8. CASE thread[v][u] # "reading"
  <2>1. NrEnds(s) = 0
    BY <1>3, <1>4, <1>8 DEF Held
  <2>2. ASSUME s # <<>>
        PROVE  FALSE
    <3>1. Len(s) \in DOMAIN s
      BY <1>2, <2>2, LenProperties, EmptySeq
    <3>2. Len(s) \in Ends(s)
      BY <1>5, <2>2, <3>1 DEF Ends
    <3> QED
      BY <1>2, <2>1, <3>2, EndsType, FS_EmptySet DEF NrEnds
  <2> QED
    BY <1>5, <1>6, <1>8, <2>2 DEF FinishNext
<1> QED
  BY <1>7, <1>8

\* Who goes on knows of a worker with messages, as long as nobody is ahead.
LEMMA SomeoneBusy ==
  ASSUME EndInv, NEW w \in Workers, Goes(w), NobodyAhead(w)
  PROVE  /\ received[w]
         /\ \E u \in Workers : busy[u]
<1> USE DEF EndInv, BarrierInv
<1>1. received[w] /\ Loud(w)
  BY DEF CountsOK, LoudOK
<1>2. Open(w) = {}
  BY <1>1 DEF CountersOK
<1>3. busy[w] \/ ~silent[w]
  BY <1>1, <1>2 DEF Loud
<1>4. silent[w] <=> \A p \in Peers(w) : ~busy[p]
  BY <1>2 DEF CountsOK
<1>5. Peers(w) \subseteq Workers
  BY DEF Peers
<1> QED
  BY <1>1, <1>3, <1>4, <1>5

LEMMA EndBegin ==
  ASSUME EndInv, NEW w \in Workers, BeginSuperstep(w) \/ BeginInit(w)
  PROVE  LastsOK' /\ CountsOK' /\ LoudOK' /\ RanksOK' /\ LeaveOK'
<1> USE DEF EndInv, BarrierInv
<1>1. /\ pc[w] = "begin" /\ pc' = [pc EXCEPT ![w] = "compute"]
      /\ NewMonitor(w)
      /\ UNCHANGED <<query, rounds, round, thread, mark, monitor, socket>>
  BY DEF BeginSuperstep, BeginInit, serverVars
<1>2. /\ pc'[w] = "compute" /\ monitors'[w] = monitors[w] + 1
      /\ silent'[w] = TRUE /\ received'[w] = FALSE /\ unmonitored'[w] = Servers(w)
  BY <1>1, EndTypes DEF NewMonitor
<1>3. allEmpty'[w] = ~busy'[w]
  <2>1. CASE BeginSuperstep(w)
    BY <2>1, EndTypes DEF BeginSuperstep
  <2>2. CASE BeginInit(w)
    BY <2>2, EndTypes DEF BeginInit
  <2> QED
    BY <2>1, <2>2
<1>4. \A v \in Workers \ {w} :
        /\ pc'[v] = pc[v] /\ monitors'[v] = monitors[v] /\ silent'[v] = silent[v]
        /\ received'[v] = received[v] /\ unmonitored'[v] = unmonitored[v]
  BY <1>1, EndTypes DEF NewMonitor
<1>5. \A v \in Workers \ {w} : busy'[v] = busy[v] /\ allEmpty'[v] = allEmpty[v]
  <2>1. CASE BeginSuperstep(w)
    BY <2>1, EndTypes DEF BeginSuperstep
  <2>2. CASE BeginInit(w)
    BY <2>2, EndTypes DEF BeginInit
  <2> QED
    BY <2>1, <2>2
<1>6. /\ \A v \in Workers \ {w} : Open(v)' = Open(v)
      /\ Open(w)' = Peers(w)
  BY <1>1, <1>2, <1>4 DEF Open, Pending, Servers
<1>7. \A v \in Workers \ {w} : InRound(v)' = InRound(v) /\ Goes(v)' = Goes(v)
  BY <1>1, <1>4 DEF InRound, Goes, Starting
<1>8. \A v \in Workers : monitors[v] \in Nat
  BY EndTypes
<1>9. LastsOK'
  <2>1. ASSUME NEW v \in Workers, NEW p \in Peers(v)
        PROVE  /\ socket'[v][p] # <<>> => IsEnd(socket'[v][p][Len(socket'[v][p])])
               /\ pc'[p] # "compute" =>
                    /\ socket'[v][p] # <<>> =>
                         socket'[v][p][Len(socket'[v][p])] = Mark(Says(p)')
                    /\ socket'[v][p] = <<>> /\ thread'[v][p] # "reading" =>
                         mark'[v][p] = Says(p)'
    <3>1. p \in Workers
      BY DEF Peers
    <3>2. CASE p = w
      BY <1>1, <1>2, <3>2 DEF LastsOK
    <3>3. CASE p # w
      <4>1. pc'[p] = pc[p] /\ Says(p)' = Says(p)
        BY <1>4, <1>5, <3>1, <3>3 DEF Says
      <4> QED
        BY <1>1, <4>1 DEF LastsOK
    <3> QED
      BY <3>2, <3>3
  <2> QED
    BY <2>1 DEF LastsOK, Mark
<1>10. ASSUME NEW v \in Workers \ {w}, NobodyAhead(v)'
       PROVE  NobodyAhead(v) /\ w \in Open(v)
  <2>1. monitors[w] + 1 <= monitors[v]
    BY <1>2, <1>4, <1>10 DEF NobodyAhead
  <2>2. NobodyAhead(v)
    <3>1. ASSUME NEW p \in Workers
          PROVE  monitors[p] <= monitors[v]
      <4>1. CASE p = w
        BY <1>8, <2>1, <4>1
      <4>2. CASE p # w
        BY <1>4, <1>10, <4>2 DEF NobodyAhead
      <4> QED
        BY <4>1, <4>2
    <3> QED
      BY <3>1 DEF NobodyAhead
  <2>3. w \in Peers(v)
    BY DEF Peers
  <2>4. Handled(v, w) + Held(v, w) + NrEnds(socket[v][w]) = monitors[w]
    BY <1>1, <2>3 DEF EndsOK, Ended
  <2>5. NrEnds(socket[v][w]) \in Nat
    <3>1. socket[v][w] \in Seq(Messages)
      BY EndTypes, NodeTypes
    <3> QED
      BY <3>1, EndsType
  <2>6. Pending(v, w)
    BY <1>8, <2>1, <2>4, <2>5 DEF Handled, Held
  <2> QED
    BY <2>2, <2>3, <2>6 DEF Open
<1>11. CountsOK'
  <2>1. ASSUME NEW v \in Workers, v # w
        PROVE  /\ InRound(v)' \/ Goes(v)' =>
                    /\ NobodyAhead(v)' =>
                         (silent'[v] <=> \A p \in Peers(v) \ Open(v)' : ~busy'[p])
                    /\ allEmpty'[v] <=> ~busy'[v] /\ (received'[v] => silent'[v])
               /\ Goes(v)' => received'[v]
    <3>1. ASSUME InRound(v)' \/ Goes(v)', NobodyAhead(v)'
          PROVE  silent'[v] <=> \A p \in Peers(v) \ Open(v)' : ~busy'[p]
      <4>1. NobodyAhead(v) /\ w \in Open(v)
        BY <1>10, <2>1, <3>1
      <4>2. silent[v] <=> \A p \in Peers(v) \ Open(v) : ~busy[p]
        BY <1>7, <2>1, <3>1, <4>1 DEF CountsOK
      <4>3. \A p \in Peers(v) \ Open(v) : busy'[p] = busy[p]
        BY <1>5, <4>1 DEF Peers
      <4> QED
        BY <1>4, <1>6, <2>1, <4>2, <4>3
    <3> QED
      BY <1>4, <1>5, <1>7, <2>1, <3>1 DEF CountsOK
  <2>2. silent'[w] <=> \A p \in Peers(w) \ Open(w)' : ~busy'[p]
    BY <1>2, <1>6
  <2>3. ~Goes(w)'
    BY <1>2 DEF Goes
  <2> QED
    BY <1>2, <1>3, <2>1, <2>2, <2>3 DEF CountsOK
<1>12. ASSUME NEW v \in Workers \ {w}, Loud(v)
       PROVE  Loud(v)'
  BY <1>1, <1>4, <1>5, <1>6, <1>12 DEF Loud, FinishNext
<1>13. ASSUME NEW v \in Workers \ {w}, Starting, pc[v] = "join", NobodyAhead(v),
              ~NobodyAhead(v)'
       PROVE  Loud(v)
  <2>1. \A p \in Workers : monitors[p] <= monitors[v]
    BY <1>13 DEF NobodyAhead
  <2>2. monitors[w] = monitors[v]
    <3>1. PICK p \in Workers : ~(monitors'[p] <= monitors'[v])
      BY <1>13 DEF NobodyAhead
    <3>2. p = w
      BY <1>4, <2>1, <3>1
    <3> QED
      BY <1>2, <1>4, <1>8, <2>1, <3>1, <3>2
  <2>3. round[w] = round[v] + 1
    <3>1. monitors[v] - Counts(v) = monitors[w] - Counts(w)
      BY <1>1, <1>13 DEF RanksOK
    <3>2. Counts(v) = round[v] + 1 /\ Counts(w) = round[w]
      BY <1>1, <1>13, EndTypes DEF Counts, InRound
    <3>3. round[v] \in Nat /\ round[w] \in Nat
      BY EndTypes
    <3> QED
      BY <1>8, <2>2, <3>1, <3>2, <3>3
  <2>4. Goes(w)
    BY <1>1, <1>13, <2>3, EndTypes DEF Goes
  <2>5. NobodyAhead(w)
    BY <2>1, <2>2 DEF NobodyAhead
  <2>6. PICK u \in Workers : busy[u]
    BY <2>4, <2>5, SomeoneBusy
  <2>7. CASE u = v
    BY <2>6, <2>7 DEF Loud
  <2>8. CASE u \in Peers(v) \ Open(v)
    <3>1. ~silent[v]
      BY <1>13, <2>6, <2>8 DEF CountsOK, InRound
    <3> QED
      BY <3>1 DEF Loud
  <2>9. CASE u \in Open(v)
    <3>1. monitors[u] = monitors[w] /\ pc[u] # "compute"
      <4>1. CASE u = w
        BY <1>1, <4>1
      <4>2. CASE u # w
        <5>1. received[w]
          BY <2>4, <2>5, SomeoneBusy
        <5>2. \/ monitors[u] > monitors[w]
              \/ monitors[u] = monitors[w] /\ pc[u] # "compute"
          BY <4>2, <5>1, BarrierHolds DEF Barrier
        <5>3. monitors[u] <= monitors[w]
          BY <2>5 DEF NobodyAhead
        <5> QED
          BY <1>8, <5>2, <5>3
      <4> QED
        BY <4>1, <4>2
    <3>2. FinishNext(v, u)
      BY <2>2, <2>6, <2>9, <3>1, EndOnItsWay
    <3> QED
      BY <2>9, <3>2 DEF Loud
  <2>10. u = v \/ u \in Peers(v)
    BY DEF Peers
  <2> QED
    BY <2>7, <2>8, <2>9, <2>10
<1>14. LoudOK'
  <2>1. ASSUME NEW v \in Workers
        PROVE  /\ Goes(v)' => Loud(v)'
               /\ Starting' /\ pc'[v] = "join" /\ ~NobodyAhead(v)' => Loud(v)'
    <3>1. CASE v = w
      BY <1>2, <3>1 DEF Goes
    <3>2. CASE v # w
      <4>1. Goes(v)' = Goes(v) /\ Starting' = Starting /\ pc'[v] = pc[v]
        BY <1>1, <1>4, <1>7, <3>2 DEF Starting
      <4>2. Loud(v) => Loud(v)'
        BY <1>12, <3>2
      <4>3. Starting /\ pc[v] = "join" /\ NobodyAhead(v) /\ ~NobodyAhead(v)' => Loud(v)
        BY <1>13, <3>2
      <4> QED
        BY <4>1, <4>2, <4>3 DEF LoudOK
    <3> QED
      BY <3>1, <3>2
  <2> QED
    BY <2>1 DEF LoudOK
<1>15. RanksOK'
  <2>1. /\ Counts(w)' = Counts(w) + 1
        /\ \A v \in Workers \ {w} : Counts(v)' = Counts(v)
    <3>1. Counts(w)' = round[w] + 1 /\ Counts(w) = round[w]
      BY <1>1, <1>2, EndTypes DEF Counts, InRound
    <3>2. \A v \in Workers \ {w} : Counts(v)' = Counts(v)
      BY <1>1, <1>7 DEF Counts
    <3> QED
      BY <3>1, <3>2
  <2>2. \A v \in Workers : round[v] \in Nat /\ superstep[v] \in Nat /\ Counts(v) \in Nat
    BY EndTypes DEF Counts
  <2>3. CASE BeginSuperstep(w)
    <3>1. /\ Starting /\ Starting'
          /\ superstep'[w] = superstep[w] + 1
          /\ \A v \in Workers \ {w} : superstep'[v] = superstep[v]
      BY <2>3, EndTypes DEF BeginSuperstep, Starting
    <3>2. \A v \in Workers : superstep'[v] - monitors'[v] = superstep[v] - monitors[v]
      BY <1>2, <1>4, <1>8, <2>2, <3>1
    <3>3. \A v \in Workers : monitors'[v] - Counts(v)' = monitors[v] - Counts(v)
      BY <1>2, <1>4, <1>8, <2>1, <2>2
    <3>4. \A v \in Workers : pc'[v] # "idle" => pc[v] # "idle"
      BY <1>1, <1>4
    <3>5. ASSUME NEW v \in Workers, NEW u \in Workers
          PROVE  /\ superstep'[v] - monitors'[v] = superstep'[u] - monitors'[u]
                 /\ pc'[v] # "idle" /\ pc'[u] # "idle" =>
                      monitors'[v] - Counts(v)' = monitors'[u] - Counts(u)'
      <4>1. superstep[v] - monitors[v] = superstep[u] - monitors[u]
        BY <3>1 DEF RanksOK
      <4>2. pc[v] # "idle" /\ pc[u] # "idle" =>
              monitors[v] - Counts(v) = monitors[u] - Counts(u)
        BY <3>1 DEF RanksOK
      <4> QED
        BY <3>2, <3>3, <3>4, <4>1, <4>2
    <3> QED
      BY <3>1, <3>5 DEF RanksOK
  <2>4. CASE BeginInit(w)
    <3>1. ~Starting /\ ~Starting' /\ UNCHANGED superstep
      BY <2>4 DEF BeginInit, Starting
    <3>2. \A v \in Workers :
            monitors'[v] + (IF pc'[v] = "begin" THEN 1 ELSE 0) =
              monitors[v] + (IF pc[v] = "begin" THEN 1 ELSE 0)
      BY <1>1, <1>2, <1>4, <1>8
    <3> QED
      BY <3>1, <3>2 DEF RanksOK
  <2> QED
    BY <2>3, <2>4
<1>16. LeaveOK'
  <2>1. \A v \in Workers : pc[v] # "idle"
    BY <1>1 DEF LeaveOK
  <2>2. \A v \in Workers : pc'[v] # "idle"
    BY <1>2, <1>4, <2>1
  <2> QED
    BY <2>2 DEF LeaveOK
<1> QED
  BY <1>9, <1>11, <1>14, <1>15, <1>16

\* A worker that finds everything empty: nobody has anything to do and all are
\* at the end of the same superstep.
LEMMA SilentJoin ==
  ASSUME EndInv, NEW w \in Workers, Starting, pc[w] = "join", received[w], allEmpty[w]
  PROVE  /\ \A u \in Workers : ~busy[u]
         /\ \A u \in Workers : monitors[u] = monitors[w] /\ pc[u] \in {"idle", "join"}
<1> USE DEF EndInv, BarrierInv
<1>1. Open(w) = {}
  BY DEF CountersOK
<1>2. ~busy[w] /\ silent[w]
  BY DEF CountsOK, InRound
<1>3. ~Loud(w)
  BY <1>1, <1>2 DEF Loud
<1>4. NobodyAhead(w)
  BY <1>3 DEF LoudOK
<1>5. \A u \in Workers : ~busy[u]
  <2>1. \A u \in Peers(w) : ~busy[u]
    BY <1>1, <1>2, <1>4 DEF CountsOK, InRound
  <2> QED
    BY <1>2, <2>1 DEF Peers
<1>6. \A u \in Workers : monitors[u] \in Nat /\ round[u] \in Nat
  BY EndTypes
<1>7. \A u \in Workers : monitors[u] = monitors[w] /\ pc[u] # "compute"
  <2>1. ASSUME NEW u \in Workers, u # w
        PROVE  monitors[u] = monitors[w] /\ pc[u] # "compute"
    <3>1. \/ monitors[u] > monitors[w]
          \/ monitors[u] = monitors[w] /\ pc[u] # "compute"
      BY <2>1, BarrierHolds DEF Barrier
    <3>2. monitors[u] <= monitors[w]
      BY <1>4 DEF NobodyAhead
    <3> QED
      BY <1>6, <3>1, <3>2
  <2> QED
    BY <2>1
<1>8. ASSUME NEW u \in Workers, pc[u] = "begin"
      PROVE  FALSE
  <2>1. Counts(u) = Counts(w)
    <3>1. monitors[u] - Counts(u) = monitors[w] - Counts(w)
      BY <1>8 DEF RanksOK
    <3>2. Counts(u) \in Nat /\ Counts(w) \in Nat
      BY <1>6 DEF Counts
    <3>3. monitors[u] = monitors[w]
      BY <1>7
    <3> QED
      BY <1>6, <3>1, <3>2, <3>3
  <2>2. Counts(u) = round[u] /\ Counts(w) = round[w] + 1
    BY <1>6, <1>8 DEF Counts, InRound
  <2>3. Goes(u)
    <3>1. round[u] \in Nat /\ round[w] \in Nat
      BY <1>6
    <3> PICK i, j \in Nat : i = round[u] /\ j = round[w]
      BY <3>1
    <3>2. i = j + 1
      BY <2>1, <2>2
    <3>3. round[u] > 0
      BY <3>2
    <3> QED
      BY <1>8, <3>3 DEF Goes
  <2>4. NobodyAhead(u)
    BY <1>6, <1>7 DEF NobodyAhead
  <2> QED
    BY <1>5, <2>3, <2>4, SomeoneBusy
<1>9. \A u \in Workers : pc[u] \in {"idle", "begin", "compute", "join"}
  BY EndTypes
<1> QED
  BY <1>5, <1>7, <1>8, <1>9

\* A worker that has done its rounds: the others are at the end of their last.
LEMMA LastJoin ==
  ASSUME EndInv, NEW w \in Workers, Starting, pc[w] = "join", received[w],
         round[w] + 1 >= rounds, \A u \in Workers : pc[u] # "idle"
  PROVE  \A u \in Workers :
           monitors[u] = monitors[w] /\ pc[u] = "join" /\ round[u] + 1 >= rounds
<1> USE DEF EndInv, BarrierInv
<1> SUFFICES ASSUME NEW u \in Workers, u # w
             PROVE  monitors[u] = monitors[w] /\ pc[u] = "join" /\ round[u] + 1 >= rounds
  OBVIOUS
<1>1. /\ monitors[u] \in Nat /\ monitors[w] \in Nat /\ rounds \in Nat
      /\ round[u] \in Nat /\ round[w] \in Nat
      /\ pc[u] \in {"begin", "compute", "join"}
  BY EndTypes
<1>2. \/ monitors[u] > monitors[w]
      \/ monitors[u] = monitors[w] /\ pc[u] # "compute"
  BY BarrierHolds DEF Barrier
<1>3. monitors[u] - Counts(u) = monitors[w] - Counts(w)
  BY DEF RanksOK
<1>4. round[u] < rounds
  BY <1>1 DEF TypeInv, RoundsOK, Starting
<1>5. Counts(w) = round[w] + 1
  BY DEF Counts, InRound
<1>6. CASE pc[u] = "begin"
  <2>1. Counts(u) = round[u]
    BY <1>1, <1>6 DEF Counts, InRound
  <2> QED
    BY <1>1, <1>2, <1>3, <1>4, <1>5, <2>1
<1>7. CASE pc[u] # "begin"
  <2>1. Counts(u) = round[u] + 1
    BY <1>1, <1>7 DEF Counts, InRound
  <2>2. monitors[u] = monitors[w] /\ round[u] + 1 >= rounds
    BY <1>1, <1>2, <1>3, <1>4, <1>5, <2>1
  <2> QED
    BY <1>1, <1>2, <1>7, <2>2
<1> QED
  BY <1>6, <1>7

LEMMA EndJoin ==
  ASSUME EndInv, NEW w \in Workers, Join(w)
  PROVE  LastsOK' /\ CountsOK' /\ LoudOK' /\ RanksOK' /\ LeaveOK'
<1> USE DEF EndInv, BarrierInv
<1>1. /\ pc[w] = "join" /\ received[w]
      /\ UNCHANGED <<query, rounds, superstep, busy, allEmpty, silent, unmonitored,
                     received, monitors, thread, mark, monitor, socket>>
  BY DEF Join, ReceiverDone, receiverVars, monitorVars, serverVars
<1>2. /\ pc'[w] \in {"begin", "idle"}
      /\ \A v \in Workers \ {w} : pc'[v] = pc[v] /\ round'[v] = round[v]
      /\ pc'[w] = "begin" => /\ Starting /\ ~allEmpty[w]
                             /\ round[w] + 1 < rounds /\ round'[w] = round[w] + 1
      /\ pc'[w] = "idle" /\ Starting => allEmpty[w] \/ ~(round[w] + 1 < rounds)
  <2>1. CASE Starting
    <3>1. CASE allEmpty[w]
      BY <1>1, <2>1, <3>1, EndTypes DEF Join, Starting
    <3>2. CASE ~allEmpty[w]
      <4>1. /\ round' = [round EXCEPT ![w] = round[w] + 1]
            /\ pc' = [pc EXCEPT ![w] = IF round[w] + 1 < rounds THEN "begin" ELSE "idle"]
        BY <2>1, <3>2 DEF Join, Starting
      <4> QED
        BY <2>1, <3>2, <4>1, EndTypes
    <3> QED
      BY <3>1, <3>2
  <2>2. CASE ~Starting
    <3>1. UNCHANGED round /\ pc' = [pc EXCEPT ![w] = "idle"]
      BY <2>2 DEF Join, Starting
    <3> QED
      BY <2>2, <3>1, EndTypes
  <2> QED
    BY <2>1, <2>2
<1>3. \A v \in Workers \ {w} : InRound(v)' = InRound(v) /\ Goes(v)' = Goes(v)
  BY <1>1, <1>2 DEF InRound, Goes, Starting
<1>4. \A v \in Workers : NobodyAhead(v)' = NobodyAhead(v) /\ Open(v)' = Open(v)
  BY <1>1 DEF NobodyAhead, Open, Pending
<1>5. \A v \in Workers : Loud(v)' = Loud(v)
  BY <1>1, <1>4 DEF Loud, FinishNext
<1>6. ~InRound(w)' /\ InRound(w)
  BY <1>1, <1>2 DEF InRound
<1>7. LastsOK'
  <2>1. \A p \in Workers : /\ Says(p)' = Says(p)
                           /\ pc'[p] # "compute" => pc[p] # "compute"
    BY <1>1, <1>2 DEF Says
  <2> QED
    BY <1>1, <2>1 DEF LastsOK, Mark, Peers
<1>8. CountsOK'
  <2>1. ASSUME NEW v \in Workers
        PROVE  /\ InRound(v)' \/ Goes(v)' => InRound(v) \/ Goes(v)
               /\ Goes(v)' => received[v]
    <3>1. CASE v = w
      BY <1>1, <1>6, <3>1
    <3>2. CASE v # w
      BY <1>3, <3>2 DEF CountsOK
    <3> QED
      BY <3>1, <3>2
  <2> QED
    BY <1>1, <1>4, <2>1 DEF CountsOK
<1>9. LoudOK'
  <2>1. ASSUME Goes(w)'
        PROVE  Loud(w)
    <3>1. ~allEmpty[w]
      BY <1>2, <2>1 DEF Goes
    <3>2. busy[w] \/ ~silent[w]
      BY <1>1, <1>6, <3>1 DEF CountsOK
    <3> QED
      BY <3>2 DEF Loud
  <2>2. Starting' = Starting
    BY <1>1 DEF Starting
  <2>3. pc'[w] # "join"
    BY <1>2
  <2>4. \A v \in Workers \ {w} : pc'[v] = pc[v]
    BY <1>2
  <2> QED
    BY <1>3, <1>4, <1>5, <2>1, <2>2, <2>3, <2>4 DEF LoudOK
<1>10. RanksOK'
  <2>1. Starting' = Starting
    BY <1>1 DEF Starting
  <2>2. CASE Starting
    <3>1. ASSUME NEW v \in Workers, pc'[v] # "idle"
          PROVE  Counts(v)' = Counts(v) /\ pc[v] # "idle"
      <4>1. CASE v = w
        <5>1. Counts(w) = round[w] + 1 /\ Counts(w)' = round'[w] + 0
          BY <1>6 DEF Counts
        <5>2. round'[w] = round[w] + 1 /\ round[w] \in Nat
          BY <1>2, <3>1, <4>1, EndTypes
        <5> QED
          BY <1>1, <4>1, <5>1, <5>2
      <4>2. CASE v # w
        BY <1>2, <1>3, <3>1, <4>2 DEF Counts
      <4> QED
        BY <4>1, <4>2
    <3>2. ASSUME NEW v \in Workers, NEW u \in Workers
          PROVE  /\ superstep'[v] - monitors'[v] = superstep'[u] - monitors'[u]
                 /\ pc'[v] # "idle" /\ pc'[u] # "idle" =>
                      monitors'[v] - Counts(v)' = monitors'[u] - Counts(u)'
      <4>1. superstep[v] - monitors[v] = superstep[u] - monitors[u]
        BY <2>2 DEF RanksOK
      <4>2. pc[v] # "idle" /\ pc[u] # "idle" =>
              monitors[v] - Counts(v) = monitors[u] - Counts(u)
        BY <2>2 DEF RanksOK
      <4> QED
        BY <1>1, <3>1, <4>1, <4>2
    <3> QED
      BY <2>1, <2>2, <3>2 DEF RanksOK
  <2>3. CASE ~Starting
    <3>1. \A v \in Workers : pc'[v] = "begin" <=> pc[v] = "begin"
      BY <1>1, <1>2, <2>3
    <3> QED
      BY <1>1, <2>1, <2>3, <3>1 DEF RanksOK
  <2> QED
    BY <2>2, <2>3
<1>11. LeaveOK'
  <2>1. ASSUME NEW x \in Workers, pc[x] = "idle"
        PROVE  LeaveOK'
    <3>1. \A u \in Workers : monitors[x] = monitors[u] /\ pc[u] \in {"idle", "join"}
      BY <2>1 DEF LeaveOK
    <3>2. pc'[w] = "idle"
      <4> SUFFICES ASSUME pc'[w] = "begin"
                   PROVE  FALSE
        BY <1>2
      <4>1. Starting /\ ~allEmpty[w] /\ round[w] + 1 < rounds
        BY <1>2
      <4>2. round[w] \in Nat /\ rounds \in Nat
        BY EndTypes
      <4>3. \A u \in Workers : ~busy[u]
        BY <1>1, <2>1, <4>1, <4>2 DEF LeaveOK
      <4>4. NobodyAhead(w)
        <5>1. \A u \in Workers : monitors[u] = monitors[w] /\ monitors[u] \in Nat
          BY <3>1, EndTypes
        <5> QED
          BY <5>1 DEF NobodyAhead
      <4>5. silent[w]
        BY <1>6, <4>3, <4>4 DEF CountsOK, Peers
      <4> QED
        BY <1>6, <4>1, <4>3, <4>5 DEF CountsOK
    <3>3. ASSUME NEW v \in Workers, NEW u \in Workers
          PROVE  /\ monitors'[v] = monitors'[u]
                 /\ pc'[u] \in {"idle", "join"}
                 /\ Starting' /\ pc'[u] = "join" =>
                      round'[u] + 1 >= rounds' \/ \A y \in Workers : ~busy'[y]
      <4>1. monitors'[v] = monitors'[u]
        BY <1>1, <3>1
      <4>2. CASE u = w
        BY <3>2, <4>1, <4>2
      <4>3. CASE u # w
        <5>1. pc'[u] = pc[u] /\ round'[u] = round[u]
          BY <1>2, <4>3
        <5>2. Starting /\ pc[u] = "join" =>
                round[u] + 1 >= rounds \/ \A y \in Workers : ~busy[y]
          BY <2>1 DEF LeaveOK
        <5> QED
          BY <1>1, <3>1, <4>1, <5>1, <5>2 DEF Starting
      <4> QED
        BY <4>2, <4>3
    <3> QED
      BY <3>3 DEF LeaveOK
  <2>2. ASSUME \A x \in Workers : pc[x] # "idle", pc'[w] = "begin"
        PROVE  LeaveOK'
    <3>1. \A v \in Workers : pc'[v] # "idle"
      BY <1>2, <2>2
    <3> QED
      BY <3>1 DEF LeaveOK
  <2>3. ASSUME \A x \in Workers : pc[x] # "idle", pc'[w] = "idle"
        PROVE  LeaveOK'
    <3>1. \A u \in Workers :
            /\ monitors[u] = monitors[w]
            /\ pc[u] = "join"
            /\ Starting => round[u] + 1 >= rounds \/ \A y \in Workers : ~busy[y]
      <4>1. CASE Starting /\ allEmpty[w]
        BY <1>1, <2>3, <4>1, SilentJoin
      <4>2. CASE Starting /\ ~allEmpty[w]
        <5>1. round[w] + 1 >= rounds
          BY <1>2, <2>3, <4>2, EndTypes
        <5> QED
          BY <1>1, <2>3, <4>2, <5>1, LastJoin
      <4>3. CASE ~Starting
        <5> SUFFICES ASSUME NEW u \in Workers, u # w
                     PROVE  monitors[u] = monitors[w] /\ pc[u] = "join"
          BY <1>1, <4>3
        <5>1. monitors[u] \in Nat /\ monitors[w] \in Nat
              /\ pc[u] \in {"begin", "compute", "join"}
          BY <2>3, EndTypes
        <5>2. \/ monitors[u] > monitors[w]
              \/ monitors[u] = monitors[w] /\ pc[u] # "compute"
          BY <1>1, BarrierHolds DEF Barrier
        <5>3. monitors[u] + (IF pc[u] = "begin" THEN 1 ELSE 0) = monitors[w] + 0
          BY <1>1, <4>3 DEF RanksOK
        <5> QED
          BY <5>1, <5>2, <5>3
      <4> QED
        BY <4>1, <4>2, <4>3
    <3>2. \A v \in Workers : pc'[v] = "idle" => v = w
      BY <1>2, <2>3
    <3>3. ASSUME NEW u \in Workers
          PROVE  /\ monitors'[w] = monitors'[u]
                 /\ pc'[u] \in {"idle", "join"}
                 /\ Starting' /\ pc'[u] = "join" =>
                      round'[u] + 1 >= rounds' \/ \A y \in Workers : ~busy'[y]
      <4>1. CASE u = w
        BY <2>3, <4>1
      <4>2. CASE u # w
        BY <1>1, <1>2, <3>1, <4>2 DEF Starting
      <4> QED
        BY <4>1, <4>2
    <3> QED
      BY <3>2, <3>3 DEF LeaveOK
  <2> QED
    BY <1>2, <2>1, <2>2, <2>3
<1> QED
  BY <1>7, <1>8, <1>9, <1>10, <1>11

LEMMA EndStep ==
  "late init" \notin Irregular /\ EndInv /\ [Next]_vars => EndInv'
<1> SUFFICES ASSUME "late init" \notin Irregular, EndInv, [Next]_vars
             PROVE  LastsOK' /\ CountsOK' /\ LoudOK' /\ RanksOK' /\ LeaveOK'
  BY BarrierStep DEF EndInv
<1>1. CASE Commands
  BY <1>1, EndCommands
<1>2. ASSUME NEW w \in Workers, Query(w)
      PROVE  LastsOK' /\ CountsOK' /\ LoudOK' /\ RanksOK' /\ LeaveOK'
  <2>1. CASE BeginSuperstep(w) \/ BeginInit(w)
    BY <2>1, EndBegin
  <2>2. ASSUME NEW D \in Destinations, Compute(w, D) \/ Distribute(w, D)
        PROVE  LastsOK' /\ CountsOK' /\ LoudOK' /\ RanksOK' /\ LeaveOK'
    BY <2>2, EndCompute
  <2>3. CASE Join(w)
    BY <2>3, EndJoin
  <2> QED
    BY <1>2, <2>1, <2>2, <2>3 DEF Query
<1>3. ASSUME NEW w \in Workers, Receiver(w)
      PROVE  LastsOK' /\ CountsOK' /\ LoudOK' /\ RanksOK' /\ LeaveOK'
  BY <1>3, EndReceiver
<1>4. ASSUME NEW w \in Workers, NEW p \in Servers(w), Server(w, p)
      PROVE  LastsOK' /\ CountsOK' /\ LoudOK' /\ RanksOK' /\ LeaveOK'
  BY <1>4, EndRead, EndWait, EndHandleMark, EndHandleInitDone DEF Server
<1>5. CASE UNCHANGED vars
  <2>1. /\ UNCHANGED queriesOnly
        /\ UNCHANGED <<silent, allEmpty, received, unmonitored, monitor, thread, mark, socket>>
    BY <1>5
    DEF vars, queryVars, receiverVars, monitorVars, serverVars, queriesOnly
  <2>2. LastsOK'
    BY <2>1 DEF EndInv, LastsOK, Says, queriesOnly
  <2>3. /\ \A v \in Workers : Open(v)' = Open(v)
        /\ \A v \in Workers : \A p \in Open(v) : FinishNext(v, p)' = FinishNext(v, p)
    BY <2>1 DEF Open, Pending, FinishNext
  <2> QED
    BY <2>1, <2>2, <2>3, CountsKept, RanksKept DEF EndInv
<1> QED
  BY <1>1, <1>2, <1>3, <1>4, <1>5 DEF Next

LEMMA EndHolds == EndInv => EndTogether
<1> SUFFICES ASSUME EndInv, NEW v \in Workers, NEW w \in Workers,
                    pc[v] = "idle", pc[w] # "idle"
             PROVE  superstep[v] = superstep[w] /\ pc[w] = "join"
  BY DEF EndTogether
<1>1. monitors[v] = monitors[w] /\ pc[w] = "join"
  BY DEF EndInv, LeaveOK
<1>2. superstep[v] = superstep[w]
  <2>1. /\ superstep[v] \in Nat /\ superstep[w] \in Nat
        /\ monitors[v] \in Nat /\ monitors[w] \in Nat
    BY EndTypes DEF EndInv, BarrierInv
  <2>2. CASE Starting
    <3>1. superstep[v] - monitors[v] = superstep[w] - monitors[w]
      BY <2>2 DEF EndInv, RanksOK
    <3> QED
      BY <1>1, <2>1, <3>1
  <2>3. CASE ~Starting
    BY <2>3 DEF EndInv, RanksOK
  <2> QED
    BY <2>2, <2>3
<1> QED
  BY <1>1, <1>2

(* All workers leave the loop of startPregelWorker after the same superstep, *)
(* for any number of workers, messages and supersteps: when one of them has  *)
(* answered the master the others are about to, whether the limit of the     *)
(* rounds or the silence of everybody ends the loop.  A computation that     *)
(* starts before the end of the messages that the master has supplied has    *)
(* been read is left out.                                                    *)
THEOREM EndTogetherCorrect ==
  ASSUME "late init" \notin Irregular
  PROVE  Spec => []EndTogether
<1>1. Init => EndInv
  BY EndInit
<1>2. EndInv /\ [Next]_vars => EndInv'
  BY EndStep
<1>3. EndInv => EndTogether
  BY EndHolds
<1> QED
  BY <1>1, <1>2, <1>3, PTL DEF Spec

-----------------------------------------------------------------------------
(* The messages.                                                           *)

\* The situations that the theorems about messages exclude: they may be lost
\* or come from nowhere.
AllRead ==
  {"late init", "unread messages", "unasked messages"} \cap Irregular = {}

\* The ends from place i of a socket on, and the superstep of p, by its number
\* of monitors, in which p has sent the message at that place.
After(s, i) == NrEnds(SubSeq(s, i, Len(s)))
Belongs(w, p, i) == Ended(p) + 1 - After(socket[w][p], i)

\* The commands of initPregelMessagesWorker create monitors in one superstep.
Late(w) == IF ~Starting /\ pc[w] = "begin" THEN 1 ELSE 0

\* A message says in which superstep it was sent, and it was sent by a worker
\* that had messages itself.
Fits(w, p, m, n) ==
  m.type = "DATA" =>
    /\ m.round - superstep[w] = n - monitors[w] - Late(w)
    /\ n <= Ended(p)
    /\ n = monitors[p] => busy[p]
DataOK ==
  \A w \in Workers : \A p \in Peers(w) : \A i \in DOMAIN socket[w][p] :
    Fits(w, p, socket[w][p][i], Belongs(w, p, i))

\* The master ends its messages with INIT_DONE.
MastersOK ==
  \A w \in Workers :
    LET s == socket[w][Master] IN
    /\ s # <<>> => s[Len(s)].type = "INIT_DONE"
    /\ \A i \in DOMAIN s : s[i].type = "DATA" => s[i].round = 0
    /\ s = <<>> => \A b \in Parities : queue[w][Master][b] = 0

\* The queues of a worker are collected when its superstep is over; what comes
\* then belongs to the next one.
Collected(w) ==
  \/ InRound(w) /\ received[w]
  \/ pc[w] = "idle"
  \/ Starting /\ pc[w] = "begin"
HasSent(w, p) ==
  \/ monitors[p] > monitors[w]
  \/ monitors[p] = monitors[w] /\ busy[p] /\ pc[w] # "begin"
QueuesOK ==
  \A w \in Workers :
    /\ \A b \in Parities : queue[w][w][b] = 0
    /\ \A p \in Peers(w) :
         /\ queue[w][p][superstep[w] % 2] > 0 => ~Collected(w) /\ HasSent(w, p)
         /\ queue[w][p][(superstep[w] + 1) % 2] > 0 =>
              Starting /\ monitors[p] > monitors[w] /\ busy[p]

\* A worker is busy if it has messages to read.
BusyOK ==
  \A w \in Workers :
    /\ ~Starting /\ InRound(w) => busy[w]
    /\ Starting /\ pc[w] = "compute" => (busy[w] <=> HasMessages(w, superstep[w] - 1))

\* The inbox: what was there to read has been read, and what is new was sent
\* by a worker that had messages itself.
InboxOK ==
  \A w \in Workers :
    /\ ~(Starting /\ pc[w] = "compute") =>
         \A p \in Nodes : inbox[w][(superstep[w] - 1) % 2][p] = 0
    /\ Starting /\ ~AllIdle /\ pc[w] # "begin" =>
         \A p \in Nodes : inbox[w][superstep[w] % 2][p] > 0 =>
           \/ p = w /\ busy[w]
           \/ p \in Peers(w) /\ HasSent(w, p)

MailOK == DataOK /\ MastersOK /\ QueuesOK /\ BusyOK /\ InboxOK
MailInv == EndInv /\ MailOK

LEMMA AfterType ==
  ASSUME NEW s \in Seq(Messages), NEW i \in 1 .. Len(s) + 1
  PROVE  SubSeq(s, i, Len(s)) \in Seq(Messages) /\ After(s, i) \in Nat
<1> PICK n \in Nat : n = Len(s)
  BY LenProperties
<1>1. \A j \in i .. n : s[j] \in Messages
  BY LenProperties, ElementOfSeq
<1>2. SubSeq(s, i, n) \in Seq(Messages)
  BY <1>1, SubSeqProperties
<1> QED
  BY <1>2, EndsType DEF After

LEMMA AfterFirst ==
  ASSUME NEW s \in Seq(Messages)
  PROVE  After(s, 1) = NrEnds(s)
  BY SubSeqFull DEF After

LEMMA AfterTail ==
  ASSUME NEW s \in Seq(Messages), s # <<>>, NEW i \in 1 .. Len(Tail(s))
  PROVE  Tail(s)[i] = s[i + 1] /\ After(Tail(s), i) = After(s, i + 1)
         /\ i + 1 \in DOMAIN s
<1>1. /\ Tail(s) \in Seq(Messages)
      /\ Len(Tail(s)) = Len(s) - 1
      /\ \A j \in 1 .. Len(Tail(s)) : Tail(s)[j] = s[j + 1]
  BY HeadTailProperties
<1> PICK n \in Nat : n = Len(Tail(s))
  BY <1>1, LenProperties
<1>2. Len(s) = n + 1
  <2> PICK k \in Nat : k = Len(s)
    BY LenProperties
  <2> QED
    BY <1>1
<1> PICK t : t = Tail(s)
  OBVIOUS
<1>3. t \in Seq(Messages) /\ Len(t) = n /\ \A j \in 1 .. n : t[j] = s[j + 1]
  BY <1>1
<1>4. i \in 1 .. n
  OBVIOUS
<1>5. SubSeq(t, i, n) \in Seq(Messages) /\ SubSeq(s, i + 1, n + 1) \in Seq(Messages)
  BY <1>2, <1>3, <1>4, AfterType
<1>6. /\ Len(SubSeq(t, i, n)) = n - i + 1
      /\ \A j \in 1 .. n - i + 1 : SubSeq(t, i, n)[j] = t[i + j - 1]
  <2>1. \A j \in i .. n : t[j] \in Messages
    BY <1>3, <1>4, ElementOfSeq
  <2> QED
    BY <1>4, <2>1, SubSeqProperties
<1>7. /\ Len(SubSeq(s, i + 1, n + 1)) = n - i + 1
      /\ \A j \in 1 .. n - i + 1 : SubSeq(s, i + 1, n + 1)[j] = s[i + 1 + j - 1]
  <2>1. \A j \in i + 1 .. n + 1 : s[j] \in Messages
    <3>1. \A j \in 1 .. n + 1 : s[j] \in Messages
      BY <1>2, ElementOfSeq
    <3> QED
      BY <1>4, <3>1
  <2> PICK k, l \in Int : k = i + 1 /\ l = n + 1
    OBVIOUS
  <2>2. k <= l /\ l - k + 1 = n - i + 1
    BY <1>4
  <2>3. /\ Len(SubSeq(s, k, l)) = l - k + 1
        /\ \A j \in 1 .. l - k + 1 : SubSeq(s, k, l)[j] = s[k + j - 1]
    BY <2>1, <2>2, SubSeqProperties
  <2> QED
    BY <2>2, <2>3
<1>8. \A j \in 1 .. n - i + 1 : t[i + j - 1] = s[i + 1 + j - 1]
  <2> SUFFICES ASSUME NEW j \in 1 .. n - i + 1
               PROVE  t[i + j - 1] = s[i + 1 + j - 1]
    OBVIOUS
  <2>1. i + j - 1 \in 1 .. n /\ i + 1 + j - 1 = (i + j - 1) + 1
    BY <1>4
  <2> QED
    BY <1>3, <2>1
<1>9. SubSeq(t, i, n) = SubSeq(s, i + 1, n + 1)
  <2> PICK u, v : u = SubSeq(t, i, n) /\ v = SubSeq(s, i + 1, n + 1)
    OBVIOUS
  <2>1. /\ u \in Seq(Messages) /\ v \in Seq(Messages) /\ Len(u) = Len(v)
        /\ \A j \in 1 .. Len(u) : u[j] = v[j]
    BY <1>5, <1>6, <1>7, <1>8
  <2> QED
    BY <2>1, SeqEqual
<1>10. i + 1 \in DOMAIN s
  BY <1>2, <1>4, LenProperties
<1> QED
  BY <1>2, <1>3, <1>4, <1>9, <1>10 DEF After

LEMMA AfterAppend ==
  ASSUME NEW s \in Seq(Messages), NEW m \in Messages, NEW i \in 1 .. Len(s) + 1
  PROVE  /\ After(Append(s, m), i) = After(s, i) + (IF IsEnd(m) THEN 1 ELSE 0)
         /\ i <= Len(s) => Append(s, m)[i] = s[i]
<1> PICK n \in Nat : n = Len(s)
  BY LenProperties
<1> PICK t : t = Append(s, m)
  OBVIOUS
<1>1. /\ t \in Seq(Messages) /\ Len(t) = n + 1 /\ t[n + 1] = m
      /\ \A j \in 1 .. n : t[j] = s[j]
  BY AppendProperties
<1>2. i \in 1 .. n + 1
  OBVIOUS
<1> PICK u, v : u = SubSeq(t, i, n + 1) /\ v = SubSeq(s, i, n)
  OBVIOUS
<1>3. u \in Seq(Messages) /\ v \in Seq(Messages)
  <2>1. u \in Seq(Messages)
    <3>1. i \in 1 .. Len(t) + 1
      BY <1>1, <1>2
    <3> QED
      BY <1>1, <3>1, AfterType
  <2> QED
    BY <2>1, AfterType
<1>4. /\ Len(v) = n - i + 1
      /\ \A j \in 1 .. n - i + 1 : v[j] = s[i + j - 1]
  <2>1. \A j \in i .. n : s[j] \in Messages
    BY <1>2, ElementOfSeq
  <2> QED
    BY <1>2, <2>1, SubSeqProperties
<1>5. /\ Len(u) = n - i + 2
      /\ \A j \in 1 .. n - i + 2 : u[j] = t[i + j - 1]
  <2>1. \A j \in i .. n + 1 : t[j] \in Messages
    <3>1. \A j \in 1 .. n + 1 : t[j] \in Messages
      BY <1>1, ElementOfSeq
    <3> QED
      BY <1>2, <3>1
  <2> PICK l \in Int : l = n + 1 /\ i <= l /\ l - i + 1 = n - i + 2
    BY <1>2
  <2>2. /\ Len(SubSeq(t, i, l)) = l - i + 1
        /\ \A j \in 1 .. l - i + 1 : SubSeq(t, i, l)[j] = t[i + j - 1]
    BY <2>1, SubSeqProperties
  <2> QED
    BY <2>2
<1>6. u = Append(v, m)
  <2>1. /\ Append(v, m) \in Seq(Messages) /\ Len(Append(v, m)) = n - i + 2
        /\ Append(v, m)[n - i + 2] = m
        /\ \A j \in 1 .. n - i + 1 : Append(v, m)[j] = v[j]
    <3>1. n - i + 1 \in Nat
      BY <1>2
    <3> PICK k \in Nat : k = n - i + 1
      BY <3>1
    <3>2. Len(v) = k /\ k + 1 = n - i + 2
      BY <1>2, <1>4
    <3>3. /\ Append(v, m) \in Seq(Messages) /\ Len(Append(v, m)) = k + 1
          /\ Append(v, m)[k + 1] = m
          /\ \A j \in 1 .. k : Append(v, m)[j] = v[j]
      BY <1>3, <3>2, AppendProperties
    <3> QED
      BY <3>2, <3>3
  <2>2. ASSUME NEW j \in 1 .. n - i + 2
        PROVE  u[j] = Append(v, m)[j]
    <3>1. CASE j = n - i + 2
      <4>1. i + j - 1 = n + 1
        BY <1>2, <3>1
      <4> QED
        BY <1>1, <1>5, <2>1, <3>1, <4>1
    <3>2. CASE j # n - i + 2
      <4>1. j \in 1 .. n - i + 1 /\ i + j - 1 \in 1 .. n
        BY <1>2, <3>2
      <4> QED
        BY <1>1, <1>4, <1>5, <2>1, <4>1
    <3> QED
      BY <3>1, <3>2
  <2> PICK w : w = Append(v, m)
    OBVIOUS
  <2> QED
    BY <1>3, <1>5, <2>1, <2>2, SeqEqual
<1>7. NrEnds(u) = NrEnds(v) + (IF IsEnd(m) THEN 1 ELSE 0)
  BY <1>3, <1>6, EndsAppend
<1>8. After(t, i) = NrEnds(u) /\ After(s, i) = NrEnds(v)
  BY <1>1 DEF After
<1>9. i <= n => t[i] = s[i]
  BY <1>1, <1>2
<1> QED
  BY <1>7, <1>8, <1>9

\* Behind the last place nothing is left.
LEMMA AfterLast ==
  ASSUME NEW s \in Seq(Messages)
  PROVE  After(s, Len(s) + 1) = 0
<1> PICK n \in Nat : n = Len(s)
  BY LenProperties
<1>1. SubSeq(s, n + 1, n) = <<>>
  BY SubSeqEmpty
<1> QED
  BY <1>1, NoEnds DEF After

LEMMA AfterMost ==
  ASSUME NEW s \in Seq(Messages), NEW i \in DOMAIN s
  PROVE  After(s, i) <= NrEnds(s)
<1> PICK n \in Nat : n = Len(s)
  BY LenProperties
<1> PICK t : t = SubSeq(s, i, n)
  OBVIOUS
<1>1. DOMAIN s = 1 .. n /\ i \in 1 .. n /\ i \in 1 .. n + 1
  BY LenProperties
<1>2. t \in Seq(Messages)
  BY <1>1, AfterType
<1>3. Len(t) = n - i + 1 /\ \A j \in 1 .. n - i + 1 : t[j] = s[i + j - 1]
  <2>1. \A j \in i .. n : s[j] \in Messages
    BY <1>1, ElementOfSeq
  <2> QED
    BY <1>1, <2>1, SubSeqProperties
<1>4. DOMAIN t = 1 .. n - i + 1
  BY <1>2, <1>3, LenProperties
<1> DEFINE shift == [j \in Ends(t) |-> i + j - 1]
<1>5. \A j \in Ends(t) : j \in Int /\ i + j - 1 \in Ends(s)
  BY <1>1, <1>3, <1>4 DEF Ends
<1>6. shift \in Injection(Ends(t), Ends(s))
  <2>1. shift \in [Ends(t) -> Ends(s)]
    BY <1>5
  <2>2. \A j, k \in Ends(t) : i + j - 1 = i + k - 1 => j = k
    BY <1>1, <1>5
  <2> QED
    BY <2>1, <2>2 DEF Injection, IsInjective
<1>7. Cardinality(Ends(t)) <= Cardinality(Ends(s))
  BY <1>6, EndsType, FS_Injection
<1> QED
  BY <1>7 DEF After, NrEnds

LEMMA MailTypes ==
  ASSUME TypeInv
  PROVE  /\ inbox \in [Workers -> [Parities -> [Nodes -> Nat]]]
         /\ queue \in [Workers -> [Nodes -> [Parities -> Nat]]]
         /\ superstep \in [Workers -> Nat]
         /\ \A w \in Workers : monitors[w] \in Nat /\ Ended(w) \in Int
  BY DEF TypeInv, PregelTypeOK, Indexed, Ended

LEMMA Parity ==
  ASSUME NEW n \in Nat
  PROVE  /\ n % 2 \in Parities /\ (n + 1) % 2 \in Parities /\ (n - 1) % 2 \in Parities
         /\ (n + 1) % 2 # n % 2 /\ (n - 1) % 2 = (n + 1) % 2
         /\ ((n + 1) + 1) % 2 = n % 2 /\ (n + 1) - 1 = n
         /\ \A b \in Parities : b = n % 2 \/ b = (n + 1) % 2
  BY DEF Parities

LEMMA PeerPlaces ==
  ASSUME TypeInv, NEW w \in Workers, NEW p \in Nodes
  PROVE  /\ socket[w][p] \in Seq(Messages)
         /\ Len(socket[w][p]) \in Nat
         /\ DOMAIN socket[w][p] = 1 .. Len(socket[w][p])
         /\ \A i \in DOMAIN socket[w][p] :
              /\ socket[w][p][i] \in Messages
              /\ After(socket[w][p], i) \in Nat
<1>1. socket[w][p] \in Seq(Messages)
  BY EndTypes
<1> PICK s : s = socket[w][p]
  OBVIOUS
<1>2. s \in Seq(Messages) /\ Len(s) \in Nat /\ DOMAIN s = 1 .. Len(s)
  BY <1>1, LenProperties
<1>3. ASSUME NEW i \in DOMAIN s
      PROVE  s[i] \in Messages /\ After(s, i) \in Nat
  <2>1. i \in 1 .. Len(s) /\ i \in 1 .. Len(s) + 1
    BY <1>2
  <2> QED
    BY <1>2, <2>1, ElementOfSeq, AfterType
<1> QED
  BY <1>2, <1>3

LEMMA DataKept ==
  ASSUME DataOK, UNCHANGED <<pc, query, superstep, busy, monitors>>,
         \A w \in Workers : \A p \in Peers(w) : socket'[w][p] = socket[w][p]
  PROVE  DataOK'
<1>1. ASSUME NEW w \in Workers, NEW p \in Peers(w), NEW i \in DOMAIN socket[w][p]
      PROVE  Fits(w, p, socket[w][p][i], Belongs(w, p, i))'
  <2>1. socket'[w][p] = socket[w][p]
    OBVIOUS
  <2>2. Belongs(w, p, i)' = Belongs(w, p, i) /\ Late(w)' = Late(w) /\ Ended(p)' = Ended(p)
    BY <2>1 DEF Belongs, Late, Ended, Starting
  <2>3. Fits(w, p, socket[w][p][i], Belongs(w, p, i))
    BY DEF DataOK
  <2> QED
    BY <2>1, <2>2, <2>3 DEF Fits
<1> QED
  BY <1>1 DEF DataOK

LEMMA MailUnchanged ==
  ASSUME MailOK, UNCHANGED queriesOnly, UNCHANGED <<inbox, queue, socket, received>>
  PROVE  MailOK'
<1> USE DEF MailOK, queriesOnly
<1>1. DataOK'
  BY DataKept
<1>2. MastersOK'
  BY DEF MastersOK
<1>3. QueuesOK'
  BY DEF QueuesOK, Collected, HasSent, InRound, Starting
<1>4. BusyOK'
  BY DEF BusyOK, InRound, Starting, HasMessages
<1>5. InboxOK'
  BY DEF InboxOK, Starting, AllIdle, HasSent
<1> QED
  BY <1>1, <1>2, <1>3, <1>4, <1>5

\* Reading from a socket leaves the places of the other messages.
LEMMA DataPopped ==
  ASSUME MailInv, NEW w \in Workers, NEW q \in Servers(w), socket[w][q] # <<>>,
         socket' = Popped(w, q), UNCHANGED <<pc, query, superstep, busy, monitors>>
  PROVE  DataOK'
<1> USE DEF MailInv, MailOK, EndInv, BarrierInv
<1>1. q \in Nodes
  BY NodeTypes
<1>2. \A v \in Workers, p \in Nodes : v # w \/ p # q => socket'[v][p] = socket[v][p]
  BY EndTypes DEF Popped
<1> PICK s : s = socket[w][q]
  OBVIOUS
<1>3. s \in Seq(Messages) /\ s # <<>> /\ socket'[w][q] = Tail(s)
  BY <1>1, EndTypes DEF Popped
<1>4. DOMAIN Tail(s) = 1 .. Len(Tail(s))
  BY <1>3, HeadTailProperties, LenProperties
<1>5. ASSUME NEW v \in Workers, NEW p \in Peers(v), NEW i \in DOMAIN socket'[v][p]
      PROVE  Fits(v, p, socket[v][p][i], Belongs(v, p, i))'
  <2>1. Late(v)' = Late(v) /\ Ended(p)' = Ended(p)
    BY DEF Late, Ended, Starting
  <2>2. p \in Nodes
    BY DEF Peers, Nodes
  <2>3. CASE v = w /\ p = q
    <3>1. i \in 1 .. Len(Tail(s))
      BY <1>3, <1>4, <2>3
    <3>2. Tail(s)[i] = s[i + 1] /\ After(Tail(s), i) = After(s, i + 1) /\ i + 1 \in DOMAIN s
      BY <1>3, <3>1, AfterTail
    <3>3. Belongs(v, p, i)' = Ended(p) + 1 - After(s, i + 1)
      BY <1>3, <2>1, <2>3, <3>2 DEF Belongs
    <3>4. Fits(v, p, s[i + 1], Ended(p) + 1 - After(s, i + 1))
      BY <2>3, <3>2 DEF DataOK, Belongs
    <3>5. socket'[v][p][i] = s[i + 1]
      BY <1>3, <2>3, <3>2
    <3> QED
      BY <2>1, <3>3, <3>4, <3>5 DEF Fits
  <2>4. CASE v # w \/ p # q
    <3>1. socket'[v][p] = socket[v][p]
      BY <1>2, <2>2, <2>4
    <3>2. Belongs(v, p, i)' = Belongs(v, p, i)
      BY <2>1, <3>1 DEF Belongs
    <3>3. Fits(v, p, socket[v][p][i], Belongs(v, p, i))
      BY <3>1 DEF DataOK
    <3> QED
      BY <2>1, <3>1, <3>2, <3>3 DEF Fits
  <2> QED
    BY <2>3, <2>4
<1> QED
  BY <1>5 DEF DataOK

LEMMA MailReadMark ==
  ASSUME MailInv, NEW w \in Workers, NEW q \in Servers(w), ReadMark(w, q)
  PROVE  MailOK'
<1> USE DEF MailInv, MailOK, EndInv, BarrierInv
<1>1. /\ socket[w][q] # <<>> /\ Head(socket[w][q]).type \in {"EMPTY", "FINISH"}
      /\ socket' = Popped(w, q)
      /\ UNCHANGED queriesOnly /\ UNCHANGED <<inbox, queue, received>>
  BY DEF ReadMark, Readable, queryVars, monitorVars, queriesOnly
<1>2. q # Master
  <2>1. ASSUME q = Master
        PROVE  FALSE
    <3>1. socket[w][q] \in Seq(FromMaster)
      BY <2>1 DEF SocketsOK
    <3>2. Head(socket[w][q]) \in FromMaster
      BY <1>1, <3>1, HeadTailProperties
    <3> QED
      BY <1>1, <3>2 DEF FromMaster
  <2> QED
    BY <2>1
<1>3. DataOK'
  BY <1>1, DataPopped DEF queriesOnly
<1>4. \A v \in Workers : socket'[v][Master] = socket[v][Master]
  BY <1>1, <1>2, EndTypes, NodeTypes DEF Popped
<1>5. MastersOK'
  BY <1>1, <1>4 DEF MastersOK
<1>6. QueuesOK'
  BY <1>1 DEF QueuesOK, Collected, HasSent, InRound, Starting, queriesOnly
<1>7. BusyOK'
  BY <1>1 DEF BusyOK, InRound, Starting, HasMessages, queriesOnly
<1>8. InboxOK'
  BY <1>1 DEF InboxOK, Starting, AllIdle, HasSent, queriesOnly
<1> QED
  BY <1>3, <1>5, <1>6, <1>7, <1>8

LEMMA FitsMeans ==
  ASSUME NEW w, NEW p, NEW m, NEW n, m.type = "DATA", Fits(w, p, m, n)
  PROVE  /\ m.round - superstep[w] = n - monitors[w] - Late(w)
         /\ n <= Ended(p)
         /\ n = monitors[p] => busy[p]
  BY DEF Fits

LEMMA SameDistance ==
  ASSUME NEW r \in Int, NEW n \in Int, NEW h \in Int, NEW k \in Int, NEW l \in Int,
         r - n = (h + 1) - k - l
  PROVE  r = n + ((h + 1) - k - l)
  OBVIOUS

\* A message that is read belongs to the superstep of w, or to the next one if
\* its sender is ahead, and goes to the queue of that superstep.
LEMMA ReadFits ==
  ASSUME MailInv, NEW w \in Workers, NEW p \in Peers(w), thread[w][p] = "reading",
         socket[w][p] # <<>>, Head(socket[w][p]).type = "DATA"
  PROVE  \/ /\ Head(socket[w][p]).round = superstep[w]
            /\ ~Collected(w) /\ HasSent(w, p)
         \/ /\ Head(socket[w][p]).round = superstep[w] + 1
            /\ Starting /\ monitors[p] > monitors[w] /\ busy[p]
<1> USE DEF MailInv, MailOK, EndInv, BarrierInv
<1> PICK s : s = socket[w][p]
  OBVIOUS
<1> PICK m : m = Head(s)
  OBVIOUS
<1>1. p \in Workers /\ p \in Nodes /\ p # w
  BY DEF Peers, Nodes
<1>2. s \in Seq(Messages) /\ s # <<>> /\ m = s[1] /\ 1 \in DOMAIN s /\ NrEnds(s) \in Nat
  <2>1. s \in Seq(Messages)
    BY <1>1, EndTypes
  <2> QED
    BY <2>1, HeadTailProperties, LenProperties, EmptySeq, EndsType
<1>3. m \in Messages /\ m.type = "DATA" /\ m.round \in Nat
  <2>1. m \in Messages
    BY <1>2, ElementOfSeq, LenProperties
  <2> QED
    BY <2>1 DEF Messages
<1>a. Handled(w, p) \in Int /\ Ended(p) \in Int
  BY <1>1, MailTypes DEF Handled
<1> PICK h \in Int : h = Handled(w, p)
  BY <1>a
<1> PICK e \in Int : e = Ended(p)
  BY <1>a
<1>4. Belongs(w, p, 1) = h + 1
  <2>1. h + Held(w, p) + NrEnds(s) = e
    BY DEF EndsOK
  <2>2. After(s, 1) = NrEnds(s) /\ Held(w, p) = 0
    BY <1>2, AfterFirst DEF Held
  <2> QED
    BY <1>2, <2>1, <2>2 DEF Belongs
<1>5. /\ m.round - superstep[w] = (h + 1) - monitors[w] - Late(w)
      /\ h + 1 <= e
      /\ h + 1 = monitors[p] => busy[p]
  <2>1. Fits(w, p, m, h + 1)
    <3>1. Fits(w, p, socket[w][p][1], Belongs(w, p, 1))
      BY <1>2 DEF DataOK
    <3> QED
      BY <1>2, <1>4, <3>1
  <2> QED
    BY <1>3, <2>1, FitsMeans
<1>6. /\ monitors[w] \in Nat /\ monitors[p] \in Nat /\ superstep[w] \in Nat
      /\ e <= monitors[p]
  BY <1>1, MailTypes DEF Ended
<1>7. CASE Pending(w, p)
  <2>1. h = monitors[w] - 1
    BY <1>7 DEF Handled
  <2>2. p \in Open(w)
    BY <1>7 DEF Open
  <2>3. ~Collected(w) /\ pc[w] # "begin"
    BY <2>2 DEF CountersOK, Collected
  <2>4. Late(w) = 0
    BY <2>3 DEF Late
  <2>5. m.round = superstep[w]
    <3>1. monitors[w] \in Int /\ superstep[w] \in Int /\ Late(w) \in Int /\ m.round \in Int
      BY <1>3, <1>6, <2>4
    <3>2. m.round = superstep[w] + ((h + 1) - monitors[w] - Late(w))
      BY <1>5, <3>1, SameDistance
    <3>3. (h + 1) - monitors[w] - Late(w) = 0
      BY <1>6, <2>1, <2>4
    <3> QED
      BY <3>1, <3>2, <3>3
  <2>6. HasSent(w, p)
    BY <1>5, <1>6, <2>1, <2>3 DEF HasSent
  <2> QED
    BY <2>3, <2>5, <2>6
<1>8. CASE ~Pending(w, p)
  <2>1. h = monitors[w]
    BY <1>8 DEF Handled
  <2>2. monitors[p] > monitors[w]
    BY <1>5, <1>6, <2>1
  <2>3. monitors[p] = monitors[w] + 1
    BY <1>1, <2>2, BarrierHolds DEF Barrier
  <2>4. busy[p]
    BY <1>5, <2>1, <2>3
  <2>5. CASE ~Starting /\ pc[w] = "begin"
    <3>1. m.round = superstep[w]
      BY <1>3, <1>5, <1>6, <2>1, <2>5 DEF Late
    <3>2. ~Collected(w)
      BY <2>5 DEF Collected, InRound
    <3> QED
      BY <2>2, <3>1, <3>2 DEF HasSent
  <2>6. CASE ~(~Starting /\ pc[w] = "begin")
    <3>1. Starting
      <4>1. ASSUME ~Starting
            PROVE  FALSE
        <5>1. monitors[p] + (IF pc[p] = "begin" THEN 1 ELSE 0) = monitors[w] + 0
          BY <1>1, <2>6, <4>1 DEF RanksOK
        <5> QED
          BY <1>6, <2>3, <5>1
      <4> QED
        BY <4>1
    <3>2. m.round = superstep[w] + 1
      <4>1. Late(w) = 0
        BY <2>6 DEF Late
      <4>2. monitors[w] \in Int /\ superstep[w] \in Int /\ Late(w) \in Int /\ m.round \in Int
        BY <1>3, <1>6, <4>1
      <4>3. m.round = superstep[w] + ((h + 1) - monitors[w] - Late(w))
        BY <1>5, <4>2, SameDistance
      <4> QED
        BY <1>6, <2>1, <4>1, <4>2, <4>3
    <3> QED
      BY <2>2, <2>4, <3>1, <3>2
  <2> QED
    BY <2>5, <2>6
<1> QED
  BY <1>7, <1>8

LEMMA MailReadData ==
  ASSUME MailInv, NEW w \in Workers, NEW q \in Servers(w), ReadData(w, q)
  PROVE  MailOK'
<1> USE DEF MailInv, MailOK, EndInv, BarrierInv
<1> PICK s : s = socket[w][q]
  OBVIOUS
<1> PICK b : b = Head(s).round % 2
  OBVIOUS
<1>1. /\ s # <<>> /\ Head(s).type = "DATA" /\ thread[w][q] = "reading"
      /\ socket' = Popped(w, q)
      /\ queue' = [queue EXCEPT ![w][q][b] = @ + 1]
      /\ UNCHANGED queriesOnly /\ UNCHANGED <<inbox, received>>
  BY DEF ReadData, Readable, queryVars, monitorVars, queriesOnly
<1>2. q \in Nodes /\ q # w
  BY NodeTypes DEF Servers, Peers
<1>3. DataOK'
  BY <1>1, DataPopped DEF queriesOnly
<1>4. s \in Seq(Messages) /\ socket'[w][q] = Tail(s)
      /\ \A v \in Workers, p \in Nodes : v # w \/ p # q =>
           socket'[v][p] = socket[v][p] /\ queue'[v][p] = queue[v][p]
  <2>1. s \in Seq(Messages)
    BY <1>2, EndTypes
  <2>2. /\ socket'[w][q] = Tail(s)
        /\ \A v \in Workers, p \in Nodes : v # w \/ p # q => socket'[v][p] = socket[v][p]
    BY <1>1, <1>2, EndTypes DEF Popped
  <2>3. \A v \in Workers, p \in Nodes : v # w \/ p # q => queue'[v][p] = queue[v][p]
    BY <1>1, <1>2, MailTypes
  <2> QED
    BY <2>1, <2>2, <2>3
<1>5. /\ queue'[w][q] \in [Parities -> Nat]
      /\ \A c \in Parities : queue'[w][q][c] > 0 => queue[w][q][c] > 0 \/ c = b
  <2>1. queue[w][q] \in [Parities -> Nat]
    BY <1>2, MailTypes
  <2>2. queue'[w][q] = [queue[w][q] EXCEPT ![b] = @ + 1]
    BY <1>1, <1>2, MailTypes
  <2>3. b \in Parities
    <3>1. Head(s) \in Messages
      BY <1>1, <1>4, HeadTailProperties
    <3>2. Head(s).round \in Int
      BY <1>1, <3>1 DEF Messages
    <3> QED
      BY <3>2, ParityType
  <2>4. queue[w][q][b] + 1 \in Nat
    BY <2>1, <2>3
  <2> QED
    BY <2>1, <2>2, <2>3, <2>4
<1>6. \A v \in Workers : Peers(v) \subseteq Nodes /\ v \in Nodes /\ Master \in Nodes
  BY NodeTypes
<1>7. MastersOK'
  <2>1. CASE q = Master
    <3>1. s[Len(s)].type = "INIT_DONE" /\ \A i \in DOMAIN s : s[i].type = "DATA" => s[i].round = 0
      BY <1>1, <2>1 DEF MastersOK
    <3>2. Tail(s) # <<>>
      BY <1>1, <1>4, <3>1, OneLeft
    <3>3. Tail(s)[Len(Tail(s))].type = "INIT_DONE"
      BY <1>1, <1>4, <3>1, <3>2, LastOfTail
    <3>4. \A i \in DOMAIN Tail(s) : Tail(s)[i].type = "DATA" => Tail(s)[i].round = 0
      <4>1. DOMAIN Tail(s) = 1 .. Len(Tail(s))
        BY <1>1, <1>4, HeadTailProperties, LenProperties
      <4>2. \A i \in 1 .. Len(Tail(s)) : Tail(s)[i] = s[i + 1] /\ i + 1 \in DOMAIN s
        BY <1>1, <1>4, AfterTail
      <4> QED
        BY <3>1, <4>1, <4>2
    <3>5. ASSUME NEW v \in Workers
          PROVE  LET t == socket'[v][Master] IN
                 /\ t # <<>> => t[Len(t)].type = "INIT_DONE"
                 /\ \A i \in DOMAIN t : t[i].type = "DATA" => t[i].round = 0
                 /\ t = <<>> => \A c \in Parities : queue'[v][Master][c] = 0
      <4>1. CASE v = w
        BY ZenonT(30), <1>4, <2>1, <3>2, <3>3, <3>4, <4>1
      <4>2. CASE v # w
        <5>1. socket'[v][Master] = socket[v][Master] /\ queue'[v][Master] = queue[v][Master]
          BY <1>4, <1>6, <4>2
        <5> QED
          BY <5>1 DEF MastersOK
      <4> QED
        BY <4>1, <4>2
    <3> QED
      BY <3>5 DEF MastersOK
  <2>2. CASE q # Master
    BY <1>4, <1>6, <2>2 DEF MastersOK
  <2> QED
    BY <2>1, <2>2
<1>8. QueuesOK'
  <2>1. \A v, p \in Workers : /\ Collected(v)' = Collected(v) /\ HasSent(v, p)' = HasSent(v, p)
                              /\ Starting' = Starting
    BY <1>1 DEF Collected, HasSent, InRound, Starting, queriesOnly
  <2>2. ASSUME NEW v \in Workers, NEW p \in Peers(v)
        PROVE  /\ queue'[v][p][superstep[v] % 2] > 0 => ~Collected(v) /\ HasSent(v, p)
               /\ queue'[v][p][(superstep[v] + 1) % 2] > 0 =>
                    Starting /\ monitors[p] > monitors[v] /\ busy[p]
    <3>1. CASE v = w /\ p = q
      <4> PICK n \in Nat : n = superstep[w]
        BY MailTypes
      <4>1. /\ queue[w][q][n % 2] > 0 => ~Collected(w) /\ HasSent(w, q)
            /\ queue[w][q][(n + 1) % 2] > 0 =>
                 Starting /\ monitors[q] > monitors[w] /\ busy[q]
        BY <3>1 DEF QueuesOK
      <4>2. \/ Head(s).round = n /\ ~Collected(w) /\ HasSent(w, q)
            \/ /\ Head(s).round = n + 1
               /\ Starting /\ monitors[q] > monitors[w] /\ busy[q]
        BY <1>1, <3>1, ReadFits
      <4>3. /\ queue'[w][q][n % 2] > 0 => queue[w][q][n % 2] > 0 \/ n % 2 = b
            /\ queue'[w][q][(n + 1) % 2] > 0 => queue[w][q][(n + 1) % 2] > 0 \/ (n + 1) % 2 = b
        BY <1>5, Parity
      <4>4. (n + 1) % 2 # n % 2
        BY Parity
      <4> QED
        BY <3>1, <4>1, <4>2, <4>3, <4>4
    <3>2. CASE v # w \/ p # q
      <4>1. queue'[v][p] = queue[v][p]
        BY <1>4, <1>6, <3>2
      <4> QED
        BY <4>1 DEF QueuesOK
    <3> QED
      BY <3>1, <3>2
  <2>3. \A v \in Workers : \A c \in Parities : queue'[v][v][c] = 0
    <3>1. \A v \in Workers : queue'[v][v] = queue[v][v]
      BY <1>2, <1>4, <1>6
    <3> QED
      BY <3>1 DEF QueuesOK
  <2>4. ASSUME NEW v \in Workers, NEW p \in Peers(v)
        PROVE  /\ queue'[v][p][superstep'[v] % 2] > 0 => ~Collected(v)' /\ HasSent(v, p)'
               /\ queue'[v][p][(superstep'[v] + 1) % 2] > 0 =>
                    Starting' /\ monitors'[p] > monitors'[v] /\ busy'[p]
    <3>1. p \in Workers
      BY DEF Peers
    <3> QED
      BY <1>1, <2>1, <2>2, <3>1 DEF queriesOnly
  <2> QED
    BY <2>3, <2>4 DEF QueuesOK
<1>9. BusyOK'
  BY <1>1 DEF BusyOK, InRound, Starting, HasMessages, queriesOnly
<1>10. InboxOK'
  BY <1>1 DEF InboxOK, Starting, AllIdle, HasSent, queriesOnly
<1> QED
  BY <1>3, <1>7, <1>8, <1>9, <1>10

LEMMA CollectedMail ==
  ASSUME TypeInv, NEW w \in Workers, NEW queues \in [Nodes -> [Parities -> Nat]],
         CollectFromAllServers(w, queues)
  PROVE  LET n == superstep[w] IN
         /\ \A v \in Workers : v # w => inbox'[v] = inbox[v] /\ queue'[v] = queue[v]
         /\ inbox'[w][(n + 1) % 2] = inbox[w][(n + 1) % 2]
         /\ \A p \in Nodes : /\ inbox'[w][n % 2][p] = inbox[w][n % 2][p] + queues[p][n % 2]
                             /\ queue'[w][p][n % 2] = 0
                             /\ queue'[w][p][(n + 1) % 2] = queues[p][(n + 1) % 2]
<1> PICK n \in Nat : n = superstep[w]
  BY MailTypes
<1> PICK b : b = n % 2
  OBVIOUS
<1>1. b \in Parities /\ (n + 1) % 2 \in Parities /\ (n + 1) % 2 # b
  BY Parity
<1>2. /\ inbox' = [inbox EXCEPT ![w][b] = [p \in Nodes |-> @[p] + queues[p][b]]]
      /\ queue' = [queue EXCEPT ![w] = [p \in Nodes |-> [queues[p] EXCEPT ![b] = 0]]]
  BY DEF CollectFromAllServers
<1>3. \A v \in Workers : v # w => inbox'[v] = inbox[v] /\ queue'[v] = queue[v]
  BY <1>2, MailTypes
<1>4. /\ inbox'[w][(n + 1) % 2] = inbox[w][(n + 1) % 2]
      /\ \A p \in Nodes : inbox'[w][b][p] = inbox[w][b][p] + queues[p][b]
  BY <1>1, <1>2, MailTypes
<1>5. \A p \in Nodes : queue'[w][p] = [queues[p] EXCEPT ![b] = 0]
  BY <1>2, MailTypes
<1>6. \A p \in Nodes : queue'[w][p][b] = 0 /\ queue'[w][p][(n + 1) % 2] = queues[p][(n + 1) % 2]
  <2> SUFFICES ASSUME NEW p \in Nodes
               PROVE  queue'[w][p][b] = 0 /\ queue'[w][p][(n + 1) % 2] = queues[p][(n + 1) % 2]
    OBVIOUS
  <2> PICK c, f, g : c = (n + 1) % 2 /\ f = queues[p] /\ g = queue'[w][p]
    OBVIOUS
  <2>1. f \in [Parities -> Nat] /\ g = [f EXCEPT ![b] = 0] /\ c \in Parities /\ c # b
    BY <1>1, <1>5
  <2>2. g[b] = 0 /\ g[c] = f[c]
    BY <1>1, <2>1
  <2> QED
    BY <2>2
<1> QED
  BY <1>3, <1>4, <1>6

LEMMA MailHandleMark ==
  ASSUME MailInv, NEW w \in Workers, NEW q \in Servers(w), HandleMark(w, q)
  PROVE  MailOK'
<1> USE DEF MailInv, MailOK, EndInv, BarrierInv
<1>1. /\ thread[w][q] = "ended" /\ monitor[w][q] # None
      /\ Counted(w, monitor[w][q], mark[w][q] = "EMPTY")
      /\ IF Last(w, monitor[w][q]) THEN CollectFromAllServers(w, queue[w])
                                   ELSE UNCHANGED <<inbox, queue>>
      /\ UNCHANGED queriesOnly /\ UNCHANGED socket
  BY DEF HandleMark, queriesOnly
<1>2. received' = [received EXCEPT ![w] = @ \/ Last(w, monitor[w][q])]
  BY <1>1 DEF Counted
<1>3. CASE ~Last(w, monitor[w][q])
  <2>1. received' = received
    BY <1>2, <1>3, EndTypes
  <2> QED
    BY <1>1, <1>3, <2>1, MailUnchanged
<1>4. CASE Last(w, monitor[w][q])
  <2> PICK n \in Nat : n = superstep[w]
    BY MailTypes
  <2>1. queue[w] \in [Nodes -> [Parities -> Nat]] /\ CollectFromAllServers(w, queue[w])
    BY <1>1, <1>4, MailTypes
  <2>2. /\ \A v \in Workers : v # w => inbox'[v] = inbox[v] /\ queue'[v] = queue[v]
        /\ inbox'[w][(n + 1) % 2] = inbox[w][(n + 1) % 2]
        /\ \A p \in Nodes : /\ inbox'[w][n % 2][p] = inbox[w][n % 2][p] + queue[w][p][n % 2]
                            /\ queue'[w][p][n % 2] = 0
                            /\ queue'[w][p][(n + 1) % 2] = queue[w][p][(n + 1) % 2]
    BY <2>1, CollectedMail
  <2>3. /\ received'[w] /\ \A v \in Workers : v # w => received'[v] = received[v]
        /\ UNCHANGED <<pc, query, superstep, busy, monitors>>
    BY <1>1, <1>2, <1>4, EndTypes DEF queriesOnly
  <2>4. \A v \in Workers : Peers(v) \subseteq Nodes /\ v \in Nodes /\ Master \in Nodes
    BY NodeTypes
  <2>5. (n - 1) % 2 = (n + 1) % 2 /\ \A b \in Parities : b = n % 2 \/ b = (n + 1) % 2
    BY Parity
  <2>6. DataOK'
    BY <1>1, <2>3, DataKept
  <2>7. MastersOK'
    <3>1. ASSUME NEW v \in Workers, \A b \in Parities : queue[v][Master][b] = 0
          PROVE  \A b \in Parities : queue'[v][Master][b] = 0
      <4>1. CASE v = w
        <5>1. queue'[w][Master][n % 2] = 0 /\ queue'[w][Master][(n + 1) % 2] = 0
          BY <2>2, <2>4, <3>1, <4>1, Parity
        <5> QED
          BY <2>5, <4>1, <5>1
      <4>2. CASE v # w
        BY <2>2, <3>1, <4>2
      <4> QED
        BY <4>1, <4>2
    <3> QED
      BY <1>1, <3>1 DEF MastersOK
  <2>8. QueuesOK'
    <3>1. ASSUME NEW v \in Workers, v # w
          PROVE  /\ queue'[v] = queue[v] /\ superstep'[v] = superstep[v]
                 /\ Collected(v)' = Collected(v)
                 /\ \A p \in Peers(v) : HasSent(v, p)' = HasSent(v, p)
                 /\ Starting' = Starting
      BY <2>2, <2>3, <3>1 DEF Collected, InRound, HasSent, Starting
    <3>2. \A b \in Parities : queue'[w][w][b] = 0
      <4>1. queue'[w][w][n % 2] = 0 /\ queue'[w][w][(n + 1) % 2] = 0
        BY <2>2, <2>4, Parity DEF QueuesOK
      <4> QED
        BY <2>5, <4>1
    <3>3. ASSUME NEW p \in Peers(w)
          PROVE  /\ ~(queue'[w][p][superstep'[w] % 2] > 0)
                 /\ queue'[w][p][(superstep'[w] + 1) % 2] > 0 =>
                      Starting' /\ monitors'[p] > monitors'[w] /\ busy'[p]
      <4>1. queue'[w][p][n % 2] = 0 /\ queue'[w][p][(n + 1) % 2] = queue[w][p][(n + 1) % 2]
        BY <2>2, <2>4
      <4>2. queue[w][p][(n + 1) % 2] > 0 => Starting /\ monitors[p] > monitors[w] /\ busy[p]
        BY DEF QueuesOK
      <4> QED
        BY <2>3, <4>1, <4>2 DEF Starting
    <3>4. ASSUME NEW v \in Workers
          PROVE  /\ \A b \in Parities : queue'[v][v][b] = 0
                 /\ \A p \in Peers(v) :
                      /\ queue'[v][p][superstep'[v] % 2] > 0 => ~Collected(v)' /\ HasSent(v, p)'
                      /\ queue'[v][p][(superstep'[v] + 1) % 2] > 0 =>
                           Starting' /\ monitors'[p] > monitors'[v] /\ busy'[p]
      <4>1. CASE v = w
        BY <3>2, <3>3, <4>1
      <4>2. CASE v # w
        BY <2>3, <3>1, <4>2 DEF QueuesOK
      <4> QED
        BY <4>1, <4>2
    <3> QED
      BY <3>4 DEF QueuesOK
  <2>9. \A v \in Workers : inbox'[v][(superstep[v] - 1) % 2] = inbox[v][(superstep[v] - 1) % 2]
    BY <2>2, <2>5
  <2>10. BusyOK'
    BY <2>3, <2>9 DEF BusyOK, InRound, Starting, HasMessages
  <2>11. InboxOK'
    <3>1. ASSUME NEW v \in Workers, Starting, ~AllIdle, pc[v] # "begin", NEW p \in Nodes,
                 inbox'[v][superstep[v] % 2][p] > 0
          PROVE  \/ p = v /\ busy[v]
                 \/ p \in Peers(v) /\ HasSent(v, p)
      <4>1. CASE inbox[v][superstep[v] % 2][p] > 0
        BY <3>1, <4>1 DEF InboxOK
      <4>2. CASE ~(inbox[v][superstep[v] % 2][p] > 0)
        <5>1. v = w
          BY <2>2, <3>1, <4>2
        <5>2. inbox'[w][n % 2][p] = inbox[w][n % 2][p] + queue[w][p][n % 2]
          BY <2>2
        <5>3. inbox[w][n % 2][p] \in Nat /\ queue[w][p][n % 2] \in Nat /\ n % 2 \in Parities
          BY MailTypes, Parity
        <5>4. queue[w][p][n % 2] > 0
          BY <3>1, <4>2, <5>1, <5>2, <5>3
        <5>5. p # Master
          BY <3>1, <5>3, <5>4 DEF SocketsOK, InitDone, MastersOK
        <5>6. p # w
          BY <5>3, <5>4 DEF QueuesOK
        <5>7. p \in Peers(w)
          BY <5>5, <5>6 DEF Peers, Nodes
        <5> QED
          BY <5>1, <5>4, <5>7 DEF QueuesOK
      <4> QED
        BY <4>1, <4>2
    <3>2. Starting' = Starting /\ AllIdle' = AllIdle
          /\ \A v \in Workers : \A p \in Nodes : HasSent(v, p)' = HasSent(v, p)
      BY <2>3 DEF Starting, AllIdle, HasSent
    <3>3. ASSUME NEW v \in Workers, ~(Starting /\ pc[v] = "compute"), NEW p \in Nodes
          PROVE  inbox'[v][(superstep[v] - 1) % 2][p] = 0
      BY <2>9, <3>3 DEF InboxOK
    <3> QED
      BY <2>3, <3>1, <3>2, <3>3 DEF InboxOK
  <2> QED
    BY <2>6, <2>7, <2>8, <2>10, <2>11
<1> QED
  BY <1>3, <1>4

LEMMA MastersPopped ==
  ASSUME MailInv, NEW w \in Workers, socket[w][Master] # <<>>, socket' = Popped(w, Master)
  PROVE  \A v \in Workers :
           LET t == socket'[v][Master] IN
           /\ t # <<>> => t[Len(t)].type = "INIT_DONE"
           /\ \A i \in DOMAIN t : t[i].type = "DATA" => t[i].round = 0
           /\ v # w => t = socket[v][Master]
<1> USE DEF MailInv, MailOK, EndInv, BarrierInv
<1> PICK s : s = socket[w][Master]
  OBVIOUS
<1>1. s \in Seq(Messages) /\ s # <<>> /\ socket'[w][Master] = Tail(s)
      /\ \A v \in Workers : v # w => socket'[v][Master] = socket[v][Master]
  BY EndTypes, NodeTypes DEF Popped
<1>2. s[Len(s)].type = "INIT_DONE" /\ \A i \in DOMAIN s : s[i].type = "DATA" => s[i].round = 0
  BY <1>1 DEF MastersOK
<1>3. Tail(s) # <<>> => Tail(s)[Len(Tail(s))].type = "INIT_DONE"
  BY <1>1, <1>2, LastOfTail
<1>4. \A i \in DOMAIN Tail(s) : Tail(s)[i].type = "DATA" => Tail(s)[i].round = 0
  <2>1. DOMAIN Tail(s) = 1 .. Len(Tail(s))
    BY <1>1, HeadTailProperties, LenProperties
  <2>2. \A i \in 1 .. Len(Tail(s)) : Tail(s)[i] = s[i + 1] /\ i + 1 \in DOMAIN s
    BY <1>1, AfterTail
  <2> QED
    BY <1>2, <2>1, <2>2
<1> SUFFICES ASSUME NEW v \in Workers
             PROVE  LET t == socket'[v][Master] IN
                    /\ t # <<>> => t[Len(t)].type = "INIT_DONE"
                    /\ \A i \in DOMAIN t : t[i].type = "DATA" => t[i].round = 0
                    /\ v # w => t = socket[v][Master]
  OBVIOUS
<1>5. CASE v = w
  BY <1>1, <1>3, <1>4, <1>5
<1>6. CASE v # w
  BY <1>1, <1>6 DEF MastersOK
<1> QED
  BY <1>5, <1>6

LEMMA MailHandleInitDone ==
  ASSUME MailInv, NEW w \in Workers, NEW q \in Servers(w), HandleInitDone(w, q)
  PROVE  MailOK'
<1> USE DEF MailInv, MailOK, EndInv, BarrierInv
<1>1. /\ socket[w][q] # <<>>
      /\ Head(socket[w][q]).type = "INIT_DONE"
      /\ socket' = Popped(w, q)
      /\ CollectFromAllServers(w, Brought(queue[w], q, superstep[w]))
      /\ UNCHANGED queriesOnly
  BY DEF HandleInitDone, Readable, queriesOnly
<1>2. q = Master
  <2>1. q \notin Peers(w)
    BY <1>1, BarrierPopped DEF FromPeer
  <2> QED
    BY <2>1 DEF Servers, Peers
<1>3. \A v \in Workers : pc[v] = "idle" /\ pc'[v] = "idle"
  BY <1>1, <1>2 DEF SocketsOK, AllIdle, InitDone, queriesOnly
<1> PICK n \in Nat : n = superstep[w]
  BY MailTypes
<1> PICK queues : queues = Brought(queue[w], Master, superstep[w])
  OBVIOUS
<1>4. /\ queues \in [Nodes -> [Parities -> Nat]]
      /\ queues[Master][(n + 1) % 2] = 0
      /\ \A p \in Nodes \ {Master} : queues[p] = queue[w][p]
  <2> PICK f : f = [b \in Parities |->
                      IF b = n % 2 THEN queue[w][Master][0] + queue[w][Master][1] ELSE 0]
    OBVIOUS
  <2>1. queue[w] \in [Nodes -> [Parities -> Nat]] /\ Master \in Nodes
    BY MailTypes, NodeTypes
  <2>2. queue[w][Master] \in [Parities -> Nat]
    BY <2>1
  <2>3. queue[w][Master][0] \in Nat /\ queue[w][Master][1] \in Nat
    BY <2>2 DEF Parities
  <2>4. f \in [Parities -> Nat] /\ f[(n + 1) % 2] = 0
    BY <2>3, Parity
  <2>5. queues = [queue[w] EXCEPT ![Master] = f]
    BY <2>1 DEF Brought
  <2> QED
    BY <2>1, <2>4, <2>5
<1>5. /\ \A v \in Workers : v # w => inbox'[v] = inbox[v] /\ queue'[v] = queue[v]
      /\ inbox'[w][(n + 1) % 2] = inbox[w][(n + 1) % 2]
      /\ \A p \in Nodes : /\ queue'[w][p][n % 2] = 0
                          /\ queue'[w][p][(n + 1) % 2] = queues[p][(n + 1) % 2]
  BY <1>1, <1>2, <1>4, CollectedMail
<1>6. \A v \in Workers : Peers(v) \subseteq Nodes \ {Master} /\ v \in Nodes \ {Master} /\ Master \in Nodes
  BY NodeTypes DEF Peers, Nodes
<1>7. (n - 1) % 2 = (n + 1) % 2 /\ \A b \in Parities : b = n % 2 \/ b = (n + 1) % 2
  BY Parity
<1>8. DataOK'
  BY <1>1, DataPopped DEF queriesOnly
<1>9. MastersOK'
  <2>1. \A v \in Workers :
           LET t == socket'[v][Master] IN
           /\ t # <<>> => t[Len(t)].type = "INIT_DONE"
           /\ \A i \in DOMAIN t : t[i].type = "DATA" => t[i].round = 0
           /\ v # w => t = socket[v][Master]
    BY <1>1, <1>2, MastersPopped
  <2>2. ASSUME NEW v \in Workers, socket'[v][Master] = <<>>
        PROVE  \A b \in Parities : queue'[v][Master][b] = 0
    <3>1. CASE v = w
      <4>1. queue'[w][Master][n % 2] = 0 /\ queue'[w][Master][(n + 1) % 2] = 0
        BY <1>4, <1>5, <1>6
      <4> QED
        BY <1>7, <3>1, <4>1
    <3>2. CASE v # w
      <4>1. socket[v][Master] = <<>> /\ queue'[v] = queue[v]
        BY <1>5, <2>1, <2>2, <3>2
      <4> QED
        BY <4>1 DEF MastersOK
    <3> QED
      BY <3>1, <3>2
  <2> QED
    BY <2>1, <2>2 DEF MastersOK
<1>10. QueuesOK'
  <2>1. ASSUME NEW v \in Workers, NEW p \in Nodes \ {Master}
        PROVE  \/ queue'[v][p] = queue[v][p]
               \/ v = w /\ queue'[v][p][n % 2] = 0
                  /\ queue'[v][p][(n + 1) % 2] = queue[v][p][(n + 1) % 2]
    BY <1>4, <1>5
  <2>2. ASSUME NEW v \in Workers, NEW b \in Parities
        PROVE  queue'[v][v][b] = 0
    BY <1>6, <1>7, <2>1 DEF QueuesOK
  <2>3. ASSUME NEW v \in Workers, NEW p \in Peers(v)
        PROVE  /\ ~(queue'[v][p][superstep[v] % 2] > 0)
               /\ queue'[v][p][(superstep[v] + 1) % 2] > 0 =>
                    Starting /\ monitors[p] > monitors[v] /\ busy[p]
    <3>1. ~(queue[v][p][superstep[v] % 2] > 0)
      BY <1>3 DEF QueuesOK, Collected
    <3>2. queue[v][p][(superstep[v] + 1) % 2] > 0 =>
            Starting /\ monitors[p] > monitors[v] /\ busy[p]
      BY DEF QueuesOK
    <3> QED
      BY <1>6, <2>1, <3>1, <3>2
  <2>4. ASSUME NEW v \in Workers, NEW p \in Peers(v)
        PROVE  /\ queue'[v][p][superstep'[v] % 2] > 0 => ~Collected(v)' /\ HasSent(v, p)'
               /\ queue'[v][p][(superstep'[v] + 1) % 2] > 0 =>
                    Starting' /\ monitors'[p] > monitors'[v] /\ busy'[p]
    BY <1>1, <2>3 DEF queriesOnly, Starting
  <2> QED
    BY <2>2, <2>4 DEF QueuesOK
<1>11. BusyOK'
  BY <1>3 DEF BusyOK, InRound
<1>12. InboxOK'
  <2>1. \A v \in Workers : inbox'[v][(superstep'[v] - 1) % 2] = inbox[v][(superstep[v] - 1) % 2]
    BY <1>1, <1>5, <1>7 DEF queriesOnly
  <2>2. AllIdle' /\ \A v \in Workers : pc[v] # "compute"
    BY <1>3 DEF AllIdle
  <2> QED
    BY <2>1, <2>2 DEF InboxOK
<1> QED
  BY <1>8, <1>9, <1>10, <1>11, <1>12

\* Between two commands nothing is on its way between the workers.
LEMMA IdleSockets ==
  ASSUME MailInv, AllIdle, NEW w \in Workers, NEW p \in Peers(w)
  PROVE  socket[w][p] = <<>> /\ \A b \in Parities : ~(queue[w][p][b] > 0)
<1> USE DEF MailInv, MailOK, EndInv, BarrierInv
<1>1. p \in Workers /\ p \in Nodes
  BY DEF Peers, Nodes
<1>2. pc[w] = "idle" /\ pc[p] = "idle" /\ monitors[p] = monitors[w] /\ monitors[w] \in Nat
  BY <1>1, EndTypes DEF AllIdle, LeaveOK
<1> PICK s : s = socket[w][p]
  OBVIOUS
<1>3. s \in Seq(Messages) /\ NrEnds(s) \in Nat
  BY <1>1, EndTypes, EndsType
<1>4. Handled(w, p) = monitors[w] /\ Ended(p) = monitors[w]
  <2>1. ~Pending(w, p)
    BY <1>2 DEF CountersOK, Open
  <2> QED
    BY <1>2, <2>1 DEF Handled, Ended
<1>5. NrEnds(s) = 0
  <2>1. Handled(w, p) + Held(w, p) + NrEnds(s) = Ended(p)
    BY DEF EndsOK
  <2>2. Held(w, p) \in Nat
    BY DEF Held
  <2> QED
    BY <1>2, <1>3, <1>4, <2>1, <2>2
<1>6. s = <<>>
  <2>1. ASSUME s # <<>>
        PROVE  FALSE
    <3>1. Len(s) \in DOMAIN s
      BY <1>3, <2>1, LenProperties, EmptySeq
    <3>2. IsEnd(s[Len(s)])
      BY <2>1 DEF LastsOK
    <3>3. Len(s) \in Ends(s)
      BY <3>1, <3>2 DEF Ends
    <3> QED
      BY <1>3, <1>5, <3>3, EndsType, FS_EmptySet DEF NrEnds
  <2> QED
    BY <2>1
<1>7. ASSUME NEW b \in Parities
      PROVE  ~(queue[w][p][b] > 0)
  <2>1. ~(queue[w][p][superstep[w] % 2] > 0)
    BY <1>2 DEF QueuesOK, Collected
  <2>2. ~(queue[w][p][(superstep[w] + 1) % 2] > 0)
    BY <1>2 DEF QueuesOK
  <2>3. b = superstep[w] % 2 \/ b = (superstep[w] + 1) % 2
    BY MailTypes, Parity
  <2> QED
    BY <2>1, <2>2, <2>3
<1> QED
  BY <1>6, <1>7

LEMMA MasterSends ==
  ASSUME NEW s \in Seq(Messages), NEW t, NEW d \in {<<Data(0)>>, <<>>},
         \A i \in DOMAIN s : s[i].type = "DATA" => s[i].round = 0,
         t = s \o d \o <<Mark("INIT_DONE")>>
  PROVE  /\ t # <<>> /\ t[Len(t)].type = "INIT_DONE"
         /\ \A i \in DOMAIN t : t[i].type = "DATA" => t[i].round = 0
<1> PICK m, e : m = Data(0) /\ e = Mark("INIT_DONE")
  OBVIOUS
<1>1. m \in Messages /\ e \in Messages /\ m.round = 0 /\ e.type = "INIT_DONE"
  <2>1. 0 \in 0 .. MaxSuperstep
    OBVIOUS
  <2>2. m \in Messages /\ e \in Messages
    BY <2>1, MessageTypes
  <2> QED
    BY <2>2 DEF Data, Mark
<1> PICK u : u = s \o d
  OBVIOUS
<1>2. u \in Seq(Messages) /\ \A i \in DOMAIN u : u[i].type = "DATA" => u[i].round = 0
  <2>1. CASE d = <<m>>
    <3>1. u = Append(s, m)
      BY <1>1, <2>1, AppendIsConcat
    <3>2. /\ u \in Seq(Messages) /\ Len(u) = Len(s) + 1 /\ u[Len(s) + 1] = m
          /\ \A i \in 1 .. Len(s) : u[i] = s[i]
      BY <1>1, <3>1, AppendProperties
    <3>3. DOMAIN u = 1 .. Len(s) + 1 /\ DOMAIN s = 1 .. Len(s) /\ Len(s) \in Nat
      BY <3>2, LenProperties
    <3>4. ASSUME NEW i \in DOMAIN u
          PROVE  u[i].type = "DATA" => u[i].round = 0
      <4>1. CASE i = Len(s) + 1
        BY <1>1, <3>2, <4>1
      <4>2. CASE i # Len(s) + 1
        <5>1. i \in 1 .. Len(s)
          BY <3>3, <4>2
        <5> QED
          BY <3>2, <3>3, <5>1
      <4> QED
        BY <4>1, <4>2
    <3> QED
      BY <3>2, <3>4
  <2>2. CASE d = <<>>
    BY <2>2, ConcatEmptySeq
  <2> QED
    BY <2>1, <2>2
<1>3. t = Append(u, e)
  BY <1>1, <1>2, AppendIsConcat
<1>4. /\ t \in Seq(Messages) /\ Len(t) = Len(u) + 1 /\ t[Len(u) + 1] = e
      /\ \A i \in 1 .. Len(u) : t[i] = u[i]
  BY <1>1, <1>2, <1>3, AppendProperties
<1>5. DOMAIN t = 1 .. Len(u) + 1 /\ DOMAIN u = 1 .. Len(u) /\ Len(u) \in Nat
  BY <1>2, <1>4, LenProperties
<1>6. t # <<>>
  BY <1>4, <1>5, EmptySeq
<1>7. ASSUME NEW i \in DOMAIN t
      PROVE  t[i].type = "DATA" => t[i].round = 0
  <2>1. CASE i = Len(u) + 1
    BY <1>1, <1>4, <2>1
  <2>2. CASE i # Len(u) + 1
    <3>1. i \in 1 .. Len(u)
      BY SMTT(30), <1>5, <2>2
    <3> QED
      BY <1>2, <1>4, <1>5, <3>1
  <2> QED
    BY <2>1, <2>2
<1> QED
  BY <1>1, <1>4, <1>6, <1>7

LEMMA MailCommands ==
  ASSUME MailInv, Commands
  PROVE  MailOK'
<1> USE DEF MailInv, MailOK, EndInv, BarrierInv
<1>1. AllIdle
  BY DEF Commands, InitPregelMessages, StartPregel, InitOnWorkers, ClearMessages, MayStart
<1>2. \A w \in Workers : pc[w] = "idle"
  BY <1>1 DEF AllIdle
<1>3. \A w \in Workers : \A p \in Peers(w) : p \in Workers /\ p \in Nodes /\ w \in Nodes
  BY DEF Peers, Nodes
<1>4. ASSUME NEW D \in Destinations, InitPregelMessages(D)
      PROVE  MailOK'
  <2>1. UNCHANGED <<pc, query, superstep, busy, inbox, received, monitors, queue>>
    BY <1>4 DEF InitPregelMessages, queryVars, monitorVars
  <2>2. \A w \in Workers :
          /\ \A p \in Peers(w) : socket'[w][p] = socket[w][p]
          /\ socket'[w][Master] =
                socket[w][Master] \o (IF w \in D THEN <<Data(0)>> ELSE <<>>)
                  \o <<Mark("INIT_DONE")>>
    <3>1. \A w \in Workers : socket[w] \in [Nodes -> Seq(Messages)]
      BY EndTypes
    <3> QED
      BY <1>4, <3>1 DEF InitPregelMessages, Peers, Nodes
  <2>3. DataOK'
    BY <2>1, <2>2, DataKept
  <2>4. MastersOK'
    <3>1. ASSUME NEW w \in Workers
          PROVE  LET t == socket'[w][Master] IN
                 /\ t # <<>> /\ t[Len(t)].type = "INIT_DONE"
                 /\ \A i \in DOMAIN t : t[i].type = "DATA" => t[i].round = 0
      <4> PICK s, t, d : /\ s = socket[w][Master] /\ t = socket'[w][Master]
                         /\ d = IF w \in D THEN <<Data(0)>> ELSE <<>>
        OBVIOUS
      <4>1. s \in Seq(Messages) /\ \A i \in DOMAIN s : s[i].type = "DATA" => s[i].round = 0
        BY EndTypes, NodeTypes DEF MastersOK
      <4>2. d \in {<<Data(0)>>, <<>>}
        OBVIOUS
      <4>3. t = s \o d \o <<Mark("INIT_DONE")>>
        BY <2>2, Zenon
      <4>4. /\ t # <<>> /\ t[Len(t)].type = "INIT_DONE"
            /\ \A i \in DOMAIN t : t[i].type = "DATA" => t[i].round = 0
        BY <4>1, <4>2, <4>3, MasterSends, Zenon
      <4> QED
        BY <4>4, Zenon
    <3> QED
      BY <3>1 DEF MastersOK
  <2>5. QueuesOK' /\ BusyOK' /\ InboxOK'
    BY <2>1 DEF QueuesOK, BusyOK, InboxOK, Collected, HasSent, InRound, Starting,
                AllIdle, HasMessages
  <2> QED
    BY <2>3, <2>4, <2>5
<1>5. ASSUME UNCHANGED <<superstep, busy, received, monitors, queue, socket>>,
             \A w \in Workers : pc'[w] \in {"idle", "begin"},
             AllIdle' \/ \A w \in Workers : pc'[w] = "begin",
             inbox' = inbox \/ inbox' = [w \in Workers |-> EmptyInbox]
      PROVE  MailOK'
  <2>1. \A w \in Workers : \A p \in Peers(w) :
          socket'[w][p] = <<>> /\ \A b \in Parities : ~(queue'[w][p][b] > 0)
    BY <1>1, <1>5, IdleSockets
  <2>2. DataOK'
    <3>1. DOMAIN <<>> = {}
      BY EmptySeq
    <3> QED
      BY <2>1, <3>1 DEF DataOK
  <2>3. MastersOK'
    BY <1>5 DEF MastersOK
  <2>4. QueuesOK'
    <3>1. \A w \in Workers : superstep'[w] % 2 \in Parities /\ (superstep'[w] + 1) % 2 \in Parities
      BY <1>5, MailTypes, Parity
    <3>2. \A w \in Workers : \A b \in Parities : queue'[w][w][b] = 0
      BY <1>5 DEF QueuesOK
    <3> QED
      BY <2>1, <3>1, <3>2 DEF QueuesOK
  <2>5. BusyOK'
    BY <1>5 DEF BusyOK, InRound
  <2>6. InboxOK'
    <3>1. \A w \in Workers : \A p \in Nodes : inbox'[w][(superstep'[w] - 1) % 2][p] = 0
      <4>1. CASE inbox' = inbox
        BY <1>2, <1>5, <4>1 DEF InboxOK
      <4>2. CASE inbox' = [w \in Workers |-> EmptyInbox]
        <5>1. \A w \in Workers : (superstep'[w] - 1) % 2 \in Parities
          BY <1>5, MailTypes, Parity
        <5> QED
          BY <4>2, <5>1 DEF EmptyInbox
      <4> QED
        BY <1>5, <4>1, <4>2
    <3>2. \A w \in Workers : AllIdle' \/ pc'[w] = "begin"
      BY <1>5
    <3> QED
      BY <3>1, <3>2 DEF InboxOK
  <2> QED
    BY <2>2, <2>3, <2>4, <2>5, <2>6
<1>6. ASSUME InitOnWorkers \/ \E n \in 1 .. MaxSuperstep : StartPregel(n)
      PROVE  MailOK'
  <2>1. /\ UNCHANGED <<superstep, busy, received, monitors, queue, socket, inbox>>
        /\ pc' = [w \in Workers |-> "begin"]
    BY <1>6 DEF InitOnWorkers, StartPregel, monitorVars, serverVars
  <2> QED
    BY <1>5, <2>1
<1>7. ASSUME ClearMessages
      PROVE  MailOK'
  <2>1. /\ UNCHANGED <<pc, superstep, busy, received, monitors, queue, socket>>
        /\ inbox' = [w \in Workers |-> EmptyInbox]
    BY <1>7 DEF ClearMessages, queryVars, monitorVars, serverVars
  <2>2. AllIdle'
    BY <1>1, <2>1 DEF AllIdle
  <2> QED
    BY <1>2, <1>5, <2>1, <2>2
<1> QED
  BY <1>4, <1>6, <1>7 DEF Commands

\* The others are in the superstep that w has finished, or in the next one.
LEMMA NobodyBehind ==
  ASSUME BarrierInv, NEW w \in Workers, NEW v \in Peers(w), pc[w] = "begin"
  PROVE  monitors[v] = monitors[w] \/ monitors[v] = monitors[w] + 1
<1> USE DEF BarrierInv
<1>1. v \in Workers /\ v \in Nodes /\ v # w
  BY DEF Peers, Nodes
<1>2. monitors[v] \in Nat /\ monitors[w] \in Nat
  BY <1>1, EndTypes
<1>3. ~Pending(w, v)
  BY DEF CountersOK, Open
<1>4. NrEnds(socket[w][v]) \in Nat
  BY <1>1, EndTypes, EndsType
<1>5. Handled(w, v) = monitors[w] /\ Held(w, v) \in Nat /\ Ended(v) <= monitors[v]
  BY <1>2, <1>3 DEF Handled, Held, Ended
<1>6. Handled(w, v) + Held(w, v) + NrEnds(socket[w][v]) = Ended(v)
  BY DEF EndsOK
<1>7. monitors[w] <= monitors[v]
  <2>1. Ended(v) \in Int
    BY <1>2 DEF Ended
  <2> QED
    BY <1>2, <1>4, <1>5, <1>6, <2>1
<1>8. monitors[v] > monitors[w] => monitors[v] = monitors[w] + 1
  BY <1>1, BarrierHolds DEF Barrier
<1> QED
  BY <1>2, <1>7, <1>8

LEMMA MailBegin ==
  ASSUME MailInv, NEW w \in Workers, BeginSuperstep(w) \/ BeginInit(w)
  PROVE  MailOK'
<1> USE DEF MailInv, MailOK, EndInv, BarrierInv
<1>1. /\ pc[w] = "begin" /\ pc' = [pc EXCEPT ![w] = "compute"]
      /\ NewMonitor(w)
      /\ UNCHANGED <<query, inbox, queue, socket>>
  BY DEF BeginSuperstep, BeginInit, serverVars
<1>2. /\ pc'[w] = "compute" /\ monitors'[w] = monitors[w] + 1 /\ received'[w] = FALSE
      /\ \A v \in Workers : v # w =>
            /\ pc'[v] = pc[v] /\ monitors'[v] = monitors[v] /\ received'[v] = received[v]
  BY <1>1, EndTypes DEF NewMonitor
<1>3. \/ /\ Starting
         /\ superstep' = [superstep EXCEPT ![w] = @ + 1]
         /\ busy' = [busy EXCEPT ![w] = HasMessages(w, superstep[w])]
      \/ /\ ~Starting
         /\ superstep' = superstep
         /\ busy' = [busy EXCEPT ![w] = TRUE]
  BY DEF BeginSuperstep, BeginInit, Starting
<1> PICK n \in Nat : n = superstep[w]
  BY MailTypes
<1> PICK k \in Nat : k = monitors[w]
  BY EndTypes
<1>4. /\ \A v \in Workers : v # w => superstep'[v] = superstep[v] /\ busy'[v] = busy[v]
      /\ Starting => superstep'[w] = n + 1 /\ busy'[w] = HasMessages(w, n)
      /\ ~Starting => superstep'[w] = n /\ busy'[w] = TRUE
  BY <1>3, EndTypes, MailTypes
<1>5. ~AllIdle /\ ~AllIdle' /\ Starting' = Starting
  BY <1>1, <1>2 DEF AllIdle, Starting
<1>6. \A v \in Workers : \A p \in Peers(v) : v \in Workers /\ p \in Workers /\ p # v /\ p \in Nodes
  BY DEF Peers, Nodes
<1>7. \A v \in Workers : monitors[v] \in Nat
  BY EndTypes
<1>8. \A v \in Peers(w) : monitors[v] = k \/ monitors[v] = k + 1
  BY <1>1, NobodyBehind
<1>9. \A v \in Workers : v # w => /\ Collected(v)' = Collected(v) /\ Late(v)' = Late(v)
                                  /\ InRound(v)' = InRound(v)
  BY <1>2, <1>5 DEF Collected, InRound, Late
<1>10. ~Collected(w)' /\ Late(w)' = 0
  BY <1>2 DEF Collected, InRound, Late
<1>11. DataOK'
  <2>1. \A p \in Workers : Ended(p)' = Ended(p)
    BY <1>1, <1>2, <1>7 DEF Ended
  <2>2. \A v \in Workers : superstep'[v] + monitors[v] + Late(v) = superstep[v] + monitors'[v] + Late(v)'
    <3>1. superstep'[w] + k + Late(w) = n + (k + 1) + 0
      BY <1>1, <1>4 DEF Late
    <3>2. \A v \in Workers : v # w => superstep'[v] + monitors[v] + Late(v) = superstep[v] + monitors'[v] + Late(v)'
      BY <1>2, <1>4, <1>9
    <3> QED
      BY <1>2, <1>10, <3>1, <3>2
  <2>3. ASSUME NEW v \in Workers, NEW p \in Peers(v), NEW i \in DOMAIN socket[v][p]
        PROVE  Fits(v, p, socket[v][p][i], Belongs(v, p, i))'
    <3>1. Belongs(v, p, i)' = Belongs(v, p, i)
      BY <1>1, <1>6, <2>1 DEF Belongs
    <3> PICK m : m = socket[v][p][i]
      OBVIOUS
    <3>2. Ended(p) \in Int /\ After(socket[v][p], i) \in Nat /\ m \in Messages
      BY <1>6, MailTypes, PeerPlaces
    <3> PICK j : j = Belongs(v, p, i)
      OBVIOUS
    <3>3. j \in Int
      BY <3>2 DEF Belongs
    <3>4. ASSUME m.type = "DATA"
          PROVE  Fits(v, p, m, j)'
      <4>1. /\ m.round - superstep[v] = j - monitors[v] - Late(v)
            /\ j <= Ended(p)
            /\ j = monitors[p] => busy[p]
        <5>1. Fits(v, p, m, j)
          BY DEF DataOK
        <5> QED
          BY <3>4, <5>1, FitsMeans
      <4>2. m.round \in Int /\ superstep[v] \in Int /\ superstep'[v] \in Int
            /\ monitors[v] \in Int /\ monitors'[v] \in Int /\ Late(v) \in Int /\ Late(v)' \in Int
        <5>1. m.round \in Int /\ superstep[v] \in Int /\ Late(v) \in Int /\ Late(v)' \in Int
          BY <3>2, <3>4, MailTypes DEF Messages, Late
        <5>2. superstep'[v] \in Int /\ monitors[v] \in Int /\ monitors'[v] \in Int
          BY <1>2, <1>4, <1>7, <5>1
        <5> QED
          BY <5>1, <5>2
      <4>3. m.round - superstep'[v] = j - monitors'[v] - Late(v)'
        <5> PICK r, s, s1 \in Int : r = m.round /\ s = superstep[v] /\ s1 = superstep'[v]
          BY <4>2
        <5> PICK a, a1, l, l1 \in Int : a = monitors[v] /\ a1 = monitors'[v] /\ l = Late(v) /\ l1 = Late(v)'
          BY <4>2
        <5>1. r - s = j - a - l /\ s1 + a + l = s + a1 + l1
          BY <2>2, <4>1
        <5>2. r - s1 = j - a1 - l1
          BY <3>3, <5>1
        <5> QED
          BY <5>2
      <4>4. j = monitors'[p] => busy'[p]
        <5>1. CASE p = w
          <6>1. Ended(w) = k
            BY <1>1 DEF Ended
          <6> QED
            BY <1>2, <3>3, <4>1, <5>1, <6>1
        <5>2. CASE p # w
          BY <1>2, <1>4, <1>6, <4>1, <5>2
        <5> QED
          BY <5>1, <5>2
      <4> QED
        BY <1>6, <2>1, <4>1, <4>3, <4>4 DEF Fits
    <3>5. Fits(v, p, m, j)'
      BY <3>4 DEF Fits
    <3> QED
      BY <1>1, <3>1, <3>5 DEF Fits
  <2> QED
    BY <1>1, <2>3 DEF DataOK
<1>12. MastersOK'
  BY <1>1 DEF MastersOK
<1>13. ASSUME NEW v \in Workers, v # w, NEW p \in Peers(v), HasSent(v, p)
       PROVE  HasSent(v, p)'
  <2>1. CASE p = w
    BY <1>2, <1>7, <1>13, <2>1 DEF HasSent
  <2>2. CASE p # w
    BY <1>2, <1>4, <1>6, <1>13, <2>2 DEF HasSent
  <2> QED
    BY <2>1, <2>2
<1>14. QueuesOK'
  <2>1. ASSUME NEW p \in Peers(w)
        PROVE  /\ queue'[w][p][superstep'[w] % 2] > 0 => ~Collected(w)' /\ HasSent(w, p)'
               /\ queue'[w][p][(superstep'[w] + 1) % 2] > 0 =>
                    Starting' /\ monitors'[p] > monitors'[w] /\ busy'[p]
    <3>1. /\ queue[w][p][n % 2] > 0 => ~Collected(w) /\ HasSent(w, p)
          /\ queue[w][p][(n + 1) % 2] > 0 => Starting /\ monitors[p] > k /\ busy[p]
      BY DEF QueuesOK
    <3>2. monitors'[p] = monitors[p] /\ busy'[p] = busy[p] /\ monitors[p] \in Nat
          /\ monitors'[w] = k + 1
      BY <1>2, <1>4, <1>6, <1>7
    <3>3. monitors[p] > k => monitors[p] = k + 1
      BY <1>8, <3>2
    <3>4. CASE Starting
      <4>1. ((n + 1) + 1) % 2 = n % 2
        BY Parity
      <4>2. ~(queue[w][p][n % 2] > 0)
        BY <1>1, <3>1, <3>4 DEF Collected
      <4>3. queue[w][p][(n + 1) % 2] > 0 => HasSent(w, p)'
        BY <1>2, <3>1, <3>2, <3>3 DEF HasSent
      <4>4. superstep'[w] = n + 1 /\ queue' = queue
        BY <1>1, <1>4, <3>4
      <4> QED
        BY <1>10, <4>1, <4>2, <4>3, <4>4
    <3>5. CASE ~Starting
      <4>1. ~(queue[w][p][(n + 1) % 2] > 0)
        BY <3>1, <3>5
      <4>2. ASSUME HasSent(w, p)
            PROVE  HasSent(w, p)'
        <5>1. monitors[p] = k + 1
          BY <1>1, <3>3, <4>2 DEF HasSent
        <5>2. monitors[p] + (IF pc[p] = "begin" THEN 1 ELSE 0) = k + 1
          BY <1>1, <1>6, <3>5 DEF RanksOK
        <5>3. pc[p] # "begin"
          BY <5>1, <5>2
        <5>4. pc[p] # "idle"
          BY <1>6, <5>1 DEF LeaveOK
        <5>5. pc[p] \in {"idle", "begin", "compute", "join"}
          BY <1>6, EndTypes
        <5>6. busy[p]
          BY <1>6, <3>5, <5>3, <5>4, <5>5 DEF BusyOK, InRound
        <5> QED
          BY <1>2, <3>2, <5>1, <5>6 DEF HasSent
      <4>3. superstep'[w] = n /\ queue' = queue
        BY <1>1, <1>4, <3>5
      <4> QED
        BY <1>10, <3>1, <4>1, <4>2, <4>3
    <3> QED
      BY <3>4, <3>5
  <2>2. ASSUME NEW v \in Workers, v # w, NEW p \in Peers(v)
        PROVE  /\ queue'[v][p][superstep'[v] % 2] > 0 => ~Collected(v)' /\ HasSent(v, p)'
               /\ queue'[v][p][(superstep'[v] + 1) % 2] > 0 =>
                    Starting' /\ monitors'[p] > monitors'[v] /\ busy'[p]
    <3>1. /\ queue[v][p][superstep[v] % 2] > 0 => ~Collected(v) /\ HasSent(v, p)
          /\ queue[v][p][(superstep[v] + 1) % 2] > 0 =>
               Starting /\ monitors[p] > monitors[v] /\ busy[p]
      BY DEF QueuesOK
    <3>2. p = w => ~(monitors[p] > monitors[v])
      <4>1. v \in Peers(w)
        BY <2>2 DEF Peers
      <4> QED
        BY <1>7, <1>8, <4>1
    <3>3. p # w => monitors'[p] = monitors[p] /\ busy'[p] = busy[p]
      BY <1>2, <1>4, <1>6
    <3>4. queue' = queue /\ superstep'[v] = superstep[v] /\ monitors'[v] = monitors[v]
      BY <1>1, <1>2, <1>4, <2>2
    <3>5. Collected(v)' = Collected(v) /\ (HasSent(v, p) => HasSent(v, p)')
      BY <1>9, <1>13, <2>2
    <3> QED
      BY <1>5, <3>1, <3>2, <3>3, <3>4, <3>5
  <2>3. \A v \in Workers : \A b \in Parities : queue'[v][v][b] = 0
    BY <1>1 DEF QueuesOK
  <2> QED
    BY <2>1, <2>2, <2>3 DEF QueuesOK
<1>15. BusyOK'
  <2>1. ASSUME Starting
        PROVE  busy'[w] <=> \E p \in Nodes : inbox'[w][(superstep'[w] - 1) % 2][p] > 0
    <3>1. superstep'[w] - 1 = n
      BY <1>4, <2>1
    <3> QED
      BY <1>1, <1>4, <2>1, <3>1 DEF HasMessages
  <2>2. ASSUME NEW v \in Workers
        PROVE  /\ ~Starting' /\ InRound(v)' => busy'[v]
               /\ Starting' /\ pc'[v] = "compute" =>
                    (busy'[v] <=> \E p \in Nodes : inbox'[v][(superstep'[v] - 1) % 2][p] > 0)
    <3>1. CASE v = w
      BY <1>4, <1>5, <2>1, <3>1
    <3>2. CASE v # w
      <4>1. /\ InRound(v)' = InRound(v) /\ busy'[v] = busy[v] /\ inbox' = inbox
            /\ pc'[v] = pc[v] /\ superstep'[v] = superstep[v]
        BY <1>1, <1>2, <1>4, <1>9, <3>2
      <4>2. Starting /\ pc[v] = "compute" =>
              (busy[v] <=> \E p \in Nodes : inbox[v][(superstep[v] - 1) % 2][p] > 0)
        BY DEF BusyOK, HasMessages
      <4> QED
        BY <1>5, <4>1, <4>2 DEF BusyOK
    <3> QED
      BY <3>1, <3>2
  <2> QED
    BY <2>2 DEF BusyOK, HasMessages
<1>16. InboxOK'
  <2>1. ASSUME NEW v \in Workers, ~(Starting' /\ pc'[v] = "compute"), NEW p \in Nodes
        PROVE  inbox'[v][(superstep'[v] - 1) % 2][p] = 0
    <3>1. CASE v = w
      BY <1>1, <1>2, <1>4, <1>5, <2>1, <3>1 DEF InboxOK
    <3>2. CASE v # w
      BY <1>1, <1>2, <1>4, <1>5, <2>1, <3>2 DEF InboxOK
    <3> QED
      BY <3>1, <3>2
  <2>2. ASSUME NEW v \in Workers, Starting', pc'[v] # "begin", NEW p \in Nodes,
               inbox'[v][superstep'[v] % 2][p] > 0
        PROVE  \/ p = v /\ busy'[v]
               \/ p \in Peers(v) /\ HasSent(v, p)'
    <3>1. CASE v = w
      <4>1. superstep'[w] = n + 1 /\ (n - 1) % 2 = (n + 1) % 2
        BY <1>4, <1>5, <2>2, Parity
      <4>2. inbox[w][(n - 1) % 2][p] = 0
        BY <1>1 DEF InboxOK
      <4> QED
        BY <1>1, <2>2, <3>1, <4>1, <4>2
    <3>2. CASE v # w
      <4>1. inbox[v][superstep[v] % 2][p] > 0 /\ pc[v] # "begin"
        BY <1>1, <1>2, <1>4, <2>2, <3>2
      <4>2. \/ p = v /\ busy[v]
            \/ p \in Peers(v) /\ HasSent(v, p)
        BY <1>5, <2>2, <4>1 DEF InboxOK
      <4> QED
        BY <1>4, <1>13, <3>2, <4>2
    <3> QED
      BY <3>1, <3>2
  <2> QED
    BY <2>1, <2>2 DEF InboxOK
<1> QED
  BY <1>11, <1>12, <1>14, <1>15, <1>16

LEMMA ComputedInbox ==
  ASSUME AllRead, TypeInv, NEW w \in Workers, NEW D, Compute(w, D) \/ Distribute(w, D)
  PROVE  LET n == superstep[w] IN
         /\ \A v \in Workers : v # w => inbox'[v] = inbox[v]
         /\ \A p \in Nodes :
              /\ inbox'[w][n % 2][p] = inbox[w][n % 2][p] + (IF p = w /\ w \in D THEN 1 ELSE 0)
              /\ inbox'[w][(n + 1) % 2][p] =
                   IF Starting THEN 0 ELSE inbox[w][(n + 1) % 2][p]
<1> PICK n \in Nat : n = superstep[w]
  BY MailTypes
<1> PICK b, c : b = n % 2 /\ c = (n + 1) % 2
  OBVIOUS
<1>1. b \in Parities /\ c \in Parities /\ b # c /\ (n - 1) % 2 = c
  BY Parity
<1> PICK old : old = inbox[w]
  OBVIOUS
<1>2. old \in [Parities -> [Nodes -> Nat]] /\ w \in Nodes
  BY MailTypes, NodeTypes
<1> PICK box : box = IF Starting THEN [old EXCEPT ![c] = [p \in Nodes |-> 0]] ELSE old
  OBVIOUS
<1>3. box \in [Parities -> [Nodes -> Nat]] /\ box[b] = old[b]
      /\ \A p \in Nodes : box[c][p] = IF Starting THEN 0 ELSE old[c][p]
  BY <1>1, <1>2
<1>4. inbox' = [inbox EXCEPT ![w] = Looped(w, D, box)]
  <2>1. CASE Compute(w, D)
    <3>1. inbox' = [inbox EXCEPT ![w] = Looped(w, D, Feed(@, superstep[w] - 1, {}))]
      BY <2>1 DEF Compute, AllRead
    <3>2. Feed(old, superstep[w] - 1, {}) = [old EXCEPT ![c] = [p \in Nodes |-> 0]]
      BY <1>1 DEF Feed
    <3>3. Starting
      BY <2>1 DEF Compute, Starting
    <3> QED
      BY <3>1, <3>2, <3>3, MailTypes
  <2>2. CASE Distribute(w, D)
    <3>1. ~Starting
      BY <2>2 DEF Distribute, Starting
    <3> QED
      BY <2>2, <3>1, MailTypes DEF Distribute
  <2> QED
    BY <2>1, <2>2
<1>5. /\ inbox'[w] = Looped(w, D, box)
      /\ \A v \in Workers : v # w => inbox'[v] = inbox[v]
  BY <1>4, MailTypes
<1>6. Looped(w, D, box) = [box EXCEPT ![b][w] = IF w \in D THEN @ + 1 ELSE @]
  BY DEF Looped
<1>7. /\ inbox'[w][c] = box[c]
      /\ \A p \in Nodes : inbox'[w][b][p] = box[b][p] + (IF p = w /\ w \in D THEN 1 ELSE 0)
  BY <1>1, <1>2, <1>3, <1>5, <1>6
<1> QED
  BY <1>3, <1>5, <1>7

\* The socket t is s with another message.
Extended(s, m, t) == s \in Seq(Messages) /\ m \in Messages /\ t = Append(s, m)

\* The socket t is s with a message d, if it is sent, and a message m.
Receives(s, d, m, sends, t) ==
  /\ s \in Seq(Messages) /\ d \in Messages /\ m \in Messages /\ sends \in BOOLEAN
  /\ t = s \o (IF sends THEN <<d>> ELSE <<>>) \o <<m>>

LEMMA ReceivesExtends ==
  ASSUME NEW s, NEW d, NEW m, NEW sends, NEW t, Receives(s, d, m, sends, t)
  PROVE  IF sends THEN \E u : Extended(s, d, u) /\ Extended(u, m, t) ELSE Extended(s, m, t)
<1> USE DEF Receives
<1>1. CASE sends
  <2>1. s \o <<d>> = Append(s, d)
    BY AppendIsConcat
  <2>2. Append(s, d) \in Seq(Messages)
    BY AppendProperties
  <2>3. Append(s, d) \o <<m>> = Append(Append(s, d), m)
    BY <2>2, AppendIsConcat
  <2>4. Extended(s, d, Append(s, d)) /\ Extended(Append(s, d), m, Append(Append(s, d), m))
    BY <2>2 DEF Extended
  <2>5. Extended(Append(s, d), m, t)
    BY <1>1, <2>1, <2>3, <2>4
  <2> QED
    BY <1>1, <2>4, <2>5
<1>2. CASE ~sends
  <2>1. s \o <<>> = s
    BY ConcatEmptySeq
  <2>2. s \o <<m>> = Append(s, m)
    BY AppendIsConcat
  <2>3. Extended(s, m, t)
    BY <1>2, <2>1, <2>2 DEF Extended
  <2> QED
    BY <1>2, <2>3
<1> QED
  BY <1>1, <1>2

LEMMA AppendPlaces ==
  ASSUME NEW s, NEW m, NEW t, Extended(s, m, t), NEW i \in DOMAIN t
  PROVE  \/ /\ i \in DOMAIN s /\ t[i] = s[i]
            /\ IsEnd(m) => After(t, i) = After(s, i) + 1
            /\ ~IsEnd(m) => After(t, i) = After(s, i)
         \/ /\ t[i] = m
            /\ IsEnd(m) => After(t, i) = 1
            /\ ~IsEnd(m) => After(t, i) = 0
<1> USE DEF Extended
<1> PICK n \in Nat : n = Len(s)
  BY LenProperties
<1>1. t \in Seq(Messages) /\ Len(t) = n + 1 /\ t[n + 1] = m
  BY AppendProperties
<1>2. DOMAIN t = 1 .. n + 1 /\ DOMAIN s = 1 .. n
  BY <1>1, LenProperties
<1>3. i \in 1 .. n + 1
  BY <1>2
<1>4. /\ After(t, i) = After(s, i) + (IF IsEnd(m) THEN 1 ELSE 0)
      /\ i <= n => t[i] = s[i]
  BY <1>3, AfterAppend
<1>5. After(s, i) \in Nat
  BY <1>3, AfterType
<1>6. CASE i = n + 1
  <2>1. After(s, i) = 0
    BY <1>6, AfterLast
  <2> QED
    BY <1>1, <1>4, <1>6, <2>1
<1>7. CASE i # n + 1
  <2>1. i \in 1 .. n /\ i <= n
    BY <1>3, <1>7
  <2> QED
    BY <1>2, <1>4, <1>5, <2>1
<1> QED
  BY <1>6, <1>7

LEMMA SentPlaces ==
  ASSUME NEW s, NEW d, NEW m, NEW u, NEW t, Extended(s, d, u), Extended(u, m, t),
         ~IsEnd(d), IsEnd(m), NEW i \in DOMAIN t
  PROVE  \/ i \in DOMAIN s /\ t[i] = s[i] /\ After(t, i) = After(s, i) + 1
         \/ t[i] = d /\ After(t, i) = 1
         \/ t[i] = m
<1>1. \/ i \in DOMAIN u /\ t[i] = u[i] /\ After(t, i) = After(u, i) + 1
      \/ t[i] = m
  BY AppendPlaces
<1>2. ASSUME i \in DOMAIN u
      PROVE  \/ i \in DOMAIN s /\ u[i] = s[i] /\ After(u, i) = After(s, i)
             \/ u[i] = d /\ After(u, i) = 0
  BY <1>2, AppendPlaces
<1> QED
  BY <1>1, <1>2

LEMMA SentReceives ==
  ASSUME TypeInv, NEW w \in Workers, NEW D, socket' = Sent(w, D)
  PROVE  /\ \A v \in Workers : v # w =>
               \E sends \in BOOLEAN, t \in {"EMPTY", "FINISH"} :
                 /\ sends <=> v \in D
                 /\ Receives(socket[v][w], Data(superstep[w]), Mark(t), sends, socket'[v][w])
         /\ \A v \in Workers, p \in Nodes : v = w \/ p # w => socket'[v][p] = socket[v][p]
<1>1. socket \in [Workers -> [Nodes -> Seq(Messages)]] /\ w \in Nodes
  BY EndTypes, NodeTypes
<1>2. ASSUME NEW v \in Workers, v # w
      PROVE  \E sends \in BOOLEAN, t \in {"EMPTY", "FINISH"} :
                 /\ sends <=> v \in D
                 /\ Receives(socket[v][w], Data(superstep[w]), Mark(t), sends, socket'[v][w])
  <2> PICK sends \in BOOLEAN : sends <=> v \in D
    OBVIOUS
  <2> PICK t \in {"EMPTY", "FINISH"} : t = IF busy[w] THEN "FINISH" ELSE "EMPTY"
    OBVIOUS
  <2>1. socket'[v][w] = socket[v][w] \o (IF v \in D THEN <<Data(superstep[w])>> ELSE <<>>)
                                     \o <<Mark(t)>>
    BY <1>1, <1>2 DEF Sent
  <2>2. Data(superstep[w]) \in Messages /\ Mark(t) \in Messages
    <3>1. superstep[w] \in 0 .. MaxSuperstep
      BY DEF TypeInv, PregelTypeOK
    <3> QED
      BY <3>1, MessageTypes
  <2>3. Receives(socket[v][w], Data(superstep[w]), Mark(t), sends, socket'[v][w])
    BY <1>1, <2>1, <2>2 DEF Receives
  <2> QED
    BY <2>3
<1>3. \A v \in Workers, p \in Nodes : v = w \/ p # w => socket'[v][p] = socket[v][p]
  BY <1>1 DEF Sent
<1> QED
  BY <1>2, <1>3

LEMMA SentMail ==
  ASSUME TypeInv, NEW w \in Workers, NEW D, NEW v \in Workers, v # w, socket' = Sent(w, D)
  PROVE  LET s == socket[v][w]
             t == socket'[v][w]
         IN  \A i \in DOMAIN t :
               \/ i \in DOMAIN s /\ t[i] = s[i] /\ After(t, i) = After(s, i) + 1
               \/ t[i] = Data(superstep[w]) /\ v \in D /\ After(t, i) = 1
               \/ t[i].type # "DATA"
<1> PICK s, d, t : s = socket[v][w] /\ d = Data(superstep[w]) /\ t = socket'[v][w]
  OBVIOUS
<1> PICK sends \in BOOLEAN, type \in {"EMPTY", "FINISH"} :
      /\ sends <=> v \in D
      /\ Receives(s, d, Mark(type), sends, t)
  BY SentReceives
<1> PICK m : m = Mark(type)
  OBVIOUS
<1>1. /\ m.type # "DATA" /\ IsEnd(m) /\ ~IsEnd(d)
      /\ Receives(s, d, m, sends, t)
  BY DEF IsEnd, Mark, Data
<1>2. IF sends THEN \E u : Extended(s, d, u) /\ Extended(u, m, t) ELSE Extended(s, m, t)
  BY <1>1, ReceivesExtends
<1> SUFFICES ASSUME NEW i \in DOMAIN t
             PROVE  \/ i \in DOMAIN s /\ t[i] = s[i] /\ After(t, i) = After(s, i) + 1
                    \/ t[i] = d /\ sends /\ After(t, i) = 1
                    \/ t[i].type # "DATA"
  OBVIOUS
<1>3. CASE sends
  <2> PICK u : Extended(s, d, u) /\ Extended(u, m, t)
    BY <1>2, <1>3
  <2>1. \/ i \in DOMAIN s /\ t[i] = s[i] /\ After(t, i) = After(s, i) + 1
        \/ t[i] = d /\ After(t, i) = 1
        \/ t[i] = m
    BY <1>1, SentPlaces
  <2> QED
    BY <1>1, <1>3, <2>1
<1>4. CASE ~sends
  <2>1. \/ i \in DOMAIN s /\ t[i] = s[i] /\ After(t, i) = After(s, i) + 1
        \/ t[i] = m
    BY <1>1, <1>2, <1>4, AppendPlaces
  <2> QED
    BY <1>1, <2>1
<1> QED
  BY <1>3, <1>4

LEMMA MailCompute ==
  ASSUME AllRead, MailInv, NEW w \in Workers, NEW D, Compute(w, D) \/ Distribute(w, D)
  PROVE  MailOK'
<1> USE DEF MailInv, MailOK, EndInv, BarrierInv
<1>1. /\ pc[w] = "compute" /\ pc' = [pc EXCEPT ![w] = "join"]
      /\ socket' = Sent(w, D)
      /\ UNCHANGED <<query, superstep, busy, received, monitors, queue>>
  BY DEF Compute, Distribute, monitorVars, serverVars
<1>2. pc'[w] = "join" /\ \A v \in Workers : v # w => pc'[v] = pc[v]
  BY <1>1, EndTypes
<1> PICK n \in Nat : n = superstep[w]
  BY MailTypes
<1> PICK k \in Nat : k = monitors[w]
  BY EndTypes
<1>3. /\ \A v \in Workers : v # w => inbox'[v] = inbox[v]
      /\ \A p \in Nodes :
           /\ inbox'[w][n % 2][p] = inbox[w][n % 2][p] + (IF p = w /\ w \in D THEN 1 ELSE 0)
           /\ inbox'[w][(n + 1) % 2][p] = IF Starting THEN 0 ELSE inbox[w][(n + 1) % 2][p]
  BY ComputedInbox
<1>4. \A v, p \in Workers : /\ Late(v)' = Late(v) /\ InRound(v)' = InRound(v)
                            /\ Collected(v)' = Collected(v) /\ HasSent(v, p)' = HasSent(v, p)
  <2>1. \A v \in Workers : /\ (pc'[v] = "begin" <=> pc[v] = "begin")
                           /\ (pc'[v] = "idle" <=> pc[v] = "idle")
                           /\ InRound(v)' = InRound(v)
    BY <1>1, <1>2 DEF InRound
  <2> QED
    BY <1>1, <2>1 DEF Late, Collected, HasSent, Starting
<1>5. ~AllIdle /\ ~AllIdle' /\ Starting' = Starting
  BY <1>1, <1>2 DEF AllIdle, Starting
<1>6. D # {} => busy[w]
  <2>1. CASE Compute(w, D)
    BY <1>1, <2>1 DEF Compute, AllRead, BusyOK, Starting
  <2>2. CASE Distribute(w, D)
    BY <1>1, <2>2 DEF Distribute, BusyOK, Starting, InRound
  <2> QED
    BY <2>1, <2>2
<1>7. \A v \in Workers : \A p \in Peers(v) : v \in Workers /\ p \in Workers /\ p # v /\ p \in Nodes
  BY DEF Peers, Nodes
<1>8. \A v \in Workers, p \in Nodes : p # w => socket'[v][p] = socket[v][p]
  BY <1>1, EndTypes DEF Sent
<1>9. /\ Ended(w) = k - 1 /\ Ended(w)' = k
      /\ \A p \in Workers : p # w => Ended(p)' = Ended(p)
  BY <1>1, <1>2 DEF Ended
<1>10. ASSUME NEW v \in Workers, NEW p \in Peers(v), NEW i \in DOMAIN socket'[v][p]
       PROVE  Fits(v, p, socket[v][p][i], Belongs(v, p, i))'
  <2>1. CASE p # w
    <3>1. socket'[v][p] = socket[v][p] /\ Ended(p)' = Ended(p)
      BY <1>7, <1>8, <1>9, <2>1
    <3>2. Belongs(v, p, i)' = Belongs(v, p, i)
      BY <3>1 DEF Belongs
    <3>3. Fits(v, p, socket[v][p][i], Belongs(v, p, i))
      BY <3>1 DEF DataOK
    <3> QED
      BY <1>1, <1>4, <3>1, <3>2, <3>3 DEF Fits
  <2>2. CASE p = w
    <3> PICK s : s = socket[v][w]
      OBVIOUS
    <3> PICK t : t = socket'[v][w]
      OBVIOUS
    <3>1. v # w /\ i \in DOMAIN t
      BY <1>7, <2>2
    <3>2. \/ i \in DOMAIN s /\ t[i] = s[i] /\ After(t, i) = After(s, i) + 1
          \/ t[i] = Data(n) /\ v \in D /\ After(t, i) = 1
          \/ t[i].type # "DATA"
      BY <1>1, <3>1, SentMail
    <3>3. Belongs(v, p, i)' = k + 1 - After(t, i)
      BY <1>9, <2>2 DEF Belongs
    <3>4. CASE i \in DOMAIN s /\ t[i] = s[i] /\ After(t, i) = After(s, i) + 1
      <4>1. After(s, i) \in Nat
        BY <1>7, <2>2, <3>4, PeerPlaces
      <4> PICK j : j = Belongs(v, w, i)
        OBVIOUS
      <4>2. j = k - After(s, i) /\ j \in Int
        BY <1>9, <4>1 DEF Belongs
      <4>3. Belongs(v, p, i)' = j
        BY <3>3, <3>4, <4>1, <4>2
      <4>4. Fits(v, w, s[i], j)
        BY <2>2, <3>4 DEF DataOK
      <4>5. ASSUME s[i].type = "DATA"
            PROVE  /\ s[i].round - superstep[v] = j - monitors[v] - Late(v)
                   /\ j <= k - 1
        BY <1>9, <4>4, <4>5, FitsMeans
      <4>6. s[i].type = "DATA" => j <= k /\ j # k
        BY <4>2, <4>5
      <4> QED
        BY <1>1, <1>4, <1>9, <2>2, <3>4, <4>3, <4>5, <4>6 DEF Fits
    <3>5. CASE t[i] = Data(n) /\ v \in D /\ After(t, i) = 1
      <4>1. Belongs(v, p, i)' = k
        BY <3>3, <3>5
      <4>2. n - superstep[v] = k - monitors[v] - Late(v)
        <5>1. superstep[v] \in Nat /\ monitors[v] \in Nat
          BY MailTypes
        <5>2. CASE Starting
          <6>1. superstep[v] - monitors[v] = n - k
            BY <5>2 DEF RanksOK
          <6>2. Late(v) = 0
            BY <5>2 DEF Late
          <6> QED
            BY <5>1, <6>1, <6>2
        <5>3. CASE ~Starting
          <6>1. superstep[v] = n
            BY <5>3 DEF RanksOK
          <6>2. monitors[v] + (IF pc[v] = "begin" THEN 1 ELSE 0) = k + 0
            BY <1>1, <5>3 DEF RanksOK
          <6>3. Late(v) = IF pc[v] = "begin" THEN 1 ELSE 0
            BY <5>3 DEF Late
          <6> QED
            BY <5>1, <6>1, <6>2, <6>3
        <5> QED
          BY <5>2, <5>3
      <4>3. busy[w] /\ t[i].round = n
        BY <1>6, <3>5 DEF Data
      <4> QED
        BY <1>1, <1>4, <1>9, <2>2, <4>1, <4>2, <4>3 DEF Fits
    <3>6. CASE t[i].type # "DATA"
      BY <2>2, <3>6 DEF Fits
    <3> QED
      BY <3>2, <3>4, <3>5, <3>6
  <2> QED
    BY <2>1, <2>2
<1>11. DataOK'
  BY <1>10 DEF DataOK
<1>12. MastersOK'
  <2>1. \A v \in Workers : socket'[v][Master] = socket[v][Master]
    BY <1>8, NodeTypes
  <2> QED
    BY <1>1, <2>1 DEF MastersOK
<1>13. QueuesOK'
  BY <1>1, <1>4, <1>5, <1>7 DEF QueuesOK
<1>14. BusyOK'
  BY <1>1, <1>2, <1>3, <1>4, <1>5 DEF BusyOK, HasMessages
<1>15. InboxOK'
  <2>1. (n - 1) % 2 = (n + 1) % 2
    BY Parity
  <2>2. ASSUME NEW v \in Workers, ~(Starting /\ pc'[v] = "compute"), NEW p \in Nodes
        PROVE  inbox'[v][(superstep[v] - 1) % 2][p] = 0
    <3>1. CASE v = w
      BY <1>1, <1>3, <2>1, <3>1 DEF InboxOK
    <3>2. CASE v # w
      BY <1>2, <1>3, <2>2, <3>2 DEF InboxOK
    <3> QED
      BY <3>1, <3>2
  <2>3. ASSUME NEW v \in Workers, Starting, pc'[v] # "begin", NEW p \in Nodes,
               inbox'[v][superstep[v] % 2][p] > 0
        PROVE  \/ p = v /\ busy[v]
               \/ p \in Peers(v) /\ HasSent(v, p)
    <3>1. CASE inbox[v][superstep[v] % 2][p] > 0
      <4>1. pc[v] # "begin"
        BY <1>1, <1>2, <2>3
      <4> QED
        BY <1>5, <2>3, <3>1, <4>1 DEF InboxOK
    <3>2. CASE ~(inbox[v][superstep[v] % 2][p] > 0)
      <4>1. v = w
        BY <1>3, <2>3, <3>2
      <4>2. inbox[w][n % 2][p] \in Nat
        BY MailTypes, Parity
      <4>3. p = w /\ w \in D
        BY <1>3, <2>3, <3>2, <4>1, <4>2
      <4> QED
        BY <1>6, <4>1, <4>3
    <3> QED
      BY <3>1, <3>2
  <2>4. \A v \in Workers : \A p \in Peers(v) : HasSent(v, p)' = HasSent(v, p)
    BY <1>4, <1>7
  <2> QED
    BY <1>1, <1>5, <2>2, <2>3, <2>4 DEF InboxOK
<1> QED
  BY <1>11, <1>12, <1>13, <1>14, <1>15

LEMMA MailJoin ==
  ASSUME MailInv, NEW w \in Workers, Join(w)
  PROVE  MailOK'
<1> USE DEF MailInv, MailOK, EndInv, BarrierInv
<1>1. /\ pc[w] = "join" /\ received[w]
      /\ UNCHANGED <<query, superstep, busy, inbox, received, monitors, queue, socket>>
  BY DEF Join, ReceiverDone, monitorVars, serverVars
<1>2. /\ pc'[w] = "idle" \/ (Starting /\ pc'[w] = "begin")
      /\ \A v \in Workers : v # w => pc'[v] = pc[v]
  <2>1. \/ pc' = [pc EXCEPT ![w] = "idle"]
        \/ /\ Starting
           /\ pc' = [pc EXCEPT ![w] = IF round[w] + 1 < rounds THEN "begin" ELSE "idle"]
    BY DEF Join, Starting
  <2>2. \/ pc' = [pc EXCEPT ![w] = "idle"]
        \/ Starting /\ pc' = [pc EXCEPT ![w] = "begin"]
    BY <2>1
  <2> QED
    BY <2>2, EndTypes
<1>3. ~AllIdle /\ Starting' = Starting
  BY <1>1 DEF AllIdle, Starting
<1>4. Collected(w) /\ Collected(w)'
  BY <1>1, <1>2, <1>3 DEF Collected, InRound
<1>5. \A v \in Workers : v # w =>
        /\ Collected(v)' = Collected(v) /\ InRound(v)' = InRound(v)
        /\ \A p \in Workers : HasSent(v, p)' = HasSent(v, p)
  BY <1>1, <1>2, <1>3 DEF Collected, InRound, HasSent
<1>6. \A v \in Workers : \A p \in Peers(v) : v \in Workers /\ p \in Workers /\ p # v
  BY DEF Peers
<1>7. DataOK'
  <2>1. \A v \in Workers : Late(v)' = Late(v)
    BY <1>1, <1>2, <1>3 DEF Late
  <2>2. \A p \in Workers : Ended(p)' = Ended(p)
    BY <1>1, <1>2 DEF Ended
  <2>3. ASSUME NEW v \in Workers, NEW p \in Peers(v), NEW i \in DOMAIN socket[v][p]
        PROVE  Fits(v, p, socket[v][p][i], Belongs(v, p, i))'
    <3>1. Belongs(v, p, i)' = Belongs(v, p, i)
      BY <1>1, <1>6, <2>2 DEF Belongs
    <3>2. Fits(v, p, socket[v][p][i], Belongs(v, p, i))
      BY DEF DataOK
    <3> QED
      BY <1>1, <1>6, <2>1, <2>2, <3>1, <3>2 DEF Fits
  <2> QED
    BY <1>1, <2>3 DEF DataOK
<1>8. MastersOK'
  BY <1>1 DEF MastersOK
<1>9. QueuesOK'
  <2>1. ASSUME NEW v \in Workers, NEW p \in Peers(v)
        PROVE  /\ queue'[v][p][superstep'[v] % 2] > 0 => ~Collected(v)' /\ HasSent(v, p)'
               /\ queue'[v][p][(superstep'[v] + 1) % 2] > 0 =>
                    Starting' /\ monitors'[p] > monitors'[v] /\ busy'[p]
    <3>1. /\ queue[v][p][superstep[v] % 2] > 0 => ~Collected(v) /\ HasSent(v, p)
          /\ queue[v][p][(superstep[v] + 1) % 2] > 0 =>
               Starting /\ monitors[p] > monitors[v] /\ busy[p]
      BY DEF QueuesOK
    <3>2. CASE v = w
      BY <1>1, <1>3, <1>4, <3>1, <3>2
    <3>3. CASE v # w
      BY <1>1, <1>3, <1>5, <1>6, <3>1, <3>3
    <3> QED
      BY <3>2, <3>3
  <2>2. \A v \in Workers : \A b \in Parities : queue'[v][v][b] = 0
    BY <1>1 DEF QueuesOK
  <2> QED
    BY <2>1, <2>2 DEF QueuesOK
<1>10. BusyOK'
  <2>1. ~(~Starting /\ InRound(w)') /\ pc'[w] # "compute"
    BY <1>2 DEF InRound
  <2> QED
    BY <1>1, <1>2, <1>3, <1>5, <2>1 DEF BusyOK, HasMessages
<1>11. InboxOK'
  <2>1. ASSUME NEW v \in Workers, ~(Starting /\ pc'[v] = "compute"), NEW p \in Nodes
        PROVE  inbox[v][(superstep[v] - 1) % 2][p] = 0
    BY <1>1, <1>2, <2>1 DEF InboxOK
  <2>2. ASSUME NEW v \in Workers, Starting, pc'[v] # "begin", NEW p \in Nodes,
               inbox[v][superstep[v] % 2][p] > 0
        PROVE  \/ p = v /\ busy[v]
               \/ p \in Peers(v) /\ HasSent(v, p)'
    <3>1. \/ p = v /\ busy[v]
          \/ p \in Peers(v) /\ HasSent(v, p)
      BY <1>1, <1>2, <1>3, <2>2 DEF InboxOK
    <3>2. p \in Peers(v) /\ HasSent(v, p) => HasSent(v, p)'
      BY <1>1, <2>2 DEF HasSent
    <3> QED
      BY <3>1, <3>2
  <2> QED
    BY <1>1, <1>3, <2>1, <2>2 DEF InboxOK
<1> QED
  BY <1>7, <1>8, <1>9, <1>10, <1>11

LEMMA MailStep ==
  AllRead /\ MailInv /\ [Next]_vars => MailInv'
<1> SUFFICES ASSUME AllRead, MailInv, [Next]_vars
             PROVE  MailInv'
  OBVIOUS
<1> USE DEF MailInv
<1>1. EndInv'
  <2>1. "late init" \notin Irregular
    BY DEF AllRead
  <2> QED
    BY <2>1, EndStep
<1>2. CASE Commands
  BY <1>1, <1>2, MailCommands
<1>3. ASSUME NEW w \in Workers, Query(w)
      PROVE  MailOK'
  <2>1. CASE BeginSuperstep(w) \/ BeginInit(w)
    BY <2>1, MailBegin
  <2>2. ASSUME NEW D \in Destinations, Compute(w, D) \/ Distribute(w, D)
        PROVE  MailOK'
    BY <2>2, MailCompute
  <2>3. CASE Join(w)
    BY <2>3, MailJoin
  <2> QED
    BY <1>3, <2>1, <2>2, <2>3 DEF Query
<1>4. ASSUME NEW w \in Workers, Receiver(w)
      PROVE  MailOK'
  <2>1. UNCHANGED queriesOnly /\ UNCHANGED <<inbox, queue, socket, received>>
    BY <1>4 DEF Receiver, StartReading, SetMonitor, queriesOnly, queryVars, monitorVars
  <2> QED
    BY <2>1, MailUnchanged
<1>5. ASSUME NEW w \in Workers, NEW p \in Servers(w), Server(w, p)
      PROVE  MailOK'
  <2>1. CASE AwaitMonitor(w, p)
    <3>1. UNCHANGED queriesOnly /\ UNCHANGED <<inbox, queue, socket, received>>
      BY <2>1 DEF AwaitMonitor, queriesOnly, queryVars, monitorVars
    <3> QED
      BY <3>1, MailUnchanged
  <2> QED
    BY <1>5, <2>1, MailReadData, MailReadMark, MailHandleMark, MailHandleInitDone DEF Server
<1>6. CASE UNCHANGED vars
  <2>1. UNCHANGED queriesOnly /\ UNCHANGED <<inbox, queue, socket, received>>
    BY <1>6 DEF vars, queriesOnly, queryVars, monitorVars, serverVars
  <2> QED
    BY <1>1, <2>1, MailUnchanged
<1> QED
  BY <1>1, <1>2, <1>3, <1>4, <1>5, <1>6 DEF Next

LEMMA MailInit == Init => MailInv
<1> SUFFICES ASSUME Init PROVE MailInv
  OBVIOUS
<1>1. EndInv
  BY EndInit
<1>2. \A w \in Workers : /\ pc[w] = "idle" /\ superstep[w] = 0
                         /\ \A p \in Nodes : /\ socket[w][p] = <<>>
                                             /\ \A b \in Parities : queue[w][p][b] = 0
                                             /\ \A b \in Parities : inbox[w][b][p] = 0
  BY DEF Init, Everywhere, NoMessages, EmptyInbox
<1>3. \A w \in Workers : Peers(w) \subseteq Nodes /\ w \in Nodes /\ Master \in Nodes
  BY NodeTypes
<1>4. DOMAIN <<>> = {}
  BY EmptySeq
<1>5. DataOK
  BY <1>2, <1>3, <1>4 DEF DataOK
<1>6. MastersOK
  BY <1>2, <1>3, <1>4 DEF MastersOK
<1>7. QueuesOK
  BY <1>2, <1>3, Parity DEF QueuesOK
<1>8. BusyOK
  BY <1>2 DEF BusyOK, InRound
<1>9. InboxOK
  <2>1. AllIdle
    BY <1>2 DEF AllIdle
  <2>2. (0 - 1) % 2 \in Parities
    BY Parity
  <2>3. \A w \in Workers : (superstep[w] - 1) % 2 \in Parities
    BY <1>2, <2>2
  <2>4. \A w \in Workers : \A p \in Nodes : inbox[w][(superstep[w] - 1) % 2][p] = 0
    BY <1>2, <2>3
  <2> QED
    BY <2>1, <2>4 DEF InboxOK
<1> QED
  BY <1>1, <1>5, <1>6, <1>7, <1>8, <1>9 DEF MailInv, MailOK

\* All workers are at the end of the same superstep, in which nobody had
\* anything to do.
AllSilent ==
  /\ Starting
  /\ ~AllIdle
  /\ \A v \in Workers : ~busy[v] /\ pc[v] \in {"idle", "join"}
  /\ \A v, p \in Workers : monitors[v] = monitors[p]

LEMMA SilentSockets ==
  ASSUME MailInv, AllSilent, NEW v \in Workers, NEW p \in Peers(v),
         NEW i \in DOMAIN socket[v][p]
  PROVE  socket[v][p][i].type # "DATA"
<1> USE DEF MailInv, MailOK, EndInv, BarrierInv
<1> SUFFICES ASSUME socket[v][p][i].type = "DATA" PROVE FALSE
  OBVIOUS
<1> PICK s : s = socket[v][p]
  OBVIOUS
<1> PICK k \in Nat : k = monitors[p]
  BY EndTypes DEF Peers
<1>1. p \in Workers /\ p \in Nodes /\ monitors[v] = k
  BY DEF Peers, Nodes, AllSilent
<1>2. ~busy[p] /\ Ended(p) = k
  BY <1>1 DEF AllSilent, Ended
<1>3. s \in Seq(Messages) /\ i \in DOMAIN s /\ After(s, i) \in Nat /\ NrEnds(s) \in Nat
  BY <1>1, PeerPlaces, EndsType
<1>4. After(s, i) <= NrEnds(s)
  BY <1>3, AfterMost
<1>5. NrEnds(s) <= 1
  <2>1. Handled(v, p) + Held(v, p) + NrEnds(s) = k
    BY <1>2 DEF EndsOK
  <2>2. Handled(v, p) \in {k - 1, k} /\ Held(v, p) \in {0, 1}
    BY <1>1 DEF Handled, Held
  <2> QED
    BY <1>3, <2>1, <2>2
<1>6. Belongs(v, p, i) = k + 1 - After(s, i)
  BY <1>2 DEF Belongs
<1>7. Fits(v, p, s[i], Belongs(v, p, i))
  BY DEF DataOK
<1>8. Belongs(v, p, i) <= k /\ Belongs(v, p, i) # k
  BY <1>2, <1>7, FitsMeans
<1> QED
  BY <1>3, <1>4, <1>5, <1>6, <1>8

LEMMA SilentPlaces ==
  ASSUME MailInv, AllSilent, NEW v \in Workers
  PROVE  /\ \A p \in Nodes, b \in Parities : inbox[v][b][p] = 0 /\ queue[v][p][b] = 0
         /\ socket[v][Master] = <<>>
<1> USE DEF MailInv, MailOK, EndInv, BarrierInv
<1> PICK n \in Nat : n = superstep[v]
  BY MailTypes
<1>1. pc[v] \in {"idle", "join"} /\ Starting /\ ~AllIdle /\ v \in Nodes
  BY DEF AllSilent, Nodes
<1>2. \A p \in Workers : ~HasSent(v, p) /\ ~busy[p]
  <2>1. \A p \in Workers : monitors[p] = monitors[v] /\ monitors[v] \in Nat /\ ~busy[p]
    BY EndTypes DEF AllSilent
  <2> QED
    BY <2>1 DEF HasSent
<1>3. socket[v][Master] = <<>>
  BY <1>1 DEF SocketsOK, InitDone
<1>4. /\ n % 2 \in Parities /\ (n + 1) % 2 \in Parities /\ (n - 1) % 2 = (n + 1) % 2
      /\ \A b \in Parities : b = n % 2 \/ b = (n + 1) % 2
  BY Parity
<1>5. ASSUME NEW p \in Nodes
      PROVE  inbox[v][n % 2][p] = 0 /\ inbox[v][(n + 1) % 2][p] = 0
  <2>1. inbox[v][n % 2][p] \in Nat
    BY <1>4, MailTypes
  <2>2. ~(inbox[v][n % 2][p] > 0)
    <3>1. p \in Peers(v) => p \in Workers
      BY DEF Peers
    <3> QED
      BY <1>1, <1>2, <3>1 DEF InboxOK
  <2>3. inbox[v][(n - 1) % 2][p] = 0
    BY <1>1 DEF InboxOK
  <2> QED
    BY <1>4, <2>1, <2>2, <2>3
<1>6. ASSUME NEW p \in Nodes
      PROVE  queue[v][p][n % 2] = 0 /\ queue[v][p][(n + 1) % 2] = 0
  <2>1. CASE p = v
    BY <1>4, <2>1 DEF QueuesOK
  <2>2. CASE p = Master
    BY <1>3, <1>4, <2>2 DEF MastersOK
  <2>3. CASE p \in Peers(v)
    <3>1. queue[v][p][n % 2] \in Nat /\ queue[v][p][(n + 1) % 2] \in Nat
      BY <1>4, MailTypes
    <3>2. ~(queue[v][p][n % 2] > 0)
      BY <1>2, <2>3 DEF QueuesOK, Peers
    <3>3. ~(queue[v][p][(n + 1) % 2] > 0)
      BY <1>2, <2>3 DEF QueuesOK, Peers
    <3> QED
      BY <3>1, <3>2, <3>3
  <2> QED
    BY <2>1, <2>2, <2>3 DEF Nodes, Peers
<1> QED
  BY <1>3, <1>4, <1>5, <1>6

LEMMA SilentMail ==
  ASSUME MailInv, AllSilent, NEW v \in Workers, NEW s \in 0 .. MaxSuperstep, NEW p \in Nodes
  PROVE  Mail(v, s, p) = 0
<1>1. s % 2 \in Parities /\ 0 \in Parities /\ 1 \in Parities
  BY Parity DEF Parities
<1>2. inbox[v][s % 2][p] = 0 /\ queue[v][p][s % 2] = 0
      /\ queue[v][p][0] = 0 /\ queue[v][p][1] = 0
  BY <1>1, SilentPlaces
<1>3. (IF s \in {superstep[v] - 1, superstep[v]} THEN inbox[v][s % 2][p] ELSE 0) = 0
  BY <1>2
<1>4. \A r : Arriving(v, Master, r) = 0
  <2>1. socket[v][Master] = <<>>
    BY SilentPlaces
  <2>2. \A r : {i \in DOMAIN socket[v][Master] : socket[v][Master][i] = Data(r)} = {}
    BY <2>1, EmptySeq
  <2> QED
    BY <2>2, FS_EmptySet DEF Arriving
<1>5. CASE p = v
  <2>1. p \notin Peers(v) /\ p # Master
    BY <1>5 DEF Peers
  <2>2. Mail(v, s, p) = 0 + 0
    BY <1>3, <1>5, <2>1 DEF Mail
  <2> QED
    BY <2>2
<1>6. CASE p \in Peers(v)
  <2>1. {i \in DOMAIN socket[v][p] : socket[v][p][i] = Data(s)} = {}
    BY <1>6, SilentSockets DEF Data
  <2>2. Arriving(v, p, s) = 0
    BY <2>1, FS_EmptySet DEF Arriving
  <2>3. p # v /\ p # Master
    BY <1>6 DEF Peers
  <2>4. Mail(v, s, p) = 0 + (0 + 0)
    BY <1>2, <1>3, <1>6, <2>2, <2>3 DEF Mail
  <2> QED
    BY <2>4
<1>7. CASE p = Master
  <2>1. p # v /\ p \notin Peers(v)
    BY <1>7 DEF Peers
  <2>2. Arriving(v, p, 0) + queue[v][p][0] + queue[v][p][1] = 0
    BY <1>2, <1>4, <1>7
  <2> QED
    BY <1>3, <1>7, <2>1, <2>2 DEF Mail
<1> QED
  BY <1>5, <1>6, <1>7 DEF Nodes, Peers

LEMMA SilenceFound ==
  ASSUME MailInv, NEW w \in Workers, pc[w] = "join", received[w], allEmpty[w]
  PROVE  AllSilent
<1> USE DEF MailInv, MailOK, EndInv, BarrierInv
<1>1. ~busy[w]
  BY DEF CountsOK, InRound
<1>2. Starting
  BY <1>1 DEF BusyOK, InRound
<1>3. /\ \A u \in Workers : ~busy[u]
      /\ \A u \in Workers : monitors[u] = monitors[w] /\ pc[u] \in {"idle", "join"}
  BY <1>2, SilentJoin
<1> QED
  BY <1>2, <1>3 DEF AllSilent, AllIdle

LEMMA OnlyJoin ==
  ASSUME [Next]_vars, NEW w \in Workers, pc[w] = "join", pc'[w] = "idle", TypeInv
  PROVE  Join(w)
<1>1. ~AllIdle /\ pc \in [Workers -> {"idle", "begin", "compute", "join"}]
  BY EndTypes DEF AllIdle
<1>2. CASE Commands
  BY <1>1, <1>2 DEF Commands, InitPregelMessages, StartPregel, InitOnWorkers,
                    ClearMessages, MayStart
<1>3. ASSUME NEW v \in Workers, Query(v)
      PROVE  Join(w)
  <2>1. CASE v = w
    BY <1>3, <2>1 DEF Query, BeginSuperstep, BeginInit, Compute, Distribute
  <2>2. CASE v # w
    <3>1. \E c : pc' = [pc EXCEPT ![v] = c]
      BY <1>3 DEF Query, BeginSuperstep, BeginInit, Compute, Distribute, Join
    <3>2. pc'[w] = pc[w]
      BY <1>1, <2>2, <3>1
    <3> QED
      BY <3>2
  <2> QED
    BY <2>1, <2>2
<1>4. ASSUME NEW v \in Workers, Receiver(v)
      PROVE  Join(w)
  <2>1. pc' = pc
    BY <1>4 DEF Receiver, StartReading, SetMonitor, queryVars
  <2> QED
    BY <2>1
<1>5. ASSUME NEW v \in Workers, NEW p \in Servers(v), Server(v, p)
      PROVE  Join(w)
  <2>1. pc' = pc
    BY <1>5 DEF Server, ReadData, ReadMark, AwaitMonitor, HandleMark, HandleInitDone, queryVars
  <2> QED
    BY <2>1
<1>6. CASE UNCHANGED vars
  BY <1>6 DEF vars, queryVars
<1> QED
  BY <1>2, <1>3, <1>4, <1>5, <1>6 DEF Next

(* A computation that ends because everything was empty ends with nothing    *)
(* left to do, for any number of workers, messages and supersteps: nobody    *)
(* had a message to process, and none waits in a socket, a queue or an       *)
(* inbox.  Left out are the situations in which messages may be lost or come *)
(* from nowhere: a computation that overtakes the messages of the master, a  *)
(* function that leaves messages unread or sends without having received.    *)
THEOREM SilentEndCorrect ==
  ASSUME AllRead
  PROVE  Spec => SilentEnd
<1> DEFINE Silence(w) ==
      (pc[w] = "join" /\ pc'[w] = "idle" /\ allEmpty[w]) =>
         \A v \in Workers :
           /\ ~busy[v]
           /\ \A s \in 0 .. MaxSuperstep, p \in Nodes : Mail(v, s, p) = 0
<1>1. MailInv /\ [Next]_vars => MailInv'
  BY MailStep
<1>2. MailInv /\ [Next]_vars => \A w \in Workers : Silence(w)
  <2> SUFFICES ASSUME MailInv, [Next]_vars, NEW w \in Workers,
                      pc[w] = "join", pc'[w] = "idle", allEmpty[w]
               PROVE  \A v \in Workers :
                        /\ ~busy[v]
                        /\ \A s \in 0 .. MaxSuperstep, p \in Nodes : Mail(v, s, p) = 0
    OBVIOUS
  <2>1. Join(w)
    BY OnlyJoin DEF MailInv, EndInv, BarrierInv
  <2>2. received[w]
    BY <2>1 DEF Join, ReceiverDone
  <2>3. AllSilent
    BY <2>2, SilenceFound
  <2> QED
    BY <2>3, SilentMail DEF AllSilent
<1>3. MailInv /\ [Next]_vars => [\A w \in Workers : Silence(w)]_vars
  BY <1>2
<1> HIDE DEF Silence
<1> QED
  BY <1>1, <1>3, MailInit, PTL DEF Spec, SilentEnd, Silence

-----------------------------------------------------------------------------
(* The refinement of Supersteps.                                           *)

\* A worker computes for a superstep that has a number.
NumbersOK == \A w \in Workers : Starting /\ pc[w] = "compute" => superstep[w] > 0
StepsInv == MailInv /\ NumbersOK

\* The state of Supersteps.
Numbers == 0 .. MaxSuperstep
Computing == IF query = "startPregelWorker"
               THEN {w \in Workers : pc[w] = "compute"} ELSE {}
Box == [w \in Workers |-> [s \in Numbers |-> [p \in Nodes |-> Mail(w, s, p)]]]

\* Messages of p to w of superstep s by the place where they wait.
InInbox(w, s, p) ==
  IF s \in {superstep[w] - 1, superstep[w]} THEN inbox[w][s % 2][p] ELSE 0
InQueue(w, s, p) ==
  IF s \in {superstep[w], superstep[w] + 1} THEN queue[w][p][s % 2] ELSE 0
Supplied(w, s) ==
  IF s = superstep[w]
    THEN Arriving(w, Master, 0) + queue[w][Master][0] + queue[w][Master][1] ELSE 0

MailSplit ==
  \A w \in Workers, s \in Numbers :
    /\ Mail(w, s, w) = InInbox(w, s, w) + 0
    /\ \A p \in Peers(w) :
         Mail(w, s, p) = InInbox(w, s, p) + (Arriving(w, p, s) + InQueue(w, s, p))
    /\ Mail(w, s, Master) = InInbox(w, s, Master) + Supplied(w, s)

LEMMA MailParts == MailSplit
<1> SUFFICES ASSUME NEW w \in Workers, NEW s
             PROVE  /\ Mail(w, s, w) = InInbox(w, s, w) + 0
                    /\ \A p \in Peers(w) :
                         Mail(w, s, p) = InInbox(w, s, p) + (Arriving(w, p, s) + InQueue(w, s, p))
                    /\ Mail(w, s, Master) = InInbox(w, s, Master) + Supplied(w, s)
  BY DEF MailSplit
<1>1. w \notin Peers(w) /\ Master \notin Peers(w) /\ w # Master
  BY PregelAssumption DEF Peers
<1>2. Mail(w, s, w) = InInbox(w, s, w) + 0
  BY <1>1 DEF Mail, InInbox
<1>3. Mail(w, s, Master) = InInbox(w, s, Master) + Supplied(w, s)
  BY <1>1 DEF Mail, InInbox, Supplied
<1>4. ASSUME NEW p \in Peers(w)
      PROVE  Mail(w, s, p) = InInbox(w, s, p) + (Arriving(w, p, s) + InQueue(w, s, p))
  <2>1. p # w /\ p # Master
    BY <1>1
  <2> QED
    BY <2>1 DEF Mail, InInbox, InQueue
<1> QED
  BY <1>2, <1>3, <1>4

LEMMA MailPartsNext == MailSplit'
  BY MailParts, PTL

LEMMA ArrivingNumber ==
  ASSUME NEW w, NEW p, NEW r
  PROVE  Arriving(w, p, r) = Number(socket[w][p], {Data(r)})
  BY DEF Arriving, Number, Places

LEMMA PartTypes ==
  ASSUME TypeInv, NEW w \in Workers, NEW s \in Numbers, NEW p \in Nodes
  PROVE  /\ InInbox(w, s, p) \in Nat /\ InQueue(w, s, p) \in Nat
         /\ Supplied(w, s) \in Nat
         /\ \A r : Arriving(w, p, r) \in Nat
         /\ Mail(w, s, p) \in Nat
<1>1. s % 2 \in Parities /\ 0 \in Parities /\ 1 \in Parities /\ Master \in Nodes
  BY Parity, NodeTypes DEF Numbers, Parities
<1>2. inbox[w][s % 2][p] \in Nat /\ queue[w][p][s % 2] \in Nat
      /\ queue[w][Master][0] \in Nat /\ queue[w][Master][1] \in Nat
  BY <1>1, MailTypes
<1>3. ASSUME NEW q \in Nodes, NEW r
      PROVE  Arriving(w, q, r) \in Nat
  <2>1. socket[w][q] \in Seq(Messages)
    BY EndTypes
  <2> QED
    BY <2>1, NumberType, ArrivingNumber
<1>4. InInbox(w, s, p) \in Nat /\ InQueue(w, s, p) \in Nat
  BY <1>2 DEF InInbox, InQueue
<1>5. Supplied(w, s) \in Nat
  BY <1>1, <1>2, <1>3 DEF Supplied
<1>6. Arriving(w, p, s) \in Nat
  BY <1>3
<1>7. Mail(w, s, p) \in Nat
  <2>1. CASE p = w
    BY <1>4, <2>1, MailParts DEF MailSplit
  <2>2. CASE p \in Peers(w)
    BY <1>4, <1>6, <2>2, MailParts DEF MailSplit
  <2>3. CASE p = Master
    BY <1>4, <1>5, <2>3, MailParts DEF MailSplit
  <2> QED
    BY <2>1, <2>2, <2>3 DEF Nodes, Peers
<1> QED
  BY <1>3, <1>4, <1>5, <1>7

\* What the steps of Supersteps say of the messages, one by one.
LEMMA StepsStutter ==
  ASSUME superstep' = superstep, Computing' = Computing,
         \A w \in Workers, s \in Numbers, p \in Nodes : Mail(w, s, p)' = Mail(w, s, p)
  PROVE  UNCHANGED Steps!vars
<1>1. Box' = Box
  BY DEF Box
<1> QED
  BY <1>1 DEF Steps!vars, Box, Computing, Numbers

\* One more message of q in superstep n for each worker of D.
Adds(old, new, D, n, q) ==
  /\ n \in Numbers /\ q \in Nodes
  /\ old \in [Workers -> [Numbers -> [Nodes -> Nat]]]
  /\ new \in [Workers -> [Numbers -> [Nodes -> Nat]]]
  /\ \A w \in Workers, s \in Numbers, p \in Nodes :
       new[w][s][p] = old[w][s][p] + (IF w \in D /\ s = n /\ p = q THEN 1 ELSE 0)

LEMMA StepsPosted ==
  ASSUME NEW old, NEW new, NEW D, NEW n, NEW q, Adds(old, new, D, n, q)
  PROVE  new = Steps!Posted(old, D, n, q)
<1> USE DEF Adds
<1>1. ASSUME NEW w \in Workers
      PROVE  new[w] = [old[w] EXCEPT ![n][q] = IF w \in D THEN @ + 1 ELSE @]
  <2> PICK f, g : f = old[w] /\ g = new[w]
    OBVIOUS
  <2>1. f \in [Numbers -> [Nodes -> Nat]] /\ g \in [Numbers -> [Nodes -> Nat]]
    OBVIOUS
  <2>2. \A s \in Numbers, p \in Nodes :
          g[s][p] = f[s][p] + (IF w \in D /\ s = n /\ p = q THEN 1 ELSE 0)
    OBVIOUS
  <2> PICK x \in Nat : x = IF w \in D THEN f[n][q] + 1 ELSE f[n][q]
    BY <2>1
  <2>3. ASSUME NEW s \in Numbers
        PROVE  g[s] = [f EXCEPT ![n][q] = x][s]
    <3>1. g[s] \in [Nodes -> Nat] /\ f[s] \in [Nodes -> Nat] /\ f[n] \in [Nodes -> Nat]
      BY <2>1
    <3>2. CASE s = n
      <4>1. g[s] = [f[s] EXCEPT ![q] = x]
        BY <2>2, <3>1, <3>2
      <4> QED
        BY <2>1, <3>2, <4>1
    <3>3. CASE s # n
      <4>1. \A p \in Nodes : g[s][p] = f[s][p]
        BY <2>2, <3>1, <3>3
      <4>2. g[s] = f[s]
        BY <3>1, <4>1
      <4> QED
        BY <2>1, <3>3, <4>2
    <3> QED
      BY <3>2, <3>3
  <2>4. g = [f EXCEPT ![n][q] = x]
    BY <2>1, <2>3
  <2> QED
    BY <2>4
<1> QED
  BY <1>1 DEF Steps!Posted

BoxOK == Box \in [Workers -> [Numbers -> [Nodes -> Nat]]]

LEMMA BoxType == TypeInv => BoxOK
  BY PartTypes DEF BoxOK, Box

LEMMA BoxTypeNext == TypeInv' => BoxOK'
  BY BoxType, PTL

LEMMA MailKept ==
  ASSUME UNCHANGED <<superstep, inbox, queue, socket>>
  PROVE  \A w \in Workers, s \in Numbers, p \in Nodes : Mail(w, s, p)' = Mail(w, s, p)
  BY DEF Mail, Arriving

LEMMA SupplyMeans ==
  ASSUME TypeInv, TypeInv', Computing = {}, Computing' = {}, superstep' = superstep,
         NEW n \in Numbers, \A w \in Workers : superstep[w] = n,
         NEW q \in Nodes, NEW D,
         \A w \in Workers, s \in Numbers, p \in Nodes :
           Mail(w, s, p)' = Mail(w, s, p) + (IF w \in D /\ s = n /\ p = q THEN 1 ELSE 0)
  PROVE  Steps!Supply(q, D)
<1>1. Box \in [Workers -> [Numbers -> [Nodes -> Nat]]]
      /\ Box' \in [Workers -> [Numbers -> [Nodes -> Nat]]]
  BY BoxType, BoxTypeNext DEF BoxOK
<1>2. \A w \in Workers, s \in Numbers, p \in Nodes :
        Box'[w][s][p] = Box[w][s][p] + (IF w \in D /\ s = n /\ p = q THEN 1 ELSE 0)
  BY DEF Box
<1>3. Box' = Steps!Posted(Box, D, n, q)
  <2>1. Adds(Box, Box', D, n, q)
    BY <1>1, <1>2 DEF Adds
  <2> QED
    BY <2>1, StepsPosted
<1>4. n \in Steps!Numbers
  BY DEF Numbers, Steps!Numbers
<1> QED
  BY <1>3, <1>4 DEF Steps!Supply, Box, Computing, Numbers

LEMMA SameSuperstep ==
  ASSUME EndInv, AllIdle \/ ~Starting
  PROVE  \E n \in Numbers : \A w \in Workers : superstep[w] = n
<1> USE DEF EndInv, BarrierInv
<1>1. \A w \in Workers : superstep[w] \in Numbers
  BY DEF TypeInv, PregelTypeOK, Numbers
<1>2. \A v, w \in Workers : superstep[v] = superstep[w]
  <2>1. CASE ~Starting
    BY <2>1 DEF RanksOK
  <2>2. CASE AllIdle /\ Starting
    <3> SUFFICES ASSUME NEW v \in Workers, NEW w \in Workers PROVE superstep[v] = superstep[w]
      OBVIOUS
    <3>1. superstep[v] - monitors[v] = superstep[w] - monitors[w]
      BY <2>2 DEF RanksOK
    <3>2. monitors[v] = monitors[w]
      BY <2>2 DEF LeaveOK, AllIdle
    <3>3. superstep[v] \in Nat /\ superstep[w] \in Nat /\ monitors[v] \in Nat
      BY EndTypes
    <3> QED
      BY <3>1, <3>2, <3>3
  <2> QED
    BY <2>1, <2>2
<1>3. \E w \in Workers : TRUE
  BY PregelAssumption, FS_EmptySet
<1> QED
  BY <1>1, <1>2, <1>3

LEMMA NumberExtended ==
  ASSUME NEW s, NEW m, NEW t, Extended(s, m, t), NEW M
  PROVE  /\ Number(s, M) \in Nat
         /\ Number(t, M) = Number(s, M) + (IF m \in M THEN 1 ELSE 0)
  BY NumberType, NumberAppend DEF Extended

LEMMA NumberReceived ==
  ASSUME NEW s, NEW d, NEW m, NEW sends, NEW t, Receives(s, d, m, sends, t),
         NEW M, m \notin M
  PROVE  Number(t, M) = Number(s, M) + (IF sends /\ d \in M THEN 1 ELSE 0)
<1>1. IF sends THEN \E u : Extended(s, d, u) /\ Extended(u, m, t) ELSE Extended(s, m, t)
  BY ReceivesExtends
<1>2. sends \in BOOLEAN
  BY DEF Receives
<1>3. CASE sends
  <2> PICK u : Extended(s, d, u) /\ Extended(u, m, t)
    BY <1>1, <1>3
  <2>1. /\ Number(s, M) \in Nat
        /\ Number(u, M) = Number(s, M) + (IF d \in M THEN 1 ELSE 0)
    BY NumberExtended
  <2>2. Number(t, M) = Number(u, M) + 0
    BY NumberExtended
  <2> QED
    BY <1>3, <2>1, <2>2
<1>4. CASE ~sends
  <2>1. Number(s, M) \in Nat /\ Number(t, M) = Number(s, M) + 0
    BY <1>1, <1>4, NumberExtended
  <2> QED
    BY <1>4, <2>1
<1> QED
  BY <1>2, <1>3, <1>4

LEMMA NoMark ==
  ASSUME NEW r, NEW t \in {"EMPTY", "FINISH", "INIT_DONE"}
  PROVE  Mark(t) \notin {Data(r)}
<1>1. Mark(t).type = t /\ Data(r).type = "DATA"
  BY DEF Mark, Data
<1> QED
  BY <1>1

LEMMA SupplyStep ==
  ASSUME EndInv, TypeInv', NEW D \in Destinations, InitPregelMessages(D)
  PROVE  Steps!Supply(Master, D)
<1> USE DEF EndInv, BarrierInv
<1>1. AllIdle /\ UNCHANGED <<query, pc, superstep, inbox, queue>>
  BY DEF InitPregelMessages, queryVars
<1>2. Computing = {} /\ Computing' = {}
  BY <1>1 DEF AllIdle, Computing
<1> PICK n \in Numbers : \A w \in Workers : superstep[w] = n
  BY <1>1, SameSuperstep
<1>3. Master \in Nodes
  BY NodeTypes
<1>4. ASSUME NEW w \in Workers
      PROVE  /\ \A p \in Peers(w) : socket'[w][p] = socket[w][p]
             /\ Arriving(w, Master, 0)' = Arriving(w, Master, 0) + (IF w \in D THEN 1 ELSE 0)
  <2>1. socket[w] \in [Nodes -> Seq(Messages)]
    BY EndTypes
  <2>2. socket'[w] = [socket[w] EXCEPT ![Master] =
                  @ \o (IF w \in D THEN <<Data(0)>> ELSE <<>>) \o <<Mark("INIT_DONE")>>]
    BY DEF InitPregelMessages
  <2>3. Master \notin Peers(w)
    BY PeersOf
  <2>4. \A p \in Peers(w) : socket'[w][p] = socket[w][p]
    BY <2>1, <2>2, <2>3 DEF Peers, Nodes
  <2>5. socket'[w][Master] =
          socket[w][Master] \o (IF w \in D THEN <<Data(0)>> ELSE <<>>) \o <<Mark("INIT_DONE")>>
    BY <1>3, <2>1, <2>2
  <2>6. /\ socket[w][Master] \in Seq(Messages)
        /\ Data(0) \in Messages /\ Mark("INIT_DONE") \in Messages
    <3>1. 0 \in 0 .. MaxSuperstep
      BY PregelAssumption
    <3> QED
      BY <1>3, <2>1, <3>1, MessageTypes
  <2>7. Mark("INIT_DONE") \notin {Data(0)}
    BY NoMark
  <2>8. Number(socket'[w][Master], {Data(0)})
          = Number(socket[w][Master], {Data(0)}) + (IF w \in D THEN 1 ELSE 0)
    <3> PICK sends \in BOOLEAN : sends <=> w \in D
      OBVIOUS
    <3>1. Receives(socket[w][Master], Data(0), Mark("INIT_DONE"), sends, socket'[w][Master])
      BY <2>5, <2>6 DEF Receives
    <3>2. Number(socket'[w][Master], {Data(0)}) = Number(socket[w][Master], {Data(0)})
            + (IF sends /\ Data(0) \in {Data(0)} THEN 1 ELSE 0)
      BY <2>7, <3>1, NumberReceived
    <3> QED
      BY <3>2
  <2>9. Arriving(w, Master, 0)' = Number(socket'[w][Master], {Data(0)})
    BY DEF Arriving, Number, Places
  <2> QED
    BY <2>4, <2>8, <2>9, ArrivingNumber
<1>5. ASSUME NEW w \in Workers, NEW s \in Numbers, NEW p \in Nodes
      PROVE  Mail(w, s, p)' = Mail(w, s, p) + (IF w \in D /\ s = n /\ p = Master THEN 1 ELSE 0)
  <2>1. InInbox(w, s, p)' = InInbox(w, s, p) /\ InQueue(w, s, p)' = InQueue(w, s, p)
    BY <1>1 DEF InInbox, InQueue
  <2>2. /\ InInbox(w, s, p) \in Nat /\ InQueue(w, s, p) \in Nat /\ Supplied(w, s) \in Nat
        /\ Arriving(w, p, s) \in Nat
    BY PartTypes
  <2>3. CASE p = w
    <3>1. p # Master
      BY <2>3, PregelAssumption
    <3> QED
      BY <2>1, <2>2, <2>3, <3>1, MailParts, MailPartsNext DEF MailSplit
  <2>4. CASE p \in Peers(w)
    <3>1. p # Master
      BY <2>4, PeersOf
    <3>2. Arriving(w, p, s)' = Arriving(w, p, s)
      BY <1>4, <2>4 DEF Arriving
    <3> QED
      BY <2>1, <2>2, <2>4, <3>1, <3>2, MailParts, MailPartsNext DEF MailSplit
  <2>5. CASE p = Master
    <3>1. Supplied(w, s)' = Supplied(w, s) + (IF w \in D /\ s = n THEN 1 ELSE 0)
      <4>1. queue[w][Master][0] \in Nat /\ queue[w][Master][1] \in Nat
            /\ Arriving(w, Master, 0) \in Nat
        BY <1>3, MailTypes, PartTypes DEF Parities
      <4>2. superstep[w] = n /\ superstep'[w] = n /\ queue' = queue
        BY <1>1
      <4> QED
        BY <1>4, <4>1, <4>2 DEF Supplied
    <3> QED
      BY <2>1, <2>2, <2>5, <3>1, MailParts, MailPartsNext DEF MailSplit
  <2> QED
    BY <2>3, <2>4, <2>5 DEF Nodes, Peers
<1> QED
  BY <1>1, <1>2, <1>3, <1>5, SupplyMeans

LEMMA QuietStep ==
  ASSUME UNCHANGED <<superstep, inbox, queue, socket>>, Computing' = Computing
  PROVE  UNCHANGED Steps!vars
  BY MailKept, StepsStutter

LEMMA StartStep ==
  ASSUME (\E n \in 1 .. MaxSuperstep : StartPregel(n)) \/ InitOnWorkers
  PROVE  UNCHANGED Steps!vars
<1>1. AllIdle /\ UNCHANGED <<superstep, inbox, queue, socket>>
      /\ pc' = [w \in Workers |-> "begin"]
  BY DEF StartPregel, InitOnWorkers, MayStart, serverVars
<1>2. Computing = {} /\ Computing' = {}
  BY <1>1 DEF Computing, AllIdle
<1> QED
  BY <1>1, <1>2, QuietStep

LEMMA ClearStep ==
  ASSUME AllRead, MailInv, TypeInv', ClearMessages
  PROVE  Steps!Clear
<1> USE DEF MailInv, MailOK, EndInv, BarrierInv
<1>1. AllIdle /\ InitDone /\ UNCHANGED <<query, pc, superstep, queue, socket>>
  BY DEF ClearMessages, MayStart, AllRead, queryVars, serverVars
<1>2. Computing = {} /\ Computing' = {}
  BY <1>1 DEF AllIdle, Computing
<1>3. \E n \in Numbers : \A w \in Workers : superstep[w] = n
  BY <1>1, SameSuperstep
<1>4. ASSUME NEW w \in Workers, NEW s \in Numbers, NEW p \in Nodes
      PROVE  Mail(w, s, p)' = 0
  <2>1. s % 2 \in Parities /\ 0 \in Parities /\ 1 \in Parities
    BY Parity DEF Parities, Numbers
  <2>2. InInbox(w, s, p)' = 0
    <3>1. inbox'[w][s % 2][p] = 0
      BY <2>1 DEF ClearMessages, EmptyInbox
    <3> QED
      BY <3>1 DEF InInbox
  <2>3. CASE p = w
    BY <2>2, <2>3, MailPartsNext DEF MailSplit
  <2>4. CASE p \in Peers(w)
    <3>1. socket[w][p] = <<>> /\ ~(queue[w][p][s % 2] > 0)
      BY <1>1, <2>1, <2>4, IdleSockets
    <3>2. queue[w][p][s % 2] \in Nat
      BY <2>1, MailTypes
    <3>3. InQueue(w, s, p)' = 0
      BY <1>1, <3>1, <3>2 DEF InQueue
    <3>4. Arriving(w, p, s)' = 0
      BY <1>1, <3>1, EmptySeq, FS_EmptySet DEF Arriving
    <3> QED
      BY <2>2, <2>4, <3>3, <3>4, MailPartsNext DEF MailSplit
  <2>5. CASE p = Master
    <3>1. socket[w][Master] = <<>> /\ queue[w][Master][0] = 0 /\ queue[w][Master][1] = 0
      BY <1>1, <2>1 DEF InitDone, MastersOK
    <3>2. Arriving(w, Master, 0)' = 0
      BY <1>1, <3>1, EmptySeq, FS_EmptySet DEF Arriving
    <3>3. Supplied(w, s)' = 0
      BY <1>1, <3>1, <3>2 DEF Supplied
    <3> QED
      BY <2>2, <2>5, <3>3, MailPartsNext DEF MailSplit
  <2> QED
    BY <2>3, <2>4, <2>5 DEF Nodes, Peers
<1>5. Box' = [w \in Workers |-> [s \in Numbers |-> [p \in Nodes |-> 0]]]
  BY <1>4 DEF Box
<1> QED
  BY <1>1, <1>2, <1>3, <1>5
  DEF Steps!Clear, Steps!NoMail, Steps!Numbers, Steps!Senders, Box, Computing, Numbers, Nodes

LEMMA BeginInitStep ==
  ASSUME TypeInv, NEW w \in Workers, BeginInit(w)
  PROVE  UNCHANGED Steps!vars
<1>1. Computing' = Computing
  BY DEF BeginInit, Computing
<1> QED
  BY <1>1, QuietStep DEF BeginInit, serverVars

LEMMA BeginStep ==
  ASSUME MailInv, TypeInv', NEW w \in Workers, BeginSuperstep(w)
  PROVE  Steps!Begin(w)
<1> USE DEF MailInv, MailOK, EndInv, BarrierInv
<1>1. /\ pc[w] = "begin" /\ Starting /\ ~AllIdle
      /\ superstep' = [superstep EXCEPT ![w] = @ + 1]
      /\ pc' = [pc EXCEPT ![w] = "compute"]
      /\ UNCHANGED <<query, inbox, queue, socket>>
  BY DEF BeginSuperstep, Starting, AllIdle, serverVars
<1> PICK n \in Nat : n = superstep[w]
  BY MailTypes
<1>2. superstep'[w] = n + 1 /\ \A v \in Workers : v # w => superstep'[v] = superstep[v]
  BY <1>1, MailTypes
<1>3. ASSUME NEW v \in Workers
      PROVE  \/ superstep[v] > superstep[w]
             \/ superstep[v] = superstep[w] /\ v \notin Computing
  <2>1. CASE v = w
    BY <1>1, <2>1 DEF Computing
  <2>2. CASE v # w
    <3>1. v \in Peers(w) /\ v \in Nodes
      BY <2>2 DEF Peers, Nodes
    <3>2. monitors[v] = monitors[w] \/ monitors[v] = monitors[w] + 1
      BY <1>1, <3>1, NobodyBehind
    <3>3. superstep[v] - monitors[v] = superstep[w] - monitors[w]
      BY <1>1 DEF RanksOK
    <3>4. /\ superstep[v] \in Nat /\ superstep[w] \in Nat
          /\ monitors[v] \in Nat /\ monitors[w] \in Nat
      BY EndTypes
    <3>5. ASSUME monitors[v] = monitors[w], pc[v] = "compute"
          PROVE  FALSE
      <4>1. NrEnds(socket[w][v]) \in Nat
        BY <3>1, EndTypes, EndsType
      <4>2. ~Pending(w, v)
        BY <1>1, <3>1 DEF CountersOK, Open
      <4>3. Handled(w, v) = monitors[w] /\ Held(w, v) \in Nat /\ Ended(v) = monitors[w] - 1
        BY <3>5, <4>2 DEF Handled, Held, Ended
      <4>4. Handled(w, v) + Held(w, v) + NrEnds(socket[w][v]) = Ended(v)
        BY <3>1 DEF EndsOK
      <4> QED
        BY <3>4, <4>1, <4>3, <4>4
    <3>6. monitors[v] = monitors[w] => v \notin Computing
      BY <3>5 DEF Computing
    <3>7. monitors[v] = monitors[w] => superstep[v] = superstep[w]
      BY <3>3, <3>4
    <3>8. monitors[v] = monitors[w] + 1 => superstep[v] > superstep[w]
      BY <3>3, <3>4
    <3> QED
      BY <3>2, <3>6, <3>7, <3>8
  <2> QED
    BY <2>1, <2>2
<1>4. Computing' = Computing \cup {w} /\ w \notin Computing
  BY <1>1, EndTypes DEF Computing, Starting
<1>5. /\ n % 2 \in Parities /\ (n + 1) % 2 \in Parities /\ (n + 1) % 2 # n % 2
      /\ (n - 1) % 2 = (n + 1) % 2 /\ ((n + 1) + 1) % 2 = n % 2
      /\ 0 \in Parities /\ 1 \in Parities
  BY Parity DEF Parities
<1>6. \A p \in Nodes : inbox[w][(n + 1) % 2][p] = 0
  <2>1. \A p \in Nodes : inbox[w][(superstep[w] - 1) % 2][p] = 0
    BY <1>1 DEF InboxOK
  <2> QED
    BY <1>5, <2>1
<1>7. ASSUME NEW v \in Workers, NEW s \in Numbers, NEW p \in Nodes
      PROVE  Mail(v, s, p)' = Mail(v, s, p)
  <2>1. CASE v # w
    <3>1. superstep'[v] = superstep[v]
      BY <1>2, <2>1
    <3> QED
      BY <1>1, <3>1 DEF Mail, Arriving
  <2>2. CASE v = w
    <3>1. InInbox(w, s, p)' = InInbox(w, s, p)
      <4>1. s \in Int
        BY DEF Numbers
      <4>2. CASE s = n
        BY <1>1, <1>2, <4>2 DEF InInbox
      <4>3. CASE s = n - 1
        BY <1>2, <1>5, <1>6, <4>3 DEF InInbox
      <4>4. CASE s = n + 1
        BY <1>1, <1>2, <1>6, <4>4 DEF InInbox
      <4>5. CASE s \notin {n - 1, n, n + 1}
        BY <1>2, <4>1, <4>5 DEF InInbox
      <4> QED
        BY <4>2, <4>3, <4>4, <4>5
    <3>2. Arriving(w, p, s)' = Arriving(w, p, s)
      BY <1>1 DEF Arriving
    <3>3. p \in Peers(w) => InQueue(w, s, p)' = InQueue(w, s, p)
      <4> SUFFICES ASSUME p \in Peers(w) PROVE InQueue(w, s, p)' = InQueue(w, s, p)
        OBVIOUS
      <4>1. queue[w][p][n % 2] = 0
        <5>1. queue[w][p][n % 2] \in Nat
          BY <1>5, MailTypes
        <5>2. ~(queue[w][p][n % 2] > 0)
          BY <1>1 DEF QueuesOK, Collected
        <5> QED
          BY <5>1, <5>2
      <4>2. s \in Int
        BY DEF Numbers
      <4>3. CASE s = n + 1
        BY <1>1, <1>2, <4>3 DEF InQueue
      <4>4. CASE s = n
        BY <1>2, <4>1, <4>4 DEF InQueue
      <4>5. CASE s = (n + 1) + 1
        <5>1. s % 2 = n % 2
          BY <1>5, <4>5
        <5>2. queue'[w][p][s % 2] = 0
          BY <1>1, <4>1, <5>1
        <5>3. s # n /\ s # n + 1
          BY <4>5
        <5> QED
          BY <1>2, <5>2, <5>3 DEF InQueue
      <4>6. CASE s \notin {n, n + 1, (n + 1) + 1}
        BY <1>2, <4>2, <4>6 DEF InQueue
      <4> QED
        BY <4>3, <4>4, <4>5, <4>6
    <3>4. Supplied(w, s)' = Supplied(w, s)
      <4>1. socket[w][Master] = <<>>
        BY <1>1 DEF SocketsOK, InitDone
      <4>2. queue[w][Master][0] = 0 /\ queue[w][Master][1] = 0
        BY <1>5, <4>1 DEF MastersOK
      <4>3. Arriving(w, Master, 0) = 0 /\ Arriving(w, Master, 0)' = 0
        BY <1>1, <4>1, EmptySeq, FS_EmptySet DEF Arriving
      <4>4. Supplied(w, s) = 0
        BY <4>2, <4>3 DEF Supplied
      <4>5. Supplied(w, s)' = 0
        BY <1>1, <4>2, <4>3 DEF Supplied
      <4> QED
        BY <4>4, <4>5
    <3>5. CASE p = w
      BY <2>2, <3>1, <3>5, MailParts, MailPartsNext DEF MailSplit
    <3>6. CASE p \in Peers(w)
      BY <2>2, <3>1, <3>2, <3>3, <3>6, MailParts, MailPartsNext DEF MailSplit
    <3>7. CASE p = Master
      BY <2>2, <3>1, <3>4, <3>7, MailParts, MailPartsNext DEF MailSplit
    <3> QED
      BY <3>5, <3>6, <3>7 DEF Nodes, Peers
  <2> QED
    BY <2>1, <2>2
<1>8. Box' = Box
  BY <1>7 DEF Box
<1> QED
  BY <1>1, <1>3, <1>4, <1>8 DEF Steps!Begin, Box, Computing, Numbers

\* What a worker sends arrives everywhere, on itself through the loopback.
LEMMA SendPosts ==
  ASSUME AllRead, TypeInv, NEW w \in Workers, NEW D, Compute(w, D) \/ Distribute(w, D),
         NEW v \in Workers, NEW s \in Numbers, NEW p \in Nodes,
         ~(Starting /\ v = w /\ s = superstep[w] - 1)
  PROVE  Mail(v, s, p)' =
           Mail(v, s, p) + (IF v \in D /\ s = superstep[w] /\ p = w THEN 1 ELSE 0)
<1> PICK n \in Nat : n = superstep[w]
  BY MailTypes
<1> PICK extra \in Nat : extra = IF v \in D /\ s = n /\ p = w THEN 1 ELSE 0
  OBVIOUS
<1>1. socket' = Sent(w, D) /\ UNCHANGED <<query, superstep, queue>>
  BY DEF Compute, Distribute, serverVars
<1>2. w \in Nodes /\ v \in Nodes
  BY DEF Nodes
<1>3. /\ \A u \in Workers : u # w => inbox'[u] = inbox[u]
      /\ \A q \in Nodes :
           /\ inbox'[w][n % 2][q] = inbox[w][n % 2][q] + (IF q = w /\ w \in D THEN 1 ELSE 0)
           /\ inbox'[w][(n + 1) % 2][q] =
                IF Starting THEN 0 ELSE inbox[w][(n + 1) % 2][q]
  BY ComputedInbox
<1>4. /\ InInbox(v, s, p) \in Nat /\ InQueue(v, s, p) \in Nat /\ Supplied(v, s) \in Nat
      /\ Arriving(v, p, s) \in Nat
  BY PartTypes
<1>5. InQueue(v, s, p)' = InQueue(v, s, p)
  BY <1>1 DEF InQueue
<1>6. Supplied(v, s)' = Supplied(v, s)
  <2>1. w # Master /\ Master \in Nodes
    BY PregelAssumption, NodeTypes
  <2>2. socket'[v][Master] = socket[v][Master]
    BY <1>1, <2>1, SentReceives
  <2>3. Arriving(v, Master, 0)' = Arriving(v, Master, 0)
    BY <2>2 DEF Arriving
  <2> QED
    BY <1>1, <2>3 DEF Supplied
<1>7. CASE v = w
  <2>1. Arriving(v, p, s)' = Arriving(v, p, s)
    <3>1. socket'[v][p] = socket[v][p]
      BY <1>1, <1>7, SentReceives
    <3> QED
      BY <3>1 DEF Arriving
  <2>2. InInbox(v, s, p)' = InInbox(v, s, p) + extra
    <3>1. s \in Int /\ (n - 1) % 2 = (n + 1) % 2
      BY Parity DEF Numbers
    <3>2. CASE s = n
      BY <1>1, <1>3, <1>7, <3>2 DEF InInbox
    <3>3. CASE s = n - 1
      <4>1. ~Starting /\ s # n
        BY <1>7, <3>3
      <4>2. inbox'[w][(n + 1) % 2][p] = inbox[w][(n + 1) % 2][p]
        BY <1>3, <4>1
      <4>3. InInbox(v, s, p)' = InInbox(v, s, p)
        BY <1>1, <1>7, <3>1, <3>3, <4>2 DEF InInbox
      <4> QED
        BY <1>4, <4>1, <4>3
    <3>4. CASE s \notin {n - 1, n}
      BY <1>1, <1>7, <3>4 DEF InInbox
    <3> QED
      BY <3>2, <3>3, <3>4
  <2>3. CASE p = w
    BY <1>4, <1>7, <2>2, <2>3, MailParts, MailPartsNext DEF MailSplit
  <2>4. CASE p \in Peers(v)
    BY <1>4, <1>5, <2>1, <2>2, <2>4, MailParts, MailPartsNext DEF MailSplit
  <2>5. CASE p = Master
    BY <1>4, <1>6, <2>2, <2>5, MailParts, MailPartsNext DEF MailSplit
  <2> QED
    BY <1>7, <2>3, <2>4, <2>5 DEF Nodes, Peers
<1>8. CASE v # w
  <2>1. InInbox(v, s, p)' = InInbox(v, s, p)
    BY <1>1, <1>3, <1>8 DEF InInbox
  <2>2. Arriving(v, p, s)' = Arriving(v, p, s) + extra
    <3>1. CASE p # w
      <4>1. socket'[v][p] = socket[v][p]
        BY <1>1, <3>1, SentReceives
      <4>2. Arriving(v, p, s)' = Arriving(v, p, s)
        BY <4>1 DEF Arriving
      <4> QED
        BY <1>4, <3>1, <4>2
    <3>2. CASE p = w
      <4> PICK sends \in BOOLEAN, t \in {"EMPTY", "FINISH"} :
            /\ sends <=> v \in D
            /\ Receives(socket[v][w], Data(superstep[w]), Mark(t), sends, socket'[v][w])
        BY <1>1, <1>8, SentReceives
      <4>1. Mark(t) \notin {Data(s)}
        BY NoMark
      <4>2. Number(socket'[v][w], {Data(s)}) = Number(socket[v][w], {Data(s)})
              + (IF sends /\ Data(superstep[w]) \in {Data(s)} THEN 1 ELSE 0)
        BY <4>1, NumberReceived
      <4>3. Data(superstep[w]) \in {Data(s)} <=> s = n
        <5>1. Data(superstep[w]).round = n /\ Data(s).round = s
          BY DEF Data
        <5> QED
          BY <5>1
      <4>4. Arriving(v, w, s)' = Number(socket'[v][w], {Data(s)})
        BY DEF Arriving, Number, Places
      <4> QED
        BY <3>2, <4>2, <4>3, <4>4, ArrivingNumber
    <3> QED
      BY <3>1, <3>2
  <2>3. CASE p = v
    BY <1>4, <1>8, <2>1, <2>3, MailParts, MailPartsNext DEF MailSplit
  <2>4. CASE p \in Peers(v)
    BY <1>4, <1>5, <2>1, <2>2, <2>4, MailParts, MailPartsNext DEF MailSplit
  <2>5. CASE p = Master
    <3>1. p # w
      BY <2>5, PregelAssumption
    <3> QED
      BY <1>4, <1>6, <2>1, <2>5, <3>1, MailParts, MailPartsNext DEF MailSplit
  <2> QED
    BY <2>3, <2>4, <2>5 DEF Nodes, Peers
<1> QED
  BY <1>7, <1>8

LEMMA DistributeStep ==
  ASSUME AllRead, EndInv, TypeInv', NEW w \in Workers, NEW D, Distribute(w, D)
  PROVE  Steps!Supply(w, D)
<1> USE DEF EndInv, BarrierInv
<1>1. ~Starting /\ UNCHANGED <<query, superstep>>
  BY DEF Distribute, Starting
<1>2. Computing = {} /\ Computing' = {}
  BY <1>1 DEF Computing, Starting
<1> PICK n \in Numbers : \A u \in Workers : superstep[u] = n
  BY <1>1, SameSuperstep
<1>3. w \in Nodes
  BY DEF Nodes
<1>4. \A v \in Workers, s \in Numbers, p \in Nodes :
        Mail(v, s, p)' = Mail(v, s, p) + (IF v \in D /\ s = n /\ p = w THEN 1 ELSE 0)
  BY <1>1, SendPosts
<1> QED
  BY <1>1, <1>2, <1>3, <1>4, SupplyMeans

\* Nothing that is on its way to w belongs to the superstep that w has read.
LEMMA NothingLate ==
  ASSUME MailInv, NEW w \in Workers, NEW p \in Peers(w), pc[w] = "compute"
  PROVE  Arriving(w, p, superstep[w] - 1) = 0
<1> USE DEF MailInv, MailOK, EndInv, BarrierInv
<1>1. p \in Workers /\ p \in Nodes
  BY DEF Peers, Nodes
<1>2. ASSUME NEW i \in DOMAIN socket[w][p], socket[w][p][i] = Data(superstep[w] - 1)
      PROVE  FALSE
  <2> PICK k, n \in Nat : k = monitors[w] /\ n = superstep[w]
    BY EndTypes
  <2> PICK s : s = socket[w][p]
    OBVIOUS
  <2>1. s \in Seq(Messages) /\ i \in DOMAIN s /\ After(s, i) \in Nat /\ NrEnds(s) \in Nat
    BY <1>1, PeerPlaces, EndsType
  <2>2. After(s, i) <= NrEnds(s)
    BY <2>1, AfterMost
  <2>3. Handled(w, p) + Held(w, p) + NrEnds(s) = Ended(p) /\ Ended(p) \in Int
    BY <1>1, MailTypes DEF EndsOK
  <2>4. Handled(w, p) \in {k - 1, k} /\ Held(w, p) \in {0, 1}
    BY DEF Handled, Held
  <2> PICK j \in Int : j = Belongs(w, p, i)
    BY <2>1, <2>3 DEF Belongs
  <2>5. j >= k
    <3>1. j = Ended(p) + 1 - After(s, i)
      BY DEF Belongs
    <3> QED
      BY <2>1, <2>2, <2>3, <2>4, <3>1
  <2>6. s[i].type = "DATA" /\ s[i].round = n - 1
    BY <1>2 DEF Data
  <2>7. s[i].round - superstep[w] = j - monitors[w] - Late(w)
    <3>1. Fits(w, p, s[i], j)
      BY DEF DataOK
    <3> QED
      BY <2>6, <3>1, FitsMeans
  <2>8. Late(w) = 0
    BY DEF Late
  <2> QED
    BY <2>5, <2>6, <2>7, <2>8
<1>3. {i \in DOMAIN socket[w][p] : socket[w][p][i] = Data(superstep[w] - 1)} = {}
  BY <1>2
<1> QED
  BY <1>3, FS_EmptySet DEF Arriving

LEMMA ComputeStep ==
  ASSUME AllRead, StepsInv, TypeInv', NEW w \in Workers, NEW D, Compute(w, D)
  PROVE  Steps!Compute(w, D)
<1> USE DEF StepsInv, MailInv, MailOK, EndInv, BarrierInv
<1> PICK n \in Nat : n = superstep[w]
  BY MailTypes
<1>1. /\ pc[w] = "compute" /\ Starting
      /\ D # {} => HasMessages(w, n - 1)
      /\ pc' = [pc EXCEPT ![w] = "join"]
      /\ UNCHANGED <<query, superstep, queue>>
      /\ socket' = Sent(w, D)
  BY DEF Compute, Starting, AllRead, serverVars
<1>2. w \in Computing /\ Computing' = Computing \ {w}
  BY <1>1, EndTypes DEF Computing, Starting
<1>3. n \in Numbers /\ n - 1 \in Numbers /\ w \in Nodes
  <2>1. n > 0
    BY <1>1 DEF NumbersOK
  <2>2. n \in 0 .. MaxSuperstep
    BY DEF TypeInv, PregelTypeOK
  <2> QED
    BY <2>1, <2>2, PregelAssumption DEF Numbers, Nodes
<1> PICK l \in Numbers : l = n - 1
  BY <1>3
<1>4. l % 2 = (n + 1) % 2 /\ l % 2 \in Parities /\ l # n
  BY Parity
<1>5. \A p \in Nodes : inbox'[w][l % 2][p] = 0
  BY <1>1, <1>4, ComputedInbox
<1>6. ASSUME NEW p \in Nodes
      PROVE  Mail(w, l, p)' = 0
  <2>1. InInbox(w, l, p)' = 0
    BY <1>1, <1>5 DEF InInbox
  <2>2. CASE p = w
    BY <2>1, <2>2, MailPartsNext DEF MailSplit
  <2>3. CASE p \in Peers(w)
    <3>1. Arriving(w, p, l)' = 0
      <4>1. socket'[w][p] = socket[w][p]
        BY <1>1, SentReceives
      <4>2. Arriving(w, p, l) = 0
        BY <1>1, <2>3, NothingLate
      <4> QED
        BY <4>1, <4>2 DEF Arriving
    <3>2. InQueue(w, l, p)' = 0
      <4>1. l # n /\ l # n + 1
        BY <1>4
      <4> QED
        BY <1>1, <4>1 DEF InQueue
    <3> QED
      BY <2>1, <2>3, <3>1, <3>2, MailPartsNext DEF MailSplit
  <2>4. CASE p = Master
    <3>1. Supplied(w, l)' = 0
      BY <1>1, <1>4 DEF Supplied
    <3> QED
      BY <2>1, <2>4, <3>1, MailPartsNext DEF MailSplit
  <2> QED
    BY <2>2, <2>3, <2>4 DEF Nodes, Peers
<1>7. \A v \in Workers, s \in Numbers, p \in Nodes : ~(v = w /\ s = l) =>
        Mail(v, s, p)' = Mail(v, s, p) + (IF v \in D /\ s = n /\ p = w THEN 1 ELSE 0)
  BY SendPosts
<1> PICK left : left = [Box EXCEPT ![w][l] = Steps!NoMail]
  OBVIOUS
<1>8. Box \in [Workers -> [Numbers -> [Nodes -> Nat]]]
      /\ Box' \in [Workers -> [Numbers -> [Nodes -> Nat]]]
  BY BoxType, BoxTypeNext DEF BoxOK
<1>9. Steps!NoMail = [p \in Nodes |-> 0]
  BY DEF Steps!NoMail, Steps!Senders, Nodes
<1>10. /\ left \in [Workers -> [Numbers -> [Nodes -> Nat]]]
       /\ \A v \in Workers, s \in Numbers, p \in Nodes :
            left[v][s][p] = IF v = w /\ s = l THEN 0 ELSE Mail(v, s, p)
  <2>1. left \in [Workers -> [Numbers -> [Nodes -> Nat]]]
    BY <1>8, <1>9
  <2>2. ASSUME NEW v \in Workers, NEW s \in Numbers, NEW p \in Nodes
        PROVE  left[v][s][p] = IF v = w /\ s = l THEN 0 ELSE Box[v][s][p]
    BY <1>8, <1>9
  <2>3. \A v \in Workers, s \in Numbers, p \in Nodes : Box[v][s][p] = Mail(v, s, p)
    BY DEF Box
  <2> QED
    BY <2>1, <2>2, <2>3
<1>11. Box' = Steps!Posted(left, D, n, w)
  <2>1. ASSUME NEW v \in Workers, NEW s \in Numbers, NEW p \in Nodes
        PROVE  Box'[v][s][p] = left[v][s][p] + (IF v \in D /\ s = n /\ p = w THEN 1 ELSE 0)
    <3>1. Box'[v][s][p] = Mail(v, s, p)'
      BY DEF Box
    <3>2. CASE v = w /\ s = l
      BY <1>4, <1>6, <1>10, <3>1, <3>2
    <3>3. CASE ~(v = w /\ s = l)
      BY <1>7, <1>10, <3>1, <3>3
    <3> QED
      BY <3>2, <3>3
  <2>2. Adds(left, Box', D, n, w)
    BY <1>3, <1>8, <1>10, <2>1 DEF Adds
  <2> QED
    BY <2>2, StepsPosted
<1>12. D # {} => Box[w][l] # Steps!NoMail
  <2> SUFFICES ASSUME D # {} PROVE Box[w][l] # Steps!NoMail
    OBVIOUS
  <2>1. PICK p \in Nodes : inbox[w][l % 2][p] > 0
    BY <1>1 DEF HasMessages
  <2>2. InInbox(w, l, p) > 0
    BY <2>1 DEF InInbox
  <2>3. /\ InInbox(w, l, p) \in Nat /\ InQueue(w, l, p) \in Nat /\ Supplied(w, l) \in Nat
        /\ Arriving(w, p, l) \in Nat
    BY PartTypes
  <2>4. Mail(w, l, p) # 0
    <3>1. CASE p = w
      BY <2>2, <2>3, <3>1, MailParts DEF MailSplit
    <3>2. CASE p \in Peers(w)
      BY <2>2, <2>3, <3>2, MailParts DEF MailSplit
    <3>3. CASE p = Master
      BY <2>2, <2>3, <3>3, MailParts DEF MailSplit
    <3> QED
      BY <3>1, <3>2, <3>3 DEF Nodes, Peers
  <2> QED
    BY <1>9, <2>4 DEF Box
<1>13. /\ D # {} => Box[w][superstep[w] - 1] # Steps!NoMail
       /\ Box' = Steps!Posted([Box EXCEPT ![w][superstep[w] - 1] = Steps!NoMail],
                              D, superstep[w], w)
  BY <1>11, <1>12
<1> QED
  BY <1>1, <1>2, <1>13 DEF Steps!Compute, Box, Computing, Numbers

LEMMA ArrivingPopped ==
  ASSUME TypeInv, NEW w \in Workers, NEW q \in Nodes, socket[w][q] # <<>>, socket' = Popped(w, q),
         NEW v \in Workers, NEW p \in Nodes, NEW s
  PROVE  /\ Arriving(v, p, s) \in Nat /\ Arriving(v, p, s)' \in Nat
         /\ Arriving(v, p, s) = Arriving(v, p, s)'
              + (IF v = w /\ p = q /\ Head(socket[w][q]) = Data(s) THEN 1 ELSE 0)
<1>1. socket \in [Workers -> [Nodes -> Seq(Messages)]]
  BY EndTypes
<1>2. Arriving(v, p, s)' = Number(socket'[v][p], {Data(s)})
  BY DEF Arriving, Number, Places
<1>3. Number(socket[v][p], {Data(s)}) \in Nat
  BY <1>1, NumberType
<1>4. CASE v = w /\ p = q
  <2>1. socket'[w][q] = Tail(socket[w][q])
    BY <1>1 DEF Popped
  <2>2. socket[w][q] \in Seq(Messages) /\ Tail(socket[w][q]) \in Seq(Messages)
    BY <1>1, HeadTailProperties
  <2>3. Number(Tail(socket[w][q]), {Data(s)}) \in Nat
    BY <2>2, NumberType
  <2>4. Number(socket[w][q], {Data(s)}) = Number(Tail(socket[w][q]), {Data(s)})
          + (IF Head(socket[w][q]) \in {Data(s)} THEN 1 ELSE 0)
    BY <2>2, NumberTail
  <2> QED
    BY <1>2, <1>3, <1>4, <2>1, <2>3, <2>4, ArrivingNumber
<1>5. CASE ~(v = w /\ p = q)
  <2>1. socket'[v][p] = socket[v][p]
    BY <1>1, <1>5 DEF Popped
  <2>2. Arriving(v, p, s)' = Arriving(v, p, s)
    BY <2>1 DEF Arriving
  <2>3. Arriving(v, p, s) \in Nat
    BY <1>3, ArrivingNumber
  <2>4. (IF v = w /\ p = q /\ Head(socket[w][q]) = Data(s) THEN 1 ELSE 0) = 0
    BY <1>5
  <2> QED
    BY <2>2, <2>3, <2>4
<1> QED
  BY <1>4, <1>5

\* A message that is no DATA is not counted.
LEMMA OthersPopped ==
  ASSUME TypeInv, NEW w \in Workers, NEW q \in Nodes, socket[w][q] # <<>>, socket' = Popped(w, q),
         Head(socket[w][q]).type # "DATA"
  PROVE  \A v \in Workers, p \in Nodes : \A s : Arriving(v, p, s)' = Arriving(v, p, s)
<1> SUFFICES ASSUME NEW v \in Workers, NEW p \in Nodes, NEW s
             PROVE  Arriving(v, p, s)' = Arriving(v, p, s)
  OBVIOUS
<1>1. Head(socket[w][q]) # Data(s)
  BY DEF Data
<1> QED
  BY <1>1, ArrivingPopped

LEMMA ReadMarkStep ==
  ASSUME TypeInv, NEW w \in Workers, NEW q \in Nodes, ReadMark(w, q)
  PROVE  UNCHANGED Steps!vars
<1>1. /\ socket[w][q] # <<>> /\ socket' = Popped(w, q)
      /\ Head(socket[w][q]).type # "DATA"
      /\ UNCHANGED <<pc, query, superstep, inbox, queue>>
  BY DEF ReadMark, Readable, queryVars
<1>2. \A v \in Workers, p \in Nodes : \A s : Arriving(v, p, s)' = Arriving(v, p, s)
  BY <1>1, OthersPopped
<1>3. \A v \in Workers, s \in Numbers, p \in Nodes : Mail(v, s, p)' = Mail(v, s, p)
  <2> SUFFICES ASSUME NEW v \in Workers, NEW s \in Numbers, NEW p \in Nodes
               PROVE  Mail(v, s, p)' = Mail(v, s, p)
    OBVIOUS
  <2>1. /\ InInbox(v, s, p)' = InInbox(v, s, p) /\ InQueue(v, s, p)' = InQueue(v, s, p)
        /\ Arriving(v, p, s)' = Arriving(v, p, s)
    BY <1>1, <1>2 DEF InInbox, InQueue
  <2>2. Supplied(v, s)' = Supplied(v, s)
    BY <1>1, <1>2, NodeTypes DEF Supplied
  <2> QED
    BY <2>1, <2>2, MailParts, MailPartsNext DEF MailSplit, Nodes, Peers
<1>4. Computing' = Computing
  BY <1>1 DEF Computing
<1> QED
  BY <1>1, <1>3, <1>4, StepsStutter

LEMMA ReadDataStep ==
  ASSUME MailInv, NEW w \in Workers, NEW q \in Servers(w), ReadData(w, q)
  PROVE  UNCHANGED Steps!vars
<1> USE DEF MailInv, MailOK, EndInv, BarrierInv
<1> PICK n \in Nat : n = superstep[w]
  BY MailTypes
<1>1. /\ socket[w][q] # <<>> /\ socket' = Popped(w, q) /\ thread[w][q] = "reading"
      /\ Head(socket[w][q]).type = "DATA"
      /\ UNCHANGED <<pc, query, superstep, inbox>>
  BY DEF ReadData, Readable, queryVars
<1>2. q \in Nodes /\ q # w
  BY NodeTypes DEF Servers, Peers
<1>3. /\ Head(socket[w][q]) = Data(Head(socket[w][q]).round)
      /\ Head(socket[w][q]).round \in Nat
  BY <1>1, <1>2, TypePopped DEF Messages, Data
<1> PICK r \in Nat : r = Head(socket[w][q]).round
  BY <1>3
<1>4. r % 2 \in Parities
  BY Parity
<1>5. queue' = [queue EXCEPT ![w][q][r % 2] = @ + 1]
  BY DEF ReadData
<1>6. \A s : Head(socket[w][q]) = Data(s) <=> s = r
  <2>1. \A s : Data(s).round = s
    BY DEF Data
  <2> QED
    BY <1>3, <2>1
<1>7. /\ \A v \in Workers, p \in Nodes : v # w \/ p # q => queue'[v][p] = queue[v][p]
      /\ queue'[w][q][r % 2] = queue[w][q][r % 2] + 1
      /\ \A b \in Parities : b # r % 2 => queue'[w][q][b] = queue[w][q][b]
  <2>1. queue \in [Workers -> [Nodes -> [Parities -> Nat]]]
    BY MailTypes
  <2>2. \A v \in Workers, p \in Nodes : v # w \/ p # q => queue'[v][p] = queue[v][p]
    BY <1>2, <1>5, <2>1
  <2>3. queue'[w][q] = [queue[w][q] EXCEPT ![r % 2] = @ + 1]
    BY <1>2, <1>5, <2>1
  <2>4. /\ queue'[w][q][r % 2] = queue[w][q][r % 2] + 1
        /\ \A b \in Parities : b # r % 2 => queue'[w][q][b] = queue[w][q][b]
    <3> PICK c, f, g : c = r % 2 /\ f = queue[w][q] /\ g = queue'[w][q]
      OBVIOUS
    <3>1. c \in Parities /\ f \in [Parities -> Nat] /\ g = [f EXCEPT ![c] = @ + 1]
      BY <1>2, <1>4, <2>1, <2>3
    <3>2. g[c] = f[c] + 1 /\ \A b \in Parities : b # c => g[b] = f[b]
      BY <3>1
    <3> QED
      BY <3>2
  <2> QED
    BY <2>2, <2>4
<1>8. ASSUME NEW v \in Workers, NEW s \in Numbers, NEW p \in Nodes
      PROVE  Mail(v, s, p)' = Mail(v, s, p)
  <2>1. InInbox(v, s, p)' = InInbox(v, s, p)
    BY <1>1 DEF InInbox
  <2>2. CASE ~(v = w /\ p = q)
    <3>1. Arriving(v, p, s)' = Arriving(v, p, s) /\ Arriving(v, p, 0)' = Arriving(v, p, 0)
      BY <1>1, <1>2, <2>2, ArrivingPopped
    <3>2. InQueue(v, s, p)' = InQueue(v, s, p)
      BY <1>1, <1>7, <2>2 DEF InQueue
    <3>3. p = Master => Supplied(v, s)' = Supplied(v, s)
      BY <1>1, <1>7, <2>2, <3>1 DEF Supplied
    <3>4. p = v \/ p \in Peers(v) \/ p = Master
      BY DEF Nodes, Peers
    <3> QED
      BY <2>1, <3>1, <3>2, <3>3, <3>4, MailParts, MailPartsNext DEF MailSplit
  <2>3. CASE v = w /\ p = q /\ q \in Peers(w)
    <3>1. r = n \/ r = n + 1
      BY <1>1, <2>3, ReadFits
    <3>2. /\ Arriving(w, q, s) \in Nat /\ Arriving(w, q, s)' \in Nat
          /\ Arriving(w, q, s) = Arriving(w, q, s)' + (IF s = r THEN 1 ELSE 0)
      BY <1>1, <1>2, <1>6, ArrivingPopped
    <3>3. InQueue(w, s, q) \in Nat
      BY <1>2, PartTypes
    <3>4. s % 2 \in Parities /\ n % 2 # (n + 1) % 2
      BY Parity DEF Numbers
    <3>5. InQueue(w, s, q)' = InQueue(w, s, q) + (IF s = r THEN 1 ELSE 0)
      <4>1. CASE s = r
        BY <1>1, <1>7, <3>1, <4>1 DEF InQueue
      <4>2. CASE s # r /\ s \in {n, n + 1}
        <5>1. s % 2 # r % 2
          BY <3>1, <3>4, <4>2
        <5>2. queue'[w][q][s % 2] = queue[w][q][s % 2]
          BY <1>7, <3>4, <5>1
        <5>3. InQueue(w, s, q)' = InQueue(w, s, q)
          BY <1>1, <5>2 DEF InQueue
        <5> QED
          BY <3>3, <4>2, <5>3
      <4>3. CASE s # r /\ s \notin {n, n + 1}
        BY <1>1, <4>3 DEF InQueue
      <4> QED
        BY <4>1, <4>2, <4>3
    <3>6. Arriving(w, q, s)' + InQueue(w, s, q)' = Arriving(w, q, s) + InQueue(w, s, q)
      BY <3>2, <3>3, <3>5
    <3> QED
      BY <2>1, <2>3, <3>6, MailParts, MailPartsNext DEF MailSplit
  <2>4. CASE v = w /\ p = q /\ q = Master
    <3>1. r = 0
      <4>1. /\ 1 \in DOMAIN socket[w][Master] /\ Head(socket[w][Master]) = socket[w][Master][1]
        <5>1. socket[w][Master] \in Seq(Messages) /\ socket[w][Master] # <<>>
          BY <1>1, <1>2, <2>4, EndTypes
        <5> QED
          BY <5>1, HeadTailProperties, LenProperties, EmptySeq
      <4> QED
        BY <1>1, <2>4, <4>1 DEF MastersOK
    <3>2. /\ Arriving(w, Master, 0) \in Nat /\ Arriving(w, Master, 0)' \in Nat
          /\ Arriving(w, Master, 0) = Arriving(w, Master, 0)' + 1
      BY <1>1, <1>2, <1>6, <2>4, <3>1, ArrivingPopped
    <3>3. /\ queue[w][Master][0] \in Nat /\ queue[w][Master][1] \in Nat
      BY <1>2, <2>4, MailTypes DEF Parities
    <3>4. queue'[w][Master][0] = queue[w][Master][0] + 1
          /\ queue'[w][Master][1] = queue[w][Master][1]
      BY <1>7, <2>4, <3>1 DEF Parities
    <3>5. Arriving(w, Master, 0)' + queue'[w][Master][0] + queue'[w][Master][1]
            = Arriving(w, Master, 0) + queue[w][Master][0] + queue[w][Master][1]
      <4> PICK a, b, c \in Nat :
            a = Arriving(w, Master, 0)' /\ b = queue[w][Master][0] /\ c = queue[w][Master][1]
        BY <3>2, <3>3
      <4>1. a + (b + 1) + c = (a + 1) + b + c
        OBVIOUS
      <4> QED
        BY <3>2, <3>4, <4>1
    <3>6. Supplied(w, s)' = Supplied(w, s)
      BY <1>1, <3>5 DEF Supplied
    <3> QED
      BY <2>1, <2>4, <3>6, MailParts, MailPartsNext DEF MailSplit
  <2> QED
    BY <2>2, <2>3, <2>4 DEF Servers
<1>9. Computing' = Computing
  BY <1>1 DEF Computing
<1> QED
  BY <1>1, <1>8, <1>9, StepsStutter

\* What a worker collects was in the queues of its servers.
LEMMA CollectKeeps ==
  ASSUME TypeInv, QueuesOK, NEW w \in Workers, NEW queues \in [Nodes -> [Parities -> Nat]],
         CollectFromAllServers(w, queues), superstep' = superstep,
         \A p \in Nodes : p # Master => queues[p] = queue[w][p],
         queues[Master][0] + queues[Master][1] = queue[w][Master][0] + queue[w][Master][1],
         \A v \in Workers, p \in Nodes : \A s : Arriving(v, p, s)' = Arriving(v, p, s)
  PROVE  \A v \in Workers, s \in Numbers, p \in Nodes : Mail(v, s, p)' = Mail(v, s, p)
<1> SUFFICES ASSUME NEW v \in Workers, NEW s \in Numbers, NEW p \in Nodes
             PROVE  Mail(v, s, p)' = Mail(v, s, p)
  OBVIOUS
<1> PICK n \in Nat : n = superstep[w]
  BY MailTypes
<1>1. /\ \A u \in Workers : u # w => inbox'[u] = inbox[u] /\ queue'[u] = queue[u]
      /\ inbox'[w][(n + 1) % 2] = inbox[w][(n + 1) % 2]
      /\ \A u \in Nodes : /\ inbox'[w][n % 2][u] = inbox[w][n % 2][u] + queues[u][n % 2]
                          /\ queue'[w][u][n % 2] = 0
                          /\ queue'[w][u][(n + 1) % 2] = queues[u][(n + 1) % 2]
  BY CollectedMail
<1>2. /\ n % 2 \in Parities /\ (n + 1) % 2 \in Parities /\ n % 2 # (n + 1) % 2
      /\ (n - 1) % 2 = (n + 1) % 2
  BY Parity
<1>3. Arriving(v, p, s)' = Arriving(v, p, s) /\ Arriving(v, p, s) \in Nat
  BY PartTypes
<1>4. CASE v # w
  <2>1. InInbox(v, s, p)' = InInbox(v, s, p) /\ InQueue(v, s, p)' = InQueue(v, s, p)
    BY <1>1, <1>4 DEF InInbox, InQueue
  <2>2. Supplied(v, s)' = Supplied(v, s)
    BY <1>1, <1>4, NodeTypes DEF Supplied
  <2> QED
    BY <1>3, <2>1, <2>2, MailParts, MailPartsNext DEF MailSplit, Nodes, Peers
<1>5. CASE v = w /\ s # n
  <2>1. InInbox(v, s, p)' = InInbox(v, s, p)
    <3>1. CASE s = n - 1
      BY <1>1, <1>2, <1>5, <3>1 DEF InInbox
    <3>2. CASE s # n - 1
      BY <1>5, <3>2 DEF InInbox
    <3> QED
      BY <3>1, <3>2
  <2>2. p # Master => InQueue(v, s, p)' = InQueue(v, s, p)
    <3>1. CASE s = n + 1
      BY <1>1, <1>5, <3>1 DEF InQueue
    <3>2. CASE s # n + 1
      BY <1>5, <3>2 DEF InQueue
    <3> QED
      BY <3>1, <3>2
  <2>3. Supplied(v, s)' = Supplied(v, s)
    BY <1>5 DEF Supplied
  <2>4. p = v \/ (p \in Peers(v) /\ p # Master) \/ p = Master
    BY PregelAssumption DEF Nodes, Peers
  <2> QED
    BY <1>3, <2>1, <2>2, <2>3, <2>4, MailParts, MailPartsNext DEF MailSplit
<1>6. CASE v = w /\ s = n
  <2>1. inbox[w][n % 2][p] \in Nat /\ queues[p][n % 2] \in Nat
    BY <1>2, MailTypes
  <2>2. InInbox(v, s, p)' = InInbox(v, s, p) + queues[p][n % 2] /\ InInbox(v, s, p) \in Nat
    BY <1>1, <1>6, <2>1 DEF InInbox
  <2>3. CASE p = v
    <3>1. queues[p][n % 2] = 0
      <4>1. queue[w][w][n % 2] = 0
        BY <1>2 DEF QueuesOK
      <4>2. p # Master
        BY <2>3, PregelAssumption
      <4> QED
        BY <1>6, <2>3, <4>1, <4>2
    <3> QED
      BY <2>2, <2>3, <3>1, MailParts, MailPartsNext DEF MailSplit
  <2>4. CASE p \in Peers(v)
    <3>1. p # Master
      BY <2>4, PeersOf
    <3>2. InQueue(v, s, p) = queues[p][n % 2] /\ InQueue(v, s, p)' = 0
      BY <1>1, <1>6, <3>1 DEF InQueue
    <3> QED
      BY <1>3, <2>1, <2>2, <2>4, <3>2, MailParts, MailPartsNext DEF MailSplit
  <2>5. CASE p = Master
    <3> PICK a, b \in Nat : a = queues[Master][n % 2] /\ b = queues[Master][(n + 1) % 2]
      BY <1>2, NodeTypes
    <3>1. a + b = queues[Master][0] + queues[Master][1]
          /\ queue'[w][Master][0] + queue'[w][Master][1] = b
      <4>1. Master \in Nodes /\ queues[Master] \in [Parities -> Nat]
        BY NodeTypes
      <4>2. queue'[w][Master][n % 2] = 0 /\ queue'[w][Master][(n + 1) % 2] = b
        BY <1>1, <4>1
      <4>3. \/ n % 2 = 0 /\ (n + 1) % 2 = 1
            \/ n % 2 = 1 /\ (n + 1) % 2 = 0
        BY <1>2 DEF Parities
      <4>4. CASE n % 2 = 0 /\ (n + 1) % 2 = 1
        BY <4>2, <4>4
      <4>5. CASE n % 2 = 1 /\ (n + 1) % 2 = 0
        BY <4>2, <4>5
      <4> QED
        BY <4>3, <4>4, <4>5
    <3>2. queue[w][Master][0] \in Nat /\ queue[w][Master][1] \in Nat
          /\ queue'[w][Master][0] \in Nat /\ queue'[w][Master][1] \in Nat
      <4>1. 0 \in Parities /\ 1 \in Parities /\ Master \in Nodes
        BY NodeTypes DEF Parities
      <4>2. \A c \in Parities : c = n % 2 \/ c = (n + 1) % 2
        BY Parity
      <4>3. \A c \in Parities : queue'[w][Master][c] \in Nat
        BY <1>1, <4>1, <4>2
      <4> QED
        BY <4>1, <4>3, MailTypes
    <3>3. Arriving(w, Master, 0) \in Nat /\ Arriving(w, Master, 0)' = Arriving(w, Master, 0)
      <4>1. Master \in Nodes /\ 0 \in Numbers
        BY NodeTypes, PregelAssumption DEF Numbers
      <4> QED
        BY <4>1, PartTypes
    <3>4. Supplied(v, s) = Arriving(w, Master, 0) + queue[w][Master][0] + queue[w][Master][1]
          /\ Supplied(v, s)' = Arriving(w, Master, 0) + queue'[w][Master][0] + queue'[w][Master][1]
      BY <1>6, <3>3 DEF Supplied
    <3>5. Supplied(v, s) = Supplied(v, s)' + a /\ Supplied(v, s)' \in Nat
      <4> PICK c, d, e \in Nat : /\ c = Arriving(w, Master, 0)
                                /\ d = queue[w][Master][0] /\ e = queue[w][Master][1]
        BY <3>2, <3>3
      <4> PICK f, g \in Nat : f = queue'[w][Master][0] /\ g = queue'[w][Master][1]
        BY <3>2
      <4>1. d + e = a + b /\ f + g = b
        BY <3>1
      <4>2. c + d + e = (c + f + g) + a /\ c + f + g \in Nat
        BY <4>1
      <4> QED
        BY <3>4, <4>2
    <3>6. InInbox(v, s, Master)' = InInbox(v, s, Master) + a /\ InInbox(v, s, Master) \in Nat
      BY <2>2, <2>5
    <3> QED
      BY <2>5, <3>5, <3>6, MailParts, MailPartsNext DEF MailSplit
  <2> QED
    BY <2>3, <2>4, <2>5 DEF Nodes, Peers
<1> QED
  BY <1>4, <1>5, <1>6

LEMMA HandleMarkStep ==
  ASSUME MailInv, NEW w \in Workers, NEW q \in Nodes, HandleMark(w, q)
  PROVE  UNCHANGED Steps!vars
<1> USE DEF MailInv, MailOK, EndInv, BarrierInv
<1>1. /\ UNCHANGED <<pc, query, superstep, socket>>
      /\ \/ CollectFromAllServers(w, queue[w])
         \/ UNCHANGED <<inbox, queue>>
  BY DEF HandleMark
<1>2. Computing' = Computing
  BY <1>1 DEF Computing
<1>3. CASE CollectFromAllServers(w, queue[w])
  <2>1. queue[w] \in [Nodes -> [Parities -> Nat]]
    BY MailTypes
  <2>2. \A v \in Workers, p \in Nodes : \A s : Arriving(v, p, s)' = Arriving(v, p, s)
    BY <1>1 DEF Arriving
  <2>3. \A v \in Workers, s \in Numbers, p \in Nodes : Mail(v, s, p)' = Mail(v, s, p)
    BY <1>1, <1>3, <2>1, <2>2, CollectKeeps
  <2> QED
    BY <1>1, <1>2, <2>3, StepsStutter
<1>4. CASE UNCHANGED <<inbox, queue>>
  BY <1>1, <1>2, <1>4, QuietStep
<1> QED
  BY <1>1, <1>3, <1>4

LEMMA HandleInitDoneStep ==
  ASSUME MailInv, NEW w \in Workers, NEW q \in Servers(w), HandleInitDone(w, q)
  PROVE  UNCHANGED Steps!vars
<1> USE DEF MailInv, MailOK, EndInv, BarrierInv
<1>1. /\ socket[w][q] # <<>> /\ Head(socket[w][q]).type = "INIT_DONE"
      /\ socket' = Popped(w, q)
      /\ CollectFromAllServers(w, Brought(queue[w], q, superstep[w]))
      /\ UNCHANGED <<pc, query, superstep>>
  BY DEF HandleInitDone, Readable
<1>2. q = Master /\ Master \in Nodes
  <2>1. q \notin Peers(w)
    BY <1>1, BarrierPopped DEF FromPeer
  <2> QED
    BY <2>1, NodeTypes DEF Servers, Peers
<1> PICK queues : queues = Brought(queue[w], Master, superstep[w])
  OBVIOUS
<1>3. /\ queues \in [Nodes -> [Parities -> Nat]]
      /\ \A p \in Nodes : p # Master => queues[p] = queue[w][p]
      /\ queues[Master][0] + queues[Master][1] = queue[w][Master][0] + queue[w][Master][1]
  <2> PICK b \in Parities : b = superstep[w] % 2
    BY MailTypes, Parity
  <2> PICK a, c : a = queue[w][Master][0] /\ c = queue[w][Master][1]
    OBVIOUS
  <2> PICK f : f = [d \in Parities |-> IF d = b THEN a + c ELSE 0]
    OBVIOUS
  <2>1. queue[w] \in [Nodes -> [Parities -> Nat]]
    BY MailTypes
  <2>2. a \in Nat /\ c \in Nat
    BY <1>2, <2>1 DEF Parities
  <2>3. f \in [Parities -> Nat] /\ f[0] + f[1] = a + c
    BY <2>2 DEF Parities
  <2>4. queues = [queue[w] EXCEPT ![Master] = f]
    BY <1>2, <2>1 DEF Brought
  <2> QED
    BY <1>2, <2>1, <2>3, <2>4
<1>4. \A v \in Workers, p \in Nodes : \A s : Arriving(v, p, s)' = Arriving(v, p, s)
  BY <1>1, <1>2, OthersPopped
<1>5. \A v \in Workers, s \in Numbers, p \in Nodes : Mail(v, s, p)' = Mail(v, s, p)
  BY <1>1, <1>2, <1>3, <1>4, CollectKeeps
<1>6. Computing' = Computing
  BY <1>1 DEF Computing
<1> QED
  BY <1>1, <1>5, <1>6, StepsStutter

LEMMA NumbersStep == NumbersOK /\ TypeInv /\ [Next]_vars => NumbersOK'
<1> SUFFICES ASSUME NumbersOK, TypeInv, [Next]_vars PROVE NumbersOK'
  OBVIOUS
<1> USE DEF NumbersOK, Starting
<1>0. /\ pc \in [Workers -> {"idle", "begin", "compute", "join"}]
      /\ superstep \in [Workers -> Nat]
  BY EndTypes
<1>1. CASE Commands
  <2>1. \/ UNCHANGED <<pc, query, superstep>>
        \/ pc' = [w \in Workers |-> "begin"]
    BY <1>1 DEF Commands, InitPregelMessages, StartPregel, InitOnWorkers,
                ClearMessages, queryVars
  <2> QED
    BY <2>1
<1>2. ASSUME NEW w \in Workers, Query(w)
      PROVE  NumbersOK'
  <2>1. CASE BeginSuperstep(w)
    BY <1>0, <2>1 DEF BeginSuperstep
  <2>2. CASE BeginInit(w)
    BY <2>2 DEF BeginInit
  <2>3. CASE \E D \in Destinations : Compute(w, D) \/ Distribute(w, D)
    <3>1. pc' = [pc EXCEPT ![w] = "join"] /\ UNCHANGED <<query, superstep>>
      BY <2>3 DEF Compute, Distribute
    <3> QED
      BY <1>0, <3>1
  <2>4. CASE Join(w)
    <3>1. UNCHANGED <<query, superstep>>
          /\ \E c \in {"idle", "begin"} : pc' = [pc EXCEPT ![w] = c]
      BY <2>4 DEF Join
    <3> QED
      BY <1>0, <3>1
  <2> QED
    BY <1>2, <2>1, <2>2, <2>3, <2>4 DEF Query
<1>3. ASSUME NEW w \in Workers, Receiver(w)
      PROVE  NumbersOK'
  BY <1>3 DEF Receiver, StartReading, SetMonitor, queryVars
<1>4. ASSUME NEW w \in Workers, NEW p \in Servers(w), Server(w, p)
      PROVE  NumbersOK'
  <2>1. UNCHANGED <<pc, query, superstep>>
    BY <1>4 DEF Server, ReadData, ReadMark, AwaitMonitor, HandleMark, HandleInitDone, queryVars
  <2> QED
    BY <2>1
<1>5. CASE UNCHANGED vars
  BY <1>5 DEF vars, queryVars
<1> QED
  BY <1>1, <1>2, <1>3, <1>4, <1>5 DEF Next

LEMMA StepsStep ==
  ASSUME AllRead, StepsInv, TypeInv', [Next]_vars
  PROVE  [Steps!Next]_(Steps!vars)
<1> USE DEF StepsInv
<1>1. TypeInv /\ EndInv
  BY DEF MailInv, EndInv, BarrierInv
<1>2. \A w \in Workers : Servers(w) \subseteq Nodes /\ w \in Steps!Senders
  BY NodeTypes DEF Steps!Senders
<1>3. Destinations \subseteq SUBSET Workers /\ Master \in Steps!Senders
  BY DEF Destinations, Steps!Senders
<1>4. CASE Commands
  <2>1. ASSUME NEW D \in Destinations, InitPregelMessages(D)
        PROVE  Steps!Next
    <3>1. Steps!Supply(Master, D)
      BY <1>1, <2>1, SupplyStep
    <3> QED
      BY <1>3, <3>1 DEF Steps!Next
  <2>2. CASE (\E n \in 1 .. MaxSuperstep : StartPregel(n)) \/ InitOnWorkers
    BY <2>2, StartStep
  <2>3. CASE ClearMessages
    BY <2>3, ClearStep DEF Steps!Next
  <2> QED
    BY <1>4, <2>1, <2>2, <2>3 DEF Commands
<1>5. ASSUME NEW w \in Workers, Query(w)
      PROVE  [Steps!Next]_(Steps!vars)
  <2>1. CASE BeginSuperstep(w)
    BY <2>1, BeginStep DEF Steps!Next
  <2>2. CASE BeginInit(w)
    BY <1>1, <2>2, BeginInitStep
  <2>3. ASSUME NEW D \in Destinations, Compute(w, D)
        PROVE  Steps!Next
    <3>1. Steps!Compute(w, D)
      BY <2>3, ComputeStep
    <3> QED
      BY <1>3, <3>1 DEF Steps!Next
  <2>4. ASSUME NEW D \in Destinations, Distribute(w, D)
        PROVE  Steps!Next
    <3>1. Steps!Supply(w, D)
      BY <1>1, <2>4, DistributeStep
    <3> QED
      BY <1>2, <1>3, <3>1 DEF Steps!Next
  <2>5. CASE Join(w)
    <3>1. UNCHANGED <<query, superstep, inbox, queue, socket>> /\ pc[w] = "join"
          /\ \E c \in {"idle", "begin"} : pc' = [pc EXCEPT ![w] = c]
      BY <2>5 DEF Join, serverVars
    <3>2. \A v \in Workers : pc'[v] = "compute" <=> pc[v] = "compute"
      <4>1. pc \in [Workers -> {"idle", "begin", "compute", "join"}]
        BY <1>1, EndTypes
      <4> QED
        BY <3>1, <4>1
    <3>3. Computing' = Computing
      BY <3>1, <3>2 DEF Computing
    <3> QED
      BY <3>1, <3>3, QuietStep
  <2> QED
    BY <1>5, <2>1, <2>2, <2>3, <2>4, <2>5 DEF Query
<1>6. ASSUME NEW w \in Workers, Receiver(w)
      PROVE  [Steps!Next]_(Steps!vars)
  <2>1. UNCHANGED <<pc, query, superstep, inbox, queue, socket>>
    BY <1>6 DEF Receiver, StartReading, SetMonitor, queryVars
  <2>2. Computing' = Computing
    BY <2>1 DEF Computing
  <2> QED
    BY <2>1, <2>2, QuietStep
<1>7. ASSUME NEW w \in Workers, NEW p \in Servers(w), Server(w, p)
      PROVE  [Steps!Next]_(Steps!vars)
  <2>1. CASE AwaitMonitor(w, p)
    <3>1. UNCHANGED <<pc, query, superstep, inbox, queue, socket>>
      BY <2>1 DEF AwaitMonitor, queryVars
    <3>2. Computing' = Computing
      BY <3>1 DEF Computing
    <3> QED
      BY <3>1, <3>2, QuietStep
  <2>2. p \in Nodes
    BY <1>2
  <2>3. CASE ReadData(w, p)
    BY <2>3, ReadDataStep
  <2>4. CASE ReadMark(w, p)
    BY <1>1, <2>2, <2>4, ReadMarkStep
  <2>5. CASE HandleMark(w, p)
    BY <2>2, <2>5, HandleMarkStep
  <2>6. CASE HandleInitDone(w, p)
    BY <2>6, HandleInitDoneStep
  <2> QED
    BY <1>7, <2>1, <2>3, <2>4, <2>5, <2>6 DEF Server
<1>8. CASE UNCHANGED vars
  <2>1. UNCHANGED <<pc, query, superstep, inbox, queue, socket>>
    BY <1>8 DEF vars, queryVars, serverVars
  <2>2. Computing' = Computing
    BY <2>1 DEF Computing
  <2> QED
    BY <2>1, <2>2, QuietStep
<1> QED
  BY <1>4, <1>5, <1>6, <1>7, <1>8 DEF Next

LEMMA StepsInit == Init => StepsInv /\ Steps!Init
<1> SUFFICES ASSUME Init PROVE StepsInv /\ Steps!Init
  OBVIOUS
<1>1. StepsInv
  BY MailInit DEF Init, StepsInv, NumbersOK
<1>2. superstep = [w \in Workers |-> 0] /\ Computing = {}
  BY DEF Init, Computing
<1>3. ASSUME NEW w \in Workers, NEW s \in Numbers, NEW p \in Nodes
      PROVE  Mail(w, s, p) = 0
  <2>1. s % 2 \in Parities /\ 0 \in Parities /\ 1 \in Parities /\ Master \in Nodes
    BY Parity, NodeTypes DEF Numbers, Parities
  <2>2. /\ inbox[w][s % 2][p] = 0 /\ queue[w][p][s % 2] = 0
        /\ queue[w][Master][0] = 0 /\ queue[w][Master][1] = 0
        /\ \A q \in Nodes : socket[w][q] = <<>>
    BY <2>1 DEF Init, Everywhere, EmptyInbox, NoMessages
  <2>3. \A q \in Nodes : \A r : Arriving(w, q, r) = 0
    <3> SUFFICES ASSUME NEW q \in Nodes, NEW r PROVE Arriving(w, q, r) = 0
      OBVIOUS
    <3>1. {i \in DOMAIN socket[w][q] : socket[w][q][i] = Data(r)} = {}
      BY <2>2, EmptySeq
    <3> QED
      BY <3>1, FS_EmptySet DEF Arriving
  <2>4. InInbox(w, s, p) = 0 /\ InQueue(w, s, p) = 0 /\ Supplied(w, s) = 0
    BY <2>1, <2>2, <2>3 DEF InInbox, InQueue, Supplied
  <2> QED
    BY <2>3, <2>4, MailParts DEF MailSplit, Nodes, Peers
<1>4. Box = [w \in Workers |-> [s \in Numbers |-> [p \in Nodes |-> 0]]]
  BY <1>3 DEF Box
<1> QED
  BY <1>1, <1>2, <1>4
  DEF Steps!Init, Steps!NoMail, Steps!Numbers, Steps!Senders, Box, Computing, Numbers, Nodes

(* The broker implements Supersteps, for any number of workers, messages and *)
(* supersteps and any order of its threads: every message is read exactly    *)
(* once, by the function of the superstep after the one it was sent in, and  *)
(* nobody begins a superstep before all workers have finished the one        *)
(* before.  The situations that SilentEndCorrect excludes are left out.      *)
THEOREM StepsCorrect ==
  ASSUME AllRead
  PROVE  Spec => ImplementsSupersteps
<1>1. StepsInv /\ [Next]_vars => StepsInv' /\ [Steps!Next]_(Steps!vars)
  <2> SUFFICES ASSUME StepsInv, [Next]_vars
               PROVE  StepsInv' /\ [Steps!Next]_(Steps!vars)
    OBVIOUS
  <2>1. TypeInv
    BY DEF StepsInv, MailInv, EndInv, BarrierInv
  <2>2. MailInv'
    BY MailStep DEF StepsInv
  <2>3. NumbersOK'
    BY <2>1, NumbersStep DEF StepsInv
  <2>4. TypeInv'
    BY <2>1, TypeStep
  <2> QED
    BY <2>2, <2>3, <2>4, StepsStep DEF StepsInv
<1> QED
  BY <1>1, StepsInit, PTL DEF Spec, ImplementsSupersteps, Steps!Spec
=============================================================================
