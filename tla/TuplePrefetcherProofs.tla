------------------------- MODULE TuplePrefetcherProofs -------------------------
(***************************************************************************)
(* Theorems about TuplePrefetcher, for any number of producers, any length *)
(* of the queue, and any statements.                                       *)
(***************************************************************************)
EXTENDS TuplePrefetcher, SequenceTheorems, FiniteSetTheorems, TLAPS

USE PrefetcherAssumption

-----------------------------------------------------------------------------
(* The invariants.                                                         *)

\* How often e is in s.
Places(s, e) == {i \in 1 .. Len(s) : s[i] = e}
Times(s, e) == Cardinality(Places(s, e))

\* The producers that have not inserted their Null.
Live == {t \in Producers : producer[t] # "done"}

\* What a producer works on is a statement.
PlacesOK ==
  \A t \in Producers :
    /\ producer[t] = "fetch" => fetching[t] \in 1 .. Len(rows)
    /\ producer[t] = "insert" /\ holding[t] # Null =>
         fetching[t] \in 1 .. Len(rows) /\ holding[t] = fetching[t]

\* One Null for each thread: in its hands, in the queue, or counted.
TerminalsOK ==
  /\ Live \subseteq producerThreads
  /\ producerThreads # {} =>
       receivedTerminals + Times(tuples, Null) + Cardinality(Live)
         = Cardinality(producerThreads)
  /\ consumer \in {"idle", "getting", "joining"} => producerThreads # {}
  /\ consumer = "joining" =>
       receivedTerminals = Cardinality(producerThreads)
  /\ consumer \in {"joining", "finished"} => workdone

TypeInv == PrefetcherTypeOK /\ PlacesOK /\ TerminalsOK

SleepInv == TypeInv /\ SleepersWait

\* The end: nobody works, and the operator has seen every Null.
EndOK ==
  /\ workdone => Live = {}
  /\ consumer = "destroyed" => workdone
  /\ shutdown <=> closing
  /\ closing => consumer \notin {"idle", "finished"}

EndInv == TypeInv /\ EndOK

\* The last tuple of a producer is its Null.
LastIsNull ==
  Live = {} /\ tuples # <<>> => tuples[Len(tuples)] = Null

\* Somebody has found no more statements.
NullSeen ==
  \/ receivedTerminals > 0
  \/ Places(tuples, Null) # {}
  \/ \E t \in Producers : producer[t] = "insert" /\ holding[t] = Null

NoneLeft ==
  /\ consumer \in {"joining", "finished"} => tuples = <<>>
  /\ consumer \in {"joining", "finished"} \/ NullSeen => queries = 0

\* The producers that execute a statement.
Fetchers(q) ==
  {t \in Producers :
     /\ fetching[t] = q
     /\ producer[t] = "fetch" \/ (producer[t] = "insert" /\ holding[t] = q)}

FetchersOK ==
  \A t \in Producers, q \in 1 .. Len(rows) :
    t \in Fetchers(q) => q > queries /\ Fetchers(q) = {t}

\* The rows of a statement: to be fetched, in hand, in the queue, delivered.
Served(q) == delivered[q] + Times(tuples, q)

InHand(t) == IF producer[t] = "insert" THEN 1 ELSE 0

RowsOK ==
  ~closing =>
    \A q \in 1 .. Len(rows) :
      /\ q <= queries => Served(q) = 0
      /\ q > queries /\ Fetchers(q) = {} => Served(q) = rows[q]
      /\ \A t \in Fetchers(q) : Served(q) + left[t] + InHand(t) = rows[q]

RowsInv == EndInv /\ LastIsNull /\ NoneLeft /\ FetchersOK /\ RowsOK

-----------------------------------------------------------------------------
(* Sequences, and how often an element is in one.                          *)

LEMMA PlacesFinite ==
  ASSUME NEW S, NEW s \in Seq(S), NEW e
  PROVE  /\ IsFiniteSet(Places(s, e))
         /\ Times(s, e) \in Nat
         /\ Times(s, e) = 0 <=> Places(s, e) = {}
<1>1. Len(s) \in Nat /\ IsFiniteSet(1 .. Len(s))
  BY LenProperties, FS_Interval
<1>2. IsFiniteSet(Places(s, e))
  BY <1>1, FS_Subset DEF Places
<1> QED
  BY <1>2, FS_CardinalityType, FS_EmptySet DEF Times

LEMMA TimesAppend ==
  ASSUME NEW S, NEW s \in Seq(S), NEW x \in S, NEW e
  PROVE  Times(Append(s, x), e) = Times(s, e) + (IF x = e THEN 1 ELSE 0)
<1>1. /\ Len(Append(s, x)) = Len(s) + 1
      /\ \A i \in 1 .. Len(s) : Append(s, x)[i] = s[i]
      /\ Append(s, x)[Len(s) + 1] = x
      /\ Len(s) \in Nat
  BY LenProperties
<1>2. Places(Append(s, x), e) =
        IF x = e THEN Places(s, e) \cup {Len(s) + 1} ELSE Places(s, e)
  BY <1>1 DEF Places
<1>3. Len(s) + 1 \notin Places(s, e)
  BY <1>1 DEF Places
<1>4. IsFiniteSet(Places(s, e)) /\ Times(s, e) \in Nat
  BY PlacesFinite
<1>5. Cardinality(Places(s, e) \cup {Len(s) + 1}) = Cardinality(Places(s, e)) + 1
  BY <1>3, <1>4, FS_AddElement
<1> QED
  BY <1>2, <1>4, <1>5 DEF Times

LEMMA TimesTail ==
  ASSUME NEW S, NEW s \in Seq(S), s # <<>>, NEW e
  PROVE  /\ Times(s, e) = Times(Tail(s), e) + (IF Head(s) = e THEN 1 ELSE 0)
         /\ Times(Tail(s), e) \in Nat
<1> DEFINE P == Places(s, e) \ {1}
           Q == Places(Tail(s), e)
           Shift == [i \in P |-> i - 1]
<1>1. /\ Tail(s) \in Seq(S) /\ Len(s) \in Nat
      /\ Len(Tail(s)) = Len(s) - 1
      /\ \A i \in 1 .. Len(Tail(s)) : Tail(s)[i] = s[i + 1]
      /\ Head(s) = s[1]
      /\ 1 \in 1 .. Len(s)
  BY HeadTailProperties, LenProperties, EmptySeq
<1>2. Shift \in Bijection(P, Q)
  <2>1. Shift \in [P -> Q]
    BY <1>1 DEF Places
  <2>2. \A i, j \in P : Shift[i] = Shift[j] => i = j
    BY <1>1 DEF Places
  <2>3. \A j \in Q : \E i \in P : Shift[i] = j
    <3> SUFFICES ASSUME NEW j \in Q PROVE j + 1 \in P /\ Shift[j + 1] = j
      OBVIOUS
    <3> QED
      BY <1>1 DEF Places
  <2> QED
    BY <2>1, <2>2, <2>3 DEF Bijection, Injection, Surjection, IsInjective
<1>3. IsFiniteSet(P) /\ IsFiniteSet(Q)
  BY <1>1, PlacesFinite, FS_RemoveElement
<1>4. Cardinality(P) = Cardinality(Q)
  BY <1>2, <1>3, FS_Bijection DEF ExistsBijection
<1>5. Cardinality(P) = IF 1 \in Places(s, e) THEN Times(s, e) - 1 ELSE Times(s, e)
  BY PlacesFinite, FS_RemoveElement DEF Times
<1>6. 1 \in Places(s, e) <=> Head(s) = e
  BY <1>1 DEF Places
<1> QED
  BY <1>1, <1>4, <1>5, <1>6, PlacesFinite DEF Times

LEMMA StatementTypes ==
  ASSUME PrefetcherTypeOK
  PROVE  /\ Len(rows) \in Nat
         /\ Len(rows) <= MaxQueries
         /\ rows \in [1 .. Len(rows) -> 0 .. MaxRows]
<1>1. PICK n \in Queries : rows \in [1 .. n -> 0 .. MaxRows]
  BY DEF PrefetcherTypeOK, Relations
<1>2. n \in Nat /\ n <= MaxQueries
  BY DEF Queries
<1>3. rows \in Seq(0 .. MaxRows) /\ Len(rows) = n
  BY <1>1, <1>2
<1> QED
  BY <1>1, <1>2, <1>3

LEMMA LiveFinite ==
  /\ IsFiniteSet(Live)
  /\ Cardinality(Live) \in Nat
  /\ Cardinality(Live) = 0 <=> Live = {}
  BY FS_Subset, FS_CardinalityType, FS_EmptySet DEF Live

\* A producer that goes on to another place is still at work.
LEMMA LiveMoves ==
  ASSUME PrefetcherTypeOK, NEW t \in Producers, NEW place,
         producer[t] # "done",
         producer' = [producer EXCEPT ![t] = place]
  PROVE  /\ place # "done" => Live' = Live
         /\ place = "done" => /\ Live' = Live \ {t}
                              /\ Cardinality(Live') + 1 = Cardinality(Live)
<1>1. t \in Live
  BY DEF Live
<1>2. Live' = IF place = "done" THEN Live \ {t} ELSE Live
  BY DEF Live, PrefetcherTypeOK
<1>3. Cardinality(Live \ {t}) = Cardinality(Live) - 1
  BY <1>1, LiveFinite, FS_RemoveElement
<1> QED
  BY <1>2, <1>3, LiveFinite

LEMMA ThreadsCounted ==
  ASSUME PrefetcherTypeOK
  PROVE  /\ IsFiniteSet(producerThreads)
         /\ Cardinality(Producers) \in Nat
         /\ Cardinality(producerThreads) \in 0 .. Cardinality(Producers)
<1>1. producerThreads \subseteq Producers
  BY DEF PrefetcherTypeOK
<1> QED
  BY <1>1, FS_Subset, FS_CardinalityType

\* What the operator takes away.
LEMMA NullsTaken ==
  ASSUME TypeInv, tuples # <<>>
  PROVE  /\ Head(tuples) \in 1 .. Len(rows) \cup {Null}
         /\ Tail(tuples) \in Seq(1 .. Len(rows) \cup {Null})
         /\ Len(Tail(tuples)) <= MaxPrefetch
         /\ Times(tuples, Null) \in Nat
         /\ Times(Tail(tuples), Null) \in Nat
         /\ Times(tuples, Null)
              = Times(Tail(tuples), Null) + (IF Head(tuples) = Null THEN 1 ELSE 0)
<1>1. tuples \in Seq(1 .. Len(rows) \cup {Null}) /\ Len(tuples) <= MaxPrefetch
  BY DEF TypeInv, PrefetcherTypeOK
<1>2. /\ Head(tuples) \in 1 .. Len(rows) \cup {Null}
      /\ Tail(tuples) \in Seq(1 .. Len(rows) \cup {Null})
      /\ Len(Tail(tuples)) = Len(tuples) - 1 /\ Len(tuples) \in Nat
  BY <1>1, HeadTailProperties, LenProperties, EmptySeq
<1> QED
  BY <1>1, <1>2, TimesTail, PlacesFinite

LEMMA InitTypeInv == Init => TypeInv
<1> SUFFICES ASSUME Init PROVE TypeInv
  OBVIOUS
<1>1. PICK n \in Queries : rows \in [1 .. n -> 0 .. MaxRows]
  BY DEF Init, Relations
<1>2. Len(rows) = n /\ n \in Nat
  BY <1>1 DEF Queries
<1>3. /\ tuples \in Seq(1 .. Len(rows) \cup {Null}) /\ Len(tuples) = 0
      /\ Times(tuples, Null) = 0
  BY EmptySeq, FS_EmptySet DEF Init, Times, Places
<1>4. Live = producerThreads /\ producerThreads \subseteq Producers
      /\ producerThreads # {}
  BY DEF Init, Live
<1>5. Cardinality(Producers) \in Nat /\ Cardinality(producerThreads) \in Nat
  BY <1>4, FS_Subset, FS_CardinalityType
<1>6. PrefetcherTypeOK
  <2>1. 0 \in Queries /\ Len(rows) \in 0 .. Len(rows)
    BY <1>2 DEF Queries
  <2>2. /\ fetching \in [Producers -> Queries]
        /\ left \in [Producers -> 0 .. MaxRows]
        /\ holding \in [Producers -> 1 .. Len(rows) \cup {Null}]
        /\ delivered \in [1 .. Len(rows) -> Nat]
    BY <2>1 DEF Init
  <2>3. producer \in [Producers -> {"next", "fetch", "insert", "done"}]
    BY DEF Init
  <2>4. /\ tuples \in Seq(1 .. Len(rows) \cup {Null}) /\ Len(tuples) <= MaxPrefetch
        /\ receivedTerminals \in 0 .. Cardinality(Producers)
    BY <1>3, <1>5 DEF Init
  <2> QED
    BY <1>4, <2>1, <2>2, <2>3, <2>4 DEF Init, PrefetcherTypeOK
<1>7. PlacesOK
  BY DEF Init, PlacesOK
<1>8. TerminalsOK
  BY <1>3, <1>4, <1>5 DEF Init, TerminalsOK
<1> QED
  BY <1>6, <1>7, <1>8 DEF TypeInv

LEMMA ProduceTypes ==
  ASSUME TypeInv, NEW t \in Producers, Produce(t)
  PROVE  TypeInv'
<1> USE DEF TypeInv
<1>1. CASE GetNextResult(t)
  <2>1. Live' = Live
    BY <1>1, LiveMoves DEF GetNextResult
  <2>2. queries > 0 => queries \in 1 .. Len(rows) /\ queries \in Queries
                       /\ rows[queries] \in 0 .. MaxRows
    BY StatementTypes DEF PrefetcherTypeOK, Queries
  <2>3. PrefetcherTypeOK'
    <3>1. /\ queries' \in 0 .. Len(rows)
          /\ fetching' \in [Producers -> Queries]
      <4>1. /\ queries \in 0 .. Len(rows) /\ Len(rows) \in Nat
            /\ fetching \in [Producers -> Queries]
        BY StatementTypes DEF PrefetcherTypeOK
      <4> HIDE DEF TypeInv
      <4> QED
        BY <1>1, <2>2, <4>1 DEF GetNextResult
    <3>2. left' \in [Producers -> 0 .. MaxRows]
      <4>1. \/ UNCHANGED left
            \/ queries > 0 /\ left' = [left EXCEPT ![t] = rows[queries]]
        BY <1>1 DEF GetNextResult
      <4>2. left \in [Producers -> 0 .. MaxRows]
        BY DEF PrefetcherTypeOK
      <4> HIDE DEF TypeInv
      <4> QED
        BY <2>2, <4>1, <4>2
    <3>3. holding' \in [Producers -> 1 .. Len(rows) \cup {Null}]
      BY <1>1 DEF GetNextResult, PrefetcherTypeOK
    <3>4. producer' \in [Producers -> {"next", "fetch", "insert", "done"}]
      BY <1>1 DEF GetNextResult, PrefetcherTypeOK
    <3> QED
      BY <1>1, <3>1, <3>2, <3>3, <3>4 DEF GetNextResult, PrefetcherTypeOK, flags
  <2>4. PlacesOK'
    BY <1>1, <2>2 DEF GetNextResult, PlacesOK, PrefetcherTypeOK
  <2>5. TerminalsOK'
    BY <1>1, <2>1 DEF GetNextResult, TerminalsOK, flags
  <2> QED
    BY <2>3, <2>4, <2>5
<1>2. CASE Fetch(t)
  <2>1. Live' = Live
    BY <1>2, LiveMoves DEF Fetch
  <2>2. fetching[t] \in 1 .. Len(rows)
    BY <1>2 DEF Fetch, PlacesOK
  <2>3. PrefetcherTypeOK'
    <3>1. left' \in [Producers -> 0 .. MaxRows]
      <4>1. left \in [Producers -> 0 .. MaxRows]
        BY DEF PrefetcherTypeOK
      <4>2. left[t] > 0 => left[t] - 1 \in 0 .. MaxRows
        BY <4>1
      <4>3. CASE left[t] > 0 /\ left' = [left EXCEPT ![t] = @ - 1]
        BY <4>1, <4>2, <4>3
      <4>4. CASE UNCHANGED left
        BY <4>1, <4>4
      <4> QED
        BY <1>2, <4>3, <4>4 DEF Fetch
    <3>2. holding' \in [Producers -> 1 .. Len(rows) \cup {Null}]
      BY <1>2, <2>2 DEF Fetch, PrefetcherTypeOK
    <3>3. producer' \in [Producers -> {"next", "fetch", "insert", "done"}]
      BY <1>2 DEF Fetch, PrefetcherTypeOK
    <3> QED
      BY <1>2, <3>1, <3>2, <3>3 DEF Fetch, PrefetcherTypeOK, flags
  <2>4. PlacesOK'
    <3>1. UNCHANGED <<rows, fetching>>
      BY <1>2 DEF Fetch
    <3>2. \A u \in Producers : u # t => /\ producer'[u] = producer[u]
                                        /\ holding'[u] = holding[u]
      BY <1>2 DEF Fetch, PrefetcherTypeOK
    <3>3. \/ producer'[t] = "insert" /\ holding'[t] = fetching[t]
          \/ producer'[t] = "next"
      BY <1>2 DEF Fetch, PrefetcherTypeOK
    <3> QED
      BY <2>2, <3>1, <3>2, <3>3 DEF PlacesOK
  <2>5. TerminalsOK'
    BY <1>2, <2>1 DEF Fetch, TerminalsOK, flags
  <2> QED
    BY <2>3, <2>4, <2>5
<1>3. CASE InsertToQueue(t) /\ UNCHANGED tuples
  <2>1. UNCHANGED producer
    <3>1. Append(tuples, holding[t]) # tuples
      BY LenProperties, AppendProperties DEF PrefetcherTypeOK
    <3> QED
      BY <1>3, <3>1 DEF InsertToQueue
  <2>2. PrefetcherTypeOK'
    BY <1>3, <2>1 DEF InsertToQueue, PrefetcherTypeOK, flags, Sleep, Broadcast
  <2>3. PlacesOK' /\ TerminalsOK'
    BY <1>3, <2>1 DEF InsertToQueue, PlacesOK, TerminalsOK, Live, flags
  <2> QED
    BY <2>2, <2>3
<1>4. CASE InsertToQueue(t) /\ tuples' # tuples
  <2> DEFINE place == IF holding[t] = Null THEN "done" ELSE "fetch"
  <2>1. /\ Len(tuples) < MaxPrefetch
        /\ tuples' = Append(tuples, holding[t])
        /\ producer' = [producer EXCEPT ![t] = place]
    BY <1>4 DEF InsertToQueue
  <2>2. holding[t] \in 1 .. Len(rows) \cup {Null}
    BY DEF PrefetcherTypeOK
  <2>3. /\ tuples' \in Seq(1 .. Len(rows) \cup {Null})
        /\ Len(tuples') <= MaxPrefetch
    BY <2>1, <2>2, LenProperties, AppendProperties DEF PrefetcherTypeOK
  <2>4. PrefetcherTypeOK'
    BY <1>4, <2>1, <2>3
    DEF InsertToQueue, PrefetcherTypeOK, flags, Sleep, Broadcast
  <2>5. PlacesOK'
    BY <1>4, <2>1 DEF InsertToQueue, PlacesOK, PrefetcherTypeOK
  <2>6. TerminalsOK'
    <3>1. Times(tuples', Null)
            = Times(tuples, Null) + (IF holding[t] = Null THEN 1 ELSE 0)
      <4>1. tuples \in Seq(1 .. Len(rows) \cup {Null})
        BY DEF PrefetcherTypeOK
      <4> QED
        BY <2>1, <2>2, <4>1, TimesAppend
    <3>2. /\ holding[t] # Null => Live' = Live
          /\ holding[t] = Null =>
               Live' = Live \ {t} /\ Cardinality(Live') + 1 = Cardinality(Live)
      BY <1>4, <2>1, LiveMoves DEF InsertToQueue
    <3>3. /\ Times(tuples, Null) \in Nat /\ Cardinality(Live) \in Nat
          /\ Cardinality(Live') \in Nat /\ receivedTerminals \in Nat
      <4>1. tuples \in Seq(1 .. Len(rows) \cup {Null})
        BY DEF PrefetcherTypeOK
      <4>2. IsFiniteSet(Live') /\ receivedTerminals \in Nat
        BY FS_Subset, ThreadsCounted DEF Live, PrefetcherTypeOK
      <4> QED
        BY <4>1, <4>2, LiveFinite, PlacesFinite, FS_CardinalityType
    <3>4. receivedTerminals + Times(tuples', Null) + Cardinality(Live')
            = receivedTerminals + Times(tuples, Null) + Cardinality(Live)
      BY <3>1, <3>2, <3>3
    <3> QED
      BY <1>4, <3>2, <3>4 DEF InsertToQueue, TerminalsOK, flags
  <2> QED
    BY <2>4, <2>5, <2>6
<1> QED
  BY <1>1, <1>2, <1>3, <1>4 DEF Produce

LEMMA ConsumeTypes ==
  ASSUME TypeInv, GetNextTuple
  PROVE  TypeInv'
<1> USE DEF TypeInv
<1>1. UNCHANGED <<rows, queries, producer, fetching, left, holding,
                  producerThreads, shutdown, closing>> /\ UNCHANGED Live
  BY DEF GetNextTuple, producerVars, Live
<1>2. PlacesOK'
  BY <1>1 DEF PlacesOK
<1>3. producerThreads # {}
  BY DEF GetNextTuple, TerminalsOK
<1>4. CASE tuples = <<>>
  BY <1>1, <1>2, <1>4 DEF GetNextTuple, PrefetcherTypeOK, TerminalsOK, Sleep
<1>5. CASE tuples # <<>>
  <2>1. tuples' = Tail(tuples) /\ asleep' \in {asleep, {}}
    BY <1>5 DEF GetNextTuple, Take, Broadcast
  <2>2. CASE Head(tuples) # Null
    <3>1. UNCHANGED <<receivedTerminals, workdone>> /\ Deliver(Head(tuples))
      BY <1>5, <2>2 DEF GetNextTuple
    <3>2. Head(tuples) \in 1 .. Len(rows)
      BY <1>5, <2>2, NullsTaken
    <3>3. /\ delivered' \in [1 .. Len(rows) -> Nat]
          /\ consumer' \in {"idle", "getting", "destroyed"}
      <4>1. delivered \in [1 .. Len(rows) -> Nat]
        BY DEF PrefetcherTypeOK
      <4> HIDE DEF TypeInv
      <4> QED
        BY <1>1, <3>1, <3>2, <4>1 DEF Deliver
    <3>4. PrefetcherTypeOK'
      BY <1>1, <1>5, <2>1, <3>1, <3>3, NullsTaken DEF PrefetcherTypeOK
    <3>5. Times(tuples', Null) = Times(tuples, Null)
      BY <1>5, <2>1, <2>2, NullsTaken
    <3>6. TerminalsOK'
      BY <1>1, <1>3, <3>1, <3>3, <3>5 DEF TerminalsOK
    <3> QED
      BY <1>2, <3>4, <3>6
  <2>3. CASE Head(tuples) = Null
    <3>1. /\ receivedTerminals' = receivedTerminals + 1
          /\ IF AllTerminals(receivedTerminals + 1)
               THEN consumer' = "joining" /\ workdone' = TRUE
               ELSE UNCHANGED <<consumer, workdone>>
          /\ UNCHANGED delivered
      BY <1>5, <2>3 DEF GetNextTuple
    <3>2. /\ Times(tuples, Null) = Times(tuples', Null) + 1
          /\ Times(tuples', Null) \in Nat
      BY <1>5, <2>1, <2>3, NullsTaken
    <3>3. receivedTerminals' + Times(tuples', Null) + Cardinality(Live)
            = Cardinality(producerThreads)
      BY <1>3, <3>1, <3>2, LiveFinite DEF TerminalsOK, PrefetcherTypeOK
    <3>4. receivedTerminals' \in 0 .. Cardinality(Producers)
      BY <3>1, <3>2, <3>3, LiveFinite, ThreadsCounted DEF PrefetcherTypeOK
    <3>5. PrefetcherTypeOK'
      BY <1>1, <1>5, <2>1, <3>1, <3>4, NullsTaken DEF PrefetcherTypeOK
    <3>6. TerminalsOK'
      BY <1>1, <1>3, <3>1, <3>3 DEF TerminalsOK, AllTerminals, GetNextTuple
    <3> QED
      BY <1>2, <3>5, <3>6
  <2> QED
    BY <2>2, <2>3
<1> QED
  BY <1>4, <1>5

LEMMA TypeStep ==
  ASSUME TypeInv, [Next]_vars
  PROVE  TypeInv'
<1> USE DEF TypeInv
<1>1. CASE \E t \in Producers : Produce(t)
  BY <1>1, ProduceTypes
<1>2. CASE GetNextTuple
  BY <1>2, ConsumeTypes
<1>3. CASE Request
  BY <1>3 DEF Request, PrefetcherTypeOK, PlacesOK, TerminalsOK, Live,
              producerVars, flags
<1>4. CASE JoinThreads
  <2>1. Live' = {} /\ producerThreads' = {} /\ workdone' /\ workdone
    BY <1>4 DEF JoinThreads, TerminalsOK, Live, producerVars, flags
  <2>2. PrefetcherTypeOK'
    BY <1>4 DEF JoinThreads, PrefetcherTypeOK, producerVars, flags
  <2>3. PlacesOK' /\ TerminalsOK'
    BY <1>4, <2>1 DEF JoinThreads, PlacesOK, TerminalsOK, producerVars
  <2> QED
    BY <2>2, <2>3
<1>5. CASE Close
  <2>1. PrefetcherTypeOK'
    BY <1>5 DEF Close, PrefetcherTypeOK, producerVars
  <2>2. PlacesOK' /\ TerminalsOK'
    BY <1>5 DEF Close, PlacesOK, TerminalsOK, Live, producerVars
  <2> QED
    BY <2>1, <2>2
<1>6. CASE \E t \in Producers \cup {Consumer} : SpuriousWakeup(t)
  <2>1. PrefetcherTypeOK'
    BY <1>6 DEF SpuriousWakeup, PrefetcherTypeOK, producerVars, flags
  <2>2. PlacesOK' /\ TerminalsOK'
    BY <1>6 DEF SpuriousWakeup, PlacesOK, TerminalsOK, Live, producerVars, flags
  <2> QED
    BY <2>1, <2>2
<1>7. CASE UNCHANGED vars
  BY <1>7 DEF vars, PrefetcherTypeOK, PlacesOK, TerminalsOK, Live,
              producerVars, flags
<1> QED
  BY <1>1, <1>2, <1>3, <1>4, <1>5, <1>6, <1>7 DEF Next, Consume

(* The state has its types: the queue never exceeds its limit, and no more *)
(* Nulls are received than there are threads (insertToQueue, getNextTuple).*)
THEOREM TypeCorrect == Spec => []PrefetcherTypeOK
<1>1. TypeInv /\ [Next]_vars => TypeInv'
  BY TypeStep
<1>2. TypeInv => PrefetcherTypeOK
  BY DEF TypeInv
<1> QED
  BY InitTypeInv, <1>1, <1>2, PTL DEF Spec

-----------------------------------------------------------------------------
(* No wake-up is lost.                                                     *)

LEMMA SleepStep ==
  ASSUME SleepInv, [Next]_vars
  PROVE  SleepInv'
<1> SUFFICES SleepersWait'
  BY TypeStep DEF SleepInv
<1> USE DEF SleepInv
<1>2. /\ tuples \in Seq(1 .. Len(rows) \cup {Null}) /\ Len(tuples) \in Nat
      /\ Len(tuples) <= MaxPrefetch /\ Consumer \notin Producers
      /\ MaxPrefetch \in Nat \ {0}
  BY LenProperties DEF TypeInv, PrefetcherTypeOK
<1>3. ASSUME NEW t \in Producers, InsertToQueue(t)
      PROVE  SleepersWait'
  <2>1. CASE Len(tuples) >= MaxPrefetch
    <3>1. asleep' = asleep \cup {t} /\ UNCHANGED tuples
      BY <1>2, <1>3, <2>1 DEF InsertToQueue, Sleep
    <3> QED
      BY <1>2, <1>3, <2>1, <3>1 DEF SleepersWait
  <2>2. CASE Len(tuples) < MaxPrefetch
    <3>1. tuples = <<>> => asleep' = {}
      BY <1>2, <1>3, <2>2 DEF InsertToQueue, Broadcast
    <3>2. tuples # <<>> => asleep' = asleep
      BY <1>2, <1>3, <2>2 DEF InsertToQueue
    <3>3. tuples # <<>> => asleep = {}
      BY <1>2, <2>2 DEF SleepersWait, TypeInv, PrefetcherTypeOK
    <3> QED
      BY <3>1, <3>2, <3>3 DEF SleepersWait
  <2> QED
    BY <1>2, <2>1, <2>2
<1>4. CASE GetNextTuple
  <2>1. CASE tuples = <<>>
    BY <1>2, <1>4, <2>1 DEF GetNextTuple, Sleep, SleepersWait
  <2>2. CASE tuples # <<>> /\ Len(tuples) = MaxPrefetch
    <3>1. asleep' = {}
      BY <1>2, <1>4, <2>2 DEF GetNextTuple, Take, Broadcast
    <3> QED
      BY <3>1 DEF SleepersWait
  <2>3. CASE tuples # <<>> /\ Len(tuples) # MaxPrefetch
    <3>1. asleep' \in {asleep, {}}
      BY <1>2, <1>4, <2>3 DEF GetNextTuple, Take, Broadcast
    <3>2. asleep = {}
      BY <1>2, <2>3 DEF SleepersWait, TypeInv, PrefetcherTypeOK
    <3> QED
      BY <3>1, <3>2 DEF SleepersWait
  <2> QED
    BY <2>1, <2>2, <2>3
<1>5. ASSUME UNCHANGED tuples, asleep' \subseteq asleep
      PROVE  SleepersWait'
  BY <1>5 DEF SleepersWait
<1>6. CASE \/ \E t \in Producers : GetNextResult(t) \/ Fetch(t)
           \/ Request \/ JoinThreads \/ Close
           \/ \E t \in Producers \cup {Consumer} : SpuriousWakeup(t)
           \/ UNCHANGED vars
  <2>1. UNCHANGED tuples /\ asleep' \subseteq asleep
    BY <1>6 DEF GetNextResult, Fetch, Request, JoinThreads, Close,
                SpuriousWakeup, vars
  <2> QED
    BY <1>5, <2>1
<1> QED
  BY <1>3, <1>4, <1>6 DEF Next, Produce, Consume

(* No wake-up is lost, for any number of producers, any queue, and         *)
(* whatever the constructor and the cluster do: the operator sleeps only   *)
(* before an empty queue, a producer only before a full one (insertToQueue,*)
(* getNextTuple).                                                          *)
THEOREM SleepersCorrect == Spec => []SleepersWait
<1>1. Init => SleepInv
  BY InitTypeInv DEF Init, SleepInv, SleepersWait
<1>2. SleepInv /\ [Next]_vars => SleepInv'
  BY SleepStep
<1>3. SleepInv => SleepersWait
  BY DEF SleepInv
<1> QED
  BY <1>1, <1>2, <1>3, PTL DEF Spec

-----------------------------------------------------------------------------
(* The end of the threads.                                                 *)

Initialised == "uninitialized" \notin Irregular

\* The last Null is received.
LEMMA LastNull ==
  ASSUME TypeInv, consumer = "getting", tuples # <<>>, Head(tuples) = Null,
         AllTerminals(receivedTerminals + 1)
  PROVE  Live = {} /\ Places(Tail(tuples), Null) = {}
<1>1. receivedTerminals + Times(tuples, Null) + Cardinality(Live)
        = receivedTerminals + 1
  BY DEF TypeInv, TerminalsOK, AllTerminals
<1>2. /\ receivedTerminals \in Nat
      /\ Times(tuples, Null) = Times(Tail(tuples), Null) + 1
      /\ Times(Tail(tuples), Null) \in Nat
      /\ Tail(tuples) \in Seq(1 .. Len(rows) \cup {Null})
  BY NullsTaken DEF TypeInv, PrefetcherTypeOK
<1>3. Cardinality(Live) = 0 /\ Times(Tail(tuples), Null) = 0
  BY <1>1, <1>2, LiveFinite
<1> QED
  BY <1>2, <1>3, LiveFinite, PlacesFinite

LEMMA EndStep ==
  ASSUME EndInv, [Next]_vars
  PROVE  EndInv'
<1> SUFFICES EndOK'
  BY TypeStep DEF EndInv
<1> USE DEF EndInv
<1>2. ASSUME NEW t \in Producers, Produce(t)
      PROVE  EndOK'
  <2>1. UNCHANGED <<workdone, shutdown, consumer, closing>>
    BY <1>2 DEF Produce, GetNextResult, Fetch, InsertToQueue, flags
  <2>2. Live' \subseteq Live
    <3>1. producer[t] # "done"
      BY <1>2 DEF Produce, GetNextResult, Fetch, InsertToQueue
    <3>2. producer \in [Producers -> {"next", "fetch", "insert", "done"}]
      BY DEF TypeInv, PrefetcherTypeOK
    <3>3. \A u \in Producers : u # t => producer'[u] = producer[u]
      <4>1. CASE GetNextResult(t)
        BY <3>2, <4>1 DEF GetNextResult
      <4>2. CASE Fetch(t)
        BY <3>2, <4>2 DEF Fetch
      <4>3. CASE InsertToQueue(t)
        BY <3>2, <4>3 DEF InsertToQueue
      <4> QED
        BY <1>2, <4>1, <4>2, <4>3 DEF Produce
    <3> QED
      BY <3>1, <3>3 DEF Live
  <2> QED
    BY <2>1, <2>2 DEF EndOK
<1>3. CASE GetNextTuple
  <2>1. UNCHANGED <<producer, shutdown, closing>> /\ Live' = Live
    BY <1>3 DEF GetNextTuple, producerVars, Live
  <2>2. CASE tuples # <<>> /\ Head(tuples) = Null
             /\ AllTerminals(receivedTerminals + 1)
    <3>1. Live = {}
      BY <1>3, <2>2, LastNull DEF GetNextTuple
    <3>2. consumer' = "joining" /\ workdone'
      BY <1>3, <2>2 DEF GetNextTuple
    <3> QED
      BY <2>1, <3>1, <3>2 DEF EndOK
  <2>3. CASE tuples # <<>> /\ Head(tuples) # Null
    <3>1. UNCHANGED workdone /\ Deliver(Head(tuples))
      BY <1>3, <2>3 DEF GetNextTuple
    <3> QED
      BY <2>1, <3>1 DEF EndOK, Deliver
  <2>4. CASE \/ tuples = <<>>
             \/ Head(tuples) = Null /\ ~AllTerminals(receivedTerminals + 1)
    <3>1. UNCHANGED <<consumer, workdone>>
      BY <1>3, <2>4 DEF GetNextTuple
    <3> QED
      BY <2>1, <3>1 DEF EndOK
  <2> QED
    BY <2>2, <2>3, <2>4
<1>4. CASE JoinThreads
  BY <1>4 DEF JoinThreads, EndOK, TypeInv, TerminalsOK, Live, producerVars, flags
<1>5. CASE Close
  BY <1>5 DEF Close, EndOK, Live, producerVars
<1>6. CASE Request \/ UNCHANGED vars
  BY <1>6 DEF Request, EndOK, Live, vars, producerVars, flags
<1>7. CASE \E t \in Producers \cup {Consumer} : SpuriousWakeup(t)
  BY <1>7 DEF SpuriousWakeup, EndOK, Live, producerVars, flags
<1> QED
  BY <1>2, <1>3, <1>4, <1>5, <1>6, <1>7 DEF Next, Consume

LEMMA InitEndInv ==
  ASSUME Initialised
  PROVE  Init => EndInv
  BY InitTypeInv DEF Init, Initialised, EndInv, EndOK

(* If the constructor initialises the flags: when the prefetcher is        *)
(* deleted no thread uses it any more, also if the stream is closed early, *)
(* for any number of producers (shutdownQueue, ~CCollectLocalInfo).        *)
THEOREM DestroyedCorrect ==
  ASSUME Initialised
  PROVE  Spec => []DestroyedQuiet
<1>1. Init => EndInv
  BY InitEndInv
<1>2. EndInv /\ [Next]_vars => EndInv'
  BY EndStep
<1>3. EndInv => DestroyedQuiet
  BY DEF EndInv, EndOK, DestroyedQuiet, Live
<1> QED
  BY <1>1, <1>2, <1>3, PTL DEF Spec

-----------------------------------------------------------------------------
(* The end of the stream.                                                  *)

NoFaults == Irregular = {}

LEMMA QueueTypes ==
  ASSUME TypeInv
  PROVE  /\ tuples \in Seq(1 .. Len(rows) \cup {Null})
         /\ Len(tuples) \in Nat
         /\ Len(rows) \in Nat
         /\ queries \in 0 .. Len(rows)
         /\ Null \notin 1 .. Len(rows)
  BY StatementTypes, LenProperties DEF TypeInv, PrefetcherTypeOK

LEMMA LastStep ==
  ASSUME TypeInv, LastIsNull, [Next]_vars
  PROVE  LastIsNull'
<1>1. ASSUME NEW t \in Producers, Produce(t)
      PROVE  LastIsNull'
  <2>1. producer \in [Producers -> {"next", "fetch", "insert", "done"}]
    BY DEF TypeInv, PrefetcherTypeOK
  <2>2. CASE GetNextResult(t) \/ Fetch(t)
    <3>1. producer'[t] # "done"
      BY <2>1, <2>2 DEF GetNextResult, Fetch
    <3> QED
      BY <3>1 DEF LastIsNull, Live
  <2>3. CASE InsertToQueue(t) /\ UNCHANGED <<tuples, producer>>
    BY <2>3 DEF LastIsNull, Live
  <2>4. CASE /\ tuples' = Append(tuples, holding[t])
             /\ producer' = [producer EXCEPT ![t] =
                               IF holding[t] = Null THEN "done" ELSE "fetch"]
    <3>1. CASE holding[t] = Null
      <4>1. holding[t] \in 1 .. Len(rows) \cup {Null}
        BY DEF TypeInv, PrefetcherTypeOK
      <4>2. tuples'[Len(tuples')] = Null
        BY <2>4, <3>1, <4>1, QueueTypes, AppendProperties
      <4> QED
        BY <4>2 DEF LastIsNull
    <3>2. CASE holding[t] # Null
      <4>1. producer'[t] # "done"
        BY <2>1, <2>4, <3>2
      <4> QED
        BY <4>1 DEF LastIsNull, Live
    <3> QED
      BY <3>1, <3>2
  <2> QED
    BY <1>1, <2>2, <2>3, <2>4 DEF Produce, InsertToQueue
<1>2. CASE GetNextTuple
  <2>1. Live' = Live
    BY <1>2 DEF GetNextTuple, producerVars, Live
  <2>2. CASE UNCHANGED tuples
    BY <2>1, <2>2 DEF LastIsNull
  <2>3. CASE tuples # <<>> /\ tuples' = Tail(tuples)
    <3>1. /\ Len(tuples') = Len(tuples) - 1
          /\ \A i \in 1 .. Len(tuples') : tuples'[i] = tuples[i + 1]
          /\ tuples' # <<>> => Len(tuples') \in 1 .. Len(tuples')
      BY <2>3, QueueTypes, HeadTailProperties, LenProperties, EmptySeq
    <3> QED
      BY <2>1, <2>3, <3>1, QueueTypes DEF LastIsNull
  <2> QED
    BY <1>2, <2>2, <2>3 DEF GetNextTuple, Take
<1>3. CASE \/ Request \/ JoinThreads \/ Close
           \/ \E t \in Producers \cup {Consumer} : SpuriousWakeup(t)
           \/ UNCHANGED vars
  <2>1. UNCHANGED <<tuples, producer>>
    BY <1>3 DEF Request, JoinThreads, Close, SpuriousWakeup, vars, producerVars
  <2> QED
    BY <2>1 DEF LastIsNull, Live
<1> QED
  BY <1>1, <1>2, <1>3 DEF Next, Consume

\* Places of Null in a longer and in a shorter queue.
LEMMA NullPlaces ==
  ASSUME TypeInv
  PROVE  /\ \A t \in Producers :
              Places(Append(tuples, holding[t]), Null) # {} =>
                Places(tuples, Null) # {} \/ holding[t] = Null
         /\ tuples # <<>> =>
              /\ Head(tuples) = Null => Places(tuples, Null) # {}
              /\ Places(Tail(tuples), Null) # {} => Places(tuples, Null) # {}
<1>1. ASSUME NEW t \in Producers
      PROVE  Places(Append(tuples, holding[t]), Null) # {} =>
               Places(tuples, Null) # {} \/ holding[t] = Null
  <2>1. holding[t] \in 1 .. Len(rows) \cup {Null}
    BY DEF TypeInv, PrefetcherTypeOK
  <2> QED
    BY <2>1, QueueTypes, AppendProperties DEF Places
<1>2. ASSUME tuples # <<>>
      PROVE  /\ Head(tuples) = Null => Places(tuples, Null) # {}
             /\ Places(Tail(tuples), Null) # {} => Places(tuples, Null) # {}
  <2>1. /\ Head(tuples) = tuples[1] /\ 1 \in 1 .. Len(tuples)
        /\ Len(Tail(tuples)) = Len(tuples) - 1
        /\ \A i \in 1 .. Len(Tail(tuples)) : Tail(tuples)[i] = tuples[i + 1]
    BY <1>2, QueueTypes, HeadTailProperties, LenProperties, EmptySeq
  <2>2. \A i \in 1 .. Len(Tail(tuples)) : i + 1 \in 1 .. Len(tuples)
    BY <2>1, QueueTypes
  <2> QED
    BY <2>1, <2>2 DEF Places
<1> QED
  BY <1>1, <1>2

LEMMA NoneLeftStep ==
  ASSUME EndInv, LastIsNull, NoneLeft, [Next]_vars
  PROVE  NoneLeft'
<1> USE DEF EndInv
<1>1. ASSUME NEW t \in Producers, Produce(t)
      PROVE  NoneLeft'
  <2>1. UNCHANGED <<consumer, receivedTerminals>>
        /\ consumer \notin {"joining", "finished"}
    <3>1. t \in Live
      BY <1>1 DEF Produce, GetNextResult, Fetch, InsertToQueue, Live
    <3>2. ~workdone
      BY <3>1 DEF EndOK
    <3> QED
      BY <1>1, <3>2 DEF Produce, GetNextResult, Fetch, InsertToQueue, TypeInv,
                        TerminalsOK
  <2>2. CASE GetNextResult(t)
    <3>1. UNCHANGED tuples /\ queries' \in 0 .. queries
      BY <2>2, QueueTypes DEF GetNextResult
    <3>2. CASE queries = 0
      BY <2>1, <3>1, <3>2 DEF NoneLeft
    <3>3. CASE queries # 0
      <4>1. UNCHANGED holding /\ producer' = [producer EXCEPT ![t] = "fetch"]
        BY <2>2, <3>3, QueueTypes DEF GetNextResult
      <4>2. \A u \in Producers : producer'[u] = "insert" => producer[u] = "insert"
        BY <4>1 DEF TypeInv, PrefetcherTypeOK
      <4>3. ~NullSeen
        BY <3>3 DEF NoneLeft
      <4> QED
        BY <2>1, <3>1, <4>1, <4>2, <4>3 DEF NoneLeft, NullSeen
    <3> QED
      BY <3>2, <3>3
  <2>3. CASE Fetch(t)
    <3>1. UNCHANGED <<tuples, queries>>
      BY <2>3 DEF Fetch
    <3>2. holding'[t] # Null \/ producer'[t] # "insert"
      <4>1. fetching[t] # Null
        BY <2>3, QueueTypes DEF Fetch, TypeInv, PlacesOK
      <4> QED
        BY <2>3, <4>1 DEF Fetch, TypeInv, PrefetcherTypeOK
    <3>3. \A u \in Producers :
            u # t => producer'[u] = producer[u] /\ holding'[u] = holding[u]
      BY <2>3 DEF Fetch, TypeInv, PrefetcherTypeOK
    <3>4. NullSeen' => NullSeen
      BY <2>1, <3>1, <3>2, <3>3 DEF NullSeen
    <3> QED
      BY <2>1, <3>1, <3>4 DEF NoneLeft
  <2>4. CASE InsertToQueue(t)
    <3>1. UNCHANGED <<queries, holding>>
      BY <2>4 DEF InsertToQueue, producerVars
    <3>2. \A u \in Producers : producer'[u] = "insert" => producer[u] = "insert"
      BY <2>4 DEF InsertToQueue, TypeInv, PrefetcherTypeOK
    <3>3. Places(tuples, Null)' # {} => NullSeen
      <4>1. producer[t] = "insert"
            /\ (UNCHANGED tuples \/ tuples' = Append(tuples, holding[t]))
        BY <2>4 DEF InsertToQueue
      <4> QED
        BY <4>1, NullPlaces DEF NullSeen
    <3>4. NullSeen' => NullSeen
      BY <2>1, <3>1, <3>2, <3>3 DEF NullSeen
    <3> QED
      BY <2>1, <3>1, <3>4 DEF NoneLeft
  <2> QED
    BY <1>1, <2>2, <2>3, <2>4 DEF Produce
<1>2. CASE GetNextTuple
  <2>1. UNCHANGED <<queries, producer, holding>> /\ consumer = "getting"
    BY <1>2 DEF GetNextTuple, producerVars
  <2>2. CASE tuples = <<>>
    <3>1. UNCHANGED <<tuples, receivedTerminals, consumer>>
      BY <1>2, <2>2 DEF GetNextTuple
    <3> QED
      BY <2>1, <3>1 DEF NoneLeft, NullSeen
  <2>3. CASE tuples # <<>>
    <3>1. tuples' = Tail(tuples)
      BY <1>2, <2>3 DEF GetNextTuple, Take
    <3>2. NullSeen' => NullSeen
      <4>1. receivedTerminals' # receivedTerminals => Head(tuples) = Null
        BY <1>2, <2>3 DEF GetNextTuple
      <4> QED
        BY <2>1, <2>3, <3>1, <4>1, NullPlaces DEF NullSeen
    <3>3. CASE Head(tuples) = Null /\ AllTerminals(receivedTerminals + 1)
      <4>1. Live = {} /\ Places(Tail(tuples), Null) = {}
        BY <1>2, <2>3, <3>3, LastNull DEF GetNextTuple
      <4>2. Tail(tuples) = <<>>
        <5>1. LastIsNull'
          BY LastStep
        <5>2. Live' = {}
          BY <2>1, <4>1 DEF Live
        <5>3. Tail(tuples) \in Seq(1 .. Len(rows) \cup {Null})
          BY <2>3, NullsTaken
        <5>4. Tail(tuples) # <<>> => Len(tuples') \in 1 .. Len(tuples')
          BY <3>1, <5>3, LenProperties, EmptySeq
        <5> QED
          BY <3>1, <4>1, <5>1, <5>2, <5>4 DEF LastIsNull, Places
      <4>3. NullSeen
        BY <2>3, <3>3, NullPlaces DEF NullSeen
      <4> QED
        BY <2>1, <3>1, <4>2, <4>3 DEF NoneLeft
    <3>4. CASE ~(Head(tuples) = Null /\ AllTerminals(receivedTerminals + 1))
      <4>1. consumer' \notin {"joining", "finished"}
        BY <1>2, <2>1, <2>3, <3>4 DEF GetNextTuple, Deliver
      <4> QED
        BY <2>1, <3>2, <4>1 DEF NoneLeft
    <3> QED
      BY <3>3, <3>4
  <2> QED
    BY <2>2, <2>3
<1>3. CASE \/ Request \/ JoinThreads \/ Close
           \/ \E t \in Producers \cup {Consumer} : SpuriousWakeup(t)
           \/ UNCHANGED vars
  <2>1. UNCHANGED <<tuples, queries, producer, holding, receivedTerminals>>
    BY <1>3 DEF Request, JoinThreads, Close, SpuriousWakeup, vars, producerVars
  <2>2. consumer' \in {"joining", "finished"} =>
          consumer \in {"joining", "finished"}
    BY <1>3 DEF Request, JoinThreads, Close, SpuriousWakeup, vars
  <2> QED
    BY <2>1, <2>2 DEF NoneLeft, NullSeen
<1> QED
  BY <1>1, <1>2, <1>3 DEF Next, Consume

\* Who executes a statement changes at its begin and at its end only.
LEMMA FetchersChange ==
  ASSUME TypeInv, NEW t \in Producers, NEW q \in 1 .. Len(rows)
  PROVE  /\ GetNextResult(t) =>
              /\ t \notin Fetchers(q)
              /\ Fetchers(q)' = IF q = queries THEN Fetchers(q) \cup {t}
                                               ELSE Fetchers(q)
         /\ Fetch(t) =>
              /\ t \in Fetchers(q) <=> q = fetching[t]
              /\ producer'[t] = "insert" => Fetchers(q)' = Fetchers(q)
              /\ producer'[t] = "next" => Fetchers(q)' = Fetchers(q) \ {t}
         /\ InsertToQueue(t) =>
              /\ t \in Fetchers(q) <=> q = holding[t]
              /\ Fetchers(q)' = Fetchers(q)
<1>1. /\ q # Null /\ Null \notin 1 .. Len(rows) /\ queries \in Nat
      /\ producer \in [Producers -> {"next", "fetch", "insert", "done"}]
      /\ fetching \in [Producers -> Queries]
      /\ holding \in [Producers -> 1 .. Len(rows) \cup {Null}]
      /\ PlacesOK
  BY QueueTypes DEF TypeInv, PrefetcherTypeOK
<1>2. ASSUME \A u \in Producers : u # t =>
               /\ producer'[u] = producer[u]
               /\ fetching'[u] = fetching[u]
               /\ holding'[u] = holding[u]
      PROVE  \A u \in Producers :
               u # t => (u \in Fetchers(q)' <=> u \in Fetchers(q))
  BY <1>2 DEF Fetchers
<1>6. Fetchers(q)' \subseteq Producers /\ Fetchers(q) \subseteq Producers
  BY DEF Fetchers
<1>3. ASSUME GetNextResult(t)
      PROVE  /\ t \notin Fetchers(q)
             /\ Fetchers(q)' = IF q = queries THEN Fetchers(q) \cup {t}
                                              ELSE Fetchers(q)
  <2>1. \A u \in Producers : u # t =>
               /\ producer'[u] = producer[u]
               /\ fetching'[u] = fetching[u]
               /\ holding'[u] = holding[u]
    BY <1>1, <1>3 DEF GetNextResult
  <2>2. t \notin Fetchers(q)
    BY <1>3 DEF GetNextResult, Fetchers
  <2>3. t \in Fetchers(q)' <=> q = queries
    <3>1. CASE queries > 0
      <4>1. fetching'[t] = queries /\ producer'[t] = "fetch"
        BY <1>1, <1>3, <3>1 DEF GetNextResult
      <4> QED
        BY <4>1 DEF Fetchers
    <3>2. CASE queries = 0
      <4>1. holding'[t] = Null /\ producer'[t] = "insert"
        BY <1>1, <1>3, <3>2 DEF GetNextResult
      <4> QED
        BY <1>1, <3>2, <4>1 DEF Fetchers
    <3> QED
      BY <1>1, <3>1, <3>2
  <2>7. \A u \in Producers :
          u # t => (u \in Fetchers(q)' <=> u \in Fetchers(q))
    BY <1>2, <2>1
  <2> QED
    BY <1>6, <2>2, <2>3, <2>7
<1>4. ASSUME Fetch(t)
      PROVE  /\ t \in Fetchers(q) <=> q = fetching[t]
             /\ producer'[t] = "insert" => Fetchers(q)' = Fetchers(q)
             /\ producer'[t] = "next" => Fetchers(q)' = Fetchers(q) \ {t}
  <2>1. \A u \in Producers : u # t =>
               /\ producer'[u] = producer[u]
               /\ fetching'[u] = fetching[u]
               /\ holding'[u] = holding[u]
    BY <1>1, <1>4 DEF Fetch
  <2>2. t \in Fetchers(q) <=> q = fetching[t]
    BY <1>4 DEF Fetch, Fetchers
  <2>3. /\ fetching' = fetching
        /\ \/ producer'[t] = "insert" /\ holding'[t] = fetching[t]
           \/ producer'[t] = "next"
    BY <1>1, <1>4 DEF Fetch
  <2>4. t \in Fetchers(q)' <=> q = fetching[t] /\ producer'[t] = "insert"
    BY <2>3 DEF Fetchers
  <2>7. \A u \in Producers :
          u # t => (u \in Fetchers(q)' <=> u \in Fetchers(q))
    BY <1>2, <2>1
  <2> QED
    BY <1>6, <2>2, <2>3, <2>4, <2>7
<1>5. ASSUME InsertToQueue(t)
      PROVE  /\ t \in Fetchers(q) <=> q = holding[t]
             /\ Fetchers(q)' = Fetchers(q)
  <2>1. \A u \in Producers : u # t =>
               /\ producer'[u] = producer[u]
               /\ fetching'[u] = fetching[u]
               /\ holding'[u] = holding[u]
    BY <1>1, <1>5 DEF InsertToQueue
  <2>2. producer[t] = "insert" /\ UNCHANGED <<fetching, holding>>
        /\ (holding[t] # Null => holding[t] = fetching[t])
    BY <1>1, <1>5 DEF InsertToQueue, PlacesOK
  <2>3. t \in Fetchers(q) <=> q = holding[t]
    BY <1>1, <2>2 DEF Fetchers
  <2>4. \/ UNCHANGED producer
        \/ producer'[t] = IF holding[t] = Null THEN "done" ELSE "fetch"
    BY <1>1, <1>5 DEF InsertToQueue
  <2>5. t \in Fetchers(q)' <=> q = holding[t]
    <3>1. CASE holding[t] = Null
      BY <1>1, <2>2, <2>4, <3>1 DEF Fetchers
    <3>2. CASE holding[t] # Null
      <4>1. producer'[t] \in {"insert", "fetch"}
        BY <1>1, <2>2, <2>4, <3>2
      <4> QED
        BY <2>2, <3>2, <4>1 DEF Fetchers
    <3> QED
      BY <3>1, <3>2
  <2>7. \A u \in Producers :
          u # t => (u \in Fetchers(q)' <=> u \in Fetchers(q))
    BY <1>2, <2>1
  <2>8. \A u \in Producers : u \in Fetchers(q)' <=> u \in Fetchers(q)
    BY <2>3, <2>5, <2>7
  <2>9. Fetchers(q)' = Fetchers(q)
    BY <1>6, <2>8
  <2> QED
    BY <2>3, <2>9
<1> QED
  BY <1>3, <1>4, <1>5

LEMMA FetchersStep ==
  ASSUME TypeInv, FetchersOK, [Next]_vars
  PROVE  FetchersOK'
<1>1. rows' = rows
  BY DEF Next, Produce, Consume, GetNextResult, Fetch, InsertToQueue, Request,
         GetNextTuple, JoinThreads, Close, SpuriousWakeup, vars
<1>2. CASE UNCHANGED <<queries, producer, fetching, holding>>
  BY <1>1, <1>2 DEF FetchersOK, Fetchers
<1>3. ASSUME NEW t \in Producers, Produce(t)
      PROVE  FetchersOK'
  <2> SUFFICES ASSUME NEW q \in 1 .. Len(rows), NEW u \in Producers,
                      u \in Fetchers(q)'
               PROVE  q > queries' /\ Fetchers(q)' = {u}
    BY <1>1 DEF FetchersOK
  <2>1. CASE GetNextResult(t)
    <3>1. queries \in Nat /\ queries' \in Nat /\ queries' <= queries
          /\ (queries > 0 => queries' < queries)
      BY <2>1, QueueTypes DEF GetNextResult
    <3>2. CASE q = queries
      <4>1. Fetchers(q) = {}
        BY <3>1, <3>2 DEF FetchersOK, Fetchers
      <4>2. Fetchers(q)' = {t}
        BY <2>1, <3>2, <4>1, FetchersChange
      <4> QED
        BY <3>1, <3>2, <4>2
    <3>3. CASE q # queries
      <4>1. Fetchers(q)' = Fetchers(q)
        BY <2>1, <3>3, FetchersChange
      <4> QED
        BY <3>1, <4>1 DEF FetchersOK
    <3> QED
      BY <3>2, <3>3
  <2>2. CASE Fetch(t) \/ InsertToQueue(t)
    <3>1. queries' = queries
      BY <2>2 DEF Fetch, InsertToQueue, producerVars
    <3>2. Fetchers(q)' \in {Fetchers(q), Fetchers(q) \ {t}}
      <4>1. Fetch(t) => producer'[t] \in {"insert", "next"}
        BY DEF Fetch, TypeInv, PrefetcherTypeOK
      <4> QED
        BY <2>2, <4>1, FetchersChange
    <3> QED
      BY <3>1, <3>2 DEF FetchersOK
  <2> QED
    BY <1>3, <2>1, <2>2 DEF Produce
<1> QED
  BY <1>2, <1>3 DEF Next, Consume, Request, GetNextTuple, JoinThreads, Close,
                    SpuriousWakeup, vars, producerVars

\* The tuples of a statement, before and after a step of the queue.
LEMMA ServedTypes ==
  ASSUME TypeInv, NEW q \in 1 .. Len(rows)
  PROVE  /\ delivered[q] \in Nat /\ Times(tuples, q) \in Nat
         /\ rows[q] \in Nat
         /\ \A t \in Producers : left[t] \in Nat
         /\ \A t \in Producers :
              Times(Append(tuples, holding[t]), q)
                = Times(tuples, q) + (IF holding[t] = q THEN 1 ELSE 0)
         /\ tuples # <<>> =>
              /\ Times(Tail(tuples), q) \in Nat
              /\ Times(tuples, q)
                   = Times(Tail(tuples), q) + (IF Head(tuples) = q THEN 1 ELSE 0)
<1>1. tuples \in Seq(1 .. Len(rows) \cup {Null})
  BY QueueTypes
<1>2. delivered[q] \in Nat /\ \A t \in Producers : left[t] \in Nat
  <2>1. /\ delivered \in [1 .. Len(rows) -> Nat]
        /\ left \in [Producers -> 0 .. MaxRows]
    BY DEF TypeInv, PrefetcherTypeOK
  <2> QED
    BY <2>1
<1>3. rows[q] \in Nat
  BY StatementTypes DEF TypeInv
<1>4. ASSUME NEW t \in Producers
      PROVE  Times(Append(tuples, holding[t]), q)
               = Times(tuples, q) + (IF holding[t] = q THEN 1 ELSE 0)
  <2>1. holding[t] \in 1 .. Len(rows) \cup {Null}
    BY DEF TypeInv, PrefetcherTypeOK
  <2> QED
    BY <1>1, <2>1, TimesAppend
<1>5. Times(tuples, q) \in Nat
  BY <1>1, PlacesFinite
<1>6. tuples # <<>> =>
        /\ Times(Tail(tuples), q) \in Nat
        /\ Times(tuples, q)
             = Times(Tail(tuples), q) + (IF Head(tuples) = q THEN 1 ELSE 0)
  BY <1>1, TimesTail
<1> QED
  BY <1>2, <1>3, <1>4, <1>5, <1>6

\* What RowsOK says of one statement.
RowOK(q) ==
  /\ q <= queries => Served(q) = 0
  /\ q > queries /\ Fetchers(q) = {} => Served(q) = rows[q]
  /\ \A t \in Fetchers(q) : Served(q) + left[t] + InHand(t) = rows[q]

LEMMA ProduceRow ==
  ASSUME NoFaults, EndInv, FetchersOK, ~closing,
         NEW q \in 1 .. Len(rows), RowOK(q),
         NEW t \in Producers, Produce(t)
  PROVE  RowOK(q)'
<1> USE DEF EndInv
<1>1. /\ q \in Nat /\ queries \in Nat /\ Null # q
      /\ producer \in [Producers -> {"next", "fetch", "insert", "done"}]
      /\ left \in [Producers -> 0 .. MaxRows]
  <2>1. q \in Nat /\ queries \in Nat /\ Null # q
    BY QueueTypes
  <2> QED
    BY <2>1 DEF TypeInv, PrefetcherTypeOK
<1>2. Fetchers(q) \subseteq Producers
  BY DEF Fetchers
<1>3. \A u \in Fetchers(q) : q > queries /\ Fetchers(q) = {u}
  BY <1>2 DEF FetchersOK
<1>4. UNCHANGED <<rows, delivered>>
  BY DEF Produce, GetNextResult, Fetch, InsertToQueue
<1>5. CASE GetNextResult(t)
  <2>1. Served(q)' = Served(q)
    BY <1>5, <1>4 DEF GetNextResult, Served
  <2>2. t \notin Fetchers(q)
        /\ Fetchers(q)' = IF q = queries THEN Fetchers(q) \cup {t} ELSE Fetchers(q)
    BY <1>5, FetchersChange
  <2>3. \A u \in Fetchers(q) : left'[u] = left[u] /\ InHand(u)' = InHand(u)
    BY <1>1, <1>2, <1>5, <2>2 DEF GetNextResult, InHand
  <2>4. CASE q = queries
    <3>1. Fetchers(q) = {}
      BY <1>1, <1>3, <2>4
    <3>2. /\ queries' = queries - 1
          /\ left'[t] = rows[q] /\ producer'[t] = "fetch"
      BY <1>1, <1>5, <2>4, QueueTypes DEF GetNextResult
    <3>3. Served(q) = 0 /\ Fetchers(q)' = {t} /\ rows[q] \in Nat
      BY <1>1, <2>2, <2>4, <3>1, ServedTypes DEF RowOK
    <3>4. \A u \in Fetchers(q)' : Served(q)' + left'[u] + InHand(u)' = rows'[q]
      BY <1>4, <2>1, <3>2, <3>3 DEF InHand
    <3> QED
      BY <1>1, <2>4, <3>2, <3>3, <3>4 DEF RowOK
  <2>5. CASE q # queries
    <3>1. Fetchers(q)' = Fetchers(q)
      BY <2>2, <2>5
    <3>2. q <= queries' <=> q <= queries
      BY <1>1, <1>5, <2>5 DEF GetNextResult
    <3>3. q > queries' <=> q > queries
      BY <1>1, <1>5, <2>5 DEF GetNextResult
    <3> QED
      BY <1>4, <2>1, <2>3, <3>1, <3>2, <3>3 DEF RowOK
  <2> QED
    BY <2>4, <2>5
<1>6. CASE Fetch(t)
  <2>1. Served(q)' = Served(q) /\ queries' = queries
    BY <1>6, <1>4 DEF Fetch, Served
  <2>2. \A u \in Producers :
          u # t => left'[u] = left[u] /\ InHand(u)' = InHand(u)
    BY <1>1, <1>6 DEF Fetch, InHand
  <2>3. CASE producer'[t] = "insert"
    <3>1. Fetchers(q)' = Fetchers(q)
      BY <1>6, <2>3, FetchersChange
    <3>2. left[t] > 0 /\ left'[t] = left[t] - 1
      BY <1>1, <1>6, <2>3 DEF Fetch
    <3>3. InHand(t) = 0 /\ InHand(t)' = 1
      <4>1. producer[t] = "fetch"
        BY <1>6 DEF Fetch
      <4> QED
        BY <2>3, <4>1 DEF InHand
    <3>4. Served(q) \in Nat
      BY ServedTypes DEF Served
    <3>5. \A u \in Fetchers(q) : Served(q)' + left'[u] + InHand(u)' = rows'[q]
      <4> TAKE u \in Fetchers(q)
      <4>1. Served(q) + left[u] + InHand(u) = rows[q]
        BY DEF RowOK
      <4>2. CASE u = t
        <5>1. Served(q) + left[t] + 0 = rows[q] /\ left[t] \in Nat
          BY <1>1, <3>3, <4>1, <4>2
        <5>2. Served(q) + left'[t] + 1 = rows[q]
          BY <3>2, <3>4, <5>1
        <5> QED
          BY <1>4, <2>1, <3>3, <4>2, <5>2
      <4>3. CASE u # t
        <5>1. left'[u] = left[u] /\ InHand(u)' = InHand(u)
          BY <1>2, <2>2, <4>3
        <5> QED
          BY <1>4, <2>1, <4>1, <5>1
      <4> QED
        BY <4>2, <4>3
    <3> QED
      BY <1>4, <2>1, <3>1, <3>5 DEF RowOK
  <2>4. CASE producer'[t] = "next"
    <3>1. Fetchers(q)' = Fetchers(q) \ {t}
      BY <1>6, <2>4, FetchersChange
    <3>2. CASE t \in Fetchers(q)
      <4>1. left[t] = 0 /\ InHand(t) = 0
        BY <1>1, <1>6, <2>4 DEF Fetch, InHand, NoFaults, EndOK
      <4>2. Served(q) = rows[q]
        BY <3>2, <4>1, ServedTypes DEF RowOK, Served
      <4>3. q > queries /\ Fetchers(q)' = {}
        BY <1>3, <3>1, <3>2
      <4> QED
        BY <1>1, <1>4, <2>1, <4>2, <4>3 DEF RowOK
    <3>3. CASE t \notin Fetchers(q)
      <4>1. Fetchers(q)' = Fetchers(q)
        BY <3>1, <3>3
      <4> QED
        BY <1>2, <1>4, <2>1, <2>2, <3>3, <4>1 DEF RowOK
    <3> QED
      BY <3>2, <3>3
  <2> QED
    BY <1>1, <1>6, <2>3, <2>4 DEF Fetch
<1>7. CASE InsertToQueue(t)
  <2>1. UNCHANGED <<queries, left>> /\ producer[t] = "insert"
    BY <1>7 DEF InsertToQueue
  <2>2. Fetchers(q)' = Fetchers(q) /\ (t \in Fetchers(q) <=> q = holding[t])
    BY <1>7, FetchersChange
  <2>3. CASE UNCHANGED <<tuples, producer>>
    BY <1>4, <2>1, <2>2, <2>3 DEF RowOK, Served, InHand
  <2>4. CASE /\ tuples' = Append(tuples, holding[t])
             /\ producer' = [producer EXCEPT ![t] =
                               IF holding[t] = Null THEN "done" ELSE "fetch"]
    <3>1. Served(q)' = Served(q) + (IF q = holding[t] THEN 1 ELSE 0)
      BY <1>4, <2>4, ServedTypes DEF Served
    <3>2. \A u \in Producers : u # t => InHand(u)' = InHand(u)
      BY <1>1, <2>4 DEF InHand
    <3>3. CASE q = holding[t]
      <4>1. Fetchers(q) = {t} /\ q > queries
        BY <1>3, <2>2, <3>3
      <4>2. InHand(t) = 1 /\ InHand(t)' = 0
        BY <1>1, <2>1, <2>4 DEF InHand
      <4>3. Served(q) + left[t] + 1 = rows[q]
        BY <4>1, <4>2 DEF RowOK
      <4>4. Served(q)' + left'[t] + InHand(t)' = rows'[q]
        BY <1>4, <2>1, <3>1, <3>3, <4>2, <4>3, ServedTypes DEF Served
      <4> QED
        BY <1>1, <2>1, <2>2, <4>1, <4>4 DEF RowOK
    <3>4. CASE q # holding[t]
      <4>1. Served(q)' = Served(q) /\ t \notin Fetchers(q)
        BY <2>2, <3>1, <3>4, ServedTypes DEF Served
      <4> QED
        BY <1>2, <1>4, <2>1, <2>2, <3>2, <4>1 DEF RowOK
    <3> QED
      BY <3>3, <3>4
  <2> QED
    BY <1>7, <2>3, <2>4 DEF InsertToQueue
<1> QED
  BY <1>5, <1>6, <1>7 DEF Produce

LEMMA RowsStep ==
  ASSUME NoFaults, EndInv, FetchersOK, RowsOK, [Next]_vars
  PROVE  RowsOK'
<1> USE DEF EndInv
<1>1. rows' = rows
  BY DEF Next, Produce, Consume, GetNextResult, Fetch, InsertToQueue, Request,
         GetNextTuple, JoinThreads, Close, SpuriousWakeup, vars
<1>2. ASSUME NEW t \in Producers, Produce(t)
      PROVE  RowsOK'
  <2>1. closing' = closing
    BY <1>2 DEF Produce, GetNextResult, Fetch, InsertToQueue
  <2>2. RowsOK <=> (~closing => \A q \in 1 .. Len(rows) : RowOK(q))
    BY DEF RowsOK, RowOK
  <2>3. RowsOK' <=> (~closing' => \A q \in 1 .. Len(rows') : RowOK(q)')
    BY DEF RowsOK, RowOK
  <2> QED
    BY <1>1, <1>2, <2>1, <2>2, <2>3, ProduceRow
<1>3. CASE GetNextTuple
  <2> SUFFICES ASSUME ~closing, NEW q \in 1 .. Len(rows)
               PROVE  Served(q)' = Served(q)
    <3>1. UNCHANGED <<queries, producer, fetching, left, holding, closing>>
      BY <1>3 DEF GetNextTuple, producerVars
    <3> QED
      BY <1>1, <3>1 DEF RowsOK, Fetchers, InHand
  <2>1. CASE tuples = <<>>
    BY <1>3, <2>1 DEF GetNextTuple, Served
  <2>2. CASE tuples # <<>> /\ Head(tuples) = Null
    <3>1. tuples' = Tail(tuples) /\ UNCHANGED delivered
      BY <1>3, <2>2 DEF GetNextTuple, Take
    <3>2. Head(tuples) # q
      BY <2>2, QueueTypes
    <3> QED
      BY <2>2, <3>1, <3>2, ServedTypes DEF Served
  <2>3. CASE tuples # <<>> /\ Head(tuples) # Null
    <3>1. /\ tuples' = Tail(tuples)
          /\ delivered' = [delivered EXCEPT ![Head(tuples)] = @ + 1]
      BY <1>3, <2>3 DEF GetNextTuple, Take, Deliver
    <3>2. delivered \in [1 .. Len(rows) -> Nat]
      BY DEF TypeInv, PrefetcherTypeOK
    <3>3. delivered'[q] = delivered[q] + (IF Head(tuples) = q THEN 1 ELSE 0)
      BY <3>1, <3>2
    <3>4. /\ delivered[q] \in Nat /\ Times(Tail(tuples), q) \in Nat
          /\ Times(tuples, q)
               = Times(Tail(tuples), q) + (IF Head(tuples) = q THEN 1 ELSE 0)
      BY <2>3, ServedTypes
    <3> QED
      BY <3>1, <3>3, <3>4 DEF Served
  <2> QED
    BY <2>1, <2>2, <2>3
<1>4. CASE Close
  BY <1>4 DEF Close, RowsOK
<1>5. CASE \/ Request \/ JoinThreads
           \/ \E t \in Producers \cup {Consumer} : SpuriousWakeup(t)
           \/ UNCHANGED vars
  <2>1. UNCHANGED <<queries, producer, fetching, left, holding, closing, tuples,
                    delivered>>
    BY <1>5 DEF Request, JoinThreads, SpuriousWakeup, vars, producerVars
  <2> QED
    BY <1>1, <2>1 DEF RowsOK, Fetchers, InHand, Served
<1> QED
  BY <1>2, <1>3, <1>4, <1>5 DEF Next, Consume

LEMMA InitRowsInv ==
  ASSUME NoFaults
  PROVE  Init => RowsInv
<1> SUFFICES ASSUME Init PROVE RowsInv
  OBVIOUS
<1>1. EndInv
  BY InitEndInv DEF NoFaults, Initialised
<1>2. \A e : Places(tuples, e) = {} /\ Times(tuples, e) = 0
  BY FS_EmptySet DEF Init, Places, Times
<1>3. \A q : Fetchers(q) = {}
  BY DEF Init, Fetchers
<1>4. LastIsNull /\ NoneLeft /\ FetchersOK
  BY <1>2, <1>3 DEF Init, LastIsNull, NoneLeft, NullSeen, FetchersOK
<1>5. RowsOK
  <2>1. queries = Len(rows) /\ Len(rows) \in Nat
        /\ \A q \in 1 .. Len(rows) : delivered[q] = 0
    BY <1>1, StatementTypes DEF Init, EndInv, TypeInv
  <2> QED
    BY <1>2, <1>3, <2>1 DEF RowsOK, Served
<1> QED
  BY <1>1, <1>4, <1>5 DEF RowsInv

(* If the constructor initialises the flags and no fetch fails: the        *)
(* operator gets the Null only when it has got every tuple of every        *)
(* statement once, for any number of producers and statements, whichever   *)
(* thread ends first (getNextTuple, prefetchTuple).                        *)
THEOREM EndCorrect ==
  ASSUME NoFaults
  PROVE  Spec => []EndMeansAll
<1>1. Init => RowsInv
  BY InitRowsInv
<1>2. RowsInv /\ [Next]_vars => RowsInv'
  BY EndStep, LastStep, NoneLeftStep, FetchersStep, RowsStep
  DEF RowsInv, EndInv
<1>3. RowsInv => EndMeansAll
  <2> SUFFICES ASSUME RowsInv, consumer = "finished"
               PROVE  delivered = rows
    BY DEF EndMeansAll
  <2>1. /\ ~closing /\ Live = {}
        /\ tuples = <<>> /\ queries = 0
    BY DEF RowsInv, EndInv, EndOK, TypeInv, TerminalsOK, NoneLeft
  <2>2. \A q : Fetchers(q) = {} /\ Times(tuples, q) = 0
    BY <2>1, FS_EmptySet DEF Fetchers, Live, Times, Places
  <2>3. /\ delivered \in [1 .. Len(rows) -> Nat]
        /\ rows \in [1 .. Len(rows) -> 0 .. MaxRows]
        /\ Len(rows) \in Nat
    BY StatementTypes DEF RowsInv, EndInv, TypeInv, PrefetcherTypeOK
  <2>4. \A q \in 1 .. Len(rows) : delivered[q] = rows[q]
    BY <2>1, <2>2, <2>3 DEF RowsInv, RowsOK, Served
  <2> QED
    BY <2>3, <2>4
<1> QED
  BY <1>1, <1>2, <1>3, PTL DEF Spec
=============================================================================
