------------------------------ MODULE FlobProofs ------------------------------
(***************************************************************************)
(* Theorems about large objects: those of a running query (NativeFlobs),   *)
(* for any slots, cache, Flobs and queries, and those of stored tuples     *)
(* (TupleFlobs), for any number of processes, databases, attributes and    *)
(* records.                                                                *)
(***************************************************************************)
EXTENDS NativeFlobs, TupleFlobs, SequenceTheorems, FiniteSetTheorems, TLAPS

-----------------------------------------------------------------------------
(* Induction.  The library states it for operators, which the provers do   *)
(* not instantiate; these lemmas state it for sets.                        *)

\* A set of natural numbers that is not empty has a least element.
LEMMA LeastOf ==
  ASSUME NEW T \in SUBSET Nat, T # {}
  PROVE  \E x \in T : \A y \in T : x <= y
<1> DEFINE Below == {0 .. k : k \in T}
<1>1. Below \subseteq FiniteSubsetsOf(Nat)
  <2>1. ASSUME NEW X \in Below PROVE IsFiniteSet(X) /\ X \in SUBSET Nat
    <3>1. PICK k \in T : X = 0 .. k
      BY <2>1
    <3> QED
      BY <3>1, FS_Interval
  <2> HIDE DEF Below
  <2> QED
    BY <2>1 DEF FiniteSubsetsOf
<1>2. Below # {}
  OBVIOUS
<1>3. PICK X \in Below : \A Y \in Below : <<Y, X>> \notin StrictSubsetOrdering(Nat)
  <2> HIDE DEF Below
  <2> QED
    BY <1>1, <1>2, FS_StrictSubsetOrderingWellFounded, WFMin
<1>4. PICK x \in T : X = 0 .. x
  OBVIOUS
<1>5. ASSUME NEW y \in T, y < x PROVE FALSE
  <2>1. /\ 0 .. y \subseteq 0 .. x /\ 0 .. y # 0 .. x /\ 0 .. y \in Below
        /\ 0 .. y \in SUBSET Nat /\ 0 .. x \in SUBSET Nat
    <3>1. x \in 0 .. x /\ x \notin 0 .. y
      BY <1>5
    <3> QED
      BY <1>5, <3>1
  <2>2. <<0 .. y, 0 .. x>> \in StrictSubsetOrdering(Nat)
    <3> HIDE DEF Below
    <3> QED
      BY <2>1 DEF StrictSubsetOrdering
  <2> QED
    BY <2>1, <2>2, <1>3, <1>4
<1> QED
  BY <1>5

\* Induction.
LEMMA Ascend ==
  ASSUME NEW S \in SUBSET Nat, 0 \in S, \A n \in S : n + 1 \in S
  PROVE  S = Nat
<1> SUFFICES ASSUME Nat \ S # {} PROVE FALSE
  OBVIOUS
<1>1. PICK x \in Nat \ S : \A y \in Nat \ S : x <= y
  BY LeastOf
<1>2. x # 0 /\ x - 1 \in Nat /\ x - 1 \in S
  BY <1>1
<1> QED
  BY <1>2

\* If n is in S, so is its successor.
Ascends(S, first, last) == \A n \in first .. last - 1 : n \in S => n + 1 \in S

\* The same from first to last.
LEMMA AscendTo ==
  ASSUME NEW first \in Int, NEW last \in Int, first <= last, NEW S,
         first \in S, Ascends(S, first, last)
  PROVE  \A n \in first .. last : n \in S
<1> DEFINE T == {n \in Nat : first + n <= last => first + n \in S}
<1>1. 0 \in T
  OBVIOUS
<1>2. \A n \in T : n + 1 \in T
  <2> SUFFICES ASSUME NEW n \in T, first + n + 1 <= last PROVE first + (n + 1) \in S
    OBVIOUS
  <2>1. first + n \in first .. last - 1 /\ first + n \in S
    OBVIOUS
  <2> QED
    BY <2>1 DEF Ascends
<1>3. T = Nat
  <2> HIDE DEF T
  <2>1. T \in SUBSET Nat
    BY DEF T
  <2> QED
    BY <1>1, <1>2, <2>1, Ascend
<1> SUFFICES ASSUME NEW n \in first .. last PROVE n \in S
  OBVIOUS
<1>4. n - first \in T
  <2> HIDE DEF T
  <2> QED
    BY <1>3
<1> QED
  BY <1>4

\* The last one that is in a set.
LEMMA LastOf ==
  ASSUME NEW n \in Nat, NEW S, 0 \in S, n \notin S
  PROVE  \E k \in 0 .. n - 1 : k \in S /\ k + 1 \notin S
<1> SUFFICES ASSUME \A k \in 0 .. n - 1 : k \in S => k + 1 \in S PROVE FALSE
  OBVIOUS
<1>1. \A k \in 0 .. n : k \in S
  <2>1. Ascends(S, 0, n)
    BY DEF Ascends
  <2> QED
    BY <2>1, AscendTo
<1> QED
  BY <1>1

\* A loop, and what it keeps.
RunsLoop(f, first, last, c, step) ==
  f = [n \in first .. last |-> IF n = first THEN c ELSE step[n - 1][f[n - 1]]]
Keeps(f, first, last, Inv) == \A n \in first .. last : f[n] \in Inv[n]

\* A loop of which each step keeps an invariant has a result, and keeps it.
LEMMA LoopRuns ==
  ASSUME NEW first \in Int, NEW last \in Int, first <= last, NEW c, NEW Inv, NEW step,
         c \in Inv[first],
         \A n \in first .. last - 1 : \A d \in Inv[n] : step[n][d] \in Inv[n + 1]
  PROVE  \E f : RunsLoop(f, first, last, c, step) /\ Keeps(f, first, last, Inv)
<1> DEFINE Result(f, k) ==
             /\ f = [n \in first .. k |-> IF n = first THEN c ELSE step[n - 1][f[n - 1]]]
             /\ \A n \in first .. k : f[n] \in Inv[n]
           Known == {k \in first .. last : \E f : Result(f, k)}
<1>1. first \in Known
  <2>1. Result([n \in first .. first |-> c], first)
    OBVIOUS
  <2> HIDE DEF Result
  <2> QED
    BY <2>1
<1>2. ASSUME NEW k \in first .. last - 1, k \in Known PROVE k + 1 \in Known
  <2>1. PICK f : Result(f, k)
    BY <1>2
  <2> DEFINE g == [n \in first .. k + 1 |-> IF n = k + 1 THEN step[k][f[k]] ELSE f[n]]
  <2>2. f[k] \in Inv[k] /\ step[k][f[k]] \in Inv[k + 1]
    BY <2>1
  <2>3. \A n \in first .. k + 1 : g[n] \in Inv[n]
    BY <2>1, <2>2
  <2>4. ASSUME NEW n \in first .. k + 1
        PROVE  g[n] = IF n = first THEN c ELSE step[n - 1][g[n - 1]]
    <3>1. CASE n = k + 1
      BY <3>1
    <3>2. CASE n \in first .. k
      <4>1. g[n] = f[n] /\ (n # first => g[n - 1] = f[n - 1])
        BY <3>2
      <4> QED
        BY <2>1, <3>2, <4>1
    <3> QED
      BY <3>1, <3>2
  <2>5. g = [n \in first .. k + 1 |-> IF n = first THEN c ELSE step[n - 1][g[n - 1]]]
    BY <2>4
  <2>6. Result(g, k + 1)
    <3> HIDE DEF g
    <3> QED
      BY <2>3, <2>5
  <2> HIDE DEF Result
  <2> QED
    BY <2>6
<1>3. last \in Known
  <2> HIDE DEF Known
  <2>1. Ascends(Known, first, last)
    BY <1>2 DEF Ascends
  <2>2. last \in first .. last
    OBVIOUS
  <2> QED
    BY <1>1, <2>1, <2>2, AscendTo
<1> QED
  BY <1>3 DEF RunsLoop, Keeps

-----------------------------------------------------------------------------
(* Sequences.                                                              *)

Distinct(s) == \A i, j \in DOMAIN s : s[i] = s[j] => i = j

\* The range of a sequence.
LEMMA RangeIs ==
  ASSUME NEW T, NEW s \in Seq(T)
  PROVE  Range(s) = {s[i] : i \in 1 .. Len(s)} /\ Range(s) \subseteq T
  BY DEF Range

\* Without keeps the other elements, once each if they were there once.
LEMMA WithoutProperties ==
  ASSUME NEW T, NEW s \in Seq(T), NEW elements, Distinct(s)
  PROVE  /\ Without(s, elements) \in Seq(T)
         /\ Range(Without(s, elements)) = Range(s) \ elements
         /\ Distinct(Without(s, elements))
<1> DEFINE First(n) == {s[i] : i \in 1 .. n} \ elements
           Inv == [n \in 0 .. Len(s) |->
                     {r \in Seq(T) : Range(r) = First(n) /\ Distinct(r)}]
           more(r, n) == IF s[n] \in elements THEN r ELSE Append(r, s[n])
           step == [n \in 0 .. Len(s) - 1 |-> [r \in Inv[n] |-> more(r, n + 1)]]
<1>1. <<>> \in Inv[0]
  BY DEF Range, Distinct
<1>2. ASSUME NEW n \in 0 .. Len(s) - 1, NEW r \in Inv[n] PROVE more(r, n + 1) \in Inv[n + 1]
  <2>1. First(n + 1) = IF s[n + 1] \in elements THEN First(n) ELSE First(n) \cup {s[n + 1]}
    <3>1. 1 .. (n + 1) = (1 .. n) \cup {n + 1}
      OBVIOUS
    <3>2. {s[i] : i \in 1 .. (n + 1)} = {s[i] : i \in 1 .. n} \cup {s[n + 1]}
      BY <3>1
    <3> QED
      BY <3>2
  <2>2. r \in Seq(T) /\ Range(r) = First(n) /\ Distinct(r)
    OBVIOUS
  <2>3. CASE s[n + 1] \in elements
    BY <2>1, <2>2, <2>3
  <2>4. CASE s[n + 1] \notin elements
    <3> DEFINE q == Append(r, s[n + 1])
    <3>1. s[n + 1] \in T /\ s[n + 1] \notin First(n)
      <4>1. \A i \in 1 .. n : s[i] # s[n + 1]
        BY DEF Distinct
      <4> QED
        BY <4>1
    <3>2. q \in Seq(T) /\ Len(q) = Len(r) + 1 /\ q[Len(r) + 1] = s[n + 1]
          /\ \A i \in 1 .. Len(r) : q[i] = r[i]
      BY <2>2, <3>1
    <3> HIDE DEF q, First
    <3>3. Range(q) = Range(r) \cup {s[n + 1]}
      <4>1. DOMAIN q = DOMAIN r \cup {Len(r) + 1} /\ DOMAIN r = 1 .. Len(r)
        BY <2>2, <3>2
      <4> QED
        BY <3>2, <4>1 DEF Range
    <3>4. Distinct(q)
      <4>1. \A i \in 1 .. Len(r) : r[i] \in First(n)
        BY <2>2 DEF Range
      <4>2. DOMAIN q = 1 .. Len(r) + 1 /\ DOMAIN r = 1 .. Len(r) /\ Len(r) \in Nat
        BY <2>2, <3>2
      <4>3. \A i, j \in 1 .. Len(r) : r[i] = r[j] => i = j
        BY <2>2, <4>2 DEF Distinct
      <4> QED
        BY <3>1, <3>2, <4>1, <4>2, <4>3 DEF Distinct
    <3> QED
      BY <2>1, <2>2, <2>4, <3>2, <3>3, <3>4 DEF q
  <2> QED
    BY <2>3, <2>4
<1> DEFINE IsRest(f) == f = [n \in 0 .. Len(s) |->
                               IF n = 0 THEN <<>>
                               ELSE IF s[n] \in elements THEN f[n - 1]
                                    ELSE Append(f[n - 1], s[n])]
<1>3. \E f : IsRest(f)
  <2>1. PICK f : RunsLoop(f, 0, Len(s), <<>>, step) /\ Keeps(f, 0, Len(s), Inv)
    <3>1. \A n \in 0 .. Len(s) - 1 : \A r \in Inv[n] : step[n][r] \in Inv[n + 1]
      <4> HIDE DEF Inv, more
      <4> QED
        BY <1>2
    <3>2. 0 \in Int /\ Len(s) \in Int /\ 0 <= Len(s)
      OBVIOUS
    <3> HIDE DEF Inv, step
    <3> QED
      BY <1>1, <3>1, <3>2, LoopRuns
  <2>2. \A n \in 1 .. Len(s) : step[n - 1][f[n - 1]] = more(f[n - 1], n)
    <3> SUFFICES ASSUME NEW n \in 1 .. Len(s)
                 PROVE  step[n - 1][f[n - 1]] = more(f[n - 1], n)
      OBVIOUS
    <3>1. n - 1 \in 0 .. Len(s) - 1 /\ n - 1 \in 0 .. Len(s) /\ (n - 1) + 1 = n
      OBVIOUS
    <3>2. f[n - 1] \in Inv[n - 1]
      <4> HIDE DEF Inv, step
      <4> QED
        BY <2>1, <3>1 DEF Keeps
    <3>3. step[n - 1][f[n - 1]] = more(f[n - 1], (n - 1) + 1)
      <4> HIDE DEF Inv, more
      <4> QED
        BY <3>1, <3>2
    <3> QED
      BY <3>1, <3>3
  <2>3. IsRest(f)
    <3> HIDE DEF step, Inv
    <3> QED
      BY <2>1, <2>2 DEF RunsLoop
  <2> QED
    BY <2>3
<1>4. PICK f : IsRest(f) /\ Without(s, elements) = f[Len(s)]
  <2>1. IsRest(CHOOSE f : IsRest(f))
    BY <1>3
  <2>2. Without(s, elements) = (CHOOSE f : IsRest(f))[Len(s)]
    BY DEF Without
  <2> HIDE DEF IsRest
  <2> QED
    BY <2>1, <2>2
<1>5. \A n \in 0 .. Len(s) : f[n] \in Inv[n]
  <2> DEFINE S == {n \in 0 .. Len(s) : f[n] \in Inv[n]}
  <2>1. 0 \in S
    <3>1. f[0] = <<>>
      BY <1>4
    <3> HIDE DEF Inv
    <3> QED
      BY <1>1, <3>1
  <2>2. Ascends(S, 0, Len(s))
    <3> SUFFICES ASSUME NEW n \in 0 .. Len(s) - 1, n \in S PROVE n + 1 \in S
      BY DEF Ascends
    <3>1. f[n + 1] = more(f[n], n + 1)
      <4>1. n + 1 \in 0 .. Len(s) /\ n + 1 # 0 /\ (n + 1) - 1 = n
        OBVIOUS
      <4> QED
        BY <1>4, <4>1
    <3> HIDE DEF more, Inv
    <3> QED
      BY <1>2, <3>1
  <2> HIDE DEF S
  <2>3. \A n \in 0 .. Len(s) : n \in S
    <3>1. 0 \in Int /\ Len(s) \in Int /\ 0 <= Len(s)
      OBVIOUS
    <3> QED
      BY <2>1, <2>2, <3>1, AscendTo
  <2> QED
    BY <2>3 DEF S
<1>6. Range(s) = {s[i] : i \in 1 .. Len(s)}
  BY RangeIs
<1>7. f[Len(s)] \in Inv[Len(s)] /\ Len(s) \in 0 .. Len(s)
  <2> HIDE DEF Inv
  <2> QED
    BY <1>5
<1> QED
  BY <1>4, <1>6, <1>7

-----------------------------------------------------------------------------
(* Slots.                                                                  *)

\* A cell lies in the slot that the division gives.
LEMMA SlotNumbers ==
  ASSUME NEW x \in Nat
  PROVE  /\ x \div SlotSize \in Nat
         /\ (x \div SlotSize) * SlotSize <= x
         /\ x < (x \div SlotSize + 1) * SlotSize
         /\ x \div SlotSize <= x
  BY FlobAssumption

\* Cells further behind lie in the same slot or in a later one.
LEMMA SlotsAscend ==
  ASSUME NEW x \in Nat, NEW y \in Nat, x <= y
  PROVE  x \div SlotSize <= y \div SlotSize
  BY FlobAssumption

\* A cell lies in one slot only.
LEMMA SlotOfCell ==
  ASSUME NEW x \in Nat, NEW q \in Nat, q * SlotSize <= x, x < (q + 1) * SlotSize
  PROVE  q = x \div SlotSize
  BY FlobAssumption

\* The cells of a slot.
LEMMA SlotCellsAre ==
  ASSUME NEW slot \in Nat, NEW size \in Nat
  PROVE  SlotCells(slot, size) = {x \in Cells(size) : x \div SlotSize = slot}
<1>1. ASSUME NEW x \in Cells(size)
      PROVE  (slot * SlotSize <= x /\ x < (slot + 1) * SlotSize) <=> x \div SlotSize = slot
  <2>1. x \in Nat
    BY DEF Cells
  <2> QED
    BY <2>1, SlotNumbers, SlotOfCell
<1> QED
  BY <1>1 DEF SlotCells

\* They are finitely many, at most SlotSize.
LEMMA SlotCellsFinite ==
  ASSUME NEW slot \in Nat, NEW size \in Nat
  PROVE  /\ SlotCells(slot, size) \subseteq Cells(size)
         /\ SlotCells(slot, size) \subseteq Nat
         /\ IsFiniteSet(SlotCells(slot, size))
         /\ Cardinality(SlotCells(slot, size)) <= SlotSize
<1> DEFINE first == slot * SlotSize
<1>1. first \in Nat /\ (slot + 1) * SlotSize = first + SlotSize /\ SlotSize \in Nat
  BY FlobAssumption
<1>2. SlotCells(slot, size) \subseteq first .. first + SlotSize - 1
  <2> SUFFICES ASSUME NEW x \in SlotCells(slot, size)
               PROVE  x \in first .. first + SlotSize - 1
    OBVIOUS
  <2>1. x \in Nat /\ first <= x /\ x < first + SlotSize
    BY <1>1 DEF SlotCells, Cells
  <2> HIDE DEF first
  <2> QED
    BY <1>1, <2>1
<1>3. IsFiniteSet(first .. first + SlotSize - 1)
      /\ Cardinality(first .. first + SlotSize - 1) <= SlotSize
  <2> HIDE DEF first
  <2>1. first + SlotSize - 1 \in Int /\ first \in Int
    BY <1>1
  <2> QED
    BY <1>1, <2>1, FS_Interval, FlobAssumption
<1>4. IsFiniteSet(SlotCells(slot, size))
      /\ Cardinality(SlotCells(slot, size)) <= Cardinality(first .. first + SlotSize - 1)
  <2> HIDE DEF first
  <2> QED
    BY <1>2, <1>3, FS_Subset
<1>5. Cardinality(SlotCells(slot, size)) \in Nat
      /\ Cardinality(first .. first + SlotSize - 1) \in Nat
  BY <1>3, <1>4, FS_CardinalityType
<1>6. SlotCells(slot, size) \subseteq Cells(size) /\ Cells(size) \subseteq Nat
  BY DEF SlotCells, Cells
<1> HIDE DEF first
<1> QED
  BY <1>1, <1>3, <1>4, <1>5, <1>6

\* A slot before the last one is full, and the same for every larger size.
LEMMA FullSlot ==
  ASSUME NEW slot \in Nat, NEW size \in Nat, slot < size \div SlotSize,
         NEW larger \in Nat, size <= larger
  PROVE  /\ SlotCells(slot, larger) = SlotCells(slot, size)
         /\ SlotCells(slot, size) # {}
<1>1. ASSUME NEW x \in Nat, x \div SlotSize = slot PROVE x < size
  BY <1>1, SlotsAscend, SlotNumbers
<1>2. SlotCells(slot, larger) = SlotCells(slot, size)
  <2>1. \A x : x \in Cells(larger) /\ x \div SlotSize = slot
               <=> x \in Cells(size) /\ x \div SlotSize = slot
    BY <1>1 DEF Cells
  <2>2. SlotCells(slot, larger) = {x \in Cells(larger) : x \div SlotSize = slot}
    BY SlotCellsAre
  <2>3. SlotCells(slot, size) = {x \in Cells(size) : x \div SlotSize = slot}
    BY SlotCellsAre
  <2> QED
    BY <2>1, <2>2, <2>3
<1>3. slot * SlotSize \in Nat /\ (slot * SlotSize) \div SlotSize = slot
  <2>1. slot * SlotSize \in Nat /\ slot * SlotSize < (slot + 1) * SlotSize
    BY FlobAssumption
  <2> QED
    BY <2>1, SlotOfCell
<1>4. slot * SlotSize \in SlotCells(slot, size)
  BY <1>1, <1>3, SlotCellsAre DEF Cells
<1> QED
  BY <1>2, <1>4

\* No cell is behind the last slot.
LEMMA SlotWithin ==
  ASSUME NEW slot \in Nat, NEW size \in Nat, SlotCells(slot, size) # {}
  PROVE  /\ slot <= size \div SlotSize /\ slot <= (size - 1) \div SlotSize
         /\ slot < size /\ size > 0
<1>1. PICK x \in Cells(size) : x \div SlotSize = slot
  BY SlotCellsAre
<1>2. x \in Nat /\ x <= size - 1 /\ size - 1 \in Nat /\ x <= size
  BY DEF Cells
<1> QED
  BY <1>1, <1>2, SlotsAscend, SlotNumbers

-----------------------------------------------------------------------------
(* Occupied.                                                               *)

SlotsFinite(slotCache, keys) ==
  /\ IsFiniteSet(keys)
  /\ \A k \in keys : IsFiniteSet(DOMAIN slotCache[k].mem)

\* What finitely many entries occupy is a number.
LEMMA OccupiedFinite ==
  ASSUME NEW slotCache, NEW keys, SlotsFinite(slotCache, keys)
  PROVE  /\ IsFiniteSet(UNION {{k} \X DOMAIN slotCache[k].mem : k \in keys})
         /\ Occupied(slotCache, keys) \in Nat
<1> DEFINE parts == {{k} \X DOMAIN slotCache[k].mem : k \in keys}
<1>1. \A p \in parts : IsFiniteSet(p)
  <2> SUFFICES ASSUME NEW k \in keys PROVE IsFiniteSet({k} \X DOMAIN slotCache[k].mem)
    OBVIOUS
  <2> QED
    BY FS_Product, FS_Singleton DEF SlotsFinite
<1>2. IsFiniteSet(parts)
  <2> DEFINE part == [k \in keys |-> {k} \X DOMAIN slotCache[k].mem]
  <2>1. part \in Surjection(keys, parts)
    BY DEF Surjection
  <2> HIDE DEF part, parts
  <2> QED
    BY <2>1, FS_Surjection DEF SlotsFinite
<1>3. IsFiniteSet(UNION parts)
  <2> HIDE DEF parts
  <2> QED
    BY <1>1, <1>2, FS_UNION
<1> QED
  BY <1>3, FS_CardinalityType DEF Occupied

\* What two disjoint sets of entries occupy adds up.
LEMMA OccupiedParts ==
  ASSUME NEW slotCache, NEW K, NEW L, K \cap L = {},
         SlotsFinite(slotCache, K), SlotsFinite(slotCache, L)
  PROVE  /\ SlotsFinite(slotCache, K \cup L)
         /\ Occupied(slotCache, K \cup L) = Occupied(slotCache, K) + Occupied(slotCache, L)
<1> DEFINE cells(keys) == UNION {{k} \X DOMAIN slotCache[k].mem : k \in keys}
<1>1. cells(K \cup L) = cells(K) \cup cells(L)
  OBVIOUS
<1>2. cells(K) \cap cells(L) = {}
  OBVIOUS
<1>3. IsFiniteSet(cells(K)) /\ IsFiniteSet(cells(L))
  BY OccupiedFinite
<1>4. Cardinality(cells(K) \cup cells(L)) = Cardinality(cells(K)) + Cardinality(cells(L))
  <2> HIDE DEF cells
  <2>1. Cardinality(cells(K)) \in Nat /\ Cardinality(cells(L)) \in Nat
    BY <1>3, FS_CardinalityType
  <2>2. Cardinality(cells(K) \cap cells(L)) = 0
    BY <1>2, FS_EmptySet
  <2>3. Cardinality(cells(K) \cup cells(L))
        = Cardinality(cells(K)) + Cardinality(cells(L)) - Cardinality(cells(K) \cap cells(L))
    BY <1>3, FS_Union
  <2> QED
    BY <2>1, <2>2, <2>3
<1>5. SlotsFinite(slotCache, K \cup L)
  BY FS_Union DEF SlotsFinite
<1> QED
  BY <1>1, <1>4, <1>5 DEF Occupied

\* What one entry occupies.
LEMMA OccupiedOne ==
  ASSUME NEW slotCache, NEW k, IsFiniteSet(DOMAIN slotCache[k].mem)
  PROVE  /\ SlotsFinite(slotCache, {k})
         /\ Occupied(slotCache, {k}) = Cardinality(DOMAIN slotCache[k].mem)
<1>1. UNION {{l} \X DOMAIN slotCache[l].mem : l \in {k}} = {k} \X DOMAIN slotCache[k].mem
  OBVIOUS
<1>2. Cardinality({k} \X DOMAIN slotCache[k].mem) = Cardinality(DOMAIN slotCache[k].mem)
  <2> DEFINE mem == DOMAIN slotCache[k].mem
  <2>1. IsFiniteSet({k}) /\ Cardinality({k}) = 1
    BY FS_Singleton
  <2>2. IsFiniteSet(mem) /\ Cardinality(mem) \in Nat
    BY FS_CardinalityType
  <2> HIDE DEF mem
  <2>3. Cardinality({k} \X mem) = Cardinality({k}) * Cardinality(mem)
    BY <2>1, <2>2, FS_Product
  <2>4. Cardinality({k} \X mem) = Cardinality(mem)
    BY <2>1, <2>2, <2>3
  <2> QED
    BY <2>4 DEF mem
<1>3. SlotsFinite(slotCache, {k})
  BY FS_Singleton DEF SlotsFinite
<1> QED
  BY <1>1, <1>2, <1>3 DEF Occupied

\* Entries that are alike in two caches occupy the same.
LEMMA OccupiedSame ==
  ASSUME NEW slotCache, NEW other, NEW keys,
         \A k \in keys : DOMAIN slotCache[k].mem = DOMAIN other[k].mem
  PROVE  Occupied(slotCache, keys) = Occupied(other, keys)
<1>1. {{k} \X DOMAIN slotCache[k].mem : k \in keys} = {{k} \X DOMAIN other[k].mem : k \in keys}
  OBVIOUS
<1> QED
  BY <1>1 DEF Occupied

-----------------------------------------------------------------------------
(* The states of the manager.                                              *)

Memories == UNION {[D -> Cell] : D \in SUBSET Nat}
Arrays == UNION {[Cells(n) -> Cell] : n \in 0 .. MaxFlobSize}
Entries == [mem : Memories, changed : BOOLEAN]
KeyType == Nat \X Nat   \* a record and a slot of it
Caches == UNION {[K -> Entries] : K \in SUBSET KeyType}
Objects == [id : Nat, size : 0 .. MaxFlobSize, dataPointer : {NoBlock} \cup Arrays]
States ==
  [file : Seq(Arrays), cache : Caches, lru : Seq(KeyType), used : Int,
   buffer : Memories, destroyed : Seq(Nat), f : Objects]

\* Pieces of memory are functions from cells to contents.
LEMMA MemoriesAre ==
  ASSUME NEW m
  PROVE  m \in Memories <=> DOMAIN m \subseteq Nat /\ m \in [DOMAIN m -> Cell]
<1>1. ASSUME m \in Memories PROVE DOMAIN m \subseteq Nat /\ m \in [DOMAIN m -> Cell]
  <2>1. PICK D \in SUBSET Nat : m \in [D -> Cell]
    BY <1>1 DEF Memories
  <2> QED
    BY <2>1
<1>2. ASSUME DOMAIN m \subseteq Nat, m \in [DOMAIN m -> Cell] PROVE m \in Memories
  BY <1>2 DEF Memories
<1> QED
  BY <1>1, <1>2

\* Caches are functions from keys to entries.
LEMMA CachesAre ==
  ASSUME NEW m
  PROVE  m \in Caches <=> DOMAIN m \subseteq KeyType /\ m \in [DOMAIN m -> Entries]
<1>1. ASSUME m \in Caches
      PROVE  DOMAIN m \subseteq KeyType /\ m \in [DOMAIN m -> Entries]
  <2>1. PICK K \in SUBSET KeyType : m \in [K -> Entries]
    BY <1>1 DEF Caches
  <2> QED
    BY <2>1
<1>2. ASSUME DOMAIN m \subseteq KeyType, m \in [DOMAIN m -> Entries]
      PROVE  m \in Caches
  BY <1>2 DEF Caches
<1> QED
  BY <1>1, <1>2

\* A record of the file is a piece of memory, and not the null pointer.
LEMMA ArraysAre ==
  ASSUME NEW a \in Arrays
  PROVE  /\ a \in Memories /\ a # NoBlock
         /\ \E n \in 0 .. MaxFlobSize : IsArray(a, n) /\ DOMAIN a = Cells(n)
<1>1. PICK n \in 0 .. MaxFlobSize : a \in [Cells(n) -> Cell]
  BY DEF Arrays
<1>2. Cells(n) \subseteq Nat /\ DOMAIN a = Cells(n)
  BY <1>1 DEF Cells
<1>3. a # NoBlock
  BY <1>1, FlobAssumption DEF Cells, Cell
<1> QED
  BY <1>1, <1>2, <1>3, MemoriesAre DEF IsArray

\* The entries, their list and their size agree.
Listed(c) ==
  /\ c \in States
  /\ \A k \in DOMAIN c.cache : IsFiniteSet(DOMAIN c.cache[k].mem)
  /\ Distinct(c.lru)
  /\ Range(c.lru) = DOMAIN c.cache
  /\ c.used = Occupied(c.cache, DOMAIN c.cache)

\* What operations of the cache leave alone.
SameFlobs(c, d) ==
  /\ Len(d.file) = Len(c.file)
  /\ d.destroyed = c.destroyed
  /\ d.f = c.f

\* The entries of a cache with a list are finitely many, and what they occupy
\* splits into what any of them and what the others do.
LEMMA ListedFinite ==
  ASSUME NEW c, Listed(c), NEW K \in SUBSET DOMAIN c.cache
  PROVE  /\ SlotsFinite(c.cache, K)
         /\ Occupied(c.cache, K) \in Nat
         /\ Occupied(c.cache, DOMAIN c.cache)
              = Occupied(c.cache, K) + Occupied(c.cache, DOMAIN c.cache \ K)
         /\ Occupied(c.cache, DOMAIN c.cache \ K) \in Nat
<1>1. c.lru \in [1 .. Len(c.lru) -> KeyType] /\ Len(c.lru) \in Nat
  BY DEF Listed, States
<1>2. c.lru \in Surjection(1 .. Len(c.lru), Range(c.lru))
  BY <1>1 DEF Surjection, Range
<1>3. IsFiniteSet(DOMAIN c.cache)
  <2>1. IsFiniteSet(1 .. Len(c.lru))
    <3>1. 1 \in Int /\ Len(c.lru) \in Int
      BY <1>1
    <3> QED
      BY <3>1, FS_Interval
  <2> QED
    BY <1>2, <2>1, FS_Surjection DEF Listed
<1>4. \A L \in SUBSET DOMAIN c.cache : SlotsFinite(c.cache, L)
  BY <1>3, FS_Subset DEF SlotsFinite, Listed
<1>5. SlotsFinite(c.cache, K) /\ SlotsFinite(c.cache, DOMAIN c.cache \ K)
  BY <1>4
<1>6. K \cup (DOMAIN c.cache \ K) = DOMAIN c.cache /\ K \cap (DOMAIN c.cache \ K) = {}
  OBVIOUS
<1> QED
  BY <1>5, <1>6, OccupiedParts, OccupiedFinite

\* Entries are removed.
LEMMA RemoveListed ==
  ASSUME NEW c, Listed(c), NEW keys
  PROVE  LET d == RemoveEntries(c, keys)
         IN /\ Listed(d) /\ SameFlobs(c, d)
            /\ d.file = c.file /\ d.buffer = c.buffer
            /\ DOMAIN d.cache = DOMAIN c.cache \ keys
            /\ \A k \in DOMAIN d.cache : d.cache[k] = c.cache[k]
            /\ d.used <= c.used
<1> DEFINE found == keys \cap DOMAIN c.cache
           d == RemoveEntries(c, keys)
           kept == DOMAIN c.cache \ found
<1>1. CASE found = {}
  <2>1. d = c
    BY <1>1 DEF RemoveEntries
  <2>2. DOMAIN c.cache \ keys = DOMAIN c.cache /\ c.used <= c.used
    BY <1>1 DEF Listed, States
  <2> HIDE DEF d
  <2> QED
    BY <2>1, <2>2 DEF SameFlobs, d
<1>2. CASE found # {}
  <2>1. d = [c EXCEPT !.cache = Restrict(c.cache, kept), !.lru = Without(c.lru, found),
                      !.used = c.used - Occupied(c.cache, found)]
    BY <1>2 DEF RemoveEntries
  <2>2. c \in States
    BY DEF Listed
  <2>3. /\ d.cache = Restrict(c.cache, kept) /\ d.lru = Without(c.lru, found)
        /\ d.used = c.used - Occupied(c.cache, found)
        /\ d.file = c.file /\ d.buffer = c.buffer /\ d.destroyed = c.destroyed /\ d.f = c.f
    <3> HIDE DEF found, kept, d
    <3> QED
      BY <2>1, <2>2 DEF States
  <2>4. DOMAIN d.cache = kept /\ \A k \in kept : d.cache[k] = c.cache[k]
    <3> HIDE DEF kept, d
    <3> QED
      BY <2>3 DEF Restrict
  <2>5. c.cache \in Caches /\ c.lru \in Seq(KeyType)
    BY <2>2 DEF States
  <2>6. d.cache \in Caches
    <3>1. DOMAIN c.cache \subseteq KeyType /\ c.cache \in [DOMAIN c.cache -> Entries]
      BY <2>5, CachesAre
    <3>2. d.cache \in [kept -> Entries]
      <4> HIDE DEF d
      <4> QED
        BY <2>3, <3>1 DEF Restrict
    <3> HIDE DEF d
    <3> QED
      BY <2>4, <3>1, <3>2, CachesAre
  <2>7. /\ d.lru \in Seq(KeyType) /\ Range(d.lru) = DOMAIN c.cache \ found
        /\ Distinct(d.lru)
    <3> HIDE DEF d, found
    <3> QED
      BY <2>3, <2>5, WithoutProperties DEF Listed
  <2>8. /\ Occupied(c.cache, found) \in Nat
        /\ Occupied(c.cache, DOMAIN c.cache)
             = Occupied(c.cache, found) + Occupied(c.cache, kept)
        /\ Occupied(c.cache, kept) \in Nat
    BY ListedFinite
  <2>9. Occupied(d.cache, kept) = Occupied(c.cache, kept)
    <3> HIDE DEF d, kept
    <3> QED
      BY <2>4, OccupiedSame
  <2>10. d.used = Occupied(d.cache, DOMAIN d.cache) /\ d.used \in Int /\ d.used <= c.used
    <3> HIDE DEF d, kept, found
    <3> QED
      BY <2>3, <2>4, <2>8, <2>9 DEF Listed
  <2>11. d \in States
    <3>1. d = [file |-> c.file, cache |-> d.cache, lru |-> d.lru, used |-> d.used,
               buffer |-> c.buffer, destroyed |-> c.destroyed, f |-> c.f]
      <4> HIDE DEF found, kept
      <4> QED
        BY <2>1, <2>2 DEF States
    <3> HIDE DEF d
    <3> QED
      BY <2>2, <2>6, <2>7, <2>10, <3>1 DEF States
  <2>12. Listed(d)
    <3> HIDE DEF d
    <3> QED
      BY <2>4, <2>7, <2>10, <2>11 DEF Listed
  <2> HIDE DEF d
  <2> QED
    BY <2>3, <2>4, <2>10, <2>12 DEF SameFlobs, d
<1> QED
  BY <1>1, <1>2

\* A new element in front of a sequence without repetitions.
LEMMA PutFirst ==
  ASSUME NEW T, NEW s \in Seq(T), Distinct(s), NEW x \in T, x \notin Range(s)
  PROVE  LET list == <<x>> \o s
         IN /\ list \in Seq(T) /\ list # <<>> /\ list[1] = x
            /\ Range(list) = Range(s) \cup {x} /\ Distinct(list)
<1> DEFINE list == <<x>> \o s
<1>1. /\ list \in Seq(T) /\ Len(list) = Len(s) + 1 /\ Len(s) \in Nat
      /\ list[1] = x /\ \A i \in 1 .. Len(s) : list[i + 1] = s[i]
  OBVIOUS
<1> HIDE DEF list
<1>2. DOMAIN list = 1 .. Len(s) + 1 /\ DOMAIN s = 1 .. Len(s)
  BY <1>1
<1>3. \A i \in 2 .. Len(s) + 1 : i - 1 \in 1 .. Len(s) /\ list[i] = s[i - 1]
  <2> SUFFICES ASSUME NEW i \in 2 .. Len(s) + 1
               PROVE  i - 1 \in 1 .. Len(s) /\ list[i] = s[i - 1]
    OBVIOUS
  <2>1. i - 1 \in 1 .. Len(s) /\ (i - 1) + 1 = i
    BY <1>1
  <2> QED
    BY <1>1, <2>1
<1>4. \A i \in 1 .. Len(s) : i + 1 \in DOMAIN list /\ s[i] \in Range(s)
  BY <1>1, <1>2 DEF Range
<1>5. DOMAIN list = {1} \cup 2 .. Len(s) + 1
  BY <1>1, <1>2
<1>6. Range(list) = Range(s) \cup {x}
  <2>1. Range(list) \subseteq Range(s) \cup {x}
    <3> SUFFICES ASSUME NEW i \in DOMAIN list PROVE list[i] \in Range(s) \cup {x}
      BY DEF Range
    <3>1. CASE i = 1
      BY <1>1, <3>1
    <3>2. CASE i \in 2 .. Len(s) + 1
      BY <1>3, <1>4, <3>2
    <3> QED
      BY <1>5, <3>1, <3>2
  <2>2. Range(s) \subseteq Range(list)
    <3> SUFFICES ASSUME NEW k \in Range(s) PROVE k \in Range(list)
      OBVIOUS
    <3>1. PICK i \in 1 .. Len(s) : s[i] = k
      BY <1>2 DEF Range
    <3> QED
      BY <1>1, <1>4, <3>1 DEF Range
  <2>3. x \in Range(list)
    BY <1>1, <1>5 DEF Range
  <2> QED
    BY <2>1, <2>2, <2>3
<1>7. Distinct(list)
  <2> SUFFICES ASSUME NEW i \in DOMAIN list, NEW j \in DOMAIN list, list[i] = list[j]
               PROVE  i = j
    BY DEF Distinct
  <2>1. CASE i = 1 /\ j = 1
    BY <2>1
  <2>2. CASE (i = 1) # (j = 1)
    <3>1. \A n \in 2 .. Len(s) + 1 : list[n] # x
      BY <1>3, <1>4
    <3> QED
      BY <1>1, <1>5, <2>2, <3>1
  <2>3. CASE i # 1 /\ j # 1
    <3>1. i \in 2 .. Len(s) + 1 /\ j \in 2 .. Len(s) + 1
      BY <1>5, <2>3
    <3>2. s[i - 1] = s[j - 1] /\ i - 1 \in DOMAIN s /\ j - 1 \in DOMAIN s
      BY <1>2, <1>3, <3>1
    <3>3. i - 1 = j - 1
      BY <3>2 DEF Distinct
    <3> QED
      BY <3>1, <3>3
  <2> QED
    BY <2>1, <2>2, <2>3
<1>8. list # <<>>
  BY <1>1
<1> QED
  BY <1>1, <1>6, <1>7, <1>8 DEF list

\* The field of the entries changes, and with it those that depend on it.
With(c, slotCache, list, used) == [c EXCEPT !.cache = slotCache, !.lru = list, !.used = used]

\* The fields of the cache change.
LEMMA NewState ==
  ASSUME NEW c \in States, NEW slotCache \in Caches, NEW list \in Seq(KeyType),
         NEW used \in Int
  PROVE  LET d == With(c, slotCache, list, used)
         IN /\ d \in States /\ SameFlobs(c, d)
            /\ d.cache = slotCache /\ d.lru = list /\ d.used = used
            /\ d.file = c.file /\ d.buffer = c.buffer
<1> DEFINE d == With(c, slotCache, list, used)
<1>1. d = [file |-> c.file, cache |-> slotCache, lru |-> list, used |-> used,
           buffer |-> c.buffer, destroyed |-> c.destroyed, f |-> c.f]
  <2>1. /\ DOMAIN d = DOMAIN c /\ d = [x \in DOMAIN d |-> d[x]]
        /\ d.cache = slotCache /\ d.lru = list /\ d.used = used /\ d.file = c.file
        /\ d.buffer = c.buffer /\ d.destroyed = c.destroyed /\ d.f = c.f
    BY DEF With, States
  <2>2. DOMAIN c = {"file", "cache", "lru", "used", "buffer", "destroyed", "f"}
    BY DEF States
  <2> HIDE DEF d
  <2> QED
    BY <2>1, <2>2
<1> HIDE DEF d
<1>2. d \in States
  BY <1>1 DEF States
<1> QED
  BY <1>1, <1>2 DEF SameFlobs, d

\* A new entry is put in front of the list.
LEMMA PutAtFrontListed ==
  ASSUME NEW c, Listed(c), NEW key \in KeyType, key \notin DOMAIN c.cache,
         NEW entry \in Entries, IsFiniteSet(DOMAIN entry.mem)
  PROVE  LET d == putAtFront(c, key, entry)
         IN /\ Listed(d) /\ SameFlobs(c, d)
            /\ d.file = c.file /\ d.buffer = c.buffer
            /\ DOMAIN d.cache = DOMAIN c.cache \cup {key}
            /\ d.cache[key] = entry
            /\ \A k \in DOMAIN c.cache : d.cache[k] = c.cache[k]
            /\ d.lru # <<>> /\ d.lru[1] = key
            /\ d.used = c.used + Cardinality(DOMAIN entry.mem)
<1> DEFINE slotCache == Overwritten(c.cache, [k \in {key} |-> entry])
           list == <<key>> \o c.lru
           used == c.used + Cardinality(DOMAIN entry.mem)
           d == putAtFront(c, key, entry)
<1>1. c \in States /\ c.cache \in Caches /\ c.lru \in Seq(KeyType) /\ c.used \in Int
  BY DEF Listed, States
<1>2. d = With(c, slotCache, list, used)
  BY DEF putAtFront, With
<1>3. /\ DOMAIN slotCache = DOMAIN c.cache \cup {key} /\ slotCache[key] = entry
      /\ \A k \in DOMAIN c.cache : slotCache[k] = c.cache[k]
  BY DEF Overwritten
<1>4. slotCache \in Caches
  <2>1. DOMAIN c.cache \subseteq KeyType /\ c.cache \in [DOMAIN c.cache -> Entries]
    BY <1>1, CachesAre
  <2>2. slotCache \in [DOMAIN slotCache -> Entries]
    <3>1. \A k \in DOMAIN slotCache : slotCache[k] \in Entries
      <4> HIDE DEF slotCache
      <4> QED
        BY <1>3, <2>1
    <3>2. slotCache = [k \in DOMAIN slotCache |-> slotCache[k]]
      BY DEF Overwritten
    <3> HIDE DEF slotCache
    <3> QED
      BY <3>1, <3>2
  <2> HIDE DEF slotCache
  <2> QED
    BY <1>3, <2>1, <2>2, CachesAre
<1>5. /\ list \in Seq(KeyType) /\ list # <<>> /\ list[1] = key
      /\ Range(list) = DOMAIN c.cache \cup {key} /\ Distinct(list)
  <2>1. key \notin Range(c.lru)
    BY DEF Listed
  <2> HIDE DEF list
  <2> QED
    BY <1>1, <2>1, PutFirst DEF Listed, list
<1>6. used = Occupied(slotCache, DOMAIN slotCache) /\ used \in Int
  <2>1. SlotsFinite(c.cache, DOMAIN c.cache) /\ Occupied(c.cache, DOMAIN c.cache) \in Nat
    BY ListedFinite
  <2>2. Occupied(slotCache, DOMAIN c.cache) = Occupied(c.cache, DOMAIN c.cache)
        /\ SlotsFinite(slotCache, DOMAIN c.cache)
    <3> HIDE DEF slotCache
    <3> QED
      BY <1>3, <2>1, OccupiedSame DEF SlotsFinite
  <2>3. SlotsFinite(slotCache, {key}) /\ Occupied(slotCache, {key}) = Cardinality(DOMAIN entry.mem)
    <3> HIDE DEF slotCache
    <3> QED
      BY <1>3, OccupiedOne
  <2>4. Occupied(slotCache, DOMAIN c.cache \cup {key})
        = Occupied(slotCache, DOMAIN c.cache) + Occupied(slotCache, {key})
    <3> HIDE DEF slotCache
    <3> QED
      BY <2>2, <2>3, OccupiedParts
  <2>5. Cardinality(DOMAIN entry.mem) \in Nat
    BY FS_CardinalityType
  <2> HIDE DEF slotCache
  <2> QED
    BY <1>1, <1>3, <2>1, <2>2, <2>3, <2>4, <2>5 DEF Listed
<1>7. /\ d \in States /\ SameFlobs(c, d)
      /\ d.cache = slotCache /\ d.lru = list /\ d.used = used
      /\ d.file = c.file /\ d.buffer = c.buffer
  <2> HIDE DEF slotCache, list, used, d
  <2>1. list \in Seq(KeyType) /\ used \in Int
    BY <1>5, <1>6
  <2>2. c \in States /\ slotCache \in Caches
    BY <1>1, <1>4
  <2>3. d = With(c, slotCache, list, used)
    BY <1>2
  <2>4. With(c, slotCache, list, used) \in States
    BY <2>1, <2>2, NewState
  <2>5. SameFlobs(c, With(c, slotCache, list, used))
    BY <2>1, <2>2, NewState
  <2> QED
    BY <2>1, <2>2, <2>3, NewState
<1>8. Listed(d)
  <2>1. \A k \in DOMAIN slotCache : IsFiniteSet(DOMAIN slotCache[k].mem)
    <3> HIDE DEF slotCache
    <3> QED
      BY <1>3 DEF Listed
  <2> HIDE DEF slotCache, list, used, d
  <2> QED
    BY <1>3, <1>5, <1>6, <1>7, <2>1 DEF Listed
<1> HIDE DEF slotCache, list, d
<1> QED
  BY <1>3, <1>5, <1>7, <1>8 DEF d

\* An entry moves to the front of the list.
LEMMA BringToFrontListed ==
  ASSUME NEW c, Listed(c), NEW key \in DOMAIN c.cache
  PROVE  LET d == bringToFront(c, key)
         IN /\ Listed(d) /\ SameFlobs(c, d)
            /\ d.file = c.file /\ d.cache = c.cache /\ d.buffer = c.buffer
            /\ d.used = c.used
<1> DEFINE rest == Without(c.lru, {key})
           list == <<key>> \o rest
           d == bringToFront(c, key)
<1>1. /\ c \in States /\ c.cache \in Caches /\ c.lru \in Seq(KeyType) /\ c.used \in Int
      /\ key \in KeyType
  BY CachesAre DEF Listed, States
<1>2. d = With(c, c.cache, list, c.used)
  BY <1>1 DEF bringToFront, States, With
<1>3. /\ rest \in Seq(KeyType) /\ Range(rest) = DOMAIN c.cache \ {key}
      /\ Distinct(rest)
  BY <1>1, WithoutProperties DEF Listed
<1> HIDE DEF rest
<1>4. list \in Seq(KeyType) /\ Range(list) = DOMAIN c.cache /\ Distinct(list)
  <2>1. key \notin Range(rest) /\ Range(rest) \cup {key} = DOMAIN c.cache
    BY <1>3
  <2>2. /\ list \in Seq(KeyType) /\ Range(list) = Range(rest) \cup {key}
        /\ Distinct(list)
    BY <1>1, <1>3, <2>1, PutFirst
  <2> HIDE DEF list
  <2> QED
    BY <2>1, <2>2
<1>5. /\ d \in States /\ SameFlobs(c, d)
      /\ d.cache = c.cache /\ d.lru = list /\ d.used = c.used
      /\ d.file = c.file /\ d.buffer = c.buffer
  <2> HIDE DEF list, d
  <2> QED
    BY <1>1, <1>2, <1>4, NewState
<1>6. Listed(d)
  <2> HIDE DEF list, d
  <2> QED
    BY <1>4, <1>5 DEF Listed
<1> HIDE DEF list, d
<1> QED
  BY <1>5, <1>6 DEF d

-----------------------------------------------------------------------------
(* What the cache and the file store: for each record that belongs to a    *)
(* Flob its size, and the cells of it that were written, with their        *)
(* contents.                                                               *)

OnDisk(file, id, x) == IF x \in DOMAIN file[id] THEN file[id][x] ELSE Garbage
SlotOf(id, x) == <<id, x \div SlotSize>>

SizesOK(c, size, data) ==
  /\ DOMAIN size \subseteq 1 .. Len(c.file)
  /\ DOMAIN data = DOMAIN size
  /\ \A id \in DOMAIN size : size[id] \in 0 .. MaxFlobSize
                             /\ DOMAIN data[id] \subseteq Cells(size[id])

Fits(slotCache, size) ==
  \A k \in DOMAIN slotCache :
    /\ k[1] \in DOMAIN size
    /\ DOMAIN slotCache[k].mem = SlotCells(k[2], size[k[1]])
    /\ DOMAIN slotCache[k].mem # {}

\* An entry that is not marked, or that is not there, is not needed.
Holds(c, data) ==
  \A id \in DOMAIN data : \A x \in DOMAIN data[id] :
    LET k == SlotOf(id, x)
    IN /\ k \in DOMAIN c.cache => c.cache[k].mem[x] = data[id][x]
       /\ (k \in DOMAIN c.cache => ~ c.cache[k].changed) =>
            OnDisk(c.file, id, x) = data[id][x]

Stored(c, size, data) ==
  Listed(c) /\ SizesOK(c, size, data) /\ Fits(c.cache, size) /\ Holds(c, data)

\* An entry belongs to a record of a Flob and to the slot of its cells, and it
\* fits into the cache.
LEMMA KeysOf ==
  ASSUME NEW c, NEW size, NEW data, Stored(c, size, data), NEW k \in DOMAIN c.cache
  PROVE  /\ k[1] \in DOMAIN size /\ k[1] \in 1 .. Len(c.file) /\ k[2] \in Nat
         /\ k = <<k[1], k[2]>> /\ size[k[1]] \in 0 .. MaxFlobSize
         /\ c.cache[k] \in Entries /\ c.cache[k].mem \in Memories
         /\ \A x \in DOMAIN c.cache[k].mem :
              /\ x \in Nat /\ x < MaxFlobSize /\ k = SlotOf(k[1], x)
              /\ c.cache[k].mem[x] \in Cell
         /\ DOMAIN c.cache[k].mem # {}
         /\ IsFiniteSet(DOMAIN c.cache[k].mem)
         /\ Cardinality(DOMAIN c.cache[k].mem) \in Nat
         /\ Cardinality(DOMAIN c.cache[k].mem) < CacheSize
<1>1. DOMAIN c.cache \subseteq KeyType /\ c.cache \in [DOMAIN c.cache -> Entries]
  BY CachesAre DEF Stored, Listed, States
<1>2. k \in Nat \X Nat /\ c.cache[k] \in Entries
  BY <1>1 DEF KeyType
<1>3. k[2] \in Nat /\ k = <<k[1], k[2]>>
  BY <1>2
<1>4. /\ k[1] \in DOMAIN size /\ DOMAIN c.cache[k].mem = SlotCells(k[2], size[k[1]])
      /\ DOMAIN c.cache[k].mem # {}
  BY DEF Stored, Fits
<1>5. k[1] \in 1 .. Len(c.file) /\ size[k[1]] \in 0 .. MaxFlobSize /\ MaxFlobSize \in Nat
  BY <1>4, FlobAssumption DEF Stored, SizesOK
<1>6. c.cache[k].mem \in Memories
  BY <1>2 DEF Entries
<1>7. \A x \in DOMAIN c.cache[k].mem :
        /\ x \in Nat /\ x < MaxFlobSize /\ k = SlotOf(k[1], x)
        /\ c.cache[k].mem[x] \in Cell
  <2> SUFFICES ASSUME NEW x \in DOMAIN c.cache[k].mem
               PROVE  /\ x \in Nat /\ x < MaxFlobSize /\ k = SlotOf(k[1], x)
                      /\ c.cache[k].mem[x] \in Cell
    OBVIOUS
  <2>1. SlotCells(k[2], size[k[1]])
          = {y \in Cells(size[k[1]]) : y \div SlotSize = k[2]}
    BY <1>3, <1>5, SlotCellsAre
  <2>2. x \in Cells(size[k[1]]) /\ x \div SlotSize = k[2]
    BY <1>4, <2>1
  <2>3. x \in Nat /\ x < MaxFlobSize
    BY <1>5, <2>2 DEF Cells
  <2>4. c.cache[k].mem[x] \in Cell
    BY <1>6, MemoriesAre
  <2> QED
    BY <1>3, <2>2, <2>3, <2>4 DEF SlotOf
<1>8. size[k[1]] \in Nat
  BY <1>5
<1>9. /\ IsFiniteSet(SlotCells(k[2], size[k[1]]))
      /\ Cardinality(SlotCells(k[2], size[k[1]])) <= SlotSize
  BY <1>3, <1>8, SlotCellsFinite
<1>10. Cardinality(SlotCells(k[2], size[k[1]])) \in Nat
  BY <1>9, FS_CardinalityType
<1> QED
  BY <1>2, <1>3, <1>4, <1>5, <1>6, <1>7, <1>9, <1>10, FlobAssumption

\* The file after entries were saved.
LEMMA SavedFile ==
  ASSUME NEW c, NEW size, NEW data, Stored(c, size, data), NEW keys \in SUBSET DOMAIN c.cache
  PROVE  /\ Saved(c, keys) \in Seq(Arrays) /\ Len(Saved(c, keys)) = Len(c.file)
         /\ \A k \in keys : \A x \in DOMAIN c.cache[k].mem :
              c.cache[k].changed => OnDisk(Saved(c, keys), k[1], x) = c.cache[k].mem[x]
         /\ \A id \in 1 .. Len(c.file), x \in Nat :
              ~ (SlotOf(id, x) \in keys /\ c.cache[SlotOf(id, x)].changed)
                => OnDisk(Saved(c, keys), id, x) = OnDisk(c.file, id, x)
<1> DEFINE file == Saved(c, keys)
           dirty(r) == {k \in keys : k[1] = r /\ c.cache[k].changed}
           saved(r) == UNION {DOMAIN c.cache[k].mem : k \in dirty(r)}
           cells(r) == {x \in Cells(MaxFlobSize) :
                          \E y \in saved(r) \cup DOMAIN c.file[r] : x <= y}
<1>1. c.file \in Seq(Arrays) /\ Len(c.file) \in Nat /\ DOMAIN c.file = 1 .. Len(c.file)
  BY DEF Stored, Listed, States
<1>2. DOMAIN file = 1 .. Len(c.file) /\ file = [r \in 1 .. Len(c.file) |-> file[r]]
  BY <1>1 DEF Saved
<1>3. ASSUME NEW r \in 1 .. Len(c.file)
      PROVE  /\ DOMAIN file[r] = cells(r) /\ file[r] = [x \in cells(r) |-> file[r][x]]
             /\ \A x \in cells(r) :
                  file[r][x] = CASE x \in saved(r) -> c.cache[<<r, x \div SlotSize>>].mem[x]
                                 [] x \in DOMAIN c.file[r] \ saved(r) -> c.file[r][x]
                                 [] OTHER -> Garbage
  BY <1>1 DEF Saved
<1>4. ASSUME NEW r \in 1 .. Len(c.file), NEW x \in saved(r)
      PROVE  /\ <<r, x \div SlotSize>> \in keys /\ x \in Nat /\ x < MaxFlobSize
             /\ c.cache[<<r, x \div SlotSize>>].changed
             /\ c.cache[<<r, x \div SlotSize>>].mem[x] \in Cell
  <2>1. PICK k \in dirty(r) : x \in DOMAIN c.cache[k].mem
    OBVIOUS
  <2>2. k \in keys /\ k[1] = r /\ c.cache[k].changed /\ k \in DOMAIN c.cache
    BY <2>1
  <2>3. k = <<r, x \div SlotSize>> /\ x \in Nat /\ x < MaxFlobSize
        /\ c.cache[k].mem[x] \in Cell
    BY <2>1, <2>2, KeysOf DEF SlotOf
  <2> QED
    BY <2>2, <2>3
<1>5. ASSUME NEW r \in 1 .. Len(c.file)
      PROVE  /\ c.file[r] \in Memories /\ DOMAIN c.file[r] \subseteq Cells(MaxFlobSize)
             /\ \A x \in DOMAIN c.file[r] : c.file[r][x] \in Cell
  <2>1. c.file[r] \in Arrays
    BY <1>1
  <2>2. PICK n \in 0 .. MaxFlobSize : DOMAIN c.file[r] = Cells(n)
    BY <2>1, ArraysAre
  <2>3. Cells(n) \subseteq Cells(MaxFlobSize)
    BY FlobAssumption DEF Cells
  <2>4. c.file[r] \in Memories
    BY <2>1, ArraysAre
  <2> QED
    BY <2>2, <2>3, <2>4, MemoriesAre
<1>6. ASSUME NEW r \in 1 .. Len(c.file)
      PROVE  /\ saved(r) \subseteq cells(r) /\ DOMAIN c.file[r] \subseteq cells(r)
  <2>1. saved(r) \subseteq Cells(MaxFlobSize)
    <3> HIDE DEF saved
    <3>1. \A x \in saved(r) : x \in Nat /\ x < MaxFlobSize
      BY <1>4
    <3> QED
      BY <3>1, FlobAssumption DEF Cells
  <2>2. DOMAIN c.file[r] \subseteq Cells(MaxFlobSize)
    BY <1>5
  <2>3. \A x \in Cells(MaxFlobSize) : x <= x
    BY DEF Cells
  <2> HIDE DEF saved
  <2> QED
    BY <2>1, <2>2, <2>3
<1>7. ASSUME NEW r \in 1 .. Len(c.file) PROVE file[r] \in Arrays
  <2>1. \A x \in cells(r) : file[r][x] \in Cell
    <3> SUFFICES ASSUME NEW x \in cells(r) PROVE file[r][x] \in Cell
      OBVIOUS
    <3>1. Garbage \in Cell
      BY DEF Cell
    <3> HIDE DEF saved, cells, file
    <3>2. CASE x \in saved(r)
      BY <1>3, <1>4, <3>2
    <3>3. CASE x \notin saved(r)
      BY <1>3, <1>5, <3>1, <3>3
    <3> QED
      BY <3>2, <3>3
  <2>2. \E n \in 0 .. MaxFlobSize : cells(r) = Cells(n)
    <3> DEFINE above == {n \in Nat : \A x \in cells(r) : x < n}
    <3>1. cells(r) \subseteq 0 .. MaxFlobSize - 1 /\ MaxFlobSize \in Nat
      BY FlobAssumption DEF Cells
    <3>2. \A x, y \in Nat : x <= y /\ y \in cells(r) => x \in cells(r)
      <4> SUFFICES ASSUME NEW x \in Nat, NEW y \in Nat, x <= y, y \in cells(r)
                   PROVE  x \in cells(r)
        OBVIOUS
      <4>1. PICK z \in saved(r) \cup DOMAIN c.file[r] : y <= z
        OBVIOUS
      <4>2. z \in Int
        <5>1. z \in cells(r)
          <6> HIDE DEF saved, cells
          <6> QED
            BY <1>6, <4>1
        <5> HIDE DEF cells
        <5> QED
          BY <3>1, <5>1
      <4>3. x <= z
        BY <4>1, <4>2
      <4>4. x \in Cells(MaxFlobSize)
        <5> HIDE DEF cells
        <5> QED
          BY <3>1 DEF Cells
      <4> HIDE DEF saved
      <4> QED
        BY <4>1, <4>3, <4>4
    <3> HIDE DEF cells
    <3>3. MaxFlobSize \in above
      BY <3>1
    <3>4. PICK n \in above : \A m \in above : n <= m
      <4>1. above \in SUBSET Nat /\ above # {}
        BY <3>3
      <4> HIDE DEF above
      <4> QED
        BY <4>1, LeastOf
    <3>5. n \in 0 .. MaxFlobSize
      BY <3>1, <3>3, <3>4
    <3>6. ASSUME NEW x \in Cells(n) PROVE x \in cells(r)
      <4>1. x \in Nat /\ x < n
        BY <3>5 DEF Cells
      <4>2. x \notin above
        BY <3>4, <4>1
      <4>3. PICK y \in cells(r) : ~ (y < x)
        BY <4>1, <4>2
      <4>4. y \in Nat /\ x <= y
        BY <3>1, <4>1, <4>3
      <4> QED
        BY <3>2, <4>1, <4>3, <4>4
    <3>7. ASSUME NEW x \in cells(r) PROVE x \in Cells(n)
      BY <3>1, <3>4 DEF Cells
    <3>8. cells(r) = Cells(n)
      BY <3>6, <3>7
    <3> QED
      BY <3>5, <3>8
  <2>3. PICK n \in 0 .. MaxFlobSize : cells(r) = Cells(n)
    BY <2>2
  <2>4. file[r] \in [Cells(n) -> Cell]
    <3> HIDE DEF cells, saved, file
    <3> QED
      BY <1>3, <2>1, <2>3
  <2> HIDE DEF file
  <2> QED
    BY <2>4 DEF Arrays
<1>8. file \in Seq(Arrays) /\ Len(file) = Len(c.file)
  <2> HIDE DEF file
  <2> QED
    BY <1>1, <1>2, <1>7, IsASeq
<1>9. ASSUME NEW k \in keys, NEW x \in DOMAIN c.cache[k].mem, c.cache[k].changed
      PROVE  OnDisk(file, k[1], x) = c.cache[k].mem[x]
  <2>1. k[1] \in 1 .. Len(c.file) /\ k = <<k[1], x \div SlotSize>>
    BY KeysOf DEF SlotOf
  <2>2. x \in saved(k[1])
    BY <1>9
  <2>3. x \in cells(k[1])
    <3> HIDE DEF saved, cells
    <3> QED
      BY <1>6, <2>1, <2>2
  <2> HIDE DEF saved, cells, file
  <2> QED
    BY <1>3, <2>1, <2>2, <2>3 DEF OnDisk
<1>10. ASSUME NEW id \in 1 .. Len(c.file), NEW x \in Nat,
              ~ (SlotOf(id, x) \in keys /\ c.cache[SlotOf(id, x)].changed)
       PROVE  OnDisk(file, id, x) = OnDisk(c.file, id, x)
  <2>1. x \notin saved(id)
    <3> HIDE DEF saved
    <3> QED
      BY <1>4, <1>10 DEF SlotOf
  <2> HIDE DEF saved, cells, file
  <2>2. CASE x \in DOMAIN c.file[id]
    BY <1>3, <1>6, <2>1, <2>2 DEF OnDisk
  <2>3. CASE x \notin DOMAIN c.file[id]
    BY <1>3, <2>1, <2>3 DEF OnDisk
  <2> QED
    BY <2>2, <2>3
<1> HIDE DEF file
<1> QED
  BY <1>8, <1>9, <1>10 DEF file

-----------------------------------------------------------------------------
(* Eviction.                                                               *)

WithFile(c, file) == [c EXCEPT !.file = file]

\* Another file with as many records; the entries and their list stay.
LEMMA NewFile ==
  ASSUME NEW c, Listed(c), NEW file \in Seq(Arrays), Len(file) = Len(c.file)
  PROVE  LET d == WithFile(c, file)
         IN /\ Listed(d) /\ SameFlobs(c, d)
            /\ d.file = file /\ d.cache = c.cache /\ d.lru = c.lru /\ d.used = c.used
            /\ d.buffer = c.buffer
<1> DEFINE d == WithFile(c, file)
<1>1. c \in States
  BY DEF Listed
<1>2. d = [file |-> file, cache |-> c.cache, lru |-> c.lru, used |-> c.used,
           buffer |-> c.buffer, destroyed |-> c.destroyed, f |-> c.f]
  <2>1. /\ DOMAIN d = DOMAIN c /\ d = [x \in DOMAIN d |-> d[x]]
        /\ d.cache = c.cache /\ d.lru = c.lru /\ d.used = c.used /\ d.file = file
        /\ d.buffer = c.buffer /\ d.destroyed = c.destroyed /\ d.f = c.f
    BY <1>1 DEF WithFile, States
  <2>2. DOMAIN c = {"file", "cache", "lru", "used", "buffer", "destroyed", "f"}
    BY <1>1 DEF States
  <2> HIDE DEF d
  <2> QED
    BY <2>1, <2>2
<1> HIDE DEF d
<1>3. d \in States
  BY <1>1, <1>2 DEF States
<1> QED
  BY <1>2, <1>3 DEF Listed, SameFlobs, d

\* Entries that were saved are removed.
LEMMA EvictStored ==
  ASSUME NEW c, NEW size, NEW data, Stored(c, size, data), NEW keys \in SUBSET DOMAIN c.cache
  PROVE  LET d == RemoveEntries(WithFile(c, Saved(c, keys)), keys)
         IN /\ Stored(d, size, data) /\ SameFlobs(c, d)
            /\ d.buffer = c.buffer
            /\ DOMAIN d.cache = DOMAIN c.cache \ keys
            /\ \A k \in DOMAIN d.cache : d.cache[k] = c.cache[k]
<1> DEFINE file == Saved(c, keys)
           e == WithFile(c, file)
           d == RemoveEntries(e, keys)
<1>1. Listed(c) /\ SizesOK(c, size, data) /\ Fits(c.cache, size) /\ Holds(c, data)
  BY DEF Stored
<1>2. /\ file \in Seq(Arrays) /\ Len(file) = Len(c.file)
      /\ \A k \in keys : \A x \in DOMAIN c.cache[k].mem :
           c.cache[k].changed => OnDisk(file, k[1], x) = c.cache[k].mem[x]
      /\ \A id \in 1 .. Len(c.file), x \in Nat :
           ~ (SlotOf(id, x) \in keys /\ c.cache[SlotOf(id, x)].changed)
             => OnDisk(file, id, x) = OnDisk(c.file, id, x)
  BY SavedFile
<1> HIDE DEF file
<1>3. /\ Listed(e) /\ SameFlobs(c, e) /\ e.file = file /\ e.cache = c.cache
      /\ e.buffer = c.buffer
  BY <1>1, <1>2, NewFile
<1> HIDE DEF e
<1>4. /\ Listed(d) /\ SameFlobs(e, d) /\ d.file = e.file /\ d.buffer = e.buffer
      /\ DOMAIN d.cache = DOMAIN e.cache \ keys
      /\ \A k \in DOMAIN d.cache : d.cache[k] = e.cache[k]
  BY <1>3, RemoveListed
<1> HIDE DEF d
<1>5. SameFlobs(c, d)
  BY <1>3, <1>4 DEF SameFlobs
<1>6. SizesOK(d, size, data)
  BY <1>1, <1>5 DEF SizesOK, SameFlobs
<1>7. Fits(d.cache, size)
  BY <1>1, <1>3, <1>4 DEF Fits
<1>8. Holds(d, data)
  <2> SUFFICES ASSUME NEW id \in DOMAIN data, NEW x \in DOMAIN data[id]
               PROVE  LET k == SlotOf(id, x)
                      IN /\ k \in DOMAIN d.cache => d.cache[k].mem[x] = data[id][x]
                         /\ (k \in DOMAIN d.cache => ~ d.cache[k].changed) =>
                              OnDisk(d.file, id, x) = data[id][x]
    BY DEF Holds
  <2> DEFINE k == SlotOf(id, x)
  <2>1. /\ k \in DOMAIN c.cache => c.cache[k].mem[x] = data[id][x]
        /\ (k \in DOMAIN c.cache => ~ c.cache[k].changed) =>
             OnDisk(c.file, id, x) = data[id][x]
    BY <1>1 DEF Holds
  <2>2. id \in 1 .. Len(c.file) /\ id \in DOMAIN size /\ size[id] \in Nat /\ x \in Cells(size[id])
    BY <1>1 DEF SizesOK
  <2>3. x \in Nat
    BY <2>2 DEF Cells
  <2>4. k[1] = id /\ k[2] = x \div SlotSize
    BY DEF SlotOf
  <2>5. ASSUME k \in keys, c.cache[k].changed
        PROVE  OnDisk(file, id, x) = data[id][x]
    <3>1. x \in DOMAIN c.cache[k].mem
      <4>1. DOMAIN c.cache[k].mem = SlotCells(x \div SlotSize, size[id])
        BY <1>1, <2>4, <2>5 DEF Fits
      <4>2. x \div SlotSize \in Nat
        BY <2>3, SlotNumbers
      <4> QED
        BY <2>2, <4>1, <4>2, SlotCellsAre
    <3> HIDE DEF k
    <3> QED
      BY <1>2, <2>1, <2>4, <2>5, <3>1
  <2>6. ASSUME ~ (k \in keys /\ c.cache[k].changed)
        PROVE  OnDisk(file, id, x) = OnDisk(c.file, id, x)
    BY <1>2, <2>2, <2>3, <2>6
  <2> HIDE DEF k
  <2>7. k \in DOMAIN d.cache => d.cache[k].mem[x] = data[id][x]
    BY <1>3, <1>4, <2>1
  <2>8. ASSUME k \in DOMAIN d.cache => ~ d.cache[k].changed
        PROVE  OnDisk(d.file, id, x) = data[id][x]
    <3>1. CASE k \in keys /\ c.cache[k].changed
      BY <1>3, <1>4, <2>5, <3>1
    <3>2. CASE ~ (k \in keys /\ c.cache[k].changed)
      BY <1>3, <1>4, <2>1, <2>6, <2>8, <3>2
    <3> QED
      BY <3>1, <3>2
  <2> QED
    BY <2>7, <2>8 DEF k
<1> QED
  BY <1>3, <1>4, <1>5, <1>6, <1>7, <1>8 DEF Stored, d, e, file

\* reduce loses nothing, and brings the cache within its limit.
LEMMA ReduceStored ==
  ASSUME NEW c, NEW size, NEW data, Stored(c, size, data)
  PROVE  LET d == reduce(c)
         IN /\ Stored(d, size, data) /\ SameFlobs(c, d)
            /\ d.buffer = c.buffer
            /\ DOMAIN d.cache \subseteq DOMAIN c.cache
            /\ \A k \in DOMAIN d.cache : d.cache[k] = c.cache[k]
            /\ d.used <= CacheSize
            /\ c.lru # <<>> => c.lru[1] \in DOMAIN d.cache
<1> DEFINE d == reduce(c)
           length == Len(c.lru)
           Newest(n) == {c.lru[i] : i \in 1 .. n}
           Enough == {n \in 0 .. length : Occupied(c.cache, Newest(n)) <= CacheSize}
           IsKept(n) == /\ n \in 0 .. length
                        /\ Occupied(c.cache, Newest(n)) <= CacheSize
                        /\ n < length => Occupied(c.cache, Newest(n + 1)) > CacheSize
           kept == CHOOSE n : IsKept(n)
           evicted == {c.lru[i] : i \in kept + 1 .. length}
<1>0. /\ Listed(c) /\ c \in States /\ c.lru \in Seq(KeyType) /\ length \in Nat
      /\ DOMAIN c.lru = 1 .. length /\ CacheSize \in Nat /\ c.used \in Int
  BY FlobAssumption DEF Stored, Listed, States
<1>1. Newest(length) = DOMAIN c.cache /\ \A n \in 0 .. length : Newest(n) \subseteq DOMAIN c.cache
  <2>1. Range(c.lru) = {c.lru[i] : i \in 1 .. length} /\ Range(c.lru) = DOMAIN c.cache
    BY <1>0, RangeIs DEF Listed
  <2> QED
    BY <2>1
<1>2. CASE c.used <= CacheSize
  <2>1. d = c
    BY <1>2 DEF reduce
  <2>2. c.lru # <<>> => c.lru[1] \in DOMAIN c.cache
    <3>1. c.lru # <<>> => 1 \in DOMAIN c.lru
      BY <1>0
    <3> QED
      BY <1>0, <3>1 DEF Listed, Range
  <2> HIDE DEF d
  <2> QED
    BY <1>2, <2>1, <2>2 DEF SameFlobs, d
<1>3. CASE ~ (c.used <= CacheSize)
  <2>1. 0 \in Enough
    <3>1. Newest(0) = {} /\ UNION {{k} \X DOMAIN c.cache[k].mem : k \in {}} = {}
      OBVIOUS
    <3>2. Occupied(c.cache, {}) = 0
      BY <3>1, FS_EmptySet DEF Occupied
    <3>3. Occupied(c.cache, Newest(0)) = 0 /\ 0 \in 0 .. length /\ 0 <= CacheSize
      <4>1. Newest(0) = {}
        OBVIOUS
      <4>2. Occupied(c.cache, Newest(0)) = 0
        <5> HIDE DEF Newest
        <5> QED
          BY <3>2, <4>1
      <4>3. 0 \in 0 .. length /\ 0 <= CacheSize
        BY <1>0
      <4> QED
        BY <4>2, <4>3
    <3> HIDE DEF Newest
    <3> QED
      BY <3>3
  <2>2. length \notin Enough
    <3> HIDE DEF Newest
    <3> QED
      BY <1>0, <1>1, <1>3 DEF Listed
  <2>3. \E n : IsKept(n)
    <3>1. PICK n \in 0 .. length - 1 : n \in Enough /\ n + 1 \notin Enough
      <4> HIDE DEF Enough
      <4> QED
        BY <1>0, <2>1, <2>2, LastOf
    <3>2. n \in 0 .. length /\ n + 1 \in 0 .. length /\ n < length
      BY <1>0, <3>1
    <3>3. Occupied(c.cache, Newest(n + 1)) \in Nat
      <4>1. Newest(n + 1) \subseteq DOMAIN c.cache
        BY <1>1, <3>2
      <4> HIDE DEF Newest
      <4> QED
        BY <1>0, <4>1, ListedFinite
    <3>4. IsKept(n)
      <4> HIDE DEF Newest
      <4> QED
        BY <1>0, <3>1, <3>2, <3>3
    <3> QED
      BY <3>4
  <2>4. IsKept(kept)
    <3> HIDE DEF IsKept
    <3> QED
      BY <2>3
  <2>5. d = RemoveEntries(WithFile(c, Saved(c, evicted)), evicted)
    <3>1. (CHOOSE n \in 0 .. length :
             /\ Occupied(c.cache, Newest(n)) <= CacheSize
             /\ n < length => Occupied(c.cache, Newest(n + 1)) > CacheSize) = kept
      OBVIOUS
    <3> QED
      BY <1>3, <3>1 DEF reduce, WithFile
  <2> HIDE DEF kept
  <2>6. evicted \subseteq DOMAIN c.cache /\ DOMAIN c.cache \ evicted = Newest(kept)
    <3>1. kept \in 0 .. length
      BY <2>4
    <3>2. DOMAIN c.cache = Newest(kept) \cup evicted
      <4>1. 1 .. length = 1 .. kept \cup kept + 1 .. length
        BY <1>0, <3>1
      <4> QED
        BY <1>1, <4>1
    <3>3. Newest(kept) \cap evicted = {}
      BY <1>0, <3>1 DEF Listed, Distinct
    <3> HIDE DEF Newest, evicted
    <3> QED
      BY <3>2, <3>3
  <2>7. /\ Stored(d, size, data) /\ SameFlobs(c, d) /\ d.buffer = c.buffer
        /\ DOMAIN d.cache = Newest(kept)
        /\ \A k \in DOMAIN d.cache : d.cache[k] = c.cache[k]
    <3> DEFINE e == RemoveEntries(WithFile(c, Saved(c, evicted)), evicted)
    <3>1. /\ Stored(e, size, data) /\ SameFlobs(c, e) /\ e.buffer = c.buffer
          /\ DOMAIN e.cache = DOMAIN c.cache \ evicted
          /\ \A k \in DOMAIN e.cache : e.cache[k] = c.cache[k]
      <4>1. evicted \in SUBSET DOMAIN c.cache
        BY <2>6
      <4> HIDE DEF evicted
      <4> QED
        BY <4>1, EvictStored
    <3>2. d = e
      BY <2>5
    <3> HIDE DEF e, d, evicted, Newest
    <3> QED
      BY <2>6, <3>1, <3>2
  <2>8. d.used <= CacheSize
    <3> HIDE DEF d, Newest
    <3>1. d.used = Occupied(d.cache, Newest(kept))
      BY <2>7 DEF Stored, Listed
    <3>2. Occupied(d.cache, Newest(kept)) = Occupied(c.cache, Newest(kept))
      BY <2>7, OccupiedSame
    <3> QED
      BY <2>4, <3>1, <3>2
  <2>9. ASSUME c.lru # <<>> PROVE c.lru[1] \in DOMAIN d.cache
    <3> DEFINE k == c.lru[1]
    <3>1. length > 0 /\ k \in DOMAIN c.cache
      BY <1>0, <2>9 DEF Listed, Range
    <3>2. Newest(1) = {k}
      OBVIOUS
    <3>3. Occupied(c.cache, {k}) <= CacheSize
      <4>1. /\ IsFiniteSet(DOMAIN c.cache[k].mem)
            /\ Cardinality(DOMAIN c.cache[k].mem) \in Nat
            /\ Cardinality(DOMAIN c.cache[k].mem) < CacheSize
        BY <3>1, KeysOf
      <4>2. Occupied(c.cache, {k}) = Cardinality(DOMAIN c.cache[k].mem)
        BY <4>1, OccupiedOne
      <4> HIDE DEF k
      <4> QED
        BY <1>0, <4>1, <4>2
    <3>4. kept # 0
      <4>1. ASSUME kept = 0 PROVE FALSE
        <5>1. Occupied(c.cache, Newest(0 + 1)) > CacheSize
          <6> HIDE DEF Newest
          <6> QED
            BY <1>0, <2>4, <3>1, <4>1
        <5>2. Newest(0 + 1) = {k}
          BY <3>2
        <5>3. Occupied(c.cache, {k}) \in Nat
          BY <1>0, <3>1, ListedFinite
        <5>4. Occupied(c.cache, {k}) > CacheSize
          <6> HIDE DEF Newest, k
          <6> QED
            BY <5>1, <5>2
        <5> HIDE DEF Newest, k
        <5> QED
          BY <1>0, <3>3, <5>3, <5>4
      <4> QED
        BY <4>1
    <3>5. 1 \in 1 .. kept
      BY <1>0, <2>4, <3>4
    <3> HIDE DEF d
    <3> QED
      BY <2>7, <3>5
  <2> HIDE DEF d, Newest
  <2> QED
    BY <2>7, <2>8, <2>9, <1>1, <2>6 DEF d
<1> QED
  BY <1>2, <1>3

-----------------------------------------------------------------------------
(* Entries are loaded.                                                     *)

Assign(fn, id, v) == [i \in DOMAIN fn \cup {id} |-> IF i = id THEN v ELSE fn[i]]

\* The last assignment counts.
LEMMA AssignedTwice ==
  ASSUME NEW fn, NEW id, NEW v, NEW w
  PROVE  Assign(Assign(fn, id, v), id, w) = Assign(fn, id, w)
<1> DEFINE one == Assign(fn, id, v)
<1>1. DOMAIN one = DOMAIN fn \cup {id} /\ \A i \in DOMAIN fn : i # id => one[i] = fn[i]
  BY DEF Assign
<1> HIDE DEF one
<1>2. DOMAIN one \cup {id} = DOMAIN fn \cup {id}
  BY <1>1
<1>3. \A i \in DOMAIN fn \cup {id} :
        (IF i = id THEN w ELSE one[i]) = (IF i = id THEN w ELSE fn[i])
  BY <1>1
<1>4. Assign(one, id, w) = Assign(fn, id, w)
  BY <1>2, <1>3 DEF Assign
<1> QED
  BY <1>4 DEF one

\* A written cell lies within its Flob, and in a slot of it.
LEMMA WrittenCell ==
  ASSUME NEW c, NEW size, NEW data, SizesOK(c, size, data),
         NEW id \in DOMAIN data, NEW x \in DOMAIN data[id]
  PROVE  /\ id \in DOMAIN size /\ id \in 1 .. Len(c.file) /\ id \in Nat
         /\ size[id] \in Nat /\ x \in Nat /\ x \in Cells(size[id])
         /\ x \div SlotSize \in Nat
         /\ SlotOf(id, x) = <<id, x \div SlotSize>>
         /\ x \in SlotCells(x \div SlotSize, size[id])
<1>1. /\ id \in DOMAIN size /\ id \in 1 .. Len(c.file) /\ id \in Nat
      /\ size[id] \in Nat /\ x \in Cells(size[id])
  BY DEF SizesOK
<1>2. x \in Nat
  BY <1>1 DEF Cells
<1>3. x \div SlotSize \in Nat
  BY <1>2, SlotNumbers
<1>4. x \in SlotCells(x \div SlotSize, size[id])
  BY <1>1, <1>3, SlotCellsAre
<1> QED
  BY <1>1, <1>2, <1>3, <1>4 DEF SlotOf

Carries(entry, stored) ==
  \A x \in DOMAIN stored : x \in DOMAIN entry.mem => entry.mem[x] = stored[x]

\* A new entry with what was written.
LEMMA PutStored ==
  ASSUME NEW c, NEW size, NEW data, Stored(c, size, data),
         NEW id \in DOMAIN size, NEW slot \in Nat, <<id, slot>> \notin DOMAIN c.cache,
         NEW entry \in Entries, DOMAIN entry.mem = SlotCells(slot, size[id]),
         DOMAIN entry.mem # {}, Carries(entry, data[id])
  PROVE  LET d == putAtFront(c, <<id, slot>>, entry)
         IN /\ Stored(d, size, data) /\ SameFlobs(c, d) /\ d.buffer = c.buffer
            /\ DOMAIN d.cache = DOMAIN c.cache \cup {<<id, slot>>}
            /\ \A k \in DOMAIN c.cache : d.cache[k] = c.cache[k]
            /\ d.lru # <<>> /\ d.lru[1] = <<id, slot>>
<1> DEFINE key == <<id, slot>>
           d == putAtFront(c, key, entry)
<1>1. Listed(c) /\ SizesOK(c, size, data) /\ Fits(c.cache, size) /\ Holds(c, data)
  BY DEF Stored
<1>2. id \in 1 .. Len(c.file) /\ size[id] \in Nat
  BY <1>1 DEF SizesOK
<1>3. key \in KeyType /\ key[1] = id /\ key[2] = slot
  BY <1>2 DEF KeyType
<1>4. IsFiniteSet(DOMAIN entry.mem)
  BY <1>2, SlotCellsFinite
<1>5. key \notin DOMAIN c.cache
  OBVIOUS
<1> HIDE DEF key
<1>6. /\ Listed(d) /\ SameFlobs(c, d) /\ d.file = c.file /\ d.buffer = c.buffer
      /\ DOMAIN d.cache = DOMAIN c.cache \cup {key} /\ d.cache[key] = entry
      /\ \A k \in DOMAIN c.cache : d.cache[k] = c.cache[k]
      /\ d.lru # <<>> /\ d.lru[1] = key
  BY <1>1, <1>3, <1>4, <1>5, PutAtFrontListed
<1> HIDE DEF d
<1>7. SizesOK(d, size, data)
  BY <1>1, <1>6 DEF SizesOK, SameFlobs
<1>8. Fits(d.cache, size)
  BY <1>1, <1>3, <1>6 DEF Fits
<1>9. Holds(d, data)
  <2> SUFFICES ASSUME NEW i \in DOMAIN data, NEW x \in DOMAIN data[i]
               PROVE  LET k == SlotOf(i, x)
                      IN /\ k \in DOMAIN d.cache => d.cache[k].mem[x] = data[i][x]
                         /\ (k \in DOMAIN d.cache => ~ d.cache[k].changed) =>
                              OnDisk(d.file, i, x) = data[i][x]
    BY DEF Holds
  <2> DEFINE k == SlotOf(i, x)
  <2>1. /\ k \in DOMAIN c.cache => c.cache[k].mem[x] = data[i][x]
        /\ (k \in DOMAIN c.cache => ~ c.cache[k].changed) =>
             OnDisk(c.file, i, x) = data[i][x]
    BY <1>1 DEF Holds
  <2>2. ASSUME k = key PROVE entry.mem[x] = data[i][x]
    <3>1. i = id /\ x \div SlotSize = slot
      BY <2>2 DEF SlotOf, key
    <3>2. x \in SlotCells(slot, size[id])
      BY <1>1, <3>1, WrittenCell
    <3> QED
      BY <3>1, <3>2 DEF Carries
  <2> HIDE DEF k
  <2> QED
    BY <1>6, <1>5, <2>1, <2>2 DEF k
<1> QED
  BY <1>6, <1>7, <1>8, <1>9 DEF Stored, d, key

\* A slot is loaded, and is still there when reduce is done.
LEMMA LoadStored ==
  ASSUME NEW c, NEW size, NEW data, Stored(c, size, data),
         NEW id \in DOMAIN size, NEW slot \in Nat, <<id, slot>> \notin DOMAIN c.cache,
         SlotCells(slot, size[id]) # {}
  PROVE  LET d == Loaded(c, id, size[id], slot)
         IN /\ Stored(d, size, data) /\ SameFlobs(c, d) /\ d.buffer = c.buffer
            /\ <<id, slot>> \in DOMAIN d.cache
            /\ d.used <= CacheSize
<1> DEFINE key == <<id, slot>>
           e == putAtFront(c, key, EntryFromDisk(c, id, slot, size[id]))
           d == Loaded(c, id, size[id], slot)
           new == EntryFromDisk(c, id, slot, size[id])
<1>1. Listed(c) /\ SizesOK(c, size, data) /\ Fits(c.cache, size) /\ Holds(c, data)
  BY DEF Stored
<1>2. id \in 1 .. Len(c.file) /\ size[id] \in Nat /\ c.file \in Seq(Arrays)
  BY <1>1 DEF SizesOK, Listed, States
<1>3. /\ new.changed = FALSE /\ DOMAIN new.mem = SlotCells(slot, size[id])
      /\ new = [mem |-> new.mem, changed |-> FALSE]
      /\ \A x \in SlotCells(slot, size[id]) : new.mem[x] = OnDisk(c.file, id, x)
      /\ new.mem = [x \in SlotCells(slot, size[id]) |-> OnDisk(c.file, id, x)]
  BY DEF EntryFromDisk, OnDisk
<1>4. \A x : OnDisk(c.file, id, x) \in Cell
  <2>1. c.file[id] \in Memories
    <3>1. c.file[id] \in Arrays
      BY <1>2
    <3> QED
      BY <3>1, ArraysAre
  <2>2. \A x \in DOMAIN c.file[id] : c.file[id][x] \in Cell
    BY <2>1, MemoriesAre
  <2> QED
    BY <2>2 DEF OnDisk, Cell
<1>5. new.mem \in Memories
  <2>1. SlotCells(slot, size[id]) \subseteq Nat
    BY <1>2, SlotCellsFinite
  <2>2. new.mem \in [SlotCells(slot, size[id]) -> Cell]
    <3> HIDE DEF new
    <3> QED
      BY <1>3, <1>4
  <2> HIDE DEF new
  <2> QED
    BY <1>3, <2>1, <2>2, MemoriesAre
<1>6. new \in Entries
  <2> HIDE DEF new
  <2> QED
    BY <1>3, <1>5 DEF Entries
<1>7. \A x \in DOMAIN data[id] : x \in DOMAIN new.mem => new.mem[x] = data[id][x]
  <2> SUFFICES ASSUME NEW x \in DOMAIN data[id], x \in DOMAIN new.mem
               PROVE  new.mem[x] = data[id][x]
    OBVIOUS
  <2> HIDE DEF new
  <2>1. id \in DOMAIN data
    BY <1>1 DEF SizesOK
  <2>2. x \in {y \in Cells(size[id]) : y \div SlotSize = slot}
    BY <1>2, <1>3, SlotCellsAre
  <2>3. SlotOf(id, x) \notin DOMAIN c.cache
    BY <2>2 DEF SlotOf
  <2>4. OnDisk(c.file, id, x) = data[id][x]
    BY <1>1, <2>1, <2>3 DEF Holds
  <2> QED
    BY <1>3, <2>4
<1>8. /\ Stored(e, size, data) /\ SameFlobs(c, e) /\ e.buffer = c.buffer
      /\ e.lru # <<>> /\ e.lru[1] = key
  <2>1. DOMAIN new.mem = SlotCells(slot, size[id]) /\ DOMAIN new.mem # {}
    BY <1>3
  <2> HIDE DEF new
  <2> DEFINE p == putAtFront(c, <<id, slot>>, new)
  <2>2. /\ Stored(p, size, data) /\ SameFlobs(c, p) /\ p.buffer = c.buffer
        /\ p.lru # <<>> /\ p.lru[1] = <<id, slot>>
    <3>1. new \in Entries
      BY <1>6
    <3>2. Carries(new, data[id])
      BY <1>7 DEF Carries
    <3> QED
      BY <3>1, <3>2, <2>1, PutStored
  <2> QED
    BY <2>2 DEF new
<1>9. d = reduce(e)
  BY DEF Loaded
<1> HIDE DEF e, key, d
<1>10. /\ Stored(reduce(e), size, data) /\ SameFlobs(e, reduce(e))
       /\ reduce(e).buffer = e.buffer /\ reduce(e).used <= CacheSize
       /\ e.lru # <<>> => e.lru[1] \in DOMAIN reduce(e).cache
  BY <1>8, ReduceStored
<1>11. SameFlobs(c, d)
  BY <1>8, <1>9, <1>10 DEF SameFlobs
<1> QED
  BY <1>8, <1>9, <1>10, <1>11 DEF d, key

-----------------------------------------------------------------------------
(* What is stored changes.                                                 *)

\* What is stored depends on the file, the cache, its list and usedSize only.
LEMMA SameStore ==
  ASSUME NEW c, NEW size, NEW data, Stored(c, size, data), NEW d \in States,
         d.file = c.file, d.cache = c.cache, d.lru = c.lru, d.used = c.used
  PROVE  Stored(d, size, data)
<1>1. Listed(d)
  BY DEF Stored, Listed
<1>2. SizesOK(d, size, data) /\ Fits(d.cache, size)
  BY DEF Stored, SizesOK
<1>3. Holds(d, data)
  BY DEF Stored, Holds
<1> QED
  BY <1>1, <1>2, <1>3 DEF Stored

NoEntries(c, id) == \A k \in DOMAIN c.cache : k[1] # id

\* A record without entries is given to a Flob, or loses its contents.
LEMMA AssignStored ==
  ASSUME NEW c, NEW size, NEW data, Stored(c, size, data),
         NEW id \in 1 .. Len(c.file), NEW n \in 0 .. MaxFlobSize, NoEntries(c, id)
  PROVE  Stored(c, Assign(size, id, n), Assign(data, id, <<>>))
<1> DEFINE sizes == Assign(size, id, n)
           contents == Assign(data, id, <<>>)
<1>1. /\ DOMAIN sizes = DOMAIN size \cup {id} /\ sizes[id] = n
      /\ \A i \in DOMAIN size : i # id => sizes[i] = size[i]
  BY DEF Assign
<1>2. /\ DOMAIN contents = DOMAIN data \cup {id} /\ contents[id] = <<>>
      /\ \A i \in DOMAIN data : i # id => contents[i] = data[i]
  BY DEF Assign
<1> HIDE DEF sizes, contents
<1>3. SizesOK(c, size, data) /\ Fits(c.cache, size) /\ Holds(c, data) /\ Listed(c)
  BY DEF Stored
<1>4. DOMAIN contents[id] = {}
  BY <1>2
<1>5. SizesOK(c, sizes, contents)
  BY <1>1, <1>2, <1>3, <1>4 DEF SizesOK
<1>6. Fits(c.cache, sizes)
  BY <1>1, <1>3 DEF Fits, NoEntries
<1>7. Holds(c, contents)
  <2>1. \A i \in DOMAIN contents : \A x \in DOMAIN contents[i] :
          i \in DOMAIN data /\ contents[i] = data[i]
    BY <1>2, <1>4
  <2> QED
    BY <1>3, <2>1 DEF Holds
<1> QED
  BY <1>3, <1>5, <1>6, <1>7 DEF Stored, sizes, contents

\* A record without entries belongs to no Flob any more.
LEMMA ForgetStored ==
  ASSUME NEW c, NEW size, NEW data, NEW id, id \notin DOMAIN size,
         DOMAIN data = DOMAIN size, NEW n, NEW a,
         Stored(c, Assign(size, id, n), Assign(data, id, a)), NoEntries(c, id)
  PROVE  Stored(c, size, data)
<1> DEFINE sizes == Assign(size, id, n)
           contents == Assign(data, id, a)
<1>1. /\ DOMAIN sizes = DOMAIN size \cup {id}
      /\ \A i \in DOMAIN size : sizes[i] = size[i]
  BY DEF Assign
<1>2. /\ DOMAIN contents = DOMAIN data \cup {id}
      /\ \A i \in DOMAIN data : contents[i] = data[i]
  BY DEF Assign
<1>3. SizesOK(c, sizes, contents) /\ Fits(c.cache, sizes) /\ Holds(c, contents) /\ Listed(c)
  BY DEF Stored
<1> HIDE DEF sizes, contents
<1>4. SizesOK(c, size, data)
  BY <1>1, <1>2, <1>3 DEF SizesOK
<1>5. Fits(c.cache, size)
  BY <1>1, <1>3 DEF Fits, NoEntries
<1>6. Holds(c, data)
  BY <1>2, <1>3 DEF Holds
<1> QED
  BY <1>3, <1>4, <1>5, <1>6 DEF Stored

\* Some of what was written, none of it in the slots of keys.
Part(some, data, keys) ==
  /\ DOMAIN some = DOMAIN data
  /\ \A i \in DOMAIN data : \A x \in DOMAIN some[i] :
       x \in DOMAIN data[i] /\ some[i][x] = data[i][x] /\ SlotOf(i, x) \notin keys

\* Entries are removed whose cells nobody needs any more.
LEMMA RemoveStored ==
  ASSUME NEW c, NEW size, NEW data, Stored(c, size, data), NEW keys, NEW some,
         Part(some, data, keys)
  PROVE  LET d == RemoveEntries(c, keys)
         IN /\ Stored(d, size, some) /\ SameFlobs(c, d) /\ d.buffer = c.buffer
            /\ DOMAIN d.cache = DOMAIN c.cache \ keys
            /\ \A k \in DOMAIN d.cache : d.cache[k] = c.cache[k]
            /\ d.used <= c.used
<1> DEFINE d == RemoveEntries(c, keys)
<1>1. SizesOK(c, size, data) /\ Fits(c.cache, size) /\ Holds(c, data) /\ Listed(c)
  BY DEF Stored
<1>2. /\ Listed(d) /\ SameFlobs(c, d) /\ d.file = c.file /\ d.buffer = c.buffer
      /\ DOMAIN d.cache = DOMAIN c.cache \ keys
      /\ \A k \in DOMAIN d.cache : d.cache[k] = c.cache[k]
      /\ d.used <= c.used
  BY <1>1, RemoveListed
<1> HIDE DEF d
<1>3. SizesOK(d, size, some)
  BY <1>1, <1>2 DEF SizesOK, Part
<1>4. Fits(d.cache, size)
  BY <1>1, <1>2 DEF Fits
<1>5. Holds(d, some)
  <2> SUFFICES ASSUME NEW i \in DOMAIN some, NEW x \in DOMAIN some[i]
               PROVE  LET k == SlotOf(i, x)
                      IN /\ k \in DOMAIN d.cache => d.cache[k].mem[x] = some[i][x]
                         /\ (k \in DOMAIN d.cache => ~ d.cache[k].changed) =>
                              OnDisk(d.file, i, x) = some[i][x]
    BY DEF Holds
  <2> DEFINE k == SlotOf(i, x)
  <2>1. i \in DOMAIN data /\ x \in DOMAIN data[i] /\ some[i][x] = data[i][x] /\ k \notin keys
    BY DEF Part
  <2>2. /\ k \in DOMAIN c.cache => c.cache[k].mem[x] = data[i][x]
        /\ (k \in DOMAIN c.cache => ~ c.cache[k].changed) =>
             OnDisk(c.file, i, x) = data[i][x]
    BY <1>1, <2>1 DEF Holds
  <2> HIDE DEF k
  <2> QED
    BY <1>2, <2>1, <2>2 DEF k
<1> QED
  BY <1>2, <1>3, <1>4, <1>5 DEF Stored, d

\* One may forget that cells were written.
LEMMA FewerStored ==
  ASSUME NEW c, NEW size, NEW data, Stored(c, size, data), NEW some, Part(some, data, {})
  PROVE  Stored(c, size, some)
<1>1. RemoveEntries(c, {}) = c
  BY DEF RemoveEntries
<1>2. Stored(RemoveEntries(c, {}), size, some)
  BY RemoveStored
<1> QED
  BY <1>1, <1>2

\* An entry changes.
Replaced(c, key, entry) ==
  With(c, [c.cache EXCEPT ![key] = entry], c.lru,
       c.used + Cardinality(DOMAIN entry.mem) - Cardinality(DOMAIN c.cache[key].mem))

\* An entry changes, and usedSize with its size.
LEMMA ReplaceListed ==
  ASSUME NEW c, Listed(c), NEW key \in DOMAIN c.cache, NEW entry \in Entries,
         IsFiniteSet(DOMAIN entry.mem)
  PROVE  LET d == Replaced(c, key, entry)
         IN /\ Listed(d) /\ SameFlobs(c, d) /\ d.file = c.file /\ d.buffer = c.buffer
            /\ DOMAIN d.cache = DOMAIN c.cache /\ d.cache[key] = entry
            /\ \A k \in DOMAIN c.cache : k # key => d.cache[k] = c.cache[k]
            /\ d.used = c.used + Cardinality(DOMAIN entry.mem)
                          - Cardinality(DOMAIN c.cache[key].mem)
<1> DEFINE slotCache == [c.cache EXCEPT ![key] = entry]
           new == Cardinality(DOMAIN entry.mem)
           old == Cardinality(DOMAIN c.cache[key].mem)
           used == c.used + new - old
           d == Replaced(c, key, entry)
           others == DOMAIN c.cache \ {key}
<1>1. /\ c \in States /\ c.cache \in Caches /\ c.lru \in Seq(KeyType)
      /\ DOMAIN c.cache \subseteq KeyType /\ c.cache \in [DOMAIN c.cache -> Entries]
  BY CachesAre DEF Listed, States
<1>2. /\ DOMAIN slotCache = DOMAIN c.cache /\ slotCache[key] = entry
      /\ \A k \in others : slotCache[k] = c.cache[k]
      /\ slotCache \in [DOMAIN c.cache -> Entries]
  BY <1>1
<1>3. slotCache \in Caches
  <2> HIDE DEF slotCache
  <2> QED
    BY <1>1, <1>2, CachesAre
<1>4. IsFiniteSet(DOMAIN c.cache[key].mem) /\ old \in Nat /\ new \in Nat
  BY FS_CardinalityType DEF Listed
<1>5. used = Occupied(slotCache, DOMAIN slotCache) /\ used \in Int
  <2>1. {key} \cup others = DOMAIN c.cache /\ {key} \cap others = {}
        /\ others \in SUBSET DOMAIN c.cache /\ DOMAIN c.cache \ {key} = others
    OBVIOUS
  <2>2. /\ SlotsFinite(c.cache, others) /\ Occupied(c.cache, others) \in Nat
        /\ Occupied(c.cache, DOMAIN c.cache) = Occupied(c.cache, {key}) + Occupied(c.cache, others)
    <3>1. {key} \in SUBSET DOMAIN c.cache
      OBVIOUS
    <3> QED
      BY <2>1, <3>1, ListedFinite
  <2>3. Occupied(c.cache, {key}) = old
    BY <1>4, OccupiedOne
  <2> HIDE DEF slotCache, others
  <2>4. Occupied(slotCache, others) = Occupied(c.cache, others) /\ SlotsFinite(slotCache, others)
    BY <1>2, <2>2, OccupiedSame DEF SlotsFinite
  <2>5. SlotsFinite(slotCache, {key}) /\ Occupied(slotCache, {key}) = new
    BY <1>2, OccupiedOne
  <2>6. Occupied(slotCache, {key} \cup others) = Occupied(slotCache, {key}) + Occupied(slotCache, others)
    BY <2>1, <2>4, <2>5, OccupiedParts
  <2>7. c.used = Occupied(c.cache, DOMAIN c.cache)
    BY DEF Listed
  <2>8. Occupied(slotCache, DOMAIN slotCache) = new + Occupied(c.cache, others)
    BY <1>2, <2>1, <2>4, <2>5, <2>6
  <2>9. c.used = old + Occupied(c.cache, others)
    BY <2>2, <2>3, <2>7
  <2> HIDE DEF new, old
  <2> QED
    BY <1>4, <2>2, <2>8, <2>9
<1>6. /\ d \in States /\ SameFlobs(c, d)
      /\ d.cache = slotCache /\ d.lru = c.lru /\ d.used = used
      /\ d.file = c.file /\ d.buffer = c.buffer
  <2>1. d = With(c, slotCache, c.lru, used)
    BY DEF Replaced
  <2> HIDE DEF slotCache, used, d
  <2> QED
    BY <1>1, <1>3, <1>5, <2>1, NewState
<1>7. Listed(d)
  <2> HIDE DEF slotCache, used, d
  <2>1. \A k \in DOMAIN slotCache : IsFiniteSet(DOMAIN slotCache[k].mem)
    BY <1>2 DEF Listed
  <2> QED
    BY <1>2, <1>5, <1>6, <2>1 DEF Listed
<1> HIDE DEF slotCache, d
<1> QED
  BY <1>2, <1>6, <1>7 DEF d

\* The entry of a slot changes, but not whether it is marked.
LEMMA ResizeSlotCases ==
  ASSUME NEW c, Listed(c), NEW id, NEW slot, NEW newSize
  PROVE  LET key == <<id, slot>>
             d == resizeSlot(c, id, slot, newSize)
             mem == [x \in SlotCells(slot, newSize) |->
                       IF x \in DOMAIN c.cache[key].mem THEN c.cache[key].mem[x] ELSE Garbage]
             entry == [mem |-> mem, changed |-> c.cache[key].changed]
         IN /\ key \notin DOMAIN c.cache => d = c
            /\ key \in DOMAIN c.cache /\ SlotCells(slot, newSize) = {}
                 => d = RemoveEntries(c, {key})
            /\ key \in DOMAIN c.cache /\ SlotCells(slot, newSize) # {}
                 => d = Replaced(c, key, entry)
<1> DEFINE key == <<id, slot>>
           d == resizeSlot(c, id, slot, newSize)
           mem == [x \in SlotCells(slot, newSize) |->
                     IF x \in DOMAIN c.cache[key].mem THEN c.cache[key].mem[x] ELSE Garbage]
           entry == [mem |-> mem, changed |-> c.cache[key].changed]
<1>1. key \notin DOMAIN c.cache => d = c
  BY DEF resizeSlot
<1>2. key \in DOMAIN c.cache /\ SlotCells(slot, newSize) = {}
        => d = RemoveEntries(c, {key})
  BY DEF resizeSlot
<1>3. ASSUME key \in DOMAIN c.cache, SlotCells(slot, newSize) # {}
      PROVE  d = Replaced(c, key, entry)
  <2> DEFINE size == Cardinality(SlotCells(slot, newSize))
             old == Cardinality(DOMAIN c.cache[key].mem)
  <2>1. d = [c EXCEPT !.cache[key].mem = mem, !.used = @ + size - old]
    BY <1>3 DEF resizeSlot
  <2>2. c \in States /\ c.cache \in [DOMAIN c.cache -> Entries]
    BY CachesAre DEF Listed, States
  <2>3. c.cache[key] \in [mem : Memories, changed : BOOLEAN]
    BY <1>3, <2>2 DEF Entries
  <2>4. [c.cache[key] EXCEPT !.mem = mem] = entry
    <3> HIDE DEF key, mem
    <3> QED
      BY <2>3
  <2>5. DOMAIN entry.mem = SlotCells(slot, newSize)
    OBVIOUS
  <2> HIDE DEF key, mem
  <2>6. [c.cache EXCEPT ![key].mem = mem] = [c.cache EXCEPT ![key] = entry]
    <3> HIDE DEF entry
    <3> QED
      BY <2>4
  <2>7. d = [c EXCEPT !.cache = [c.cache EXCEPT ![key].mem = mem], !.used = c.used + size - old]
    BY <2>1
  <2> DEFINE slotCache == [c.cache EXCEPT ![key] = entry]
             used == c.used + size - old
  <2>8. d = [c EXCEPT !.cache = slotCache, !.used = used]
    BY <2>6, <2>7
  <2>9. Replaced(c, key, entry) = With(c, slotCache, c.lru, used)
    BY <2>5 DEF Replaced
  <2> HIDE DEF slotCache, used, d, entry
  <2> QED
    BY <2>2, <2>8, <2>9 DEF With, States
<1> QED
  BY <1>1, <1>2, <1>3

OtherSlots(c, id, slot, size, newSize) ==
  \A k \in DOMAIN c.cache :
    k[1] = id /\ k[2] # slot => SlotCells(k[2], newSize) = SlotCells(k[2], size)

\* A Flob changes its size within one slot, or up to it, or from it.
LEMMA ResizeSlotStored ==
  ASSUME NEW c, NEW size, NEW data, Stored(c, size, data),
         NEW id \in DOMAIN size, NEW slot \in Nat, NEW newSize \in 0 .. MaxFlobSize,
         DOMAIN data[id] \subseteq Cells(newSize),
         OtherSlots(c, id, slot, size[id], newSize)
  PROVE  LET d == resizeSlot(c, id, slot, newSize)
         IN /\ Stored(d, Assign(size, id, newSize), data)
            /\ SameFlobs(c, d) /\ d.buffer = c.buffer
            /\ DOMAIN d.cache \subseteq DOMAIN c.cache
            /\ newSize <= size[id] => d.used <= c.used
<1> DEFINE key == <<id, slot>>
           sizes == Assign(size, id, newSize)
           d == resizeSlot(c, id, slot, newSize)
           mem == [x \in SlotCells(slot, newSize) |->
                     IF x \in DOMAIN c.cache[key].mem THEN c.cache[key].mem[x] ELSE Garbage]
           entry == [mem |-> mem, changed |-> c.cache[key].changed]
<1>1. SizesOK(c, size, data) /\ Fits(c.cache, size) /\ Holds(c, data) /\ Listed(c)
  BY DEF Stored
<1>2. /\ DOMAIN sizes = DOMAIN size /\ sizes[id] = newSize
      /\ \A i \in DOMAIN size : i # id => sizes[i] = size[i]
  BY DEF Assign
<1>3. newSize \in Nat /\ size[id] \in Nat /\ id \in DOMAIN data
  BY <1>1, FlobAssumption DEF SizesOK
<1>4. key[1] = id /\ key[2] = slot
  OBVIOUS
<1>5. /\ key \notin DOMAIN c.cache => d = c
      /\ key \in DOMAIN c.cache /\ SlotCells(slot, newSize) = {} => d = RemoveEntries(c, {key})
      /\ key \in DOMAIN c.cache /\ SlotCells(slot, newSize) # {} => d = Replaced(c, key, entry)
  BY <1>1, ResizeSlotCases
<1>6. ASSUME NEW k \in DOMAIN c.cache, k # key
      PROVE  /\ k[1] \in DOMAIN sizes /\ DOMAIN c.cache[k].mem # {}
             /\ DOMAIN c.cache[k].mem = SlotCells(k[2], sizes[k[1]])
  <2>1. /\ k[1] \in DOMAIN size /\ DOMAIN c.cache[k].mem # {} /\ k = <<k[1], k[2]>>
        /\ DOMAIN c.cache[k].mem = SlotCells(k[2], size[k[1]])
    BY <1>1, KeysOf DEF Fits
  <2>2. k[1] = id => k[2] # slot
    BY <1>6, <2>1
  <2>3. k[1] = id => SlotCells(k[2], newSize) = SlotCells(k[2], size[id])
    BY <2>2 DEF OtherSlots
  <2> HIDE DEF sizes, key
  <2> QED
    BY <1>2, <2>1, <2>3
<1>7. ASSUME NEW x \in DOMAIN data[id], SlotOf(id, x) = key
      PROVE  x \in SlotCells(slot, newSize) /\ x \in SlotCells(slot, size[id])
  <2>1. x \in Cells(newSize) /\ x \in Cells(size[id]) /\ x \div SlotSize = slot
    BY <1>1, <1>3, <1>7, WrittenCell DEF SlotOf
  <2> QED
    BY <1>3, <2>1, SlotCellsAre
<1>8. \A i \in DOMAIN data : \A x \in DOMAIN data[i] : SlotOf(i, x) = key => i = id
  BY DEF SlotOf
<1> HIDE DEF sizes, key
<1>9. ASSUME NEW e, Listed(e), SameFlobs(c, e), Fits(e.cache, sizes), Holds(e, data)
      PROVE  Stored(e, sizes, data)
  <2>1. SizesOK(e, sizes, data)
    BY <1>1, <1>2, <1>9 DEF SizesOK, SameFlobs
  <2> QED
    BY <1>9, <2>1 DEF Stored
<1>10. CASE key \notin DOMAIN c.cache
  <2>1. d = c
    BY <1>5, <1>10
  <2>2. Fits(c.cache, sizes)
    BY <1>6, <1>10 DEF Fits
  <2>3. SameFlobs(c, c) /\ c.used <= c.used
    BY <1>1 DEF SameFlobs, Listed, States
  <2> HIDE DEF d
  <2> QED
    BY <1>1, <1>9, <2>1, <2>2, <2>3 DEF d, sizes
<1>11. CASE key \in DOMAIN c.cache /\ SlotCells(slot, newSize) = {}
  <2>1. Part(data, data, {key})
    BY <1>7, <1>8, <1>11 DEF Part
  <2>2. d = RemoveEntries(c, {key})
    BY <1>5, <1>11
  <2> HIDE DEF d
  <2>3. /\ Stored(d, size, data) /\ SameFlobs(c, d) /\ d.buffer = c.buffer
        /\ DOMAIN d.cache = DOMAIN c.cache \ {key}
        /\ \A k \in DOMAIN d.cache : d.cache[k] = c.cache[k]
        /\ d.used <= c.used
    <3> DEFINE keys == {key}
               e == RemoveEntries(c, keys)
    <3>1. d = e
      BY <2>2
    <3>2. Part(data, data, keys)
      BY <2>1
    <3> HIDE DEF keys
    <3>3. /\ Stored(e, size, data) /\ SameFlobs(c, e) /\ e.buffer = c.buffer
          /\ DOMAIN e.cache = DOMAIN c.cache \ keys
          /\ \A k \in DOMAIN e.cache : e.cache[k] = c.cache[k]
          /\ e.used <= c.used
      BY <3>2, RemoveStored
    <3> HIDE DEF e
    <3> QED
      BY <3>1, <3>3 DEF keys
  <2>4. Fits(d.cache, sizes)
    BY <1>6, <2>3 DEF Fits
  <2>5. Stored(d, sizes, data)
    BY <1>9, <2>3, <2>4 DEF Stored
  <2> QED
    BY <2>3, <2>5 DEF d, sizes
<1>12. CASE key \in DOMAIN c.cache /\ SlotCells(slot, newSize) # {}
  <2>1. d = Replaced(c, key, entry)
    BY <1>5, <1>12
  <2> HIDE DEF d
  <2>2. /\ c.cache[key].mem \in Memories /\ c.cache[key].changed \in BOOLEAN
        /\ DOMAIN c.cache[key].mem = SlotCells(slot, size[id])
    BY <1>1, <1>4, <1>12, KeysOf DEF Entries, Fits
  <2>3. SlotCells(slot, newSize) \subseteq Nat /\ IsFiniteSet(SlotCells(slot, newSize))
    BY <1>3, SlotCellsFinite
  <2>4. mem \in Memories
    <3>1. \A x \in SlotCells(slot, newSize) : mem[x] \in Cell
      BY <2>2, MemoriesAre DEF Cell
    <3>2. DOMAIN mem = SlotCells(slot, newSize) /\ mem = [x \in DOMAIN mem |-> mem[x]]
      OBVIOUS
    <3> HIDE DEF mem
    <3> QED
      BY <2>3, <3>1, <3>2, MemoriesAre
  <2>5. entry \in Entries /\ DOMAIN entry.mem = SlotCells(slot, newSize)
        /\ entry.changed = c.cache[key].changed
    <3>1. DOMAIN mem = SlotCells(slot, newSize)
      OBVIOUS
    <3> HIDE DEF mem
    <3> QED
      BY <2>2, <2>4, <3>1 DEF Entries
  <2>6. \A x \in SlotCells(slot, newSize) :
          x \in SlotCells(slot, size[id]) => entry.mem[x] = c.cache[key].mem[x]
    BY <2>2
  <2> HIDE DEF entry, mem
  <2>7. /\ Listed(d) /\ SameFlobs(c, d) /\ d.file = c.file /\ d.buffer = c.buffer
        /\ DOMAIN d.cache = DOMAIN c.cache /\ d.cache[key] = entry
        /\ \A k \in DOMAIN c.cache : k # key => d.cache[k] = c.cache[k]
        /\ d.used = c.used + Cardinality(DOMAIN entry.mem)
                      - Cardinality(DOMAIN c.cache[key].mem)
    <3>1. IsFiniteSet(DOMAIN entry.mem)
      BY <2>3, <2>5
    <3>2. key \in DOMAIN c.cache /\ entry \in Entries
      BY <1>12, <2>5
    <3> QED
      BY <1>1, <2>1, <3>1, <3>2, ReplaceListed
  <2>8. Fits(d.cache, sizes)
    BY <1>2, <1>4, <1>6, <1>12, <2>5, <2>7 DEF Fits
  <2>9. Holds(d, data)
    <3> SUFFICES ASSUME NEW i \in DOMAIN data, NEW x \in DOMAIN data[i]
                 PROVE  LET k == SlotOf(i, x)
                        IN /\ k \in DOMAIN d.cache => d.cache[k].mem[x] = data[i][x]
                           /\ (k \in DOMAIN d.cache => ~ d.cache[k].changed) =>
                                OnDisk(d.file, i, x) = data[i][x]
      BY DEF Holds
    <3> DEFINE k == SlotOf(i, x)
    <3>1. /\ k \in DOMAIN c.cache => c.cache[k].mem[x] = data[i][x]
          /\ (k \in DOMAIN c.cache => ~ c.cache[k].changed) =>
               OnDisk(c.file, i, x) = data[i][x]
      BY <1>1 DEF Holds
    <3>2. ASSUME k = key PROVE entry.mem[x] = c.cache[key].mem[x]
      <4>1. i = id
        BY <1>8, <3>2
      <4>2. x \in SlotCells(slot, newSize) /\ x \in SlotCells(slot, size[id])
        BY <1>7, <3>2, <4>1
      <4> QED
        BY <2>6, <4>2
    <3> HIDE DEF k
    <3> QED
      BY <2>5, <2>7, <3>1, <3>2 DEF k
  <2>10. Stored(d, sizes, data)
    BY <1>9, <2>7, <2>8, <2>9
  <2>11. ASSUME newSize <= size[id] PROVE d.used <= c.used
    <3>1. SlotCells(slot, newSize) \subseteq SlotCells(slot, size[id])
      BY <1>3, <2>11 DEF SlotCells, Cells
    <3>2. IsFiniteSet(SlotCells(slot, size[id]))
      BY <1>3, SlotCellsFinite
    <3>3. Cardinality(SlotCells(slot, newSize)) <= Cardinality(SlotCells(slot, size[id]))
          /\ Cardinality(SlotCells(slot, newSize)) \in Nat
          /\ Cardinality(SlotCells(slot, size[id])) \in Nat
      BY <2>3, <3>1, <3>2, FS_Subset, FS_CardinalityType
    <3>4. c.used \in Int
      BY <1>1 DEF Listed, States
    <3> QED
      BY <2>2, <2>5, <2>7, <3>3, <3>4
  <2> QED
    BY <2>7, <2>10, <2>11 DEF d, sizes
<1> QED
  BY <1>10, <1>11, <1>12

-----------------------------------------------------------------------------
(* The cache, operation by operation.                                      *)

\* The Flob is gone from the cache.
LEMMA EraseStored ==
  ASSUME NEW c, NEW size, NEW data, Stored(c, size, data), NEW id \in DOMAIN size
  PROVE  LET d == erase(c, id, size[id])
         IN /\ Stored(d, size, Assign(data, id, <<>>)) /\ SameFlobs(c, d)
            /\ d.buffer = c.buffer /\ NoEntries(d, id) /\ d.used <= c.used
<1> DEFINE keys == {id} \X (0 .. size[id] \div SlotSize)
           rest == Assign(data, id, <<>>)
           d == RemoveEntries(c, keys)
<1>1. SizesOK(c, size, data) /\ Fits(c.cache, size)
  BY DEF Stored
<1>2. id \in DOMAIN data /\ size[id] \in Nat
  BY <1>1, FlobAssumption DEF SizesOK
<1>3. DOMAIN rest = DOMAIN data /\ rest[id] = <<>>
      /\ \A i \in DOMAIN data : i # id => rest[i] = data[i]
  BY <1>2 DEF Assign
<1>4. Part(rest, data, keys)
  <2>1. DOMAIN rest[id] = {}
    BY <1>3
  <2>2. ASSUME NEW i \in DOMAIN data, NEW x \in DOMAIN rest[i]
        PROVE  x \in DOMAIN data[i] /\ rest[i][x] = data[i][x] /\ SlotOf(i, x) \notin keys
    <3>1. i # id /\ rest[i] = data[i]
      <4> HIDE DEF rest
      <4> QED
        BY <1>3, <2>1
    <3>2. SlotOf(i, x) \notin keys
      BY <3>1 DEF SlotOf
    <3> HIDE DEF rest, keys
    <3> QED
      BY <3>1, <3>2
  <2> HIDE DEF rest, keys
  <2> QED
    BY <1>3, <2>2 DEF Part
<1> HIDE DEF rest
<1>5. /\ Stored(d, size, rest) /\ SameFlobs(c, d) /\ d.buffer = c.buffer
      /\ DOMAIN d.cache = DOMAIN c.cache \ keys
      /\ d.used <= c.used
  <2> HIDE DEF keys
  <2> QED
    BY <1>4, RemoveStored
<1>6. NoEntries(d, id)
  <2> SUFFICES ASSUME NEW k \in DOMAIN c.cache, k[1] = id PROVE k \in keys
    <3> HIDE DEF d, keys
    <3> QED
      BY <1>5 DEF NoEntries
  <2>1. k[2] \in Nat /\ k = <<k[1], k[2]>>
    BY KeysOf
  <2>2. SlotCells(k[2], size[id]) # {}
    BY <1>1 DEF Fits
  <2>3. k[2] <= size[id] \div SlotSize
    BY <1>2, <2>1, <2>2, SlotWithin
  <2>4. size[id] \div SlotSize \in Nat
    BY <1>2, SlotNumbers
  <2> QED
    BY <2>1, <2>3, <2>4
<1>7. d = erase(c, id, size[id])
  BY DEF erase
<1> HIDE DEF d
<1> QED
  BY <1>5, <1>6, <1>7 DEF rest

\* Entries for a new Flob.
LEMMA CreateEntriesStored ==
  ASSUME NEW c, NEW size, NEW data, Stored(c, size, data), NEW id \in DOMAIN size,
         DOMAIN data[id] = {}, NoEntries(c, id), c.used <= CacheSize
  PROVE  LET d == createEntries(c, id, size[id])
         IN /\ Stored(d, size, data) /\ SameFlobs(c, d) /\ d.buffer = c.buffer
            /\ d.used <= CacheSize
<1> DEFINE s == size[id]
           last == (s \div SlotSize) - 1
           Reached(e, n) ==
             /\ Stored(e, size, data) /\ SameFlobs(c, e) /\ e.buffer = c.buffer
             /\ e.used <= CacheSize
             /\ \A k \in DOMAIN e.cache : k[1] = id => k[2] < n
           Inv == [n \in 0 .. last + 1 |-> {e \in States : Reached(e, n)}]
           next(e, n) == reduce(putAtFront(e, <<id, n>>, NewEntry(n, s)))
           d == createEntries(c, id, s)
<1>0. s \in Nat /\ last \in Int /\ 0 <= last + 1 /\ s \div SlotSize \in Nat
  <2>1. s \in Nat
    BY FlobAssumption DEF Stored, SizesOK
  <2>2. s \div SlotSize \in Nat
    BY <2>1, SlotNumbers
  <2> QED
    BY <2>1, <2>2
<1>1. c \in Inv[0]
  <2>1. c \in States /\ SameFlobs(c, c)
    BY DEF Stored, Listed, SameFlobs
  <2>2. Reached(c, 0)
    BY <2>1 DEF NoEntries
  <2> HIDE DEF Reached
  <2> QED
    BY <1>0, <2>1, <2>2
<1>2. ASSUME NEW n \in 0 .. last, NEW e \in Inv[n] PROVE next(e, n) \in Inv[n + 1]
  <2> DEFINE key == <<id, n>>
             entry == NewEntry(n, s)
             p == putAtFront(e, key, entry)
             q == reduce(p)
  <2>0. n \in Nat /\ n < s \div SlotSize /\ n \in 0 .. last + 1 /\ n + 1 \in 0 .. last + 1
    BY <1>0
  <2>1. Reached(e, n)
    <3> HIDE DEF Reached
    <3> QED
      BY <2>0
  <2>2. /\ Stored(e, size, data) /\ SameFlobs(c, e) /\ e.buffer = c.buffer
        /\ \A k \in DOMAIN e.cache : k[1] = id => k[2] < n
    BY <2>1
  <2>3. key \notin DOMAIN e.cache
    BY <2>0, <2>2
  <2>4. SlotCells(n, s) # {} /\ SlotCells(n, s) \subseteq Nat
    BY <1>0, <2>0, FullSlot, SlotCellsFinite
  <2>5. /\ entry \in Entries /\ DOMAIN entry.mem = SlotCells(n, s)
        /\ Carries(entry, data[id])
    <3> HIDE DEF s
    <3> DEFINE mem == [x \in SlotCells(n, s) |-> Garbage]
    <3>1. entry = [mem |-> mem, changed |-> FALSE]
      BY DEF NewEntry
    <3>2. DOMAIN mem = SlotCells(n, s) /\ mem \in [SlotCells(n, s) -> Cell]
      BY DEF Cell
    <3> HIDE DEF entry, mem
    <3>3. mem \in Memories
      BY <2>4, <3>2, MemoriesAre
    <3>4. entry \in Entries /\ entry.mem = mem
      BY <3>1, <3>3 DEF Entries
    <3> QED
      BY <3>2, <3>4 DEF Carries
  <2>6. /\ Stored(p, size, data) /\ SameFlobs(e, p) /\ p.buffer = e.buffer
        /\ DOMAIN p.cache = DOMAIN e.cache \cup {key}
    <3> HIDE DEF entry
    <3>1. entry \in Entries /\ Carries(entry, data[id])
      BY <2>5
    <3>2. DOMAIN entry.mem = SlotCells(n, size[id]) /\ DOMAIN entry.mem # {}
      BY <2>4, <2>5
    <3>3. Stored(e, size, data) /\ n \in Nat /\ <<id, n>> \notin DOMAIN e.cache
      BY <2>0, <2>2, <2>3
    <3> QED
      BY <3>1, <3>2, <3>3, PutStored
  <2> HIDE DEF p
  <2>7. /\ Stored(q, size, data) /\ SameFlobs(p, q) /\ q.buffer = p.buffer
        /\ DOMAIN q.cache \subseteq DOMAIN p.cache /\ q.used <= CacheSize
    BY <2>6, ReduceStored
  <2> HIDE DEF q, key
  <2>8. SameFlobs(c, q) /\ q.buffer = c.buffer /\ q \in States
    BY <2>2, <2>6, <2>7 DEF SameFlobs, Stored, Listed
  <2>9. \A k \in DOMAIN q.cache : k[1] = id => k[2] < n + 1
    <3>1. key[2] = n
      BY DEF key
    <3>2. \A k \in DOMAIN e.cache : k[2] \in Nat
      BY <2>2, KeysOf
    <3> QED
      BY <2>0, <2>2, <2>6, <2>7, <3>1, <3>2
  <2>10. Reached(q, n + 1)
    BY <2>7, <2>8, <2>9
  <2>11. q \in Inv[n + 1]
    <3> HIDE DEF Reached
    <3> QED
      BY <2>0, <2>8, <2>10
  <2> HIDE DEF Inv
  <2> QED
    BY <2>11 DEF q, p, key
<1>3. CASE 0 > last
  <2>1. d = c
    BY <1>3 DEF createEntries, ForSlots
  <2>2. SameFlobs(c, c)
    BY DEF SameFlobs
  <2> HIDE DEF d
  <2> QED
    BY <2>1, <2>2 DEF d
<1>4. CASE 0 <= last
  <2>1. d \in Inv[last + 1]
    <3> DEFINE Loop(f) == f = [n \in 0 .. last + 1 |->
                                 IF n = 0 THEN c ELSE next(f[n - 1], n - 1)]
               step == [n \in 0 .. last |-> [e \in Inv[n] |-> next(e, n)]]
    <3>1. \E f : Loop(f)
      <4>1. PICK f : RunsLoop(f, 0, last + 1, c, step) /\ Keeps(f, 0, last + 1, Inv)
        <5>1. \A n \in 0 .. (last + 1) - 1 : \A e \in Inv[n] : step[n][e] \in Inv[n + 1]
          <6>1. ASSUME NEW n \in 0 .. (last + 1) - 1, NEW e \in Inv[n]
                PROVE  step[n][e] \in Inv[n + 1]
            <7>1. n \in 0 .. last
              BY <1>0
            <7>2. step[n][e] = next(e, n)
              <8> HIDE DEF Inv, next
              <8> QED
                BY <7>1
            <7> HIDE DEF step, Inv, next
            <7> QED
              BY <1>2, <7>1, <7>2
          <6> HIDE DEF step, Inv
          <6> QED
            BY <6>1
        <5>2. 0 \in Int /\ last + 1 \in Int /\ 0 <= last + 1
          BY <1>0, <1>4
        <5> HIDE DEF Inv, step
        <5> QED
          BY <1>1, <5>1, <5>2, LoopRuns
      <4>2. ASSUME NEW n \in 0 + 1 .. last + 1
            PROVE  step[n - 1][f[n - 1]] = next(f[n - 1], n - 1)
        <5>1. n - 1 \in 0 .. last /\ n - 1 \in 0 .. last + 1
          BY <1>0
        <5>2. f[n - 1] \in Inv[n - 1]
          <6> HIDE DEF Inv, step
          <6> QED
            BY <4>1, <5>1 DEF Keeps
        <5> HIDE DEF Inv, next
        <5> QED
          BY <5>1, <5>2
      <4>3. Loop(f)
        <5>1. \A n \in 0 .. last + 1 : n # 0 => n \in 0 + 1 .. last + 1
          BY <1>0
        <5> HIDE DEF step, Inv, next
        <5> QED
          BY <4>1, <4>2, <5>1 DEF RunsLoop
      <4> QED
        BY <4>3
    <3>2. PICK f : Loop(f) /\ d = f[last + 1]
      <4>1. Loop(CHOOSE f : Loop(f))
        BY <3>1
      <4>2. d = (CHOOSE f : Loop(f))[last + 1]
        <5>1. ~ (0 > last)
          BY <1>0, <1>4
        <5> QED
          BY <5>1 DEF createEntries, ForSlots
      <4> HIDE DEF Loop, d
      <4> QED
        BY <4>1, <4>2
    <3>3. \A n \in 0 .. last + 1 : f[n] \in Inv[n]
      <4> DEFINE T == {n \in 0 .. last + 1 : f[n] \in Inv[n]}
      <4>1. 0 \in T
        <5>1. f[0] = c /\ 0 \in 0 .. last + 1
          BY <1>0, <1>4, <3>2
        <5> HIDE DEF Inv
        <5> QED
          BY <1>1, <5>1
      <4>2. Ascends(T, 0, last + 1)
        <5> SUFFICES ASSUME NEW n \in 0 .. (last + 1) - 1, n \in T PROVE n + 1 \in T
          BY DEF Ascends
        <5>1. n + 1 \in 0 .. last + 1 /\ n + 1 # 0 /\ (n + 1) - 1 = n /\ n \in 0 .. last
          BY <1>0
        <5>2. f[n + 1] = next(f[n], n)
          <6> HIDE DEF next
          <6> QED
            BY <3>2, <5>1
        <5> HIDE DEF next, Inv
        <5> QED
          BY <1>2, <5>1, <5>2
      <4> HIDE DEF T
      <4>3. \A n \in 0 .. last + 1 : n \in T
        <5>1. 0 \in Int /\ last + 1 \in Int /\ 0 <= last + 1
          BY <1>0, <1>4
        <5> QED
          BY <4>1, <4>2, <5>1, AscendTo
      <4> QED
        BY <4>3 DEF T
    <3>4. last + 1 \in 0 .. last + 1
      BY <1>0, <1>4
    <3> HIDE DEF Inv, d
    <3> QED
      BY <3>2, <3>3, <3>4
  <2>2. Reached(d, last + 1)
    <3>1. last + 1 \in 0 .. last + 1
      BY <1>0
    <3> HIDE DEF Reached, d
    <3> QED
      BY <2>1, <3>1
  <2> QED
    BY <2>2
<1> QED
  BY <1>0, <1>3, <1>4

\* The field of the buffer changes.
WithBuffer(c, buffer) == [c EXCEPT !.buffer = buffer]

\* The buffer of a read changes nothing that is stored.
LEMMA NewBuffer ==
  ASSUME NEW c, NEW size, NEW data, Stored(c, size, data), NEW buffer \in Memories
  PROVE  LET d == WithBuffer(c, buffer)
         IN /\ Stored(d, size, data) /\ SameFlobs(c, d)
            /\ d.buffer = buffer /\ d.cache = c.cache /\ d.used = c.used
<1> DEFINE d == WithBuffer(c, buffer)
<1>1. c \in States
  BY DEF Stored, Listed
<1>2. d = [file |-> c.file, cache |-> c.cache, lru |-> c.lru, used |-> c.used,
           buffer |-> buffer, destroyed |-> c.destroyed, f |-> c.f]
  <2>1. /\ DOMAIN d = DOMAIN c /\ d = [x \in DOMAIN d |-> d[x]]
        /\ d.cache = c.cache /\ d.lru = c.lru /\ d.used = c.used /\ d.file = c.file
        /\ d.buffer = buffer /\ d.destroyed = c.destroyed /\ d.f = c.f
    BY <1>1 DEF WithBuffer, States
  <2>2. DOMAIN c = {"file", "cache", "lru", "used", "buffer", "destroyed", "f"}
    BY <1>1 DEF States
  <2> HIDE DEF d
  <2> QED
    BY <2>1, <2>2
<1> HIDE DEF d
<1>3. d \in States
  BY <1>1, <1>2 DEF States
<1>4. /\ d.file = c.file /\ d.cache = c.cache /\ d.lru = c.lru /\ d.used = c.used
      /\ d.buffer = buffer /\ d.destroyed = c.destroyed /\ d.f = c.f
  BY <1>2
<1>5. Stored(d, size, data)
  BY <1>3, <1>4, SameStore
<1> QED
  BY <1>4, <1>5 DEF SameFlobs, d

\* Reading moves an entry to the front.
LEMMA BringStored ==
  ASSUME NEW c, NEW size, NEW data, Stored(c, size, data), NEW key \in DOMAIN c.cache
  PROVE  LET d == bringToFront(c, key)
         IN /\ Stored(d, size, data) /\ SameFlobs(c, d) /\ d.buffer = c.buffer
            /\ d.cache = c.cache /\ d.used = c.used
<1> DEFINE d == bringToFront(c, key)
<1>1. Listed(c)
  BY DEF Stored
<1>2. /\ Listed(d) /\ SameFlobs(c, d) /\ d.file = c.file /\ d.cache = c.cache
      /\ d.buffer = c.buffer /\ d.used = c.used
  BY <1>1, BringToFrontListed
<1> HIDE DEF d
<1>3. SizesOK(d, size, data) /\ Fits(d.cache, size)
  BY <1>2 DEF Stored, SizesOK
<1>4. Holds(d, data)
  BY <1>2 DEF Stored, Holds
<1> QED
  BY <1>2, <1>3, <1>4 DEF Stored, d

\* A slot is read.
LEMMA ReadSlotStored ==
  ASSUME NEW c, NEW size, NEW data, Stored(c, size, data), c.used <= CacheSize,
         NEW id \in DOMAIN size, NEW slot \in Nat, SlotCells(slot, size[id]) # {}
  PROVE  LET d == getDataFromSlot(c, id, size[id], slot)
         IN /\ Stored(d, size, data) /\ SameFlobs(c, d) /\ d.used <= CacheSize
            /\ DOMAIN d.buffer = DOMAIN c.buffer \cup SlotCells(slot, size[id])
            /\ \A x \in DOMAIN c.buffer : x \notin SlotCells(slot, size[id]) =>
                 d.buffer[x] = c.buffer[x]
            /\ \A x \in DOMAIN data[id] : x \in SlotCells(slot, size[id]) =>
                 d.buffer[x] = data[id][x]
<1> DEFINE key == <<id, slot>>
           s == size[id]
           e == IF key \in DOMAIN c.cache THEN bringToFront(c, key) ELSE Loaded(c, id, s, slot)
           buffer == Overwritten(e.buffer, e.cache[key].mem)
           d == getDataFromSlot(c, id, s, slot)
<1>1. /\ Stored(e, size, data) /\ SameFlobs(c, e) /\ e.buffer = c.buffer
      /\ key \in DOMAIN e.cache /\ e.used <= CacheSize
  <2>1. CASE key \in DOMAIN c.cache
    <3> HIDE DEF key
    <3>1. e = bringToFront(c, key)
      BY <2>1
    <3> HIDE DEF e
    <3> QED
      BY <2>1, <3>1, BringStored
  <2>2. CASE key \notin DOMAIN c.cache
    <3>1. e = Loaded(c, id, size[id], slot)
      BY <2>2
    <3> HIDE DEF e
    <3> QED
      BY <2>2, <3>1, LoadStored
  <2> QED
    BY <2>1, <2>2
<1>2. d = WithBuffer(e, buffer)
  BY DEF getDataFromSlot, WithBuffer
<1>3. key[1] = id /\ key[2] = slot
  OBVIOUS
<1> HIDE DEF e, d, key
<1>5. /\ e.cache[key].mem \in Memories /\ e.buffer \in Memories
      /\ DOMAIN e.cache[key].mem = SlotCells(slot, s)
  BY <1>1, <1>3, KeysOf DEF Stored, Fits, Listed, States
<1>6. /\ DOMAIN buffer = DOMAIN c.buffer \cup SlotCells(slot, s)
      /\ \A x \in DOMAIN c.buffer : x \notin SlotCells(slot, s) => buffer[x] = c.buffer[x]
      /\ \A x \in SlotCells(slot, s) : buffer[x] = e.cache[key].mem[x]
  BY <1>1, <1>5 DEF Overwritten
<1>7. buffer \in Memories
  <2>1. /\ DOMAIN e.cache[key].mem \subseteq Nat /\ DOMAIN e.buffer \subseteq Nat
        /\ \A x \in DOMAIN e.cache[key].mem : e.cache[key].mem[x] \in Cell
        /\ \A x \in DOMAIN e.buffer : e.buffer[x] \in Cell
    BY <1>5, MemoriesAre
  <2>2. DOMAIN buffer \subseteq Nat /\ \A x \in DOMAIN buffer : buffer[x] \in Cell
    BY <2>1 DEF Overwritten
  <2>3. buffer = [x \in DOMAIN buffer |-> buffer[x]]
    BY DEF Overwritten
  <2> HIDE DEF buffer
  <2> QED
    BY <2>2, <2>3, MemoriesAre
<1>8. \A x \in DOMAIN data[id] : x \in SlotCells(slot, s) => e.cache[key].mem[x] = data[id][x]
  <2> SUFFICES ASSUME NEW x \in DOMAIN data[id], x \in SlotCells(slot, s)
               PROVE  e.cache[key].mem[x] = data[id][x]
    OBVIOUS
  <2>1. id \in DOMAIN data /\ s \in Nat
    BY <1>1, FlobAssumption DEF Stored, SizesOK
  <2>2. x \div SlotSize = slot
    BY <2>1, SlotCellsAre
  <2>3. SlotOf(id, x) = key
    BY <2>2 DEF SlotOf, key
  <2> QED
    BY <1>1, <2>1, <2>3 DEF Stored, Holds
<1> HIDE DEF buffer, s
<1>9. /\ Stored(d, size, data) /\ SameFlobs(e, d) /\ d.buffer = buffer /\ d.used = e.used
  BY <1>1, <1>2, <1>7, NewBuffer
<1>10. SameFlobs(c, d)
  BY <1>1, <1>9 DEF SameFlobs
<1> QED
  BY <1>1, <1>6, <1>8, <1>9, <1>10 DEF d, s

\* Cells are read.
LEMMA GetDataStored ==
  ASSUME NEW c, NEW size, NEW data, Stored(c, size, data), c.used <= CacheSize,
         NEW id \in DOMAIN size, NEW first \in Nat, NEW last \in Nat,
         first <= last, last < size[id]
  PROVE  LET d == getData(c, id, size[id], first, last)
         IN /\ Stored(d, size, data) /\ SameFlobs(c, d) /\ d.used <= CacheSize
            /\ first .. last \subseteq DOMAIN d.buffer
            /\ DOMAIN d.buffer \subseteq Cells(size[id])
            /\ \A x \in DOMAIN data[id] : x \in DOMAIN d.buffer => d.buffer[x] = data[id][x]
<1> DEFINE s == size[id]
           from == first \div SlotSize
           to == last \div SlotSize
           start == WithBuffer(c, <<>>)
           Reached(e, n) ==
             /\ Stored(e, size, data) /\ SameFlobs(c, e) /\ e.used <= CacheSize
             /\ DOMAIN e.buffer \subseteq Cells(s)
             /\ \A x \in Cells(s) : from <= x \div SlotSize /\ x \div SlotSize < n =>
                  x \in DOMAIN e.buffer
             /\ \A x \in DOMAIN data[id] : x \in DOMAIN e.buffer => e.buffer[x] = data[id][x]
           Inv == [n \in from .. to + 1 |-> {e \in States : Reached(e, n)}]
           next(e, n) == getDataFromSlot(e, id, s, n)
           d == getData(c, id, s, first, last)
<1>0. s \in Nat /\ from \in Nat /\ to \in Nat /\ from <= to
  <2>1. s \in Nat
    BY FlobAssumption DEF Stored, SizesOK
  <2> QED
    BY <2>1, SlotNumbers, SlotsAscend
<1>1. start \in Inv[from]
  <2>1. <<>> \in Memories /\ DOMAIN <<>> = {}
    <3>1. <<>> \in [DOMAIN <<>> -> Cell] /\ DOMAIN <<>> = {}
      OBVIOUS
    <3> QED
      BY <3>1, MemoriesAre
  <2>2. /\ Stored(start, size, data) /\ SameFlobs(c, start) /\ start.buffer = <<>>
        /\ start.used = c.used
    BY <2>1, NewBuffer
  <2> HIDE DEF start
  <2>3. start \in States
    BY <2>2 DEF Stored, Listed
  <2>4. \A x \in Cells(s) : x \div SlotSize \in Nat
    <3>1. \A x \in Cells(s) : x \in Nat
      BY <1>0 DEF Cells
    <3> QED
      BY <3>1, SlotNumbers
  <2>5. Reached(start, from)
    <3> HIDE DEF from, s
    <3> QED
      BY <1>0, <2>1, <2>2, <2>4
  <2> HIDE DEF Reached
  <2> QED
    BY <1>0, <2>3, <2>5
<1>2. ASSUME NEW n \in from .. to, NEW e \in Inv[n] PROVE next(e, n) \in Inv[n + 1]
  <2> DEFINE q == getDataFromSlot(e, id, s, n)
  <2>0. n \in Nat /\ n \in from .. to + 1 /\ n + 1 \in from .. to + 1
    BY <1>0
  <2>1. Reached(e, n)
    <3> HIDE DEF Reached
    <3> QED
      BY <2>0
  <2>2. /\ Stored(e, size, data) /\ SameFlobs(c, e) /\ e.used <= CacheSize
    BY <2>1
  <2>3. SlotCells(n, s) # {}
    <3>1. CASE n = to
      <4>1. last \in {x \in Cells(s) : x \div SlotSize = n}
        BY <1>0, <3>1 DEF Cells
      <4> QED
        BY <1>0, <2>0, <4>1, SlotCellsAre
    <3>2. CASE n < to
      <4>1. to <= s \div SlotSize /\ s \div SlotSize \in Nat
        BY <1>0, SlotNumbers, SlotsAscend
      <4>2. n < s \div SlotSize
        <5> HIDE DEF to, s
        <5> QED
          BY <1>0, <2>0, <3>2, <4>1
      <4> QED
        BY <1>0, <2>0, <4>2, FullSlot
    <3> QED
      BY <1>0, <3>1, <3>2
  <2>4. /\ Stored(q, size, data) /\ SameFlobs(e, q) /\ q.used <= CacheSize
        /\ DOMAIN q.buffer = DOMAIN e.buffer \cup SlotCells(n, s)
        /\ \A x \in DOMAIN e.buffer : x \notin SlotCells(n, s) => q.buffer[x] = e.buffer[x]
        /\ \A x \in DOMAIN data[id] : x \in SlotCells(n, s) => q.buffer[x] = data[id][x]
    BY <2>0, <2>2, <2>3, ReadSlotStored
  <2> HIDE DEF q
  <2>5. SameFlobs(c, q) /\ q \in States
    BY <2>2, <2>4 DEF SameFlobs, Stored, Listed
  <2>6. SlotCells(n, s) = {x \in Cells(s) : x \div SlotSize = n}
    BY <1>0, <2>0, SlotCellsAre
  <2>7. \A x \in Cells(s) : x \div SlotSize \in Nat
    <3>1. \A x \in Cells(s) : x \in Nat
      BY <1>0 DEF Cells
    <3> QED
      BY <3>1, SlotNumbers
  <2>8. \A x \in Cells(s) : from <= x \div SlotSize /\ x \div SlotSize < n + 1 =>
          x \in DOMAIN q.buffer
    <3> HIDE DEF from, s
    <3> QED
      BY <2>0, <2>1, <2>4, <2>6, <2>7
  <2>9. \A x \in DOMAIN data[id] : x \in DOMAIN q.buffer => q.buffer[x] = data[id][x]
    BY <2>1, <2>4
  <2>10. DOMAIN q.buffer \subseteq Cells(s)
    BY <2>1, <2>4, <2>6
  <2>11. Reached(q, n + 1)
    <3> HIDE DEF from, s
    <3> QED
      BY <2>4, <2>5, <2>8, <2>9, <2>10
  <2>12. q \in Inv[n + 1]
    <3> HIDE DEF Reached
    <3> QED
      BY <2>0, <2>5, <2>11
  <2> HIDE DEF Inv
  <2> QED
    BY <2>12 DEF q
<1>3. d \in Inv[to + 1]
  <2> DEFINE Loop(f) == f = [n \in from .. to + 1 |->
                               IF n = from THEN start ELSE next(f[n - 1], n - 1)]
             step == [n \in from .. to |-> [e \in Inv[n] |-> next(e, n)]]
  <2>1. \E f : Loop(f)
    <3>1. PICK f : RunsLoop(f, from, to + 1, start, step) /\ Keeps(f, from, to + 1, Inv)
      <4>1. \A n \in from .. (to + 1) - 1 : \A e \in Inv[n] : step[n][e] \in Inv[n + 1]
        <5>1. ASSUME NEW n \in from .. (to + 1) - 1, NEW e \in Inv[n]
              PROVE  step[n][e] \in Inv[n + 1]
          <6>1. n \in from .. to
            BY <1>0
          <6>2. step[n][e] = next(e, n)
            <7> HIDE DEF Inv, next
            <7> QED
              BY <6>1
          <6> HIDE DEF step, Inv, next
          <6> QED
            BY <1>2, <6>1, <6>2
        <5> HIDE DEF step, Inv
        <5> QED
          BY <5>1
      <4>2. from \in Int /\ to + 1 \in Int /\ from <= to + 1
        BY <1>0
      <4> HIDE DEF Inv, step
      <4> QED
        BY <1>1, <4>1, <4>2, LoopRuns
    <3>2. ASSUME NEW n \in from + 1 .. to + 1
          PROVE  step[n - 1][f[n - 1]] = next(f[n - 1], n - 1)
      <4>1. n - 1 \in from .. to /\ n - 1 \in from .. to + 1
        BY <1>0
      <4>2. f[n - 1] \in Inv[n - 1]
        <5> HIDE DEF Inv, step
        <5> QED
          BY <3>1, <4>1 DEF Keeps
      <4> HIDE DEF Inv, next
      <4> QED
        BY <4>1, <4>2
    <3>3. Loop(f)
      <4>1. \A n \in from .. to + 1 : n # from => n \in from + 1 .. to + 1
        BY <1>0
      <4> HIDE DEF step, Inv, next
      <4> QED
        BY <3>1, <3>2, <4>1 DEF RunsLoop
    <3> QED
      BY <3>3
  <2>2. PICK f : Loop(f) /\ d = f[to + 1]
    <3>1. Loop(CHOOSE f : Loop(f))
      BY <2>1
    <3>2. d = (CHOOSE f : Loop(f))[to + 1]
      <4>1. ~ (from > to)
        BY <1>0
      <4> QED
        BY <4>1 DEF getData, ForSlots, WithBuffer
    <3> HIDE DEF Loop, d
    <3> QED
      BY <3>1, <3>2
  <2>3. \A n \in from .. to + 1 : f[n] \in Inv[n]
    <3> DEFINE T == {n \in from .. to + 1 : f[n] \in Inv[n]}
    <3>1. from \in T
      <4>1. f[from] = start /\ from \in from .. to + 1
        BY <1>0, <2>2
      <4> HIDE DEF Inv
      <4> QED
        BY <1>1, <4>1
    <3>2. Ascends(T, from, to + 1)
      <4> SUFFICES ASSUME NEW n \in from .. (to + 1) - 1, n \in T PROVE n + 1 \in T
        BY DEF Ascends
      <4>1. n + 1 \in from .. to + 1 /\ n + 1 # from /\ (n + 1) - 1 = n /\ n \in from .. to
        BY <1>0
      <4>2. f[n + 1] = next(f[n], n)
        <5> HIDE DEF next
        <5> QED
          BY <2>2, <4>1
      <4> HIDE DEF next, Inv
      <4> QED
        BY <1>2, <4>1, <4>2
    <3> HIDE DEF T
    <3>3. \A n \in from .. to + 1 : n \in T
      <4>1. from \in Int /\ to + 1 \in Int /\ from <= to + 1
        BY <1>0
      <4> QED
        BY <3>1, <3>2, <4>1, AscendTo
    <3> QED
      BY <3>3 DEF T
  <2>4. to + 1 \in from .. to + 1
    BY <1>0
  <2> HIDE DEF Inv, d
  <2> QED
    BY <2>2, <2>3, <2>4
<1>4. Reached(d, to + 1)
  <2>1. to + 1 \in from .. to + 1
    BY <1>0
  <2> HIDE DEF Reached, d
  <2> QED
    BY <1>3, <2>1
<1>5. first .. last \subseteq DOMAIN d.buffer
  <2> SUFFICES ASSUME NEW x \in first .. last PROVE x \in DOMAIN d.buffer
    OBVIOUS
  <2>1. x \in Nat /\ first <= x /\ x <= last /\ x \in Cells(s)
    BY <1>0 DEF Cells
  <2>2. from <= x \div SlotSize /\ x \div SlotSize <= to /\ x \div SlotSize \in Nat
    BY <2>1, SlotsAscend, SlotNumbers
  <2>3. x \div SlotSize < to + 1
    <3> HIDE DEF to
    <3> QED
      BY <1>0, <2>2
  <2> HIDE DEF d
  <2> QED
    BY <1>4, <2>1, <2>2, <2>3
<1> QED
  BY <1>4, <1>5

\* The part of an array that lies in a slot, or before it.
InSlot(a, slot, size) == Restrict(a, DOMAIN a \cap SlotCells(slot, size))
Before(a, slot) == [x \in {y \in DOMAIN a : y \div SlotSize < slot} |-> a[x]]

\* A slot is written, and marked.
LEMMA WriteSlotStored ==
  ASSUME NEW c, NEW size, NEW data, Stored(c, size, data), c.used <= CacheSize,
         NEW id \in DOMAIN size, NEW slot \in Nat, SlotCells(slot, size[id]) # {},
         NEW a \in Memories
  PROVE  LET d == putDataToFlobSlot(c, id, size[id], slot, a)
         IN /\ SameFlobs(c, d) /\ d.used <= CacheSize
            /\ Stored(d, size, Assign(data, id, Overwritten(data[id], InSlot(a, slot, size[id]))))
<1> DEFINE key == <<id, slot>>
           s == size[id]
           e == IF key \in DOMAIN c.cache THEN c ELSE Loaded(c, id, s, slot)
           new == InSlot(a, slot, s)
           old == e.cache[key].mem
           mem == Overwritten(old, new)
           entry == [mem |-> mem, changed |-> TRUE]
           d == putDataToFlobSlot(c, id, s, slot, a)
           rest == Assign(data, id, Overwritten(data[id], new))
<1>1. /\ Stored(e, size, data) /\ SameFlobs(c, e)
      /\ key \in DOMAIN e.cache /\ e.used <= CacheSize
  <2>1. CASE key \in DOMAIN c.cache
    <3>1. e = c /\ SameFlobs(c, c)
      BY <2>1 DEF SameFlobs
    <3> HIDE DEF e
    <3> QED
      BY <2>1, <3>1
  <2>2. CASE key \notin DOMAIN c.cache
    <3>1. e = Loaded(c, id, size[id], slot)
      BY <2>2
    <3> HIDE DEF e
    <3> QED
      BY <2>2, <3>1, LoadStored
  <2> QED
    BY <2>1, <2>2
<1>2. d = [e EXCEPT !.cache[key].mem = mem, !.cache[key].changed = TRUE]
  BY DEF putDataToFlobSlot, InSlot
<1>3. key[1] = id /\ key[2] = slot
  OBVIOUS
<1> HIDE DEF e, d, key
<1>4. Listed(e) /\ SizesOK(e, size, data) /\ Fits(e.cache, size) /\ Holds(e, data)
  BY <1>1 DEF Stored
<1>5. /\ old \in Memories /\ e.cache[key] \in Entries
      /\ DOMAIN old = SlotCells(slot, s) /\ IsFiniteSet(DOMAIN old)
  BY <1>1, <1>3, <1>4, KeysOf DEF Fits
<1>6. DOMAIN new = DOMAIN a \cap SlotCells(slot, s) /\ \A x \in DOMAIN new : new[x] = a[x]
  BY DEF InSlot, Restrict
<1> HIDE DEF new, s
<1>7. DOMAIN mem = DOMAIN old
      /\ \A x \in DOMAIN old : mem[x] = IF x \in DOMAIN new THEN new[x] ELSE old[x]
  BY <1>5, <1>6 DEF Overwritten
<1>8. mem \in Memories
  <2>1. /\ DOMAIN old \subseteq Nat
        /\ \A x \in DOMAIN old : old[x] \in Cell
        /\ \A x \in DOMAIN a : a[x] \in Cell
    BY <1>5, MemoriesAre
  <2>2. DOMAIN mem \subseteq Nat /\ \A x \in DOMAIN mem : mem[x] \in Cell
    <3> HIDE DEF mem
    <3> QED
      BY <1>6, <1>7, <2>1
  <2>3. mem = [x \in DOMAIN mem |-> mem[x]]
    BY DEF Overwritten
  <2> HIDE DEF mem
  <2> QED
    BY <2>2, <2>3, MemoriesAre
<1>9. entry \in Entries /\ entry.mem = mem /\ entry.changed = TRUE
  <2> HIDE DEF mem
  <2> QED
    BY <1>8 DEF Entries
<1>10. d = Replaced(e, key, entry)
  <2>1. e \in States /\ e.cache \in [DOMAIN e.cache -> Entries]
    BY <1>4, CachesAre DEF Listed, States
  <2>2. e.cache[key] \in [mem : Memories, changed : BOOLEAN]
    BY <1>5 DEF Entries
  <2> HIDE DEF mem
  <2>3. [e.cache[key] EXCEPT !.mem = mem, !.changed = TRUE] = entry
    <3> DEFINE r == [e.cache[key] EXCEPT !.mem = mem, !.changed = TRUE]
    <3>1. /\ DOMAIN r = DOMAIN e.cache[key] /\ r = [x \in DOMAIN r |-> r[x]]
          /\ r.mem = mem /\ r.changed = TRUE
      BY <2>2
    <3>2. DOMAIN e.cache[key] = {"mem", "changed"}
      BY <2>2
    <3> HIDE DEF r
    <3>3. r = entry
      BY <3>1, <3>2
    <3> QED
      BY <3>3 DEF r
  <2>4. d = [e EXCEPT !.cache = [e.cache EXCEPT ![key] =
                [e.cache[key] EXCEPT !.mem = mem, !.changed = TRUE]]]
    BY <1>1, <1>2, <2>1
  <2> HIDE DEF entry
  <2> DEFINE slotCache == [e.cache EXCEPT ![key] = entry]
  <2>5. d = [e EXCEPT !.cache = slotCache]
    BY <2>3, <2>4
  <2>6. e.used + Cardinality(DOMAIN entry.mem) - Cardinality(DOMAIN old) = e.used
    <3>1. Cardinality(DOMAIN old) \in Nat /\ e.used \in Int
      BY <1>5, <2>1, FS_CardinalityType DEF States
    <3> QED
      BY <1>7, <1>9, <3>1
  <2>7. Replaced(e, key, entry) = With(e, slotCache, e.lru, e.used)
    BY <2>6 DEF Replaced
  <2> HIDE DEF slotCache
  <2> QED
    BY <2>1, <2>5, <2>7 DEF With, States
<1> HIDE DEF mem, entry
<1>11. /\ Listed(d) /\ SameFlobs(e, d) /\ d.file = e.file
       /\ DOMAIN d.cache = DOMAIN e.cache /\ d.cache[key] = entry
       /\ \A k \in DOMAIN e.cache : k # key => d.cache[k] = e.cache[k]
       /\ d.used = e.used + Cardinality(DOMAIN entry.mem) - Cardinality(DOMAIN old)
  <2>1. IsFiniteSet(DOMAIN entry.mem)
    BY <1>5, <1>7, <1>9
  <2>2. key \in DOMAIN e.cache /\ entry \in Entries
    BY <1>1, <1>9
  <2> QED
    BY <1>4, <1>10, <2>1, <2>2, ReplaceListed
<1>12. d.used <= CacheSize
  <2>1. Cardinality(DOMAIN old) \in Nat /\ e.used \in Int
    BY <1>4, <1>5, FS_CardinalityType DEF Listed, States
  <2> QED
    BY <1>1, <1>7, <1>9, <1>11, <2>1
<1>13. SameFlobs(c, d)
  BY <1>1, <1>11 DEF SameFlobs
<1>14. id \in DOMAIN data /\ s \in Nat
  BY <1>4, FlobAssumption DEF SizesOK, s
<1>15. /\ DOMAIN rest = DOMAIN data
       /\ rest[id] = Overwritten(data[id], new)
       /\ \A i \in DOMAIN data : i # id => rest[i] = data[i]
  BY <1>14 DEF Assign
<1>16. /\ DOMAIN rest[id] = DOMAIN data[id] \cup DOMAIN new
       /\ \A x \in DOMAIN rest[id] :
            rest[id][x] = IF x \in DOMAIN new THEN new[x] ELSE data[id][x]
  BY <1>15 DEF Overwritten
<1> HIDE DEF rest
<1>17. SizesOK(d, size, rest)
  <2>1. DOMAIN new \subseteq Cells(s)
    BY <1>6 DEF SlotCells
  <2> QED
    BY <1>4, <1>11, <1>15, <1>16, <2>1 DEF SizesOK, SameFlobs, s
<1>18. Fits(d.cache, size)
  BY <1>4, <1>7, <1>9, <1>11 DEF Fits
<1>19. Holds(d, rest)
  <2> SUFFICES ASSUME NEW i \in DOMAIN rest, NEW x \in DOMAIN rest[i]
               PROVE  LET k == SlotOf(i, x)
                      IN /\ k \in DOMAIN d.cache => d.cache[k].mem[x] = rest[i][x]
                         /\ (k \in DOMAIN d.cache => ~ d.cache[k].changed) =>
                              OnDisk(d.file, i, x) = rest[i][x]
    BY DEF Holds
  <2> DEFINE k == SlotOf(i, x)
  <2>1. CASE k = key
    <3>1. i = id /\ x \div SlotSize = slot
      BY <2>1 DEF SlotOf, key
    <3>2. x \in SlotCells(slot, s)
      BY <1>14, <1>17, <3>1, WrittenCell DEF s
    <3>3. x \in DOMAIN data[id] => old[x] = data[id][x]
      BY <1>1, <1>4, <1>14, <2>1, <3>1 DEF Holds
    <3>4. mem[x] = rest[id][x]
      BY <1>5, <1>7, <1>16, <3>1, <3>2, <3>3
    <3> HIDE DEF k
    <3> QED
      BY <1>1, <1>9, <1>11, <2>1, <3>1, <3>4 DEF k
  <2>2. CASE k # key
    <3>1. i \in DOMAIN data /\ x \in DOMAIN data[i] /\ rest[i][x] = data[i][x]
      <4>1. CASE i # id
        BY <1>15, <4>1
      <4>2. CASE i = id
        <5>1. x \div SlotSize # slot
          BY <2>2, <4>2 DEF SlotOf, key
        <5>2. x \notin DOMAIN new
          BY <1>6, <1>14, <5>1, SlotCellsAre
        <5> QED
          BY <1>14, <1>16, <4>2, <5>2
      <4> QED
        BY <4>1, <4>2
    <3>2. /\ k \in DOMAIN e.cache => e.cache[k].mem[x] = data[i][x]
          /\ (k \in DOMAIN e.cache => ~ e.cache[k].changed) =>
               OnDisk(e.file, i, x) = data[i][x]
      BY <1>4, <3>1 DEF Holds
    <3> HIDE DEF k
    <3> QED
      BY <1>11, <2>2, <3>1, <3>2 DEF k
  <2> QED
    BY <2>1, <2>2
<1>20. Stored(d, size, rest)
  BY <1>11, <1>17, <1>18, <1>19 DEF Stored
<1> QED
  BY <1>12, <1>13, <1>20 DEF d, rest, new, s

\* Cells are written.
LEMMA PutDataStored ==
  ASSUME NEW c, NEW size, NEW data, Stored(c, size, data), c.used <= CacheSize,
         NEW id \in DOMAIN size, NEW first \in Nat, NEW last \in Nat,
         first <= last, last < size[id], NEW a \in Memories, DOMAIN a = first .. last
  PROVE  LET d == putData(c, id, size[id], first, last, a)
         IN /\ Stored(d, size, Assign(data, id, Overwritten(data[id], a)))
            /\ SameFlobs(c, d) /\ d.used <= CacheSize
<1> DEFINE s == size[id]
           from == first \div SlotSize
           to == last \div SlotSize
           sofar(n) == Assign(data, id, Overwritten(data[id], Before(a, n)))
           Reached(e, n) ==
             /\ Stored(e, size, sofar(n)) /\ SameFlobs(c, e) /\ e.used <= CacheSize
           Inv == [n \in from .. to + 1 |-> {e \in States : Reached(e, n)}]
           next(e, n) == putDataToFlobSlot(e, id, s, n, a)
           d == putData(c, id, s, first, last, a)
<1>0. s \in Nat /\ from \in Nat /\ to \in Nat /\ from <= to
  <2>1. s \in Nat
    BY FlobAssumption DEF Stored, SizesOK
  <2> QED
    BY <2>1, SlotNumbers, SlotsAscend
<1>1. id \in DOMAIN data
  BY DEF Stored, SizesOK
<1>2. \A x \in DOMAIN a : /\ x \in Nat /\ x \in Cells(s) /\ x \div SlotSize \in Nat
                         /\ from <= x \div SlotSize /\ x \div SlotSize <= to
  <2> SUFFICES ASSUME NEW x \in first .. last
               PROVE  /\ x \in Nat /\ x \in Cells(s) /\ x \div SlotSize \in Nat
                      /\ from <= x \div SlotSize /\ x \div SlotSize <= to
    OBVIOUS
  <2>1. x \in Nat /\ first <= x /\ x <= last /\ x \in Cells(s)
    BY <1>0 DEF Cells
  <2> QED
    BY <2>1, SlotsAscend, SlotNumbers
<1>3. c \in Inv[from]
  <2>1. c \in States /\ SameFlobs(c, c)
    BY DEF Stored, Listed, SameFlobs
  <2>2. DOMAIN Before(a, from) = {}
    <3>1. \A x \in DOMAIN a : ~ (x \div SlotSize < from)
      <4> HIDE DEF from
      <4> QED
        BY <1>0, <1>2
    <3> QED
      BY <3>1 DEF Before
  <2>3. Part(sofar(from), data, {})
    <3>1. /\ DOMAIN sofar(from) = DOMAIN data
          /\ sofar(from)[id] = Overwritten(data[id], Before(a, from))
          /\ \A i \in DOMAIN data : i # id => sofar(from)[i] = data[i]
      BY <1>1 DEF Assign
    <3>2. DOMAIN sofar(from)[id] = DOMAIN data[id]
          /\ \A x \in DOMAIN data[id] : sofar(from)[id][x] = data[id][x]
      <4> HIDE DEF from
      <4> QED
        BY <3>1, <2>2 DEF Overwritten
    <3> HIDE DEF sofar
    <3> QED
      BY <3>1, <3>2 DEF Part
  <2>4. Stored(c, size, sofar(from))
    <3> HIDE DEF sofar
    <3> QED
      BY <2>3, FewerStored
  <2>5. Reached(c, from)
    BY <2>1, <2>4
  <2> HIDE DEF Reached
  <2> QED
    BY <1>0, <2>1, <2>5
<1>4. ASSUME NEW n \in from .. to, NEW e \in Inv[n] PROVE next(e, n) \in Inv[n + 1]
  <2> DEFINE q == putDataToFlobSlot(e, id, s, n, a)
             now == sofar(n)
             then == Assign(now, id, Overwritten(now[id], InSlot(a, n, s)))
  <2>0. n \in Nat /\ n \in from .. to + 1 /\ n + 1 \in from .. to + 1
    BY <1>0
  <2>1. Reached(e, n)
    <3> HIDE DEF Reached
    <3> QED
      BY <2>0
  <2>2. /\ Stored(e, size, now) /\ SameFlobs(c, e) /\ e.used <= CacheSize
    BY <2>1
  <2>3. SlotCells(n, s) # {}
    <3>1. CASE n = to
      <4>1. last \in {x \in Cells(s) : x \div SlotSize = n}
        BY <1>0, <3>1 DEF Cells
      <4> QED
        BY <1>0, <2>0, <4>1, SlotCellsAre
    <3>2. CASE n < to
      <4>1. to <= s \div SlotSize /\ s \div SlotSize \in Nat
        BY <1>0, SlotNumbers, SlotsAscend
      <4>2. n < s \div SlotSize
        <5> HIDE DEF to, s
        <5> QED
          BY <1>0, <2>0, <3>2, <4>1
      <4> QED
        BY <1>0, <2>0, <4>2, FullSlot
    <3> QED
      BY <1>0, <3>1, <3>2
  <2>4. /\ SameFlobs(e, q) /\ q.used <= CacheSize /\ Stored(q, size, then)
    <3> HIDE DEF now
    <3> QED
      BY <2>0, <2>2, <2>3, WriteSlotStored
  <2> HIDE DEF q
  <2>5. SameFlobs(c, q) /\ q \in States
    BY <2>2, <2>4 DEF SameFlobs, Stored, Listed
  <2>6. Overwritten(Overwritten(data[id], Before(a, n)), InSlot(a, n, s))
          = Overwritten(data[id], Before(a, n + 1))
    <3> DEFINE b == Before(a, n)
               i == InSlot(a, n, s)
               j == Before(a, n + 1)
    <3>1. DOMAIN j = DOMAIN b \cup DOMAIN i
      <4>1. \A x \in DOMAIN a : x \in SlotCells(n, s) <=> x \div SlotSize = n
        BY <1>0, <1>2, <2>0, SlotCellsAre
      <4>2. \A x \in DOMAIN a : x \div SlotSize < n + 1
                                  <=> x \div SlotSize < n \/ x \div SlotSize = n
        BY <1>2, <2>0
      <4> QED
        BY <4>1, <4>2 DEF Before, InSlot, Restrict
    <3>2. /\ \A x \in DOMAIN i : i[x] = a[x]
          /\ \A x \in DOMAIN b : b[x] = a[x]
          /\ \A x \in DOMAIN j : j[x] = a[x]
      BY DEF Before, InSlot, Restrict
    <3> HIDE DEF b, i, j
    <3>3. DOMAIN Overwritten(data[id], b) = DOMAIN data[id] \cup DOMAIN b
          /\ \A x \in DOMAIN data[id] \cup DOMAIN b :
               Overwritten(data[id], b)[x] = IF x \in DOMAIN b THEN b[x] ELSE data[id][x]
      BY DEF Overwritten
    <3> DEFINE o == Overwritten(data[id], b)
    <3> HIDE DEF o
    <3>4. Overwritten(o, i) = [x \in DOMAIN o \cup DOMAIN i |->
                                 IF x \in DOMAIN i THEN i[x] ELSE o[x]]
      BY DEF Overwritten
    <3>5. Overwritten(data[id], j) = [x \in DOMAIN data[id] \cup DOMAIN j |->
                                        IF x \in DOMAIN j THEN j[x] ELSE data[id][x]]
      BY DEF Overwritten
    <3>6. DOMAIN o \cup DOMAIN i = DOMAIN data[id] \cup DOMAIN j
      BY <3>1, <3>3 DEF o
    <3>7. \A x \in DOMAIN o \cup DOMAIN i :
            (IF x \in DOMAIN i THEN i[x] ELSE o[x])
              = (IF x \in DOMAIN j THEN j[x] ELSE data[id][x])
      BY <3>1, <3>2, <3>3 DEF o
    <3>8. Overwritten(o, i) = Overwritten(data[id], j)
      BY <3>4, <3>5, <3>6, <3>7
    <3> QED
      BY <3>8 DEF o, b, i, j
  <2>7. then = sofar(n + 1)
    <3>1. now[id] = Overwritten(data[id], Before(a, n))
      BY DEF Assign
    <3>2. then = Assign(now, id, Overwritten(data[id], Before(a, n + 1)))
      <4> HIDE DEF now
      <4> QED
        BY <2>6, <3>1
    <3> QED
      BY <3>2, AssignedTwice
  <2> HIDE DEF then, now
  <2>8. Reached(q, n + 1)
    <3> HIDE DEF sofar
    <3> QED
      BY <2>4, <2>5, <2>7
  <2>9. q \in Inv[n + 1]
    <3> HIDE DEF Reached
    <3> QED
      BY <2>0, <2>5, <2>8
  <2> HIDE DEF Inv
  <2> QED
    BY <2>9 DEF q
<1>5. d \in Inv[to + 1]
  <2> DEFINE Loop(f) == f = [n \in from .. to + 1 |->
                               IF n = from THEN c ELSE next(f[n - 1], n - 1)]
             step == [n \in from .. to |-> [e \in Inv[n] |-> next(e, n)]]
  <2>1. \E f : Loop(f)
    <3>1. PICK f : RunsLoop(f, from, to + 1, c, step) /\ Keeps(f, from, to + 1, Inv)
      <4>1. \A n \in from .. (to + 1) - 1 : \A e \in Inv[n] : step[n][e] \in Inv[n + 1]
        <5>1. ASSUME NEW n \in from .. (to + 1) - 1, NEW e \in Inv[n]
              PROVE  step[n][e] \in Inv[n + 1]
          <6>1. n \in from .. to
            BY <1>0
          <6>2. step[n][e] = next(e, n)
            <7> HIDE DEF Inv, next
            <7> QED
              BY <6>1
          <6> HIDE DEF step, Inv, next
          <6> QED
            BY <1>4, <6>1, <6>2
        <5> HIDE DEF step, Inv
        <5> QED
          BY <5>1
      <4>2. from \in Int /\ to + 1 \in Int /\ from <= to + 1
        BY <1>0
      <4> HIDE DEF Inv, step
      <4> QED
        BY <1>3, <4>1, <4>2, LoopRuns
    <3>2. ASSUME NEW n \in from + 1 .. to + 1
          PROVE  step[n - 1][f[n - 1]] = next(f[n - 1], n - 1)
      <4>1. n - 1 \in from .. to /\ n - 1 \in from .. to + 1
        BY <1>0
      <4>2. f[n - 1] \in Inv[n - 1]
        <5> HIDE DEF Inv, step
        <5> QED
          BY <3>1, <4>1 DEF Keeps
      <4> HIDE DEF Inv, next
      <4> QED
        BY <4>1, <4>2
    <3>3. Loop(f)
      <4>1. \A n \in from .. to + 1 : n # from => n \in from + 1 .. to + 1
        BY <1>0
      <4> HIDE DEF step, Inv, next
      <4> QED
        BY <3>1, <3>2, <4>1 DEF RunsLoop
    <3> QED
      BY <3>3
  <2>2. PICK f : Loop(f) /\ d = f[to + 1]
    <3>1. Loop(CHOOSE f : Loop(f))
      BY <2>1
    <3>2. d = (CHOOSE f : Loop(f))[to + 1]
      <4>1. ~ (from > to)
        BY <1>0
      <4> QED
        BY <4>1 DEF putData, ForSlots
    <3> HIDE DEF Loop, d
    <3> QED
      BY <3>1, <3>2
  <2>3. \A n \in from .. to + 1 : f[n] \in Inv[n]
    <3> DEFINE T == {n \in from .. to + 1 : f[n] \in Inv[n]}
    <3>1. from \in T
      <4>1. f[from] = c /\ from \in from .. to + 1
        BY <1>0, <2>2
      <4> HIDE DEF Inv
      <4> QED
        BY <1>3, <4>1
    <3>2. Ascends(T, from, to + 1)
      <4> SUFFICES ASSUME NEW n \in from .. (to + 1) - 1, n \in T PROVE n + 1 \in T
        BY DEF Ascends
      <4>1. n + 1 \in from .. to + 1 /\ n + 1 # from /\ (n + 1) - 1 = n /\ n \in from .. to
        BY <1>0
      <4>2. f[n + 1] = next(f[n], n)
        <5> HIDE DEF next
        <5> QED
          BY <2>2, <4>1
      <4> HIDE DEF next, Inv
      <4> QED
        BY <1>4, <4>1, <4>2
    <3> HIDE DEF T
    <3>3. \A n \in from .. to + 1 : n \in T
      <4>1. from \in Int /\ to + 1 \in Int /\ from <= to + 1
        BY <1>0
      <4> QED
        BY <3>1, <3>2, <4>1, AscendTo
    <3> QED
      BY <3>3 DEF T
  <2>4. to + 1 \in from .. to + 1
    BY <1>0
  <2> HIDE DEF Inv, d
  <2> QED
    BY <2>2, <2>3, <2>4
<1>6. Reached(d, to + 1)
  <2>1. to + 1 \in from .. to + 1
    BY <1>0
  <2> HIDE DEF Reached, d
  <2> QED
    BY <1>5, <2>1
<1>7. Before(a, to + 1) = a
  <2>1. \A x \in DOMAIN a : x \div SlotSize < to + 1
    <3> HIDE DEF to
    <3> QED
      BY <1>0, <1>2
  <2>2. a = [x \in DOMAIN a |-> a[x]]
    BY MemoriesAre
  <2>3. {y \in DOMAIN a : y \div SlotSize < to + 1} = DOMAIN a
    BY <2>1
  <2> QED
    BY <2>2, <2>3 DEF Before
<1> HIDE DEF d, s
<1> QED
  BY <1>6, <1>7 DEF d, s

-----------------------------------------------------------------------------
(* A Flob changes its size.                                                *)

Cut(a, n) == [x \in DOMAIN a \cap Cells(n) |-> a[x]]

\* shrink keeps the cells within the new size.
LEMMA ShrinkStored ==
  ASSUME NEW c, NEW size, NEW data, Stored(c, size, data),
         NEW id \in DOMAIN size, NEW newSize \in 0 .. MaxFlobSize, newSize < size[id]
  PROVE  LET d == shrink(c, id, size[id], newSize)
         IN /\ Stored(d, Assign(size, id, newSize), Assign(data, id, Cut(data[id], newSize)))
            /\ SameFlobs(c, d) /\ d.used <= c.used
<1> DEFINE s == size[id]
           start == newSize \div SlotSize + 1
           end == s \div SlotSize + 1
           keys == {id} \X (start .. end - 1)
           rest == Assign(data, id, Cut(data[id], newSize))
           e == RemoveEntries(c, keys)
           d == resizeSlot(e, id, start - 1, newSize)
<1>1. s \in Nat /\ newSize \in Nat /\ id \in DOMAIN data
  BY FlobAssumption DEF Stored, SizesOK
<1>2. start - 1 \in Nat /\ start \in Nat /\ end \in Nat
      /\ start - 1 = newSize \div SlotSize /\ end - 1 = s \div SlotSize
  <2>1. newSize \div SlotSize \in Nat /\ s \div SlotSize \in Nat
    BY <1>1, SlotNumbers
  <2> QED
    BY <2>1
<1>3. /\ DOMAIN rest = DOMAIN data /\ rest[id] = Cut(data[id], newSize)
      /\ \A i \in DOMAIN data : i # id => rest[i] = data[i]
  BY <1>1 DEF Assign
<1>4. DOMAIN rest[id] = DOMAIN data[id] \cap Cells(newSize)
      /\ \A x \in DOMAIN rest[id] : rest[id][x] = data[id][x]
  BY <1>3 DEF Cut
<1> HIDE DEF rest
<1>5. Part(rest, data, keys)
  <2> SUFFICES ASSUME NEW i \in DOMAIN data, NEW x \in DOMAIN rest[i]
               PROVE  /\ x \in DOMAIN data[i] /\ rest[i][x] = data[i][x]
                      /\ SlotOf(i, x) \notin keys
    <3> HIDE DEF keys
    <3> QED
      BY <1>3 DEF Part
  <2>1. x \in DOMAIN data[i] /\ rest[i][x] = data[i][x]
    BY <1>3, <1>4
  <2>2. CASE i # id
    BY <2>1, <2>2 DEF SlotOf
  <2>3. CASE i = id
    <3>1. x \in Nat /\ x < newSize
      BY <1>1, <1>4, <2>3 DEF Cells
    <3>2. x \div SlotSize <= newSize \div SlotSize /\ x \div SlotSize \in Nat
      BY <1>1, <3>1, SlotsAscend, SlotNumbers
    <3>3. ~ (start <= x \div SlotSize)
      <4> HIDE DEF start
      <4> QED
        BY <1>2, <3>2
    <3>4. x \div SlotSize \notin start .. end - 1
      <4> HIDE DEF start, end
      <4> QED
        BY <3>3
    <3>5. SlotOf(i, x) \notin keys
      <4> HIDE DEF start, end
      <4> QED
        BY <3>4 DEF SlotOf
    <3> QED
      BY <2>1, <3>5
  <2> QED
    BY <2>2, <2>3
<1>6. /\ Stored(e, size, rest) /\ SameFlobs(c, e)
      /\ DOMAIN e.cache = DOMAIN c.cache \ keys /\ e.used <= c.used
  <2> HIDE DEF keys
  <2> QED
    BY <1>5, RemoveStored
<1> HIDE DEF e
<1>7. OtherSlots(e, id, start - 1, s, newSize)
  <2> SUFFICES ASSUME NEW k \in DOMAIN e.cache, k[1] = id, k[2] # start - 1
               PROVE  SlotCells(k[2], newSize) = SlotCells(k[2], s)
    <3> HIDE DEF start, s
    <3> QED
      BY DEF OtherSlots
  <2>1. k[2] \in Nat /\ k = <<id, k[2]>>
    BY <1>6, KeysOf
  <2>2. SlotCells(k[2], s) # {}
    BY <1>6 DEF Stored, Fits
  <2>3. k[2] <= end - 1
    <3>1. k[2] <= s \div SlotSize
      BY <1>1, <2>1, <2>2, SlotWithin
    <3> HIDE DEF end
    <3> QED
      BY <1>2, <3>1
  <2>4. k[2] \notin start .. end - 1
    <3> HIDE DEF start, end
    <3> QED
      BY <1>6, <2>1
  <2>5. k[2] < newSize \div SlotSize
    <3> HIDE DEF start, end
    <3> QED
      BY <1>2, <2>1, <2>3, <2>4
  <2> QED
    BY <1>1, <2>1, <2>5, FullSlot
<1>8. /\ Stored(d, Assign(size, id, newSize), rest) /\ SameFlobs(e, d)
      /\ d.used <= e.used
  <2>1. DOMAIN rest[id] \subseteq Cells(newSize)
    BY <1>4
  <2> DEFINE slot == start - 1
  <2>2. slot \in Nat /\ OtherSlots(e, id, slot, size[id], newSize)
    BY <1>2, <1>7
  <2> HIDE DEF slot
  <2>3. LET p == resizeSlot(e, id, slot, newSize)
        IN /\ Stored(p, Assign(size, id, newSize), rest)
           /\ SameFlobs(e, p)
           /\ newSize <= size[id] => p.used <= e.used
    BY <1>6, <2>1, <2>2, ResizeSlotStored
  <2> QED
    BY <1>1, <2>3 DEF slot
<1>9. d = shrink(c, id, s, newSize)
  BY DEF shrink, e
<1> HIDE DEF d, s
<1>10. d.used \in Int /\ e.used \in Int /\ c.used \in Int
  BY <1>6, <1>8 DEF Stored, Listed, States
<1>11. SameFlobs(c, d) /\ d.used <= c.used
  BY <1>6, <1>8, <1>10 DEF SameFlobs
<1> QED
  BY <1>8, <1>9, <1>11 DEF rest, s

\* enlarge keeps all cells, and adds the new ones as unwritten.
LEMMA EnlargeStored ==
  ASSUME NEW c, NEW size, NEW data, Stored(c, size, data),
         NEW id \in DOMAIN size, NEW newSize \in 0 .. MaxFlobSize, size[id] < newSize
  PROVE  LET d == enlarge(c, id, size[id], newSize)
         IN /\ Stored(d, Assign(size, id, newSize), data)
            /\ SameFlobs(c, d) /\ d.used <= CacheSize
<1> DEFINE s == size[id]
           first == s \div SlotSize + 1
           last == (newSize \div SlotSize + 1) - 1
           sizes == Assign(size, id, newSize)
           begin == resizeSlot(c, id, first - 1, newSize)
           Reached(e, n) ==
             /\ Stored(e, sizes, data) /\ SameFlobs(c, e)
             /\ \A k \in DOMAIN e.cache : k[1] = id => k[2] < n
           Inv == [n \in first .. last + 1 |-> {e \in States : Reached(e, n)}]
           next(e, n) == IF SlotCells(n, newSize) = {} THEN e
                         ELSE putAtFront(e, <<id, n>>, NewEntry(n, newSize))
           d == ForSlots(next, begin, first, last)
<1>8. s \in Nat /\ newSize \in Nat /\ id \in DOMAIN data
  BY FlobAssumption DEF Stored, SizesOK
<1>9. s \div SlotSize \in Nat /\ newSize \div SlotSize \in Nat
      /\ s \div SlotSize <= newSize \div SlotSize
  BY <1>8, SlotNumbers, SlotsAscend
<1>0. /\ first \in Nat /\ last \in Int /\ first <= last + 1
      /\ first - 1 \in Nat /\ first - 1 = s \div SlotSize
  BY <1>9
<1>10. DOMAIN sizes = DOMAIN size /\ sizes[id] = newSize
  BY DEF Assign
<1>11. \A k \in DOMAIN c.cache : k[1] = id => k[2] \in Nat /\ k[2] < first
  <2> SUFFICES ASSUME NEW k \in DOMAIN c.cache, k[1] = id PROVE k[2] \in Nat /\ k[2] < first
    OBVIOUS
  <2>1. k[2] \in Nat
    BY KeysOf
  <2>2. SlotCells(k[2], s) # {}
    BY DEF Stored, Fits
  <2>3. k[2] <= s \div SlotSize
    BY <1>8, <2>1, <2>2, SlotWithin
  <2> QED
    BY <1>9, <2>1, <2>3
<1>12. /\ Stored(begin, sizes, data) /\ SameFlobs(c, begin)
       /\ DOMAIN begin.cache \subseteq DOMAIN c.cache
  <2> DEFINE slot == first - 1
  <2>1. OtherSlots(c, id, slot, size[id], newSize)
    <3> SUFFICES ASSUME NEW k \in DOMAIN c.cache, k[1] = id, k[2] # slot
                 PROVE  SlotCells(k[2], newSize) = SlotCells(k[2], s)
      <4> HIDE DEF slot
      <4> QED
        BY DEF OtherSlots
    <3>1. k[2] \in Nat /\ k[2] < s \div SlotSize
      <4> HIDE DEF first
      <4> QED
        BY <1>0, <1>11
    <3> QED
      BY <1>8, <3>1, FullSlot
  <2>2. DOMAIN data[id] \subseteq Cells(newSize)
    <3>1. DOMAIN data[id] \subseteq Cells(s)
      BY <1>8 DEF Stored, SizesOK
    <3> QED
      BY <1>8, <3>1 DEF Cells
  <2>3. slot \in Nat
    BY <1>0
  <2> HIDE DEF slot
  <2>4. LET p == resizeSlot(c, id, slot, newSize)
        IN /\ Stored(p, Assign(size, id, newSize), data)
           /\ SameFlobs(c, p)
           /\ DOMAIN p.cache \subseteq DOMAIN c.cache
    BY <2>1, <2>2, <2>3, ResizeSlotStored
  <2> QED
    BY <2>4 DEF slot
<1>1. begin \in Inv[first]
  <2> HIDE DEF begin, sizes
  <2>1. begin \in States
    BY <1>12 DEF Stored, Listed
  <2>2. Reached(begin, first)
    <3> HIDE DEF first
    <3> QED
      BY <1>11, <1>12
  <2> HIDE DEF Reached
  <2> QED
    BY <1>0, <2>1, <2>2
<1>2. ASSUME NEW n \in first .. last, NEW e \in Inv[n] PROVE next(e, n) \in Inv[n + 1]
  <2> DEFINE key == <<id, n>>
             entry == NewEntry(n, newSize)
             p == putAtFront(e, key, entry)
             q == next(e, n)
  <2>0. n \in Nat /\ n \in first .. last + 1 /\ n + 1 \in first .. last + 1
        /\ s \div SlotSize < n
    BY <1>0, <1>9
  <2>1. Reached(e, n)
    <3> HIDE DEF Reached
    <3> QED
      BY <2>0
  <2> HIDE DEF sizes
  <2>2. /\ Stored(e, sizes, data) /\ SameFlobs(c, e) /\ e \in States
        /\ \A k \in DOMAIN e.cache : k[2] \in Nat /\ (k[1] = id => k[2] < n)
    <3>1. Stored(e, sizes, data) /\ SameFlobs(c, e)
          /\ \A k \in DOMAIN e.cache : k[1] = id => k[2] < n
      BY <2>1
    <3> QED
      BY <3>1, KeysOf DEF Stored, Listed
  <2>3. key \notin DOMAIN e.cache
    BY <2>0, <2>2
  <2>4. SlotCells(n, newSize) \subseteq Nat
    BY <1>8, <2>0, SlotCellsFinite
  <2>5. /\ entry \in Entries /\ DOMAIN entry.mem = SlotCells(n, newSize)
        /\ Carries(entry, data[id])
    <3> DEFINE mem == [x \in SlotCells(n, newSize) |-> Garbage]
    <3>1. entry = [mem |-> mem, changed |-> FALSE]
      BY DEF NewEntry
    <3>2. DOMAIN mem = SlotCells(n, newSize) /\ mem \in [SlotCells(n, newSize) -> Cell]
      BY DEF Cell
    <3> HIDE DEF entry, mem
    <3>3. mem \in Memories
      BY <2>4, <3>2, MemoriesAre
    <3>4. entry \in Entries /\ entry.mem = mem
      BY <3>1, <3>3 DEF Entries
    <3>5. \A x \in DOMAIN data[id] : x \notin SlotCells(n, newSize)
      <4> SUFFICES ASSUME NEW x \in DOMAIN data[id], x \in SlotCells(n, newSize)
                   PROVE  FALSE
        OBVIOUS
      <4>1. x \div SlotSize = n
        BY <1>8, <2>0, SlotCellsAre
      <4>2. x \in Nat /\ x < s
        BY <1>8 DEF Stored, SizesOK, Cells
      <4>3. x \div SlotSize <= s \div SlotSize
        BY <1>8, <4>2, SlotsAscend
      <4> QED
        BY <1>9, <2>0, <4>1, <4>3
    <3> QED
      BY <3>2, <3>4, <3>5 DEF Carries
  <2>6. CASE SlotCells(n, newSize) = {}
    <3>1. q = e
      BY <2>6
    <3>2. Reached(e, n + 1)
      BY <2>0, <2>2
    <3>3. e \in Inv[n + 1]
      <4> HIDE DEF Reached
      <4> QED
        BY <2>0, <2>2, <3>2
    <3> HIDE DEF Inv, q
    <3> QED
      BY <3>1, <3>3 DEF q
  <2>7. CASE SlotCells(n, newSize) # {}
    <3>1. q = p
      BY <2>7
    <3>2. /\ Stored(p, sizes, data) /\ SameFlobs(e, p)
          /\ DOMAIN p.cache = DOMAIN e.cache \cup {key}
      <4> HIDE DEF entry
      <4>1. entry \in Entries /\ Carries(entry, data[id])
        BY <2>5
      <4>2. DOMAIN entry.mem = SlotCells(n, sizes[id]) /\ DOMAIN entry.mem # {}
        BY <1>10, <2>5, <2>7
      <4>3. /\ Stored(e, sizes, data) /\ n \in Nat /\ <<id, n>> \notin DOMAIN e.cache
            /\ id \in DOMAIN sizes
        BY <1>10, <2>0, <2>2, <2>3
      <4> QED
        BY <4>1, <4>2, <4>3, PutStored
    <3> HIDE DEF p
    <3>3. SameFlobs(c, p) /\ p \in States
      BY <2>2, <3>2 DEF SameFlobs, Stored, Listed
    <3>4. \A k \in DOMAIN p.cache : k[1] = id => k[2] < n + 1
      <4>1. key[2] = n
        OBVIOUS
      <4> HIDE DEF key
      <4> QED
        BY <2>0, <2>2, <3>2, <4>1
    <3>5. Reached(p, n + 1)
      BY <3>2, <3>3, <3>4
    <3>6. p \in Inv[n + 1]
      <4> HIDE DEF Reached
      <4> QED
        BY <2>0, <3>3, <3>5
    <3> HIDE DEF Inv, q
    <3> QED
      BY <3>1, <3>6 DEF q
  <2> QED
    BY <2>6, <2>7
<1>13. d \in Inv[last + 1]
  <2>1. CASE first > last
    <3>1. d = begin
      BY <2>1 DEF ForSlots
    <3>2. last + 1 = first
      BY <1>0, <2>1
    <3> HIDE DEF Inv, d, first, last, begin
    <3> QED
      BY <1>1, <3>1, <3>2
  <2>2. CASE first <= last
    <3> DEFINE Loop(f) == f = [n \in first .. last + 1 |->
                                 IF n = first THEN begin ELSE next(f[n - 1], n - 1)]
               step == [n \in first .. last |-> [e \in Inv[n] |-> next(e, n)]]
    <3>1. \E f : Loop(f)
      <4>1. PICK f : RunsLoop(f, first, last + 1, begin, step) /\ Keeps(f, first, last + 1, Inv)
        <5>1. \A n \in first .. (last + 1) - 1 : \A e \in Inv[n] : step[n][e] \in Inv[n + 1]
          <6>1. ASSUME NEW n \in first .. (last + 1) - 1, NEW e \in Inv[n]
                PROVE  step[n][e] \in Inv[n + 1]
            <7>1. n \in first .. last
              BY <1>0
            <7>2. step[n][e] = next(e, n)
              <8> HIDE DEF Inv, next
              <8> QED
                BY <7>1
            <7> HIDE DEF step, Inv, next
            <7> QED
              BY <1>2, <7>1, <7>2
          <6> HIDE DEF step, Inv
          <6> QED
            BY <6>1
        <5>2. first \in Int /\ last + 1 \in Int /\ first <= last + 1
          BY <1>0, <2>2
        <5> HIDE DEF Inv, step
        <5> QED
          BY <1>1, <5>1, <5>2, LoopRuns
      <4>2. ASSUME NEW n \in first + 1 .. last + 1
            PROVE  step[n - 1][f[n - 1]] = next(f[n - 1], n - 1)
        <5>1. n - 1 \in first .. last /\ n - 1 \in first .. last + 1
          BY <1>0
        <5>2. f[n - 1] \in Inv[n - 1]
          <6> HIDE DEF Inv, step
          <6> QED
            BY <4>1, <5>1 DEF Keeps
        <5> HIDE DEF Inv, next
        <5> QED
          BY <5>1, <5>2
      <4>3. Loop(f)
        <5>1. \A n \in first .. last + 1 : n # first => n \in first + 1 .. last + 1
          BY <1>0
        <5> HIDE DEF step, Inv, next
        <5> QED
          BY <4>1, <4>2, <5>1 DEF RunsLoop
      <4> QED
        BY <4>3
    <3>2. PICK f : Loop(f) /\ d = f[last + 1]
      <4>1. Loop(CHOOSE f : Loop(f))
        BY <3>1
      <4>2. d = (CHOOSE f : Loop(f))[last + 1]
        <5>1. ~ (first > last)
          BY <1>0, <2>2
        <5> QED
          BY <5>1 DEF ForSlots
      <4> HIDE DEF Loop, d
      <4> QED
        BY <4>1, <4>2
    <3>3. \A n \in first .. last + 1 : f[n] \in Inv[n]
      <4> DEFINE T == {n \in first .. last + 1 : f[n] \in Inv[n]}
      <4>1. first \in T
        <5>1. f[first] = begin /\ first \in first .. last + 1
          <6>1. first \in first .. last + 1
            BY <1>0
          <6> HIDE DEF first, last, begin, next
          <6> QED
            BY <3>2, <6>1
        <5> HIDE DEF Inv
        <5> QED
          BY <1>1, <5>1
      <4>2. Ascends(T, first, last + 1)
        <5> SUFFICES ASSUME NEW n \in first .. (last + 1) - 1, n \in T PROVE n + 1 \in T
          BY DEF Ascends
        <5>1. n + 1 \in first .. last + 1 /\ n + 1 # first /\ (n + 1) - 1 = n /\ n \in first .. last
          BY <1>0
        <5>2. f[n + 1] = next(f[n], n)
          <6> HIDE DEF next
          <6> QED
            BY <3>2, <5>1
        <5> HIDE DEF next, Inv
        <5> QED
          BY <1>2, <5>1, <5>2
      <4> HIDE DEF T
      <4>3. \A n \in first .. last + 1 : n \in T
        <5>1. first \in Int /\ last + 1 \in Int /\ first <= last + 1
          BY <1>0, <2>2
        <5> QED
          BY <4>1, <4>2, <5>1, AscendTo
      <4> QED
        BY <4>3 DEF T
    <3>4. last + 1 \in first .. last + 1
      BY <1>0, <2>2
    <3> HIDE DEF Inv, d
    <3> QED
      BY <3>2, <3>3, <3>4
  <2> HIDE DEF first, last, d, Inv
  <2> QED
    BY <1>0, <2>1, <2>2
<1>14. Reached(d, last + 1)
  <2>1. last + 1 \in first .. last + 1
    BY <1>0
  <2> HIDE DEF Reached, d
  <2> QED
    BY <1>13, <2>1
<1>15. enlarge(c, id, s, newSize) = reduce(d)
  BY DEF enlarge, ForSlots
<1> HIDE DEF d, sizes
<1>16. /\ Stored(reduce(d), sizes, data) /\ SameFlobs(d, reduce(d))
       /\ reduce(d).used <= CacheSize
  BY <1>14, ReduceStored
<1>17. SameFlobs(c, reduce(d))
  BY <1>14, <1>16 DEF SameFlobs
<1> HIDE DEF s
<1> QED
  BY <1>15, <1>16, <1>17 DEF sizes, s

\* An empty Flob has no entries.
LEMMA NoneWhenEmpty ==
  ASSUME NEW c, NEW size, NEW data, Stored(c, size, data), NEW id \in DOMAIN size, size[id] = 0
  PROVE  NoEntries(c, id)
<1> SUFFICES ASSUME NEW k \in DOMAIN c.cache, k[1] = id PROVE FALSE
  BY DEF NoEntries
<1>1. SlotCells(k[2], 0) # {} /\ k[2] \in Nat
  BY KeysOf DEF Stored, Fits
<1> QED
  BY <1>1, SlotWithin

\* A record of no Flob has no entries.
LEMMA NoneWhenFree ==
  ASSUME NEW c, NEW size, NEW data, Stored(c, size, data), NEW id, id \notin DOMAIN size
  PROVE  NoEntries(c, id)
  BY DEF NoEntries, Stored, Fits

\* Assigning the size that a Flob has changes nothing.
LEMMA SameSizes ==
  ASSUME NEW c, NEW size, NEW data, Stored(c, size, data), NEW id \in DOMAIN size
  PROVE  Stored(c, Assign(size, id, size[id]), data)
<1> DEFINE sizes == Assign(size, id, size[id])
<1>1. DOMAIN sizes = DOMAIN size /\ \A i \in DOMAIN size : sizes[i] = size[i]
  BY DEF Assign
<1> HIDE DEF sizes
<1>2. SizesOK(c, sizes, data) /\ Fits(c.cache, sizes)
  BY <1>1 DEF Stored, SizesOK, Fits
<1> QED
  BY <1>2 DEF Stored, sizes

\* resize keeps the cells within both sizes.
LEMMA ResizeStored ==
  ASSUME NEW c, NEW size, NEW data, Stored(c, size, data), c.used <= CacheSize,
         NEW id \in DOMAIN size, NEW newSize \in 0 .. MaxFlobSize
  PROVE  LET d == resize(c, id, size[id], newSize)
         IN /\ Stored(d, Assign(size, id, newSize), Assign(data, id, Cut(data[id], newSize)))
            /\ SameFlobs(c, d) /\ d.used <= CacheSize
<1> DEFINE s == size[id]
           sizes == Assign(size, id, newSize)
           rest == Assign(data, id, Cut(data[id], newSize))
           d == resize(c, id, s, newSize)
<1>1. s \in Nat /\ newSize \in Nat /\ id \in DOMAIN data /\ id \in 1 .. Len(c.file)
      /\ DOMAIN data[id] \subseteq Cells(s) /\ c.used \in Int /\ CacheSize \in Int
  BY FlobAssumption DEF Stored, SizesOK, Listed, States
<1>2. /\ DOMAIN rest = DOMAIN data /\ DOMAIN rest[id] = DOMAIN data[id] \cap Cells(newSize)
      /\ \A x \in DOMAIN rest[id] : rest[id][x] = data[id][x]
      /\ \A i \in DOMAIN data : i # id => rest[i] = data[i]
  BY <1>1 DEF Assign, Cut
<1>3. DOMAIN sizes = DOMAIN size /\ sizes[id] = newSize
  BY DEF Assign
<1> HIDE DEF rest, sizes
<1>4. CASE newSize = s
  <2>1. d = c
    BY <1>4 DEF resize
  <2>2. Stored(c, sizes, data)
    BY <1>4, SameSizes DEF sizes
  <2>3. Part(rest, data, {})
    BY <1>2 DEF Part
  <2>4. Stored(c, sizes, rest)
    BY <2>2, <2>3, FewerStored
  <2>5. SameFlobs(c, c)
    BY DEF SameFlobs
  <2> HIDE DEF d
  <2> QED
    BY <2>1, <2>4, <2>5 DEF d, rest, sizes
<1>5. CASE newSize > s /\ s = 0
  <2> DEFINE none == Assign(data, id, <<>>)
  <2>1. d = createEntries(c, id, sizes[id])
    BY <1>1, <1>3, <1>5 DEF resize
  <2>2. NoEntries(c, id)
    BY <1>5, NoneWhenEmpty
  <2>3. Stored(c, sizes, none)
    BY <1>1, <2>2, AssignStored DEF sizes
  <2>4. /\ DOMAIN none = DOMAIN data /\ none[id] = <<>>
        /\ \A i \in DOMAIN data : i # id => none[i] = data[i]
    BY <1>1 DEF Assign
  <2> HIDE DEF none, d
  <2>5. DOMAIN none[id] = {}
    BY <2>4
  <2>6. /\ Stored(d, sizes, none) /\ SameFlobs(c, d) /\ d.used <= CacheSize
    <3>1. id \in DOMAIN sizes
      BY <1>3
    <3> QED
      BY <2>1, <2>2, <2>3, <2>5, <3>1, CreateEntriesStored
  <2>7. Part(rest, none, {})
    <3>1. DOMAIN rest[id] = {}
      BY <1>1, <1>2, <1>5 DEF Cells
    <3> QED
      BY <1>2, <2>4, <3>1 DEF Part
  <2>8. Stored(d, sizes, rest)
    BY <2>6, <2>7, FewerStored
  <2> QED
    BY <2>6, <2>8 DEF d, rest, sizes
<1>6. CASE newSize < s /\ newSize = 0
  <2> DEFINE none == Assign(data, id, <<>>)
             again == Assign(none, id, <<>>)
  <2>1. d = erase(c, id, size[id])
    BY <1>1, <1>6 DEF resize
  <2> HIDE DEF none, d
  <2>2. /\ Stored(d, size, none) /\ SameFlobs(c, d) /\ NoEntries(d, id) /\ d.used <= c.used
    BY <2>1, EraseStored DEF none
  <2>3. Stored(d, sizes, again)
    <3>1. id \in 1 .. Len(d.file)
      BY <1>1, <2>2 DEF SameFlobs
    <3> QED
      BY <2>2, <3>1, AssignStored DEF sizes
  <2>4. Part(rest, again, {})
    <3>1. DOMAIN rest[id] = {}
      BY <1>1, <1>2, <1>6 DEF Cells
    <3>2. /\ DOMAIN again = DOMAIN data
          /\ \A i \in DOMAIN data : i # id => again[i] = data[i]
      BY <1>1 DEF Assign, none
    <3> HIDE DEF again
    <3> QED
      BY <1>2, <3>1, <3>2 DEF Part
  <2> HIDE DEF again
  <2>5. Stored(d, sizes, rest)
    BY <2>3, <2>4, FewerStored
  <2>6. d.used <= CacheSize
    <3>1. d.used \in Int
      BY <2>2 DEF Stored, Listed, States
    <3> QED
      BY <1>1, <2>2, <3>1
  <2> QED
    BY <2>2, <2>5, <2>6 DEF d, rest, sizes
<1>7. CASE newSize < s /\ newSize > 0
  <2>1. d = shrink(c, id, s, newSize)
    BY <1>1, <1>7 DEF resize
  <2> HIDE DEF d
  <2>2. Stored(d, sizes, rest) /\ SameFlobs(c, d) /\ d.used <= c.used
    BY <1>7, <2>1, ShrinkStored DEF sizes, rest
  <2>3. d.used <= CacheSize
    <3>1. d.used \in Int
      BY <2>2 DEF Stored, Listed, States
    <3> QED
      BY <1>1, <2>2, <3>1
  <2> QED
    BY <2>2, <2>3 DEF d, rest, sizes
<1>8. CASE newSize > s /\ s > 0
  <2>1. d = enlarge(c, id, s, newSize)
    BY <1>1, <1>8 DEF resize
  <2> HIDE DEF d
  <2>2. Stored(d, sizes, data) /\ SameFlobs(c, d) /\ d.used <= CacheSize
    <3>1. size[id] < newSize
      BY <1>1, <1>8
    <3> QED
      BY <2>1, <3>1, EnlargeStored DEF sizes
  <2>3. Part(rest, data, {})
    BY <1>2 DEF Part
  <2>4. Stored(d, sizes, rest)
    BY <2>2, <2>3, FewerStored
  <2> QED
    BY <2>2, <2>4 DEF d, rest, sizes
<1> QED
  BY <1>1, <1>4, <1>5, <1>6, <1>7, <1>8

-----------------------------------------------------------------------------
(* The manager between two operations.                                     *)

Good(m, size, data) ==
  /\ Stored(m, size, data)
  /\ m.used <= CacheSize
  /\ Distinct(m.destroyed)
  /\ Range(m.destroyed) \subseteq 1 .. Len(m.file)
  /\ Range(m.destroyed) \cap DOMAIN size = {}

\* The Flob m.f has a record, apart from the records that size and data
\* describe; its written cells are those of a.
Has(m, size, data, s, a) ==
  /\ Good(m, Assign(size, m.f.id, s), Assign(data, m.f.id, a))
  /\ m.f.id \notin DOMAIN size /\ DOMAIN data = DOMAIN size
  /\ m.f.size = s /\ m.f.dataPointer = NoBlock

\* The same for a Flob that may still have its block.
HasOrBlock(m, size, data, a) ==
  \/ Has(m, size, data, m.f.size, a)
  \/ /\ Good(m, size, data) /\ DOMAIN data = DOMAIN size
     /\ m.f.dataPointer = a /\ a # NoBlock /\ IsArray(a, m.f.size)

HasAs(m, size, data, s, a, sizes, contents) ==
  /\ Has(m, size, data, s, a)
  /\ sizes = Assign(size, m.f.id, s) /\ contents = Assign(data, m.f.id, a)

HasAsParts(m, size, s, a, sizes, contents) ==
  /\ Good(m, sizes, contents) /\ Stored(m, sizes, contents) /\ m \in States
  /\ m.used <= CacheSize
  /\ m.f.id \in DOMAIN sizes /\ m.f.id \in 1 .. Len(m.file)
  /\ DOMAIN sizes = DOMAIN size \cup {m.f.id}
  /\ sizes[m.f.id] = s /\ contents[m.f.id] = a
  /\ s \in 0 .. MaxFlobSize /\ s \in Nat /\ DOMAIN a \subseteq Cells(s)
  /\ m.f \in Objects

\* What it means that the Flob of the manager has a record.
LEMMA HasParts ==
  ASSUME NEW m, NEW size, NEW data, NEW s, NEW a, NEW sizes, NEW contents,
         HasAs(m, size, data, s, a, sizes, contents)
  PROVE  HasAsParts(m, size, s, a, sizes, contents)
<1> DEFINE id == m.f.id
<1>1. /\ DOMAIN sizes = DOMAIN size \cup {id} /\ sizes[id] = s /\ contents[id] = a
  BY DEF Assign, HasAs
<1>2. Good(m, sizes, contents)
  BY DEF Has, HasAs
<1>3. Stored(m, sizes, contents) /\ m.used <= CacheSize
  BY <1>2 DEF Good
<1>4. m \in States /\ SizesOK(m, sizes, contents)
  BY <1>3 DEF Stored, Listed
<1>5. m.f \in Objects
  BY <1>4 DEF States
<1>6. id \in 1 .. Len(m.file) /\ s \in 0 .. MaxFlobSize /\ DOMAIN a \subseteq Cells(s)
  BY <1>1, <1>4 DEF SizesOK
<1>7. s \in Nat
  BY <1>6, FlobAssumption
<1> QED
  BY <1>1, <1>2, <1>3, <1>4, <1>5, <1>6, <1>7 DEF HasAsParts

\* Operations of the cache keep the rest.
LEMMA GoodKept ==
  ASSUME NEW m, NEW size, NEW data, Good(m, size, data),
         NEW n, NEW sizes, NEW contents, Stored(n, sizes, contents), SameFlobs(m, n),
         n.used <= CacheSize, DOMAIN sizes = DOMAIN size
  PROVE  Good(n, sizes, contents)
  BY DEF Good, SameFlobs

\* An operation of the cache changes the contents of the Flob of the manager.
LEMMA HasKept ==
  ASSUME NEW m, NEW size, NEW data, NEW s, NEW a, Has(m, size, data, s, a),
         NEW n, NEW b, Stored(n, Assign(size, m.f.id, s), Assign(data, m.f.id, b)),
         SameFlobs(m, n), n.used <= CacheSize
  PROVE  Has(n, size, data, s, b)
<1>1. n.f = m.f
  BY DEF SameFlobs
<1>2. Good(n, Assign(size, m.f.id, s), Assign(data, m.f.id, b))
  BY GoodKept DEF Has
<1> QED
  BY <1>1, <1>2 DEF Has

\* One may forget that cells of it were written.
LEMMA HasFewer ==
  ASSUME NEW m, NEW size, NEW data, NEW s, NEW a, Has(m, size, data, s, a),
         NEW b, \A x \in DOMAIN b : x \in DOMAIN a /\ a[x] = b[x]
  PROVE  Has(m, size, data, s, b)
<1> DEFINE id == m.f.id
           all == Assign(data, id, a)
           some == Assign(data, id, b)
           sizes == Assign(size, id, s)
<1>1. Stored(m, sizes, all) /\ m.used <= CacheSize
  <2>1. HasAs(m, size, data, s, a, sizes, all)
    BY DEF HasAs
  <2> HIDE DEF sizes, all
  <2>2. HasAsParts(m, size, s, a, sizes, all)
    BY <2>1, HasParts
  <2> QED
    BY <2>2 DEF HasAsParts
<1>2. Part(some, all, {})
  <2>1. /\ DOMAIN all = DOMAIN data \cup {id} /\ all[id] = a
        /\ \A i \in DOMAIN data : i # id => all[i] = data[i]
    BY DEF Assign
  <2>2. /\ DOMAIN some = DOMAIN data \cup {id} /\ some[id] = b
        /\ \A i \in DOMAIN data : i # id => some[i] = data[i]
    BY DEF Assign
  <2> HIDE DEF all, some
  <2> QED
    BY <2>1, <2>2 DEF Part
<1>3. Stored(m, sizes, some)
  <2> HIDE DEF all, some, sizes
  <2> QED
    BY <1>1, <1>2, FewerStored
<1>4. SameFlobs(m, m)
  BY DEF SameFlobs
<1> QED
  BY <1>1, <1>3, <1>4, HasKept

\* The rest of a stack without repetitions.
LEMMA TailOf ==
  ASSUME NEW T, NEW s \in Seq(T), s # <<>>, Distinct(s)
  PROVE  /\ Tail(s) \in Seq(T) /\ Distinct(Tail(s))
         /\ Range(Tail(s)) \subseteq Range(s)
         /\ Head(s) \in Range(s) /\ Head(s) \notin Range(Tail(s))
<1> DEFINE t == Tail(s)
<1>1. /\ t \in Seq(T) /\ Len(t) = Len(s) - 1 /\ Len(s) \in Nat /\ Len(s) > 0
      /\ \A i \in 1 .. Len(t) : t[i] = s[i + 1]
      /\ Head(s) = s[1]
  OBVIOUS
<1>2. DOMAIN t = 1 .. Len(s) - 1 /\ DOMAIN s = 1 .. Len(s)
  BY <1>1
<1> HIDE DEF t
<1>3. \A i \in DOMAIN t : t[i] = s[i + 1] /\ i + 1 \in DOMAIN s /\ i + 1 # 1
  BY <1>1, <1>2
<1>4. 1 \in DOMAIN s
  BY <1>1, <1>2
<1>5. Range(t) \subseteq Range(s) /\ Head(s) \in Range(s)
  BY <1>1, <1>3, <1>4 DEF Range
<1>6. Head(s) \notin Range(t)
  <2> SUFFICES ASSUME NEW i \in DOMAIN t, t[i] = s[1] PROVE FALSE
    BY <1>1 DEF Range
  <2>1. s[i + 1] = s[1] /\ i + 1 \in DOMAIN s /\ i + 1 # 1
    BY <1>3
  <2> QED
    BY <1>4, <2>1 DEF Distinct
<1>7. Distinct(t)
  <2> SUFFICES ASSUME NEW i \in DOMAIN t, NEW j \in DOMAIN t, t[i] = t[j] PROVE i = j
    BY DEF Distinct
  <2>1. s[i + 1] = s[j + 1] /\ i + 1 \in DOMAIN s /\ j + 1 \in DOMAIN s
    BY <1>3
  <2>2. i + 1 = j + 1
    BY <2>1 DEF Distinct
  <2> QED
    BY <1>2, <2>2
<1> QED
  BY <1>1, <1>5, <1>6, <1>7 DEF t

\* The fields of FlobManager change.
WithFlob(m, file, destroyed, f) ==
  [m EXCEPT !.file = file, !.destroyed = destroyed, !.f = f]

\* A change of the Flob, the stack or the number of records loses nothing.
LEMMA NewFlob ==
  ASSUME NEW m, NEW size, NEW data, Stored(m, size, data), NEW file \in Seq(Arrays),
         file = m.file \/ file = Append(m.file, <<>>),
         NEW destroyed \in Seq(Nat), NEW f \in Objects
  PROVE  LET n == WithFlob(m, file, destroyed, f)
         IN /\ Stored(n, size, data)
            /\ n.file = file /\ n.destroyed = destroyed /\ n.f = f
            /\ n.used = m.used /\ n.buffer = m.buffer
<1> DEFINE n == WithFlob(m, file, destroyed, f)
<1>1. m \in States /\ m.file \in Seq(Arrays)
  BY DEF Stored, Listed, States
<1>2. n = [file |-> file, cache |-> m.cache, lru |-> m.lru, used |-> m.used,
           buffer |-> m.buffer, destroyed |-> destroyed, f |-> f]
  <2>1. /\ DOMAIN n = DOMAIN m /\ n = [x \in DOMAIN n |-> n[x]]
        /\ n.cache = m.cache /\ n.lru = m.lru /\ n.used = m.used /\ n.file = file
        /\ n.buffer = m.buffer /\ n.destroyed = destroyed /\ n.f = f
    BY <1>1 DEF WithFlob, States
  <2>2. DOMAIN m = {"file", "cache", "lru", "used", "buffer", "destroyed", "f"}
    BY <1>1 DEF States
  <2> HIDE DEF n
  <2> QED
    BY <2>1, <2>2
<1> HIDE DEF n
<1>3. n \in States
  BY <1>1, <1>2 DEF States
<1>4. /\ n.file = file /\ n.cache = m.cache /\ n.lru = m.lru /\ n.used = m.used
      /\ n.buffer = m.buffer /\ n.destroyed = destroyed /\ n.f = f
  BY <1>2
<1>5. /\ Len(m.file) \in Nat /\ Len(file) \in Nat /\ Len(m.file) <= Len(file)
      /\ \A i \in 1 .. Len(m.file) : file[i] = m.file[i]
  BY <1>1
<1>6. Listed(n)
  BY <1>3, <1>4 DEF Stored, Listed
<1>7. SizesOK(n, size, data)
  BY <1>4, <1>5 DEF Stored, SizesOK
<1>8. Fits(n.cache, size)
  BY <1>4 DEF Stored
<1>9. Holds(n, data)
  <2>1. \A i \in DOMAIN data : i \in 1 .. Len(m.file)
    BY DEF Stored, SizesOK
  <2>2. \A i \in DOMAIN data : \A x : OnDisk(n.file, i, x) = OnDisk(m.file, i, x)
    BY <1>4, <1>5, <2>1 DEF OnDisk
  <2> QED
    BY <1>4, <2>2 DEF Stored, Holds
<1> QED
  BY <1>4, <1>6, <1>7, <1>8, <1>9 DEF Stored, n

\* A Flob gets a record, a new one or one of a destroyed Flob.
LEMMA CreateHas ==
  ASSUME NEW m, NEW size, NEW data, Good(m, size, data), DOMAIN data = DOMAIN size,
         NEW s \in 0 .. MaxFlobSize
  PROVE  Has(create(m, s), size, data, s, <<>>)
<1> DEFINE reuse == m.destroyed # <<>>
           id == IF reuse THEN Head(m.destroyed) ELSE Len(m.file) + 1
           destroyed == IF reuse THEN Tail(m.destroyed) ELSE m.destroyed
           file == IF reuse THEN m.file ELSE Append(m.file, <<>>)
           f == [id |-> id, size |-> s, dataPointer |-> NoBlock]
           n == WithFlob(m, file, destroyed, f)
           sizes == Assign(size, id, s)
           contents == Assign(data, id, <<>>)
           d == createEntries(n, id, s)
<1>1. /\ Stored(m, size, data) /\ m.used <= CacheSize /\ m \in States
      /\ m.file \in Seq(Arrays) /\ m.destroyed \in Seq(Nat)
      /\ SizesOK(m, size, data)
  BY DEF Good, Stored, Listed, States
<1>2. /\ Distinct(m.destroyed) /\ Range(m.destroyed) \subseteq 1 .. Len(m.file)
      /\ Range(m.destroyed) \cap DOMAIN size = {}
  BY DEF Good
<1>3. create(m, s) = d
  <2>1. n = [m EXCEPT !.destroyed = destroyed, !.file = file, !.f = f]
    BY <1>1 DEF WithFlob, States
  <2>2. n = [m EXCEPT !.destroyed = IF reuse THEN Tail(@) ELSE @,
                      !.file = IF reuse THEN @ ELSE Append(@, <<>>), !.f = f]
    BY <2>1
  <2> QED
    BY <2>2 DEF create
<1>4. /\ file \in Seq(Arrays) /\ id \in 1 .. Len(file) /\ id \notin DOMAIN size
      /\ id \in Nat /\ Len(file) >= Len(m.file) /\ Len(m.file) \in Nat /\ Len(file) \in Nat
      /\ destroyed \in Seq(Nat) /\ Distinct(destroyed)
      /\ Range(destroyed) \subseteq Range(m.destroyed) /\ id \notin Range(destroyed)
  <2>1. CASE reuse
    <3>1. /\ Tail(m.destroyed) \in Seq(Nat) /\ Distinct(Tail(m.destroyed))
          /\ Range(Tail(m.destroyed)) \subseteq Range(m.destroyed)
          /\ Head(m.destroyed) \in Range(m.destroyed)
          /\ Head(m.destroyed) \notin Range(Tail(m.destroyed))
      BY <1>1, <1>2, <2>1, TailOf
    <3>2. Head(m.destroyed) \in 1 .. Len(m.file) /\ Head(m.destroyed) \notin DOMAIN size
      BY <1>2, <3>1
    <3>3. Len(m.file) \in Nat
      BY <1>1
    <3> QED
      BY <1>1, <2>1, <3>1, <3>2, <3>3
  <2>2. CASE ~ reuse
    <3>1. <<>> \in Arrays
      <4>1. <<>> \in [Cells(0) -> Cell] /\ 0 \in 0 .. MaxFlobSize
        BY FlobAssumption DEF Cells
      <4> QED
        BY <4>1 DEF Arrays
    <3>2. Append(m.file, <<>>) \in Seq(Arrays)
          /\ Len(Append(m.file, <<>>)) = Len(m.file) + 1 /\ Len(m.file) \in Nat
      BY <1>1, <3>1
    <3>3. Len(m.file) + 1 \notin DOMAIN size
      BY <1>1, <3>2 DEF SizesOK
    <3>4. Len(m.file) + 1 \notin Range(m.destroyed)
      BY <1>2, <3>2
    <3> QED
      BY <1>1, <1>2, <2>2, <3>2, <3>3, <3>4
  <2> QED
    BY <2>1, <2>2
<1>5. f \in Objects /\ f.id = id /\ f.size = s /\ f.dataPointer = NoBlock
  <2> HIDE DEF id
  <2> QED
    BY <1>4 DEF Objects
<1>6. file = m.file \/ file = Append(m.file, <<>>)
  OBVIOUS
<1> HIDE DEF id, destroyed, file, f, d
<1>7. /\ Stored(n, size, data) /\ n.file = file /\ n.destroyed = destroyed /\ n.f = f
      /\ n.used = m.used
  BY <1>1, <1>4, <1>5, <1>6, NewFlob
<1> HIDE DEF n
<1>8. NoEntries(n, id)
  BY <1>4, <1>7, NoneWhenFree
<1>9. Stored(n, sizes, contents)
  BY <1>4, <1>7, <1>8, AssignStored
<1>10. /\ DOMAIN sizes = DOMAIN size \cup {id} /\ sizes[id] = s
       /\ contents[id] = <<>>
  BY DEF Assign
<1> HIDE DEF sizes, contents
<1>11. Stored(d, sizes, contents) /\ SameFlobs(n, d) /\ d.used <= CacheSize
  <2>1. id \in DOMAIN sizes /\ DOMAIN contents[id] = {}
    BY <1>10
  <2>2. n.used <= CacheSize
    BY <1>1, <1>7
  <2>3. d = createEntries(n, id, sizes[id])
    BY <1>10 DEF d
  <2> QED
    BY <1>8, <1>9, <2>1, <2>2, <2>3, CreateEntriesStored
<1>12. d.f = f /\ d.destroyed = destroyed /\ Len(d.file) = Len(file)
  BY <1>7, <1>11 DEF SameFlobs
<1>13. Range(d.destroyed) \subseteq 1 .. Len(d.file)
  BY <1>2, <1>4, <1>12
<1>14. Range(d.destroyed) \cap DOMAIN sizes = {}
  BY <1>2, <1>4, <1>10, <1>12
<1>15. Good(d, sizes, contents)
  BY <1>4, <1>11, <1>12, <1>13, <1>14 DEF Good
<1>16. Has(d, size, data, s, <<>>)
  BY <1>4, <1>5, <1>12, <1>15 DEF Has, sizes, contents
<1> QED
  BY <1>3, <1>16

\* FlobManager::putData
LEMMA PutDataHas ==
  ASSUME NEW m, NEW size, NEW data, NEW s, NEW a, Has(m, size, data, s, a),
         NEW first \in Nat, NEW last \in Nat, first <= last, last < s,
         NEW b \in Memories, DOMAIN b = first .. last
  PROVE  Has(PutData(m, first, last, b), size, data, s, Overwritten(a, b))
<1> DEFINE id == m.f.id
           sizes == Assign(size, id, s)
           contents == Assign(data, id, a)
           new == Overwritten(contents[id], b)
           d == putData(m, id, sizes[id], first, last, b)
<1>1. /\ Stored(m, sizes, contents) /\ m.used <= CacheSize /\ id \in DOMAIN sizes
      /\ sizes[id] = s /\ contents[id] = a
  <2>1. HasAs(m, size, data, s, a, sizes, contents)
    BY DEF HasAs
  <2> HIDE DEF sizes, contents
  <2>2. HasAsParts(m, size, s, a, sizes, contents)
    BY <2>1, HasParts
  <2> QED
    BY <2>2 DEF HasAsParts
<1>2. PutData(m, first, last, b) = d
  BY <1>1 DEF PutData, Has
<1>3. Assign(contents, id, new) = Assign(data, id, new)
  BY AssignedTwice
<1> HIDE DEF id, sizes, contents
<1>4. Stored(d, sizes, Assign(contents, id, Overwritten(contents[id], b)))
      /\ SameFlobs(m, d) /\ d.used <= CacheSize
  <2>1. last < sizes[id]
    BY <1>1
  <2> QED
    BY <1>1, <2>1, PutDataStored
<1>5. new = Overwritten(a, b)
  BY <1>1
<1> HIDE DEF d, new
<1>6. Stored(d, Assign(size, m.f.id, s), Assign(data, m.f.id, new))
  BY <1>3, <1>4 DEF id, sizes, new
<1>7. Has(d, size, data, s, new)
  BY <1>4, <1>6, HasKept
<1> QED
  BY <1>2, <1>5, <1>7

\* makeControllable
LEMMA ControlHas ==
  ASSUME NEW m, NEW size, NEW data, NEW a, m \in States, HasOrBlock(m, size, data, a)
  PROVE  Has(makeControllable(m), size, data, m.f.size, a)
<1> DEFINE s == m.f.size
           n == create(m, s)
<1>1. CASE Has(m, size, data, m.f.size, a)
  BY <1>1 DEF Has, makeControllable
<1>2. CASE /\ Good(m, size, data) /\ DOMAIN data = DOMAIN size
           /\ m.f.dataPointer = a /\ a # NoBlock /\ IsArray(a, m.f.size)
  <2>1. s \in 0 .. MaxFlobSize /\ s \in Nat
    BY FlobAssumption DEF States, Objects
  <2>2. Has(n, size, data, s, <<>>)
    <3> HIDE DEF s
    <3> QED
      BY <1>2, <2>1, CreateHas
  <2>3. a \in [0 .. s - 1 -> Cell]
    BY <1>2 DEF IsArray, Cells
  <2>4. CASE s = 0
    <3>1. makeControllable(m) = n
      BY <1>2, <2>4 DEF makeControllable
    <3>2. DOMAIN a = {}
      BY <2>3, <2>4
    <3>3. \A x \in DOMAIN a : x \in DOMAIN <<>> /\ <<>>[x] = a[x]
      BY <3>2
    <3> HIDE DEF n, s
    <3>4. Has(n, size, data, s, a)
      BY <2>2, <3>3, HasFewer
    <3> QED
      BY <3>1, <3>4 DEF s
  <2>5. CASE s # 0
    <3> DEFINE d == PutData(n, 0, s - 1, a)
               all == Overwritten(<<>>, a)
    <3>1. makeControllable(m) = d
      BY <1>2, <2>5 DEF makeControllable
    <3>2. /\ a \in Memories /\ DOMAIN a = 0 .. s - 1 /\ s - 1 \in Nat /\ 0 <= s - 1
          /\ s - 1 < s /\ 0 \in Nat
      <4>1. s - 1 \in Nat /\ 0 <= s - 1 /\ s - 1 < s /\ 0 \in Nat
        BY <2>1, <2>5
      <4>2. DOMAIN a = 0 .. s - 1 /\ DOMAIN a \subseteq Nat /\ a \in [DOMAIN a -> Cell]
        BY <2>3
      <4>3. a \in Memories
        BY <4>2, MemoriesAre
      <4> QED
        BY <4>1, <4>2, <4>3
    <3>3. \A x \in DOMAIN a : x \in DOMAIN all /\ all[x] = a[x]
      BY DEF Overwritten
    <3> HIDE DEF n, s
    <3>4. Has(d, size, data, s, all)
      BY <2>2, <3>2, PutDataHas
    <3> HIDE DEF d, all
    <3>5. Has(d, size, data, s, a)
      BY <3>3, <3>4, HasFewer
    <3> QED
      BY <3>1, <3>5 DEF s
  <2> QED
    BY <2>4, <2>5
<1> QED
  BY <1>1, <1>2 DEF HasOrBlock

\* FlobManager::resize
LEMMA ResizeHas ==
  ASSUME NEW m, NEW size, NEW data, NEW a, m \in States, HasOrBlock(m, size, data, a),
         NEW newSize \in 0 .. MaxFlobSize
  PROVE  Has(Resize(m, newSize), size, data, newSize, Cut(a, newSize))
<1> DEFINE n == makeControllable(m)
           s == m.f.size
           id == n.f.id
           sizes == Assign(size, id, s)
           contents == Assign(data, id, a)
           b == Cut(a, newSize)
           r == resize(n, id, sizes[id], newSize)
           f == [id |-> id, size |-> newSize, dataPointer |-> NoBlock]
           d == WithFlob(r, r.file, r.destroyed, f)
<1>1. Has(n, size, data, s, a)
  BY ControlHas
<1> HIDE DEF n, s
<1>2. /\ Good(n, sizes, contents) /\ Stored(n, sizes, contents) /\ n.used <= CacheSize
      /\ id \in DOMAIN sizes
      /\ sizes[id] = s /\ contents[id] = a /\ n.f \in Objects
      /\ DOMAIN sizes = DOMAIN size \cup {id}
  <2>1. HasAs(n, size, data, s, a, sizes, contents)
    BY <1>1 DEF HasAs
  <2> HIDE DEF sizes, contents
  <2>2. HasAsParts(n, size, s, a, sizes, contents)
    BY <2>1, HasParts
  <2> QED
    BY <2>2 DEF HasAsParts
<1>3. n.f.size = s /\ n.f.dataPointer = NoBlock /\ id \notin DOMAIN size
      /\ DOMAIN data = DOMAIN size
  BY <1>1 DEF Has
<1>4. Assign(sizes, id, newSize) = Assign(size, id, newSize)
      /\ Assign(contents, id, b) = Assign(data, id, b)
  BY AssignedTwice
<1>5. f \in Objects /\ f = [n.f EXCEPT !.size = newSize]
  <2>1. n.f \in [id : Nat, size : 0 .. MaxFlobSize, dataPointer : {NoBlock} \cup Arrays]
    BY <1>2 DEF Objects
  <2>2. id \in Nat
    BY <2>1
  <2>3. f \in Objects
    BY <2>2 DEF Objects
  <2>4. [n.f EXCEPT !.size = newSize] = [id |-> n.f.id, size |-> newSize,
                                         dataPointer |-> n.f.dataPointer]
    BY <2>1
  <2> QED
    BY <1>3, <2>3, <2>4
<1> HIDE DEF sizes, contents, id
<1>6. /\ Stored(r, Assign(sizes, id, newSize), Assign(contents, id, Cut(contents[id], newSize)))
      /\ SameFlobs(n, r) /\ r.used <= CacheSize
  BY <1>2, ResizeStored
<1>7. Stored(r, Assign(size, id, newSize), Assign(data, id, b))
  BY <1>2, <1>4, <1>6
<1>8. Good(r, Assign(size, id, newSize), Assign(data, id, b))
  <2>1. DOMAIN Assign(size, id, newSize) = DOMAIN sizes
    BY <1>2 DEF Assign
  <2> HIDE DEF r, b
  <2> QED
    BY <1>2, <1>6, <1>7, <2>1, GoodKept
<1>9. r \in States /\ r.f = n.f
  BY <1>6, <1>7 DEF Stored, Listed, SameFlobs
<1>10. Resize(m, newSize) = d
  <2>1. Resize(m, newSize) = [r EXCEPT !.f.size = newSize]
    BY <1>2, <1>3 DEF Resize, n, id
  <2> HIDE DEF r
  <2>2. [r EXCEPT !.f.size = newSize] = [r EXCEPT !.f = [n.f EXCEPT !.size = newSize]]
    BY <1>9 DEF States
  <2>3. [r EXCEPT !.f.size = newSize] = [r EXCEPT !.f = f]
    <3> HIDE DEF f
    <3> QED
      BY <1>5, <2>2
  <2>4. d = [r EXCEPT !.f = f]
    <3> HIDE DEF f
    <3> QED
      BY <1>9 DEF WithFlob, States
  <2> QED
    BY <2>1, <2>3, <2>4
<1> HIDE DEF r, b, f
<1>11. /\ Stored(d, Assign(size, id, newSize), Assign(data, id, b)) /\ d.file = r.file
       /\ d.destroyed = r.destroyed /\ d.f = f /\ d.used = r.used
  <2>1. r.file \in Seq(Arrays) /\ r.destroyed \in Seq(Nat)
    BY <1>9 DEF States
  <2> QED
    BY <1>5, <1>7, <2>1, NewFlob
<1> HIDE DEF d
<1>12. Good(d, Assign(size, id, newSize), Assign(data, id, b))
  BY <1>8, <1>11 DEF Good
<1>13. f.id = id /\ f.size = newSize /\ f.dataPointer = NoBlock
  BY DEF f
<1>14. Has(d, size, data, newSize, b)
  BY <1>3, <1>11, <1>12, <1>13 DEF Has
<1> QED
  BY <1>10, <1>14 DEF b

\* b is what was written of the Flob f, another one than that of the manager.
IsSource(f, size, data, s, b) ==
  /\ f \in Objects /\ f.size = s
  /\ \/ f.dataPointer # NoBlock /\ IsArray(f.dataPointer, s) /\ b = f.dataPointer
     \/ /\ f.dataPointer = NoBlock /\ f.id \in DOMAIN size /\ size[f.id] = s
        /\ b = data[f.id]

\* All cells of a buffer are there, and those of b are as in b.
Delivers(buffer, s, b) ==
  /\ buffer \in Memories /\ DOMAIN buffer = 0 .. s - 1
  /\ \A x \in DOMAIN b : x \in DOMAIN buffer /\ buffer[x] = b[x]

\* FlobManager::getData of all cells
LEMMA ReadHas ==
  ASSUME NEW m, NEW size, NEW data, NEW s, NEW a, Has(m, size, data, s, a),
         NEW f, NEW b, IsSource(f, size, data, s, b)
  PROVE  Has(Read(m, f), size, data, s, a) /\ Delivers(Read(m, f).buffer, s, b)
<1> DEFINE sizes == Assign(size, m.f.id, s)
           contents == Assign(data, m.f.id, a)
<1>1. HasAsParts(m, size, s, a, sizes, contents)
  <2>1. HasAs(m, size, data, s, a, sizes, contents)
    BY DEF HasAs
  <2> HIDE DEF sizes, contents
  <2> QED
    BY <2>1, HasParts
<1>2. /\ Stored(m, sizes, contents) /\ m.used <= CacheSize /\ SizesOK(m, sizes, contents)
      /\ m.f.id \in DOMAIN sizes /\ DOMAIN sizes = DOMAIN size \cup {m.f.id}
      /\ s \in Nat /\ m \in States
  <2> HIDE DEF sizes, contents
  <2> QED
    BY <1>1 DEF HasAsParts, Stored
<1>3. \A i \in DOMAIN size : /\ i \in DOMAIN sizes /\ sizes[i] = size[i]
                             /\ contents[i] = data[i]
  BY DEF Has, Assign
<1>4. ASSUME NEW buffer \in Memories
      PROVE  Has(WithBuffer(m, buffer), size, data, s, a)
             /\ WithBuffer(m, buffer).buffer = buffer
  <2> DEFINE d == WithBuffer(m, buffer)
  <2> HIDE DEF sizes, contents
  <2>1. Stored(d, sizes, contents) /\ SameFlobs(m, d) /\ d.used = m.used /\ d.buffer = buffer
    BY <1>2, <1>4, NewBuffer
  <2> HIDE DEF d
  <2>2. Has(d, size, data, s, a)
    BY <1>2, <2>1, HasKept DEF sizes, contents
  <2> QED
    BY <2>1, <2>2 DEF d
<1>5. CASE f.dataPointer # NoBlock
  <2> DEFINE p == f.dataPointer
  <2>1. p \in [0 .. s - 1 -> Cell] /\ b = p
    BY <1>5 DEF IsSource, IsArray, Cells
  <2>2. DOMAIN p = 0 .. s - 1 /\ DOMAIN p \subseteq Nat /\ p \in [DOMAIN p -> Cell]
    BY <1>2, <2>1
  <2>3. p \in Memories
    BY <2>2, MemoriesAre
  <2>4. Read(m, f) = WithBuffer(m, p)
    BY <1>5 DEF Read, WithBuffer
  <2>5. Delivers(p, s, b)
    BY <2>1, <2>2, <2>3 DEF Delivers
  <2> HIDE DEF p
  <2>6. Has(WithBuffer(m, p), size, data, s, a) /\ WithBuffer(m, p).buffer = p
    BY <1>4, <2>3
  <2> QED
    BY <2>4, <2>5, <2>6
<1>6. CASE f.dataPointer = NoBlock
  <2>1. f.id \in DOMAIN sizes /\ sizes[f.id] = s /\ contents[f.id] = b /\ f.size = s
    BY <1>3, <1>6 DEF IsSource
  <2>2. DOMAIN b \subseteq 0 .. s - 1
    <3> HIDE DEF sizes, contents
    <3> QED
      BY <1>2, <2>1 DEF SizesOK, Cells
  <2>3. CASE s = 0
    <3>1. <<>> \in Memories /\ DOMAIN <<>> = {}
      <4>1. DOMAIN <<>> = {} /\ <<>> \in [DOMAIN <<>> -> Cell]
        OBVIOUS
      <4> QED
        BY <4>1, MemoriesAre
    <3>2. Read(m, f) = WithBuffer(m, <<>>)
      BY <1>6, <2>1, <2>3 DEF Read, WithBuffer
    <3>3. Delivers(<<>>, s, b)
      BY <2>2, <2>3, <3>1 DEF Delivers
    <3>4. Has(WithBuffer(m, <<>>), size, data, s, a) /\ WithBuffer(m, <<>>).buffer = <<>>
      BY <1>4, <3>1
    <3> QED
      BY <3>2, <3>3, <3>4
  <2>4. CASE s # 0
    <3> DEFINE last == s - 1
               d == getData(m, f.id, sizes[f.id], 0, last)
    <3>1. /\ last \in Nat /\ 0 \in Nat /\ 0 <= last /\ last < sizes[f.id]
      BY <1>2, <2>1, <2>4
    <3>2. Read(m, f) = d
      BY <1>6, <2>1, <2>4 DEF Read
    <3> HIDE DEF sizes, contents, last
    <3>3. /\ Stored(d, sizes, contents) /\ SameFlobs(m, d) /\ d.used <= CacheSize
          /\ 0 .. last \subseteq DOMAIN d.buffer
          /\ DOMAIN d.buffer \subseteq Cells(sizes[f.id])
          /\ \A x \in DOMAIN contents[f.id] :
               x \in DOMAIN d.buffer => d.buffer[x] = contents[f.id][x]
      BY <1>2, <2>1, <3>1, GetDataStored
    <3> HIDE DEF d
    <3>4. Has(d, size, data, s, a)
      BY <3>3, HasKept DEF sizes, contents
    <3>5. d.buffer \in Memories
      BY <3>3 DEF Stored, Listed, States
    <3>6. DOMAIN d.buffer = 0 .. s - 1
      BY <2>1, <3>3 DEF last, Cells
    <3>7. Delivers(d.buffer, s, b)
      BY <2>1, <2>2, <3>3, <3>5, <3>6 DEF Delivers
    <3> QED
      BY <3>2, <3>4, <3>7
  <2> QED
    BY <2>3, <2>4
<1> QED
  BY <1>5, <1>6

\* FlobManager::copyData
LEMMA CopyHas ==
  ASSUME NEW m, NEW size, NEW data, NEW s, NEW a, Has(m, size, data, s, a),
         NEW f, NEW b, IsSource(f, size, data, s, b)
  PROVE  Has(copyData(m, f), size, data, s, b)
<1> DEFINE n == Read(m, f)
           buffer == n.buffer
           d == PutData(n, 0, s - 1, buffer)
           all == Overwritten(a, buffer)
<1>1. Has(n, size, data, s, a) /\ Delivers(buffer, s, b)
  BY ReadHas
<1>2. s \in Nat
  <2>1. Stored(m, Assign(size, m.f.id, s), Assign(data, m.f.id, a))
    BY DEF Has, Good
  <2>2. m.f \in Objects /\ m.f.size = s
    BY <2>1 DEF Stored, Listed, States, Has
  <2> QED
    BY <2>2, FlobAssumption DEF Objects
<1>3. f.size = s
  BY DEF IsSource
<1>4. CASE s = 0
  <2>1. copyData(m, f) = n
    BY <1>3, <1>4 DEF copyData
  <2> HIDE DEF n
  <2>2. \A x \in DOMAIN b : x \in DOMAIN a /\ a[x] = b[x]
    BY <1>1, <1>4 DEF Delivers
  <2>3. Has(n, size, data, s, b)
    BY <1>1, <2>2, HasFewer
  <2> QED
    BY <2>1, <2>3
<1>5. CASE s # 0
  <2>1. copyData(m, f) = d
    BY <1>3, <1>5 DEF copyData
  <2>2. \A x \in DOMAIN b : x \in DOMAIN all /\ all[x] = b[x]
    <3> HIDE DEF n
    <3> QED
      BY <1>1 DEF Delivers, Overwritten
  <2>3. /\ 0 \in Nat /\ s - 1 \in Nat /\ 0 <= s - 1 /\ s - 1 < s
        /\ buffer \in Memories /\ DOMAIN buffer = 0 .. s - 1
    <3> HIDE DEF n
    <3> QED
      BY <1>1, <1>2, <1>5 DEF Delivers
  <2> HIDE DEF n, buffer
  <2>4. Has(d, size, data, s, all)
    BY <1>1, <2>3, PutDataHas
  <2> HIDE DEF d, all
  <2>5. Has(d, size, data, s, b)
    BY <2>2, <2>4, HasFewer
  <2> QED
    BY <2>1, <2>5
<1> QED
  BY <1>4, <1>5

\* The Flob is gone, its record can be used again.
LEMMA EraseGood ==
  ASSUME NEW m, NEW size, NEW data, NEW s, NEW a, Has(m, size, data, s, a)
  PROVE  Good([erase(m, m.f.id, m.f.size) EXCEPT
                 !.destroyed = <<m.f.id>> \o @, !.f = Destroyed], size, data)
<1> DEFINE id == m.f.id
           sizes == Assign(size, id, s)
           contents == Assign(data, id, a)
           e == erase(m, id, sizes[id])
           list == <<id>> \o e.destroyed
           n == WithFlob(e, e.file, list, Destroyed)
<1>1. /\ Good(m, sizes, contents) /\ Stored(m, sizes, contents) /\ m \in States
      /\ m.used <= CacheSize
      /\ id \in DOMAIN sizes /\ id \in 1 .. Len(m.file)
      /\ DOMAIN sizes = DOMAIN size \cup {id} /\ sizes[id] = s /\ m.f \in Objects
  <2>1. HasAs(m, size, data, s, a, sizes, contents)
    BY DEF HasAs
  <2> HIDE DEF sizes, contents
  <2>2. HasAsParts(m, size, s, a, sizes, contents)
    BY <2>1, HasParts
  <2> QED
    BY <2>2 DEF HasAsParts
<1>2. id \notin DOMAIN size /\ DOMAIN data = DOMAIN size /\ m.f.size = s
  BY DEF Has
<1>3. Assign(contents, id, <<>>) = Assign(data, id, <<>>)
  BY AssignedTwice
<1> HIDE DEF id, sizes, contents
<1>4. /\ Stored(e, sizes, Assign(contents, id, <<>>)) /\ SameFlobs(m, e)
      /\ NoEntries(e, id) /\ e.used <= m.used
  BY <1>1, EraseStored
<1>5. [erase(m, m.f.id, m.f.size) EXCEPT !.destroyed = <<m.f.id>> \o @, !.f = Destroyed] = n
  <2>1. erase(m, m.f.id, m.f.size) = e
    BY <1>1, <1>2 DEF id
  <2>2. e \in States
    BY <1>4 DEF Stored, Listed
  <2> HIDE DEF e
  <2>3. [e EXCEPT !.destroyed = <<id>> \o @, !.f = Destroyed] = n
    BY <2>2 DEF WithFlob, States
  <2> QED
    BY <2>1, <2>3 DEF id
<1> HIDE DEF e
<1>6. Stored(e, size, data)
  <2>1. Stored(e, Assign(size, id, s), Assign(data, id, <<>>))
    BY <1>3, <1>4 DEF sizes
  <2> QED
    BY <1>2, <1>4, <2>1, ForgetStored
<1>7. /\ e.file \in Seq(Arrays) /\ e.destroyed \in Seq(Nat) /\ e.used <= CacheSize
      /\ e.destroyed = m.destroyed /\ Len(e.file) = Len(m.file) /\ Len(m.file) \in Nat
  <2>1. e \in States /\ m.used \in Int /\ e.used \in Int /\ m.file \in Seq(Arrays)
    BY <1>1, <1>6 DEF Stored, Listed, States
  <2> QED
    BY <1>1, <1>4, <2>1, FlobAssumption DEF States, SameFlobs
<1>8. Destroyed \in Objects
  BY FlobAssumption DEF Destroyed, NoRecord, Objects
<1>9. /\ Distinct(m.destroyed) /\ Range(m.destroyed) \subseteq 1 .. Len(m.file)
      /\ Range(m.destroyed) \cap DOMAIN sizes = {}
  BY <1>1 DEF Good
<1>10. /\ list \in Seq(Nat) /\ Range(list) = Range(m.destroyed) \cup {id} /\ Distinct(list)
  <2>1. id \in Nat /\ id \notin Range(m.destroyed)
    BY <1>1, <1>7, <1>9
  <2>2. m.destroyed \in Seq(Nat)
    BY <1>7
  <2>3. list = <<id>> \o m.destroyed
    BY <1>7
  <2> HIDE DEF list
  <2> QED
    BY <1>9, <2>1, <2>2, <2>3, PutFirst
<1> HIDE DEF list
<1>11. /\ Stored(n, size, data) /\ n.file = e.file /\ n.destroyed = list
       /\ n.used = e.used
  <2>1. e.file = e.file \/ e.file = Append(e.file, <<>>)
    OBVIOUS
  <2> QED
    BY <1>6, <1>7, <1>8, <1>10, <2>1, NewFlob
<1> HIDE DEF n
<1>12. /\ Range(n.destroyed) \subseteq 1 .. Len(n.file)
       /\ Range(n.destroyed) \cap DOMAIN size = {}
  BY <1>1, <1>2, <1>7, <1>9, <1>10, <1>11
<1>13. Good(n, size, data)
  BY <1>7, <1>10, <1>11, <1>12 DEF Good
<1> QED
  BY <1>5, <1>13

-----------------------------------------------------------------------------
(* All Flobs of the query.                                                 *)

IsFcn(fn) == fn = [i \in DOMAIN fn |-> fn[i]]
Except(fn, id) == [i \in DOMAIN fn \ {id} |-> fn[i]]

\* One Flob: it holds no data, a block, or a record that size and data
\* describe.
FlobOK(f, cells, size, data) ==
  /\ f \in Objects
  /\ \/ f = Destroyed /\ cells = {}
     \/ /\ f.id = NoRecord /\ f.dataPointer # NoBlock
        /\ IsArray(f.dataPointer, f.size) /\ cells = Cells(f.size)
     \/ /\ f.id # NoRecord /\ f.dataPointer = NoBlock
        /\ f.id \in DOMAIN size /\ size[f.id] = f.size
        /\ DOMAIN data[f.id] = cells

FlobsOK(flobs, cells, size, data) ==
  /\ DOMAIN flobs = Handles /\ DOMAIN cells = Handles
  /\ IsFcn(flobs) /\ IsFcn(cells) /\ IsFcn(size) /\ IsFcn(data)
  /\ \A h \in Handles : FlobOK(flobs[h], cells[h], size, data)
  /\ \A g, h \in Handles : flobs[g].id = flobs[h].id /\ flobs[g].id # NoRecord => g = h
  /\ \A i \in DOMAIN size : \E h \in Handles : flobs[h].id = i

Consistent(flobs, cells, m, size, data) ==
  Good(m, size, data) /\ FlobsOK(flobs, cells, size, data)

SameParts(m, n) ==
  /\ n.file = m.file /\ n.cache = m.cache /\ n.lru = m.lru /\ n.used = m.used
  /\ n.destroyed = m.destroyed

\* So does that all is well with the manager.
LEMMA SameGood ==
  ASSUME NEW m, NEW size, NEW data, Good(m, size, data), NEW n \in States, SameParts(m, n)
  PROVE  Good(n, size, data)
<1>1. Stored(n, size, data)
  BY SameStore DEF Good, SameParts
<1> QED
  BY <1>1 DEF Good, SameParts

\* The records of the others.
LEMMA ExceptIs ==
  ASSUME NEW fn, NEW id
  PROVE  /\ DOMAIN Except(fn, id) = DOMAIN fn \ {id}
         /\ \A i \in DOMAIN fn : i # id => Except(fn, id)[i] = fn[i]
         /\ id \notin DOMAIN Except(fn, id)
  BY DEF Except

\* Two functions with the same domain and values are the same.
LEMMA SameFunction ==
  ASSUME NEW D, NEW fn, NEW g, fn = [i \in D |-> fn[i]], g = [i \in D |-> g[i]],
         \A i \in D : fn[i] = g[i]
  PROVE  fn = g
  OBVIOUS

\* A function taken apart at one point, and put together again.
LEMMA ExceptAssigned ==
  ASSUME NEW fn, IsFcn(fn), NEW id
  PROVE  /\ id \in DOMAIN fn => Assign(Except(fn, id), id, fn[id]) = fn
         /\ id \notin DOMAIN fn => Except(fn, id) = fn
<1>1. ASSUME id \in DOMAIN fn PROVE Assign(Except(fn, id), id, fn[id]) = fn
  <2> DEFINE g == Assign(Except(fn, id), id, fn[id])
             D == DOMAIN fn
  <2>1. DOMAIN g = D /\ g = [i \in D |-> g[i]]
    BY <1>1 DEF Assign, Except
  <2>2. \A i \in D : fn[i] = g[i]
    BY DEF Assign, Except
  <2>3. fn = [i \in D |-> fn[i]]
    BY DEF IsFcn
  <2> HIDE DEF g, D
  <2> QED
    BY <2>1, <2>2, <2>3, SameFunction DEF g
<1>2. ASSUME id \notin DOMAIN fn PROVE Except(fn, id) = fn
  <2>1. DOMAIN fn \ {id} = DOMAIN fn
    BY <1>2
  <2> QED
    BY <2>1 DEF Except, IsFcn
<1> QED
  BY <1>1, <1>2

\* What was written of a Flob.
Contents(f, data) == IF f.dataPointer # NoBlock THEN f.dataPointer ELSE data[f.id]

\* The manager with the Flob h, the other records described apart from it.
IsApart(n, data, sizes, contents) ==
  /\ n \in States /\ DOMAIN contents = DOMAIN sizes /\ n.f.id \notin DOMAIN sizes
  /\ \A i \in DOMAIN sizes : contents[i] = data[i]
  /\ n.f.id = NoRecord => Good(n, sizes, contents)
  /\ n.f.id # NoRecord => Has(n, sizes, contents, n.f.size, data[n.f.id])
  /\ n.f # Destroyed => HasOrBlock(n, sizes, contents, Contents(n.f, data))

\* The other Flobs do not share the record of the Flob h.
LEMMA Apart ==
  ASSUME NEW flobs, NEW cells, NEW m, NEW size, NEW data,
         Consistent(flobs, cells, m, size, data), NEW h \in Handles,
         NEW n \in States, SameParts(m, n), n.f = flobs[h]
  PROVE  IsApart(n, data, Except(size, flobs[h].id), Except(data, flobs[h].id))
<1> DEFINE id == n.f.id
           sizes == Except(size, id)
           contents == Except(data, id)
<1>1. /\ Good(m, size, data) /\ IsFcn(size) /\ IsFcn(data)
      /\ \E w : FlobOK(n.f, w, size, data)
  BY DEF Consistent, FlobsOK
<1>2. Good(n, size, data)
  BY <1>1, SameGood
<1>3. DOMAIN data = DOMAIN size /\ NoRecord \notin DOMAIN size
  BY <1>1 DEF Good, Stored, SizesOK, NoRecord
<1>4. /\ DOMAIN sizes = DOMAIN size \ {id} /\ DOMAIN contents = DOMAIN sizes
      /\ \A i \in DOMAIN sizes : sizes[i] = size[i] /\ contents[i] = data[i]
      /\ id \notin DOMAIN sizes
  BY <1>3 DEF Except
<1> HIDE DEF sizes, contents
<1>5. ASSUME id = NoRecord PROVE sizes = size /\ contents = data
  BY <1>1, <1>3, <1>5, ExceptAssigned DEF sizes, contents
<1>6. Destroyed.id = NoRecord
  BY DEF Destroyed
<1>7. ASSUME id # NoRecord PROVE Has(n, sizes, contents, n.f.size, data[id])
  <2>1. id \in DOMAIN size /\ size[id] = n.f.size /\ n.f.dataPointer = NoBlock
    BY <1>1, <1>6, <1>7 DEF FlobOK
  <2>2. Assign(sizes, id, size[id]) = size
    BY <1>1, <2>1, ExceptAssigned DEF sizes
  <2>3. Assign(contents, id, data[id]) = data
    BY <1>1, <1>3, <2>1, ExceptAssigned DEF contents
  <2> QED
    BY <1>2, <1>4, <2>1, <2>2, <2>3 DEF Has
<1>8. ASSUME n.f # Destroyed PROVE HasOrBlock(n, sizes, contents, Contents(n.f, data))
  <2>1. CASE id # NoRecord
    <3>1. n.f.dataPointer = NoBlock
      BY <1>1, <1>6, <2>1 DEF FlobOK
    <3> QED
      BY <1>7, <2>1, <3>1 DEF HasOrBlock, Contents
  <2>2. CASE id = NoRecord
    <3>1. n.f.dataPointer # NoBlock /\ IsArray(n.f.dataPointer, n.f.size)
      BY <1>1, <1>8, <2>2 DEF FlobOK
    <3> QED
      BY <1>2, <1>3, <1>5, <2>2, <3>1 DEF HasOrBlock, Contents
  <2> QED
    BY <2>1, <2>2
<1>9. IsApart(n, data, sizes, contents)
  BY <1>2, <1>4, <1>5, <1>7, <1>8 DEF IsApart
<1> QED
  BY <1>9 DEF sizes, contents

\* What a Flob contains.
Shown(s, a) == [c \in Cells(s) |-> IF c \in DOMAIN a THEN a[c] ELSE Garbage]
ContentOf(f, data) ==
  IF f = Destroyed THEN NoBlock
  ELSE IF f.dataPointer # NoBlock THEN f.dataPointer
  ELSE Shown(f.size, data[f.id])

\* The Flob h has become that of n; the others contain what they did.
Changed(flobs, data, h, flobs1, cells1, n, new) ==
  \E sizes, contents :
    /\ Consistent(flobs1, cells1, n, sizes, contents)
    /\ ContentOf(flobs1[h], contents) = new
    /\ \A g \in Handles \ {h} :
         ContentOf(flobs1[g], contents) = ContentOf(flobs[g], data)

\* When the Flob h has become that of n, and the others are described as they
\* were, all Flobs are described.
LEMMA Rejoined ==
  ASSUME NEW flobs, NEW cells, NEW m, NEW size, NEW data,
         Consistent(flobs, cells, m, size, data), NEW h \in Handles, NEW rest,
         rest = DOMAIN size \ {flobs[h].id},
         NEW n, NEW sizes, NEW contents, Good(n, sizes, contents),
         IsFcn(sizes), IsFcn(contents),
         \A i \in rest : i \in DOMAIN sizes /\ sizes[i] = size[i]
                         /\ contents[i] = data[i],
         DOMAIN sizes \subseteq rest \cup {n.f.id}, n.f.id \notin rest,
         NEW w, FlobOK(n.f, w, sizes, contents)
  PROVE  Changed(flobs, data, h, [flobs EXCEPT ![h] = n.f], [cells EXCEPT ![h] = w], n,
                 ContentOf(n.f, contents))
<1> DEFINE flobs1 == [flobs EXCEPT ![h] = n.f]
           cells1 == [cells EXCEPT ![h] = w]
<1>1. /\ DOMAIN flobs = Handles /\ DOMAIN cells = Handles
      /\ \A g \in Handles : FlobOK(flobs[g], cells[g], size, data)
      /\ \A g, k \in Handles : flobs[g].id = flobs[k].id /\ flobs[g].id # NoRecord => g = k
      /\ \A i \in DOMAIN size : \E g \in Handles : flobs[g].id = i
  BY DEF Consistent, FlobsOK
<1>2. /\ DOMAIN flobs1 = Handles /\ DOMAIN cells1 = Handles
      /\ IsFcn(flobs1) /\ IsFcn(cells1)
      /\ flobs1[h] = n.f /\ cells1[h] = w
      /\ \A g \in Handles \ {h} : flobs1[g] = flobs[g] /\ cells1[g] = cells[g]
  BY <1>1 DEF IsFcn
<1> HIDE DEF flobs1, cells1
<1>3. Destroyed.id = NoRecord /\ Destroyed.dataPointer = NoBlock
  BY DEF Destroyed
<1>4. ASSUME NEW g \in Handles \ {h}, flobs[g].id # NoRecord
      PROVE  /\ flobs[g].id \in rest /\ sizes[flobs[g].id] = size[flobs[g].id]
             /\ contents[flobs[g].id] = data[flobs[g].id] /\ flobs[g].id \in DOMAIN sizes
  <2>1. flobs[g].id \in DOMAIN size
    BY <1>1, <1>3, <1>4 DEF FlobOK
  <2>2. flobs[g].id # flobs[h].id
    BY <1>1, <1>4
  <2> QED
    BY <2>1, <2>2
<1>5. ASSUME NEW g \in Handles PROVE FlobOK(flobs1[g], cells1[g], sizes, contents)
  <2>1. CASE g = h
    BY <1>2, <2>1
  <2>2. CASE g # h
    <3>1. FlobOK(flobs[g], cells[g], size, data)
      BY <1>1
    <3>2. flobs1[g] = flobs[g] /\ cells1[g] = cells[g]
      BY <1>2, <2>2
    <3>3. CASE flobs[g].id # NoRecord
      BY <1>3, <1>4, <2>2, <3>1, <3>2, <3>3 DEF FlobOK
    <3>4. CASE flobs[g].id = NoRecord
      BY <3>1, <3>2, <3>4 DEF FlobOK
    <3> QED
      BY <3>3, <3>4
  <2> QED
    BY <2>1, <2>2
<1>6. ASSUME NEW g \in Handles, NEW k \in Handles, flobs1[g].id = flobs1[k].id,
             flobs1[g].id # NoRecord
      PROVE  g = k
  <2>1. CASE g # h /\ k # h
    BY <1>1, <1>2, <1>6, <2>1
  <2>2. CASE g = h /\ k # h
    BY <1>2, <1>4, <1>6, <2>2
  <2>3. CASE g # h /\ k = h
    BY <1>2, <1>4, <1>6, <2>3
  <2> QED
    BY <2>1, <2>2, <2>3
<1>7. ASSUME NEW i \in DOMAIN sizes PROVE \E g \in Handles : flobs1[g].id = i
  <2>1. CASE i = n.f.id
    BY <1>2, <2>1
  <2>2. CASE i \in rest
    <3>1. PICK g \in Handles : flobs[g].id = i
      BY <1>1, <2>2
    <3>2. g # h
      BY <2>2, <3>1
    <3> QED
      BY <1>2, <3>1, <3>2
  <2> QED
    BY <2>1, <2>2
<1>8. FlobsOK(flobs1, cells1, sizes, contents)
  BY <1>2, <1>5, <1>6, <1>7 DEF FlobsOK
<1>9. ASSUME NEW g \in Handles \ {h}
      PROVE  ContentOf(flobs1[g], contents) = ContentOf(flobs[g], data)
  <2>1. flobs1[g] = flobs[g] /\ FlobOK(flobs[g], cells[g], size, data)
    BY <1>1, <1>2
  <2>2. CASE flobs[g].id # NoRecord
    BY <1>4, <2>1, <2>2 DEF ContentOf
  <2>3. CASE flobs[g].id = NoRecord
    BY <2>1, <2>3 DEF ContentOf, FlobOK
  <2> QED
    BY <2>2, <2>3
<1>10. ContentOf(flobs1[h], contents) = ContentOf(n.f, contents)
  BY <1>2
<1> QED
  BY <1>8, <1>9, <1>10 DEF Changed, Consistent, flobs1, cells1

\* An operation has given the Flob h a record, or changed what is in it.
LEMMA RecordChanged ==
  ASSUME NEW flobs, NEW cells, NEW m, NEW size, NEW data,
         Consistent(flobs, cells, m, size, data), NEW h \in Handles,
         NEW n, NEW s, NEW a,
         Has(n, Except(size, flobs[h].id), Except(data, flobs[h].id), s, a)
  PROVE  Changed(flobs, data, h, [flobs EXCEPT ![h] = n.f],
                 [cells EXCEPT ![h] = DOMAIN a], n, Shown(s, a))
<1> DEFINE others == Except(size, flobs[h].id)
           theirs == Except(data, flobs[h].id)
           sizes == Assign(others, n.f.id, s)
           contents == Assign(theirs, n.f.id, a)
           rest == DOMAIN size \ {flobs[h].id}
<1>1. /\ Good(n, sizes, contents) /\ n.f.id \notin DOMAIN others
      /\ n.f.size = s /\ n.f.dataPointer = NoBlock /\ DOMAIN theirs = DOMAIN others
  BY DEF Has
<1>2. /\ DOMAIN others = rest
      /\ \A i \in rest : others[i] = size[i]
      /\ \A i \in DOMAIN theirs : theirs[i] = data[i]
  BY DEF Except
<1> HIDE DEF others, theirs
<1>3. /\ DOMAIN sizes = DOMAIN others \cup {n.f.id} /\ sizes[n.f.id] = s
      /\ DOMAIN contents = DOMAIN theirs \cup {n.f.id} /\ contents[n.f.id] = a
      /\ \A i \in DOMAIN others : i # n.f.id => sizes[i] = others[i]
      /\ \A i \in DOMAIN theirs : i # n.f.id => contents[i] = theirs[i]
      /\ IsFcn(sizes) /\ IsFcn(contents)
  BY DEF Assign, IsFcn
<1> HIDE DEF sizes, contents, rest
<1>4. n.f \in Objects /\ n.f.id # NoRecord
  <2>1. n \in States /\ SizesOK(n, sizes, contents)
    BY <1>1 DEF Good, Stored, Listed
  <2>2. n.f.id \in 1 .. Len(n.file)
    BY <1>3, <2>1 DEF SizesOK
  <2> QED
    BY <2>1, <2>2 DEF States, NoRecord
<1>5. FlobOK(n.f, DOMAIN a, sizes, contents)
  BY <1>1, <1>3, <1>4 DEF FlobOK
<1>6. \A i \in rest : i \in DOMAIN sizes /\ sizes[i] = size[i] /\ contents[i] = data[i]
  BY <1>1, <1>2, <1>3
<1>7. DOMAIN sizes \subseteq rest \cup {n.f.id} /\ n.f.id \notin rest
  BY <1>1, <1>2, <1>3
<1>8. ContentOf(n.f, contents) = Shown(s, a)
  BY <1>1, <1>3, <1>4 DEF ContentOf, Destroyed
<1>9. rest = DOMAIN size \ {flobs[h].id}
  BY DEF rest
<1>10. Changed(flobs, data, h, [flobs EXCEPT ![h] = n.f], [cells EXCEPT ![h] = DOMAIN a], n,
               ContentOf(n.f, contents))
  BY <1>1, <1>3, <1>5, <1>6, <1>7, <1>9, Rejoined
<1> QED
  BY <1>8, <1>10

\* An operation has left the Flob h without a record.
LEMMA RecordGone ==
  ASSUME NEW flobs, NEW cells, NEW m, NEW size, NEW data,
         Consistent(flobs, cells, m, size, data), NEW h \in Handles,
         NEW n, Good(n, Except(size, flobs[h].id), Except(data, flobs[h].id)),
         NEW w,
         \/ n.f = Destroyed /\ w = {}
         \/ /\ n.f.id = NoRecord /\ n.f.dataPointer # NoBlock
            /\ IsArray(n.f.dataPointer, n.f.size) /\ w = Cells(n.f.size)
  PROVE  Changed(flobs, data, h, [flobs EXCEPT ![h] = n.f], [cells EXCEPT ![h] = w], n,
                 n.f.dataPointer)
<1> DEFINE sizes == Except(size, flobs[h].id)
           contents == Except(data, flobs[h].id)
           rest == DOMAIN size \ {flobs[h].id}
<1>1. /\ DOMAIN sizes = rest /\ DOMAIN contents = DOMAIN data \ {flobs[h].id}
      /\ \A i \in DOMAIN sizes : sizes[i] = size[i]
      /\ \A i \in DOMAIN contents : contents[i] = data[i]
      /\ IsFcn(sizes) /\ IsFcn(contents)
  BY DEF Except, IsFcn
<1>2. Good(n, sizes, contents)
  OBVIOUS
<1>3. rest = DOMAIN size \ {flobs[h].id}
  OBVIOUS
<1> HIDE DEF sizes, contents, rest
<1>4. n \in States /\ SizesOK(n, sizes, contents)
  BY <1>2 DEF Good, Stored, Listed
<1>5. n.f \in Objects /\ NoRecord \notin DOMAIN sizes /\ DOMAIN contents = DOMAIN sizes
  BY <1>4 DEF States, SizesOK, NoRecord
<1>6. Destroyed.id = NoRecord /\ Destroyed.dataPointer = NoBlock
  BY DEF Destroyed
<1>7. FlobOK(n.f, w, sizes, contents)
  BY <1>5 DEF FlobOK
<1>8. \A i \in rest : i \in DOMAIN sizes /\ sizes[i] = size[i] /\ contents[i] = data[i]
  BY <1>1, <1>5
<1>9. DOMAIN sizes \subseteq rest \cup {n.f.id} /\ n.f.id \notin rest
  BY <1>1, <1>5, <1>6
<1>10. ContentOf(n.f, contents) = n.f.dataPointer
  BY <1>6 DEF ContentOf
<1>11. Changed(flobs, data, h, [flobs EXCEPT ![h] = n.f], [cells EXCEPT ![h] = w], n,
               ContentOf(n.f, contents))
  <2>1. IsFcn(sizes) /\ IsFcn(contents)
    BY <1>1
  <2> QED
    BY <1>2, <1>3, <1>7, <1>8, <1>9, <2>1, Rejoined
<1> QED
  BY <1>10, <1>11

\* What was written is the content of a cell.
LEMMA DataTyped ==
  ASSUME NEW m, NEW size, NEW data, Stored(m, size, data), NEW id \in DOMAIN data,
         NEW x \in DOMAIN data[id]
  PROVE  data[id][x] \in Cell
<1> DEFINE k == SlotOf(id, x)
<1>1. /\ SizesOK(m, size, data) /\ Fits(m.cache, size) /\ Holds(m, data)
      /\ m \in States
  BY DEF Stored, Listed
<1>2. id \in DOMAIN size /\ x \in Cells(size[id]) /\ size[id] \in Nat /\ id \in 1 .. Len(m.file)
  BY <1>1, FlobAssumption DEF SizesOK
<1>3. CASE k \in DOMAIN m.cache
  <2>1. m.cache[k].mem[x] = data[id][x]
    BY <1>1, <1>3 DEF Holds
  <2>2. k[1] = id /\ k[2] = x \div SlotSize
    BY DEF SlotOf
  <2>3. DOMAIN m.cache[k].mem = SlotCells(x \div SlotSize, size[id])
    BY <1>1, <1>3, <2>2 DEF Fits
  <2>4. x \in SlotCells(x \div SlotSize, size[id])
    <3>1. x \in Nat
      BY <1>2 DEF Cells
    <3>2. x \div SlotSize \in Nat
      BY <3>1, SlotNumbers
    <3> QED
      BY <1>2, <3>2, SlotCellsAre
  <2> HIDE DEF k
  <2>5. m.cache[k].mem[x] \in Cell
    BY <1>3, <2>3, <2>4, KeysOf
  <2> QED
    BY <2>1, <2>5
<1>4. CASE k \notin DOMAIN m.cache
  <2>1. OnDisk(m.file, id, x) = data[id][x]
    BY <1>1, <1>4 DEF Holds
  <2>2. m.file[id] \in Arrays
    BY <1>1, <1>2 DEF States
  <2>3. m.file[id] \in [DOMAIN m.file[id] -> Cell]
    BY <2>2, ArraysAre, MemoriesAre
  <2> QED
    BY <2>1, <2>3 DEF OnDisk, Cell
<1> QED
  BY <1>3, <1>4

\* The same from the state: what a reader of the Flob f sees.
VisibleAt(f, slotCache, file) ==
  IF f.dataPointer # NoBlock THEN f.dataPointer
  ELSE [c \in Cells(f.size) |->
         LET key == <<f.id, c \div SlotSize>> IN
         CASE key \in DOMAIN slotCache -> slotCache[key].mem[c]
           [] key \notin DOMAIN slotCache /\ c \in DOMAIN file[f.id] -> file[f.id][c]
           [] OTHER -> Garbage]
ContentAt(f, w, slotCache, file) ==
  IF f # Destroyed
    THEN [c \in Cells(f.size) |-> IF c \in w THEN VisibleAt(f, slotCache, file)[c] ELSE Garbage]
    ELSE NoBlock

\* A Flob with data: its written cells, and what it contains.
LEMMA LiveContent ==
  ASSUME NEW m, NEW size, NEW data, Good(m, size, data),
         NEW f, NEW w, FlobOK(f, w, size, data), f # Destroyed
  PROVE  LET a == Contents(f, data)
         IN /\ f.size \in 0 .. MaxFlobSize /\ f.size \in Nat
            /\ DOMAIN a = w /\ DOMAIN a \subseteq Cells(f.size)
            /\ \A x \in DOMAIN a : a[x] \in Cell
            /\ ContentOf(f, data) = Shown(f.size, a)
            /\ ContentOf(f, data) # NoBlock
<1> DEFINE a == Contents(f, data)
           s == f.size
<1>1. s \in 0 .. MaxFlobSize /\ s \in Nat
  BY FlobAssumption DEF FlobOK, Objects
<1>2. /\ DOMAIN a = w /\ DOMAIN a \subseteq Cells(s)
      /\ \A x \in DOMAIN a : a[x] \in Cell
      /\ ContentOf(f, data) = Shown(s, a)
  <2>1. CASE f.id = NoRecord
    <3> DEFINE p == f.dataPointer
    <3>1. p # NoBlock /\ p \in [Cells(s) -> Cell] /\ w = Cells(s) /\ a = p
      BY <2>1 DEF FlobOK, IsArray, Contents
    <3> HIDE DEF p, a, s
    <3>2. DOMAIN a = Cells(s) /\ \A x \in DOMAIN a : a[x] \in Cell
      BY <3>1
    <3>3. Shown(s, p) = p
      BY <3>1 DEF Shown
    <3>4. ContentOf(f, data) = p
      BY <3>1 DEF ContentOf, p
    <3> QED
      BY <3>1, <3>2, <3>3, <3>4
  <2>2. CASE f.id # NoRecord
    <3>1. /\ f.dataPointer = NoBlock /\ f.id \in DOMAIN size /\ size[f.id] = s
          /\ DOMAIN data[f.id] = w /\ a = data[f.id]
      BY <2>2 DEF FlobOK, Contents, Destroyed
    <3>2. Stored(m, size, data) /\ SizesOK(m, size, data)
      BY DEF Good, Stored
    <3>3. f.id \in DOMAIN data /\ DOMAIN a \subseteq Cells(s)
      BY <3>1, <3>2 DEF SizesOK
    <3>4. \A x \in DOMAIN a : a[x] \in Cell
      BY <3>1, <3>2, <3>3, DataTyped
    <3> QED
      BY <3>1, <3>3, <3>4 DEF ContentOf
  <2> QED
    BY <2>1, <2>2
<1>3. Shown(s, a) # NoBlock
  <2> HIDE DEF a, s
  <2>1. Shown(s, a) \in [0 .. s - 1 -> Values \cup {Garbage}]
    BY <1>2 DEF Shown, Cells, Cell
  <2> QED
    BY <1>1, <2>1, FlobAssumption
<1> QED
  BY <1>1, <1>2, <1>3

\* A reader sees what was written.
LEMMA ContentIs ==
  ASSUME NEW m, NEW size, NEW data, Good(m, size, data),
         NEW f, NEW w, FlobOK(f, w, size, data)
  PROVE  ContentAt(f, w, m.cache, m.file) = ContentOf(f, data)
<1>1. CASE f = Destroyed
  BY <1>1 DEF ContentAt, ContentOf
<1>2. CASE f # Destroyed
  <2> DEFINE a == Contents(f, data)
             s == f.size
             seen == VisibleAt(f, m.cache, m.file)
  <2>1. DOMAIN a = w /\ DOMAIN a \subseteq Cells(s) /\ ContentOf(f, data) = Shown(s, a)
    BY <1>2, LiveContent
  <2>2. ASSUME NEW x \in DOMAIN a PROVE seen[x] = a[x]
    <3>1. CASE f.dataPointer # NoBlock
      BY <3>1 DEF VisibleAt, Contents
    <3>2. CASE f.dataPointer = NoBlock
      <4>1. f.id \in DOMAIN size /\ a = data[f.id]
        BY <1>2, <3>2 DEF FlobOK, Contents
      <4>2. Holds(m, data) /\ f.id \in DOMAIN data
        BY <4>1 DEF Good, Stored, SizesOK
      <4> DEFINE k == SlotOf(f.id, x)
      <4>3. /\ k \in DOMAIN m.cache => m.cache[k].mem[x] = a[x]
            /\ k \notin DOMAIN m.cache => OnDisk(m.file, f.id, x) = a[x]
        BY <2>2, <4>1, <4>2 DEF Holds
      <4>4. seen[x] = CASE k \in DOMAIN m.cache -> m.cache[k].mem[x]
                        [] k \notin DOMAIN m.cache /\ x \in DOMAIN m.file[f.id]
                             -> m.file[f.id][x]
                        [] OTHER -> Garbage
        BY <2>1, <2>2, <3>2 DEF VisibleAt, SlotOf
      <4> HIDE DEF k, seen, a
      <4> QED
        BY <4>3, <4>4 DEF OnDisk
    <3> QED
      BY <3>1, <3>2
  <2>3. ContentAt(f, w, m.cache, m.file) = [c \in Cells(s) |-> IF c \in w THEN seen[c] ELSE Garbage]
    BY <1>2 DEF ContentAt
  <2> HIDE DEF seen, a, s
  <2> QED
    BY <2>1, <2>2, <2>3 DEF Shown
<1> QED
  BY <1>1, <1>2

-----------------------------------------------------------------------------
(* The steps.                                                              *)

TheStore ==
  [file |-> nativeFlobFile, cache |-> nativeFlobCache, lru |-> lru, used |-> usedSize,
   buffer |-> <<>>, destroyed |-> destroyedFlobs, f |-> Destroyed]

\* What FlobStore lets happen to one Flob, or nothing.
StoreOperation(old, new, data) ==
  \/ Store!Destroy(old, new) \/ Store!Create(old, new) \/ Store!CreateFromBlock(old, new)
  \/ Store!Resize(old, new) \/ Store!Write(old, new)
  \/ \E src \in Handles : Store!CopyFrom(old, new, ContentOf(flob[src], data))
  \/ new = old

OneStep(h, data) ==
  \E new : /\ Changed(flob, data, h, flob', written', TheStore', new)
           /\ StoreOperation(ContentOf(flob[h], data), new, data)

\* The manager that an operation on h begins with.
LEMMA ManagerIs ==
  ASSUME NEW size, NEW data, Consistent(flob, written, TheStore, size, data),
         NEW h \in Handles
  PROVE  /\ Manager(h) \in States /\ SameParts(TheStore, Manager(h))
         /\ Manager(h).f = flob[h] /\ FlobOK(flob[h], written[h], size, data)
         /\ Good(TheStore, size, data)
         /\ flob = [flob EXCEPT ![h] = flob[h]]
         /\ written = [written EXCEPT ![h] = written[h]]
<1>1. /\ Good(TheStore, size, data) /\ FlobOK(flob[h], written[h], size, data)
      /\ IsFcn(flob) /\ IsFcn(written)
  BY DEF Consistent, FlobsOK
<1>2. TheStore \in States
  BY <1>1 DEF Good, Stored, Listed
<1>3. flob[h] \in Objects
  BY <1>1 DEF FlobOK
<1>4. Manager(h) \in States
  BY <1>2, <1>3 DEF States, TheStore, Manager
<1>5. /\ flob = [flob EXCEPT ![h] = flob[h]]
      /\ written = [written EXCEPT ![h] = written[h]]
  BY <1>1 DEF IsFcn
<1> QED
  BY <1>1, <1>4, <1>5 DEF SameParts, TheStore, Manager

\* An operation that ends in the manager m is a step.
LEMMA StepTo ==
  ASSUME NEW data, NEW h \in Handles, NEW m, Becomes(h, m), NEW w, written' = w, NEW new,
         Changed(flob, data, h, [flob EXCEPT ![h] = m.f], w, m, new),
         StoreOperation(ContentOf(flob[h], data), new, data)
  PROVE  OneStep(h, data)
<1>1. PICK sizes, contents :
        /\ Consistent(flob', w, m, sizes, contents)
        /\ ContentOf(flob'[h], contents) = new
        /\ \A g \in Handles \ {h} :
             ContentOf(flob'[g], contents) = ContentOf(flob[g], data)
  BY DEF Changed, Becomes
<1>2. m \in States
  BY <1>1 DEF Consistent, Good, Stored, Listed
<1>3. Destroyed \in Objects /\ <<>> \in Memories
  <2>1. DOMAIN <<>> = {} /\ <<>> \in [DOMAIN <<>> -> Cell]
    OBVIOUS
  <2>2. Destroyed \in Objects
    BY FlobAssumption DEF Destroyed, NoRecord, Objects
  <2> QED
    BY <2>1, <2>2, MemoriesAre
<1>4. TheStore' = [file |-> m.file, cache |-> m.cache, lru |-> m.lru, used |-> m.used,
                   buffer |-> <<>>, destroyed |-> m.destroyed, f |-> Destroyed]
  BY DEF TheStore, Becomes
<1>5. TheStore' \in States /\ SameParts(m, TheStore')
  BY <1>2, <1>3, <1>4 DEF States, SameParts
<1> HIDE DEF TheStore
<1>6. Good(TheStore', sizes, contents)
  BY <1>1, <1>5, SameGood DEF Consistent
<1>7. Consistent(flob', written', TheStore', sizes, contents)
  BY <1>1, <1>6 DEF Consistent
<1>8. Changed(flob, data, h, flob', written', TheStore', new)
  BY <1>1, <1>7 DEF Changed
<1> QED
  BY <1>8 DEF OneStep

\* Flob( size )
LEMMA CreateStep ==
  ASSUME NEW size, NEW data, Consistent(flob, written, TheStore, size, data),
         NEW h \in Handles, CreateFlob(h)
  PROVE  OneStep(h, data)
<1> DEFINE n == Manager(h)
           id == flob[h].id
           others == Except(size, id)
           theirs == Except(data, id)
<1>1. /\ n \in States /\ SameParts(TheStore, n) /\ n.f = flob[h]
      /\ FlobOK(flob[h], written[h], size, data)
      /\ written = [written EXCEPT ![h] = written[h]]
  BY ManagerIs
<1>2. PICK s \in Sizes : Becomes(h, create(n, s))
  BY DEF CreateFlob
<1>3. flob[h] = Destroyed /\ id = NoRecord /\ written' = written
  BY DEF CreateFlob, Live, Destroyed
<1>4. written[h] = {}
  BY <1>1, <1>3 DEF FlobOK, Destroyed
<1>5. s \in 0 .. MaxFlobSize /\ s \in Nat
  BY FlobAssumption
<1> DEFINE d == create(n, s)
<1> HIDE DEF n
<1>6. Good(n, others, theirs) /\ DOMAIN theirs = DOMAIN others
  <2>1. IsApart(n, data, others, theirs)
    BY <1>1, Apart
  <2> HIDE DEF others, theirs
  <2> QED
    BY <1>1, <1>3, <2>1 DEF IsApart
<1>7. Has(d, others, theirs, s, <<>>)
  <2> HIDE DEF others, theirs
  <2> QED
    BY <1>5, <1>6, CreateHas
<1> HIDE DEF d
<1>8. Changed(flob, data, h, [flob EXCEPT ![h] = d.f],
              [written EXCEPT ![h] = DOMAIN <<>>], d, Shown(s, <<>>))
  BY <1>7, RecordChanged
<1>9. DOMAIN <<>> = {} /\ written' = [written EXCEPT ![h] = DOMAIN <<>>]
  BY <1>1, <1>3, <1>4
<1>10. StoreOperation(ContentOf(flob[h], data), Shown(s, <<>>), data)
  <2>1. ContentOf(flob[h], data) = NoBlock
    BY <1>3 DEF ContentOf
  <2>2. Shown(s, <<>>) = [c \in Store!Cells(s) |-> Garbage]
    BY DEF Shown, Store!Cells, Cells
  <2> QED
    BY <2>1, <2>2 DEF StoreOperation, Store!Create
<1> QED
  BY <1>2, <1>8, <1>9, <1>10, StepTo DEF d

\* A Flob of a tuple.
LEMMA BlockStep ==
  ASSUME NEW size, NEW data, Consistent(flob, written, TheStore, size, data),
         NEW h \in Handles, CreateFromBlock(h)
  PROVE  OneStep(h, data)
<1> DEFINE n == Manager(h)
           id == flob[h].id
           others == Except(size, id)
           theirs == Except(data, id)
<1>1. /\ n \in States /\ SameParts(TheStore, n) /\ n.f = flob[h]
  BY ManagerIs
<1>2. PICK s \in Sizes, v \in Values :
        /\ flob' = [flob EXCEPT ![h] =
             [id |-> NoRecord, size |-> s, dataPointer |-> [c \in Cells(s) |-> v]]]
        /\ written' = [written EXCEPT ![h] = Cells(s)]
  BY DEF CreateFromBlock
<1> DEFINE p == [c \in Cells(s) |-> v]
           f == [id |-> NoRecord, size |-> s, dataPointer |-> p]
           d == [n EXCEPT !.f = f]
<1>3. s \in 0 .. MaxFlobSize /\ s \in Nat
  BY FlobAssumption
<1>4. p \in [Cells(s) -> Cell] /\ p # NoBlock /\ p \in Arrays
  <2>1. p \in [Cells(s) -> Cell]
    BY DEF Cell
  <2>2. p \in Arrays
    BY <1>3, <2>1 DEF Arrays
  <2> HIDE DEF p
  <2> QED
    BY <2>1, <2>2, ArraysAre
<1>5. f \in Objects /\ f.id = NoRecord /\ f.size = s /\ f.dataPointer = p
  <2> HIDE DEF p
  <2> QED
    BY <1>3, <1>4 DEF Objects, NoRecord
<1>6. flob[h] = Destroyed /\ n.f.id = NoRecord
  BY <1>1 DEF CreateFromBlock, Live, Destroyed
<1> HIDE DEF p
<1>7. Becomes(h, d) /\ d.f = f
  <2>1. flob' = [flob EXCEPT ![h] = f]
    BY <1>2 DEF p
  <2> HIDE DEF f
  <2>2. /\ d.f = f /\ d.file = nativeFlobFile /\ d.cache = nativeFlobCache /\ d.lru = lru
        /\ d.used = usedSize /\ d.destroyed = destroyedFlobs
    BY DEF Manager
  <2> HIDE DEF d
  <2> QED
    BY <2>1, <2>2 DEF Becomes, CreateFromBlock
<1>8. d \in States /\ SameParts(n, d)
  <2> HIDE DEF f, n
  <2> QED
    BY <1>1, <1>5 DEF States, SameParts
<1> HIDE DEF n, f, d
<1>9. Good(d, others, theirs)
  <2>1. IsApart(n, data, others, theirs)
    BY <1>1, Apart
  <2> HIDE DEF others, theirs
  <2>2. Good(n, others, theirs)
    BY <1>6, <2>1 DEF IsApart
  <2> QED
    BY <1>8, <2>2, SameGood
<1>10. Changed(flob, data, h, [flob EXCEPT ![h] = d.f], [written EXCEPT ![h] = Cells(s)], d, p)
  <2>1. /\ d.f.id = NoRecord /\ d.f.dataPointer # NoBlock
        /\ IsArray(d.f.dataPointer, d.f.size) /\ Cells(s) = Cells(d.f.size)
        /\ d.f.dataPointer = p
    BY <1>4, <1>5, <1>7 DEF IsArray
  <2>2. Changed(flob, data, h, [flob EXCEPT ![h] = d.f], [written EXCEPT ![h] = Cells(s)], d,
                d.f.dataPointer)
    BY <1>9, <2>1, RecordGone
  <2> QED
    BY <2>1, <2>2
<1>11. StoreOperation(ContentOf(flob[h], data), p, data)
  <2>1. ContentOf(flob[h], data) = NoBlock
    BY <1>6 DEF ContentOf
  <2>2. p = [c \in Store!Cells(s) |-> v]
    BY DEF p, Store!Cells, Cells
  <2> QED
    BY <2>1, <2>2 DEF StoreOperation, Store!CreateFromBlock
<1> QED
  BY <1>2, <1>7, <1>10, <1>11, StepTo

\* The Flob h before an operation on it.
BeforeStep(h, data, others, theirs, a) ==
  LET n == Manager(h) IN
  /\ n \in States /\ n.f = flob[h] /\ flob[h].size \in 0 .. MaxFlobSize
  /\ flob[h].size \in Nat
  /\ HasOrBlock(n, others, theirs, a) /\ IsApart(n, data, others, theirs)
  /\ DOMAIN a = written[h] /\ DOMAIN a \subseteq Cells(flob[h].size)
  /\ ContentOf(flob[h], data) = Shown(flob[h].size, a)
  /\ ContentOf(flob[h], data) # NoBlock

\* A Flob that holds data is described before each operation on it.
LEMMA LiveBefore ==
  ASSUME NEW size, NEW data, Consistent(flob, written, TheStore, size, data),
         NEW h \in Handles, Live(h)
  PROVE  BeforeStep(h, data, Except(size, flob[h].id), Except(data, flob[h].id),
                 Contents(flob[h], data))
<1> DEFINE n == Manager(h)
           others == Except(size, flob[h].id)
           theirs == Except(data, flob[h].id)
           a == Contents(flob[h], data)
<1>1. /\ n \in States /\ SameParts(TheStore, n) /\ n.f = flob[h]
      /\ FlobOK(flob[h], written[h], size, data) /\ Good(TheStore, size, data)
  BY ManagerIs
<1>2. flob[h] # Destroyed
  BY DEF Live
<1>3. /\ flob[h].size \in 0 .. MaxFlobSize /\ flob[h].size \in Nat
      /\ DOMAIN a = written[h] /\ DOMAIN a \subseteq Cells(flob[h].size)
      /\ ContentOf(flob[h], data) = Shown(flob[h].size, a)
      /\ ContentOf(flob[h], data) # NoBlock
  BY <1>1, <1>2, LiveContent
<1> HIDE DEF n
<1>4. IsApart(n, data, others, theirs)
  BY <1>1, Apart
<1>5. a = Contents(n.f, data)
  BY <1>1
<1> HIDE DEF others, theirs, a
<1>6. HasOrBlock(n, others, theirs, a)
  BY <1>1, <1>2, <1>4, <1>5 DEF IsApart
<1> QED
  BY <1>1, <1>3, <1>4, <1>6 DEF BeforeStep, n, others, theirs, a

\* Flob::destroy
LEMMA DestroyStep ==
  ASSUME NEW size, NEW data, Consistent(flob, written, TheStore, size, data),
         NEW h \in Handles, Destroy(h)
  PROVE  OneStep(h, data)
<1> DEFINE n == Manager(h)
           others == Except(size, flob[h].id)
           theirs == Except(data, flob[h].id)
           a == Contents(flob[h], data)
           d == IF n.f.dataPointer # NoBlock
                  THEN [n EXCEPT !.f = Destroyed]
                  ELSE [erase(n, n.f.id, n.f.size) EXCEPT
                          !.destroyed = <<n.f.id>> \o @, !.f = Destroyed]
<1>1. Live(h) /\ Becomes(h, d) /\ written' = [written EXCEPT ![h] = {}]
  BY DEF Destroy
<1>2. BeforeStep(h, data, others, theirs, a)
  BY <1>1, LiveBefore
<1>3. FlobOK(flob[h], written[h], size, data)
  BY ManagerIs
<1> HIDE DEF others, theirs, a
<1>4. /\ n \in States /\ n.f = flob[h] /\ IsApart(n, data, others, theirs)
      /\ ContentOf(flob[h], data) # NoBlock
  BY <1>2 DEF BeforeStep
<1> HIDE DEF n
<1>5. Good(d, others, theirs) /\ d.f = Destroyed
  <2>1. CASE n.f.dataPointer # NoBlock
    <3> DEFINE e == [n EXCEPT !.f = Destroyed]
    <3>1. d = e
      BY <2>1
    <3>2. n.f.id = NoRecord
      BY <1>3, <1>4, <2>1 DEF FlobOK, Destroyed
    <3>3. Good(n, others, theirs)
      BY <1>4, <3>2 DEF IsApart
    <3>4. Destroyed \in Objects
      BY FlobAssumption DEF Destroyed, NoRecord, Objects
    <3>5. e \in States /\ SameParts(n, e) /\ e.f = Destroyed
      <4> HIDE DEF d
      <4> QED
        BY <1>4, <3>4 DEF States, SameParts
    <3> HIDE DEF d, e
    <3>6. Good(e, others, theirs)
      BY <3>3, <3>5, SameGood
    <3> QED
      BY <3>1, <3>5, <3>6
  <2>2. CASE n.f.dataPointer = NoBlock
    <3> DEFINE e == [erase(n, n.f.id, n.f.size) EXCEPT
                       !.destroyed = <<n.f.id>> \o @, !.f = Destroyed]
    <3>1. d = e
      BY <2>2
    <3>2. n.f.id # NoRecord
      BY <1>1, <1>3, <1>4, <2>2 DEF FlobOK, Live
    <3>3. Has(n, others, theirs, n.f.size, data[n.f.id])
      BY <1>4, <3>2 DEF IsApart
    <3>4. Good(e, others, theirs)
      BY <3>3, EraseGood
    <3>5. e.f = Destroyed
      <4>1. Stored(n, Assign(others, n.f.id, n.f.size), Assign(theirs, n.f.id, data[n.f.id]))
        BY <3>3 DEF Has, Good
      <4> DEFINE c == erase(n, n.f.id, n.f.size)
      <4>2. c \in States
        <5> DEFINE sizes == Assign(others, n.f.id, n.f.size)
        <5>1. n.f.id \in DOMAIN sizes /\ sizes[n.f.id] = n.f.size
          BY DEF Assign
        <5> HIDE DEF sizes
        <5>2. Stored(erase(n, n.f.id, sizes[n.f.id]), sizes,
                     Assign(Assign(theirs, n.f.id, data[n.f.id]), n.f.id, <<>>))
          BY <4>1, <5>1, EraseStored DEF sizes
        <5>3. erase(n, n.f.id, sizes[n.f.id]) = c
          BY <5>1
        <5> HIDE DEF c
        <5> QED
          BY <5>2, <5>3 DEF Stored, Listed
      <4> HIDE DEF c, d
      <4>3. [c EXCEPT !.destroyed = <<n.f.id>> \o @, !.f = Destroyed].f = Destroyed
        BY <4>2 DEF States
      <4> QED
        BY <4>3 DEF c
    <3> HIDE DEF d, e
    <3> QED
      BY <3>1, <3>4, <3>5
  <2> QED
    BY <2>1, <2>2
<1> HIDE DEF d
<1>6. Changed(flob, data, h, [flob EXCEPT ![h] = d.f], [written EXCEPT ![h] = {}], d,
              d.f.dataPointer)
  <2>1. Good(d, Except(size, flob[h].id), Except(data, flob[h].id))
    BY <1>5 DEF others, theirs
  <2>2. d.f = Destroyed /\ {} = {}
    BY <1>5
  <2> QED
    BY <2>1, <2>2, RecordGone
<1>7. StoreOperation(ContentOf(flob[h], data), d.f.dataPointer, data)
  <2>1. d.f.dataPointer = NoBlock
    BY <1>5 DEF Destroyed
  <2> QED
    BY <1>4, <2>1 DEF StoreOperation, Store!Destroy
<1> QED
  BY <1>1, <1>6, <1>7, StepTo

\* Flob::resize
LEMMA ResizeStep ==
  ASSUME NEW size, NEW data, Consistent(flob, written, TheStore, size, data),
         NEW h \in Handles, ResizeFlob(h)
  PROVE  OneStep(h, data)
<1> DEFINE n == Manager(h)
           s == flob[h].size
           others == Except(size, flob[h].id)
           theirs == Except(data, flob[h].id)
           a == Contents(flob[h], data)
<1>1. Live(h)
  BY DEF ResizeFlob
<1>2. PICK t \in Sizes : /\ Becomes(h, Resize(n, t))
                         /\ written' = [written EXCEPT ![h] = written[h] \cap Cells(t)]
  BY DEF ResizeFlob
<1> DEFINE d == Resize(n, t)
           b == Cut(a, t)
<1>3. BeforeStep(h, data, others, theirs, a)
  BY <1>1, LiveBefore
<1> HIDE DEF others, theirs, a
<1>4. /\ n \in States /\ HasOrBlock(n, others, theirs, a)
      /\ DOMAIN a = written[h] /\ DOMAIN a \subseteq Cells(s)
      /\ ContentOf(flob[h], data) = Shown(s, a)
      /\ ContentOf(flob[h], data) # NoBlock
  BY <1>3 DEF BeforeStep
<1>5. t \in 0 .. MaxFlobSize
  BY FlobAssumption
<1> HIDE DEF n, s
<1>6. Has(d, others, theirs, t, b)
  BY <1>4, <1>5, ResizeHas
<1>7. DOMAIN b = written[h] \cap Cells(t)
  BY <1>4 DEF Cut
<1> HIDE DEF d
<1>8. Changed(flob, data, h, [flob EXCEPT ![h] = d.f], [written EXCEPT ![h] = DOMAIN b], d,
              Shown(t, b))
  BY <1>6, RecordChanged DEF others, theirs
<1>9. StoreOperation(ContentOf(flob[h], data), Shown(t, b), data)
  <2>1. Shown(t, b) = Store!Resized(Shown(s, a), t)
    BY <1>4 DEF Shown, Cut, Store!Resized, Store!Cells, Cells
  <2> QED
    BY <1>4, <2>1 DEF StoreOperation, Store!Resize
<1>10. written' = [written EXCEPT ![h] = DOMAIN b]
  BY <1>2, <1>7
<1> HIDE DEF b
<1> QED
  BY <1>2, <1>8, <1>9, <1>10, StepTo DEF d

\* Flob::read
LEMMA ReadStep ==
  ASSUME NEW size, NEW data, Consistent(flob, written, TheStore, size, data),
         NEW h \in Handles, ReadFlob(h)
  PROVE  OneStep(h, data)
<1> DEFINE n == Manager(h)
           s == flob[h].size
           others == Except(size, flob[h].id)
           theirs == Except(data, flob[h].id)
           a == Contents(flob[h], data)
           id == n.f.id
           sizes == Assign(others, id, s)
           contents == Assign(theirs, id, a)
<1>1. Live(h) /\ flob[h].dataPointer = NoBlock /\ written' = written
  BY DEF ReadFlob
<1>2. PICK r \in Ranges : /\ r[2] < s
                          /\ Becomes(h, getData(n, flob[h].id, s, r[1], r[2]))
  BY DEF ReadFlob
<1>3. BeforeStep(h, data, others, theirs, a)
  BY <1>1, LiveBefore
<1>4. written = [written EXCEPT ![h] = written[h]]
  BY ManagerIs
<1> HIDE DEF others, theirs, a
<1>5. /\ n \in States /\ HasOrBlock(n, others, theirs, a) /\ n.f = flob[h]
      /\ DOMAIN a = written[h]
      /\ ContentOf(flob[h], data) = Shown(s, a)
  BY <1>3 DEF BeforeStep
<1>6. r[1] \in Nat /\ r[2] \in Nat /\ r[1] <= r[2]
  BY FlobAssumption
<1> HIDE DEF n, s
<1>7. Has(n, others, theirs, s, a)
  BY <1>1, <1>5 DEF HasOrBlock, s
<1> DEFINE d == getData(n, id, sizes[id], r[1], r[2])
<1>8. Stored(n, sizes, contents) /\ n.used <= CacheSize /\ id \in DOMAIN sizes /\ sizes[id] = s
  <2>1. HasAs(n, others, theirs, s, a, sizes, contents)
    BY <1>7 DEF HasAs
  <2> HIDE DEF sizes, contents
  <2>2. HasAsParts(n, others, s, a, sizes, contents)
    BY <2>1, HasParts
  <2> QED
    BY <2>2 DEF HasAsParts
<1>9. Becomes(h, d)
  BY <1>2, <1>5, <1>8
<1> HIDE DEF sizes, contents, id
<1>10. Stored(d, sizes, contents) /\ SameFlobs(n, d) /\ d.used <= CacheSize
  <2>1. r[2] < sizes[id]
    BY <1>2, <1>8
  <2> QED
    BY <1>6, <1>8, <2>1, GetDataStored
<1> HIDE DEF d
<1>11. Has(d, others, theirs, s, a)
  BY <1>7, <1>10, HasKept DEF sizes, contents, id
<1>12. Changed(flob, data, h, [flob EXCEPT ![h] = d.f], [written EXCEPT ![h] = DOMAIN a], d,
               Shown(s, a))
  BY <1>11, RecordChanged DEF others, theirs
<1>13. StoreOperation(ContentOf(flob[h], data), Shown(s, a), data)
  BY <1>5 DEF StoreOperation
<1>14. written' = [written EXCEPT ![h] = DOMAIN a]
  BY <1>1, <1>4, <1>5
<1> QED
  BY <1>9, <1>12, <1>13, <1>14, StepTo

\* Flob::write
LEMMA WriteStep ==
  ASSUME NEW size, NEW data, Consistent(flob, written, TheStore, size, data),
         NEW h \in Handles, Write(h)
  PROVE  OneStep(h, data)
<1> DEFINE n == Manager(h)
           s == flob[h].size
           others == Except(size, flob[h].id)
           theirs == Except(data, flob[h].id)
           a == Contents(flob[h], data)
<1>1. Live(h)
  BY DEF Write
<1>2. PICK r \in Ranges, v \in Values :
        /\ Becomes(h, PutData(IF r[2] >= n.f.size THEN Resize(n, r[2] + 1)
                                                  ELSE makeControllable(n),
                              r[1], r[2], [c \in r[1] .. r[2] |-> v]))
        /\ written' = [written EXCEPT ![h] = written[h] \cup (r[1] .. r[2])]
  BY DEF Write
<1>3. BeforeStep(h, data, others, theirs, a)
  BY <1>1, LiveBefore
<1> HIDE DEF others, theirs, a
<1>4. /\ n \in States /\ HasOrBlock(n, others, theirs, a) /\ n.f.size = s
      /\ DOMAIN a = written[h] /\ DOMAIN a \subseteq Cells(s)
      /\ s \in 0 .. MaxFlobSize /\ s \in Nat
      /\ ContentOf(flob[h], data) = Shown(s, a)
      /\ ContentOf(flob[h], data) # NoBlock
  BY <1>3 DEF BeforeStep
<1> DEFINE first == r[1]
           last == r[2]
           b == [c \in first .. last |-> v]
           t == IF last >= s THEN last + 1 ELSE s
           kept == IF last >= s THEN Cut(a, last + 1) ELSE a
           m == IF last >= s THEN Resize(n, last + 1) ELSE makeControllable(n)
           d == PutData(m, first, last, b)
           all == Overwritten(kept, b)
<1>5. /\ first \in Nat /\ last \in Nat /\ first <= last /\ last + 1 \in 0 .. MaxFlobSize
  BY FlobAssumption
<1>6. b \in Memories /\ DOMAIN b = first .. last /\ \A x \in DOMAIN b : b[x] = v
  <2> HIDE DEF first, last
  <2>1. DOMAIN b = first .. last /\ DOMAIN b \subseteq Nat /\ b \in [DOMAIN b -> Cell]
    BY <1>5 DEF Cell
  <2>2. \A x \in DOMAIN b : b[x] = v
    OBVIOUS
  <2> HIDE DEF b
  <2> QED
    BY <2>1, <2>2, MemoriesAre
<1>7. Becomes(h, d)
  BY <1>2, <1>4
<1> HIDE DEF n, s, first, last, b
<1>8. Has(m, others, theirs, t, kept)
  <2>1. CASE last >= s
    <3>1. Has(Resize(n, last + 1), others, theirs, last + 1, Cut(a, last + 1))
      BY <1>4, <1>5, ResizeHas
    <3> QED
      BY <2>1, <3>1
  <2>2. CASE ~ (last >= s)
    <3>1. Has(makeControllable(n), others, theirs, n.f.size, a)
      BY <1>4, ControlHas
    <3> QED
      BY <1>4, <2>2, <3>1
  <2> QED
    BY <2>1, <2>2
<1>9. last < t /\ Cells(s) \cup Cells(last + 1) = Cells(t)
      /\ first .. last \subseteq Cells(last + 1)
  BY <1>4, <1>5 DEF Cells
<1>10. DOMAIN kept = DOMAIN a /\ \A x \in DOMAIN a : kept[x] = a[x]
  <2>1. last >= s => Cells(s) \subseteq Cells(last + 1)
    BY <1>4, <1>5 DEF Cells
  <2> QED
    BY <1>4, <2>1 DEF Cut
<1> HIDE DEF m, t, kept
<1>11. Has(d, others, theirs, t, all)
  BY <1>5, <1>6, <1>8, <1>9, PutDataHas
<1>12. /\ DOMAIN all = DOMAIN a \cup (first .. last)
       /\ \A x \in DOMAIN all : all[x] = IF x \in first .. last THEN v ELSE a[x]
  BY <1>6, <1>10 DEF Overwritten
<1> HIDE DEF d, all
<1>13. Changed(flob, data, h, [flob EXCEPT ![h] = d.f], [written EXCEPT ![h] = DOMAIN all], d,
               Shown(t, all))
  BY <1>11, RecordChanged DEF others, theirs
<1>14. StoreOperation(ContentOf(flob[h], data), Shown(t, all), data)
  <2> DEFINE old == Shown(s, a)
             new == Shown(t, all)
             there == Store!Written(old, r, v)
  <2>1. DOMAIN old = Cells(s)
        /\ \A x \in Cells(s) : old[x] = IF x \in DOMAIN a THEN a[x] ELSE Garbage
    BY DEF Shown
  <2>2. there = [x \in Cells(t) |-> CASE x \in first .. last -> v
                                      [] x \in Cells(s) \ (first .. last) -> old[x]
                                      [] OTHER -> Garbage]
    <3>1. Store!Cells(last + 1) = Cells(last + 1)
      BY DEF Store!Cells, Cells
    <3> HIDE DEF old
    <3>2. there = [x \in DOMAIN old \cup Store!Cells(last + 1) |->
                     CASE x \in first .. last -> v
                       [] x \in DOMAIN old \ (first .. last) -> old[x]
                       [] OTHER -> Garbage]
      BY DEF Store!Written, first, last
    <3> HIDE DEF there
    <3> QED
      BY <1>9, <2>1, <3>1, <3>2
  <2>3. ASSUME NEW x \in Cells(t)
        PROVE  (IF x \in DOMAIN all THEN all[x] ELSE Garbage)
                 = CASE x \in first .. last -> v
                     [] x \in Cells(s) \ (first .. last) -> old[x]
                     [] OTHER -> Garbage
    <3> HIDE DEF old
    <3>1. CASE x \in first .. last
      BY <1>12, <3>1
    <3>2. CASE x \notin first .. last /\ x \in Cells(s)
      BY <1>12, <2>1, <3>2
    <3>3. CASE x \notin first .. last /\ x \notin Cells(s)
      <4>1. x \notin DOMAIN a
        BY <1>4, <3>3
      <4> QED
        BY <1>12, <3>3, <4>1
    <3> QED
      BY <3>1, <3>2, <3>3
  <2>4. new = there
    <3> HIDE DEF old, there
    <3> QED
      BY <2>2, <2>3 DEF Shown
  <2> HIDE DEF new
  <2> QED
    BY <1>4, <2>4 DEF StoreOperation, Store!Write, new
<1>15. written' = [written EXCEPT ![h] = DOMAIN all]
  BY <1>2, <1>4, <1>12 DEF first, last
<1> QED
  BY <1>7, <1>13, <1>14, <1>15, StepTo

\* Flob::copyFrom
LEMMA CopyStep ==
  ASSUME NEW size, NEW data, Consistent(flob, written, TheStore, size, data),
         NEW h \in Handles, NEW src \in Handles, CopyFrom(h, src)
  PROVE  OneStep(h, data)
<1> DEFINE n == Manager(h)
           f == flob[src]
           s == f.size
           others == Except(size, flob[h].id)
           theirs == Except(data, flob[h].id)
           a == Contents(flob[h], data)
           b == Contents(f, data)
           m == Resize(n, s)
           d == copyData(m, f)
<1>1. /\ h # src /\ Live(h) /\ Live(src)
      /\ Becomes(h, d) /\ written' = [written EXCEPT ![h] = written[src]]
  BY DEF CopyFrom
<1>2. BeforeStep(h, data, others, theirs, a)
  BY <1>1, LiveBefore
<1>3. BeforeStep(src, data, Except(size, flob[src].id), Except(data, flob[src].id), b)
  BY <1>1, LiveBefore
<1>4. FlobOK(f, written[src], size, data) /\ f # Destroyed
  BY <1>1, ManagerIs DEF Live
<1>5. \A g \in Handles : flob[g].id = flob[h].id /\ flob[g].id # NoRecord => g = h
  BY DEF Consistent, FlobsOK
<1>6. /\ s \in 0 .. MaxFlobSize /\ DOMAIN b = written[src]
      /\ ContentOf(f, data) = Shown(s, b) /\ ContentOf(f, data) # NoBlock
  BY <1>3 DEF BeforeStep
<1>7. /\ n \in States /\ HasOrBlock(n, others, theirs, a)
      /\ DOMAIN theirs = DOMAIN others
      /\ ContentOf(flob[h], data) # NoBlock
  BY <1>2 DEF BeforeStep, IsApart
<1>8. IsSource(f, others, theirs, s, b)
  <2>1. CASE f.id = NoRecord
    BY <1>4, <2>1 DEF FlobOK, IsSource, Contents
  <2>2. CASE f.id # NoRecord
    <3>1. /\ f \in Objects /\ f.dataPointer = NoBlock /\ f.id \in DOMAIN size
          /\ size[f.id] = s /\ b = data[f.id]
      BY <1>4, <2>2 DEF FlobOK, Contents
    <3>2. f.id # flob[h].id
      BY <1>1, <1>5, <2>2
    <3>3. f.id \in DOMAIN others /\ others[f.id] = size[f.id]
      BY <3>1, <3>2 DEF Except
    <3>4. theirs[f.id] = data[f.id]
      <4>1. f.id \in DOMAIN theirs
        BY <1>7, <3>3
      <4> QED
        BY <4>1 DEF Except
    <3> HIDE DEF others, theirs, b
    <3> QED
      BY <3>1, <3>3, <3>4 DEF IsSource
  <2> QED
    BY <2>1, <2>2
<1> HIDE DEF n, f, s, others, theirs, a, b
<1>9. Has(m, others, theirs, s, Cut(a, s))
  BY <1>6, <1>7, ResizeHas
<1> HIDE DEF m
<1>10. Has(d, others, theirs, s, b)
  BY <1>8, <1>9, CopyHas
<1> HIDE DEF d
<1>11. Changed(flob, data, h, [flob EXCEPT ![h] = d.f], [written EXCEPT ![h] = DOMAIN b], d,
               Shown(s, b))
  BY <1>10, RecordChanged DEF others, theirs
<1>12. StoreOperation(ContentOf(flob[h], data), Shown(s, b), data)
  <2>1. Store!CopyFrom(ContentOf(flob[h], data), Shown(s, b), ContentOf(flob[src], data))
    BY <1>6, <1>7 DEF Store!CopyFrom, f
  <2> QED
    BY <2>1 DEF StoreOperation
<1> QED
  BY <1>1, <1>6, <1>11, <1>12, StepTo

-----------------------------------------------------------------------------
(* All steps together.                                                     *)

\* The inductive invariant: the state is a store of some arrays.
StoresArrays ==
  \E size, data : Consistent(flob, written, TheStore, size, data)

\* The store of no Flobs.
LEMMA EmptyConsistent ==
  ASSUME NEW m, m = [file |-> <<>>, cache |-> <<>>, lru |-> <<>>, used |-> 0,
                     buffer |-> <<>>, destroyed |-> <<>>, f |-> Destroyed]
  PROVE  Consistent([h \in Handles |-> Destroyed], [h \in Handles |-> {}], m, <<>>, <<>>)
<1>1. Destroyed \in Objects
  BY FlobAssumption DEF Destroyed, NoRecord, Objects
<1>2. DOMAIN <<>> = {} /\ Range(<<>>) = {} /\ <<>> = [i \in {} |-> <<>>[i]]
  BY DEF Range
<1>3. <<>> \in Memories /\ <<>> \in Caches
  <2>1. <<>> \in [DOMAIN <<>> -> Cell] /\ <<>> \in [DOMAIN <<>> -> Entries]
    BY <1>2
  <2>2. DOMAIN <<>> \subseteq Nat /\ DOMAIN <<>> \subseteq KeyType
    BY <1>2
  <2> QED
    BY <2>1, <2>2, MemoriesAre, CachesAre
<1>4. m \in States
  <2>1. <<>> \in Seq(Arrays) /\ <<>> \in Seq(KeyType) /\ <<>> \in Seq(Nat) /\ 0 \in Int
    OBVIOUS
  <2> QED
    BY <1>1, <1>3, <2>1 DEF States
<1>5. Occupied(<<>>, {}) = 0
  <2>1. UNION {{k} \X DOMAIN <<>>[k].mem : k \in {}} = {}
    OBVIOUS
  <2> QED
    BY <2>1, FS_EmptySet DEF Occupied
<1>6. Distinct(<<>>)
  BY <1>2 DEF Distinct
<1>7. Listed(m)
  BY <1>2, <1>4, <1>5, <1>6 DEF Listed
<1>8. SizesOK(m, <<>>, <<>>) /\ Fits(m.cache, <<>>) /\ Holds(m, <<>>)
  BY <1>2 DEF SizesOK, Fits, Holds
<1>9. Good(m, <<>>, <<>>)
  BY <1>2, <1>6, <1>7, <1>8, FlobAssumption DEF Good, Stored
<1>10. FlobsOK([h \in Handles |-> Destroyed], [h \in Handles |-> {}], <<>>, <<>>)
  <2>1. IsFcn(<<>>)
    BY <1>2 DEF IsFcn
  <2>2. Destroyed.id = NoRecord
    BY DEF Destroyed
  <2> QED
    BY <1>1, <1>2, <2>1, <2>2 DEF FlobsOK, FlobOK, IsFcn
<1> QED
  BY <1>9, <1>10 DEF Consistent

\* The contents of the Flobs in a state.
LEMMA ContentsAre ==
  ASSUME NEW size, NEW data, Consistent(flob, written, TheStore, size, data)
  PROVE  /\ DOMAIN FlobContents = Handles
         /\ \A h \in Handles : FlobContents[h] = ContentOf(flob[h], data)
<1>1. ASSUME NEW h \in Handles
      PROVE  FlobContents[h] = ContentAt(flob[h], written[h], nativeFlobCache, nativeFlobFile)
  BY DEF FlobContents, Live, Visible, ContentAt, VisibleAt
<1>2. TheStore.cache = nativeFlobCache /\ TheStore.file = nativeFlobFile
  BY DEF TheStore
<1>3. ASSUME NEW h \in Handles
      PROVE  FlobContents[h] = ContentOf(flob[h], data)
  <2>1. Good(TheStore, size, data) /\ FlobOK(flob[h], written[h], size, data)
    BY DEF Consistent, FlobsOK
  <2>2. ContentAt(flob[h], written[h], TheStore.cache, TheStore.file) = ContentOf(flob[h], data)
    BY <2>1, ContentIs
  <2> QED
    BY <1>1, <1>2, <2>2
<1> QED
  BY <1>3 DEF FlobContents

\* The contents of the Flobs in the next state.
LEMMA ContentsAreNext ==
  ASSUME NEW size, NEW data, Consistent(flob', written', TheStore', size, data)
  PROVE  /\ DOMAIN FlobContents' = Handles
         /\ \A h \in Handles : FlobContents'[h] = ContentOf(flob'[h], data)
<1>1. ASSUME NEW h \in Handles
      PROVE  FlobContents'[h] = ContentAt(flob'[h], written'[h], nativeFlobCache',
                                          nativeFlobFile')
  BY DEF FlobContents, Live, Visible, ContentAt, VisibleAt
<1>2. TheStore'.cache = nativeFlobCache' /\ TheStore'.file = nativeFlobFile'
  BY DEF TheStore
<1>3. ASSUME NEW h \in Handles
      PROVE  FlobContents'[h] = ContentOf(flob'[h], data)
  <2>1. Good(TheStore', size, data) /\ FlobOK(flob'[h], written'[h], size, data)
    BY DEF Consistent, FlobsOK
  <2>2. ContentAt(flob'[h], written'[h], TheStore'.cache, TheStore'.file)
          = ContentOf(flob'[h], data)
    BY <2>1, ContentIs
  <2> QED
    BY <1>1, <1>2, <2>2
<1> QED
  BY <1>3 DEF FlobContents

\* It holds at first, when FlobStore begins too.
LEMMA StoresInit == Init => StoresArrays /\ Store!Init
<1> SUFFICES ASSUME Init PROVE StoresArrays /\ Store!Init
  OBVIOUS
<1>1. TheStore = [file |-> <<>>, cache |-> <<>>, lru |-> <<>>, used |-> 0,
                  buffer |-> <<>>, destroyed |-> <<>>, f |-> Destroyed]
  BY DEF TheStore, Init
<1>2. flob = [h \in Handles |-> Destroyed] /\ written = [h \in Handles |-> {}]
  BY DEF Init
<1> HIDE DEF TheStore
<1>3. Consistent(flob, written, TheStore, <<>>, <<>>)
  BY <1>1, <1>2, EmptyConsistent
<1>4. FlobContents = [h \in Handles |-> NoBlock]
  BY <1>2 DEF FlobContents, Live
<1> QED
  BY <1>3, <1>4 DEF StoresArrays, Store!Init

\* A step on one Flob is a step of FlobStore, or none.
LEMMA StepTaken ==
  ASSUME NEW size, NEW data, Consistent(flob, written, TheStore, size, data),
         NEW h \in Handles, OneStep(h, data)
  PROVE  StoresArrays' /\ [Store!Next]_FlobContents
<1>1. PICK new : /\ Changed(flob, data, h, flob', written', TheStore', new)
                 /\ StoreOperation(ContentOf(flob[h], data), new, data)
  BY DEF OneStep
<1>2. PICK sizes, contents :
        /\ Consistent(flob', written', TheStore', sizes, contents)
        /\ ContentOf(flob'[h], contents) = new
        /\ \A g \in Handles \ {h} :
             ContentOf(flob'[g], contents) = ContentOf(flob[g], data)
  BY <1>1 DEF Changed
<1>3. StoresArrays'
  BY <1>2 DEF StoresArrays
<1>4. /\ DOMAIN FlobContents = Handles
      /\ \A g \in Handles : FlobContents[g] = ContentOf(flob[g], data)
      /\ DOMAIN FlobContents' = Handles
      /\ \A g \in Handles : FlobContents'[g] = ContentOf(flob'[g], contents)
  BY <1>2, ContentsAre, ContentsAreNext
<1>5. \A g \in Handles \ {h} : FlobContents'[g] = FlobContents[g]
  BY <1>2, <1>4
<1>6. FlobContents'[h] = new /\ FlobContents[h] = ContentOf(flob[h], data)
  BY <1>2, <1>4
<1>7. CASE new = FlobContents[h]
  <2>1. \A g \in Handles : FlobContents'[g] = FlobContents[g]
    BY <1>5, <1>6, <1>7
  <2>2. FlobContents = [g \in Handles |-> FlobContents[g]]
        /\ FlobContents' = [g \in Handles |-> FlobContents'[g]]
    BY DEF FlobContents
  <2> QED
    BY <1>3, <2>1, <2>2
<1>8. CASE new # FlobContents[h]
  <2>1. \/ Store!Destroy(FlobContents[h], new) \/ Store!Create(FlobContents[h], new)
        \/ Store!CreateFromBlock(FlobContents[h], new)
        \/ Store!Resize(FlobContents[h], new) \/ Store!Write(FlobContents[h], new)
        \/ \E src \in Handles : Store!CopyFrom(FlobContents[h], new, FlobContents[src])
    BY <1>1, <1>4, <1>6, <1>8 DEF StoreOperation
  <2>2. Store!Change(h)
    BY <1>5, <1>6, <2>1 DEF Store!Change
  <2> QED
    BY <1>3, <2>2 DEF Store!Next
<1> QED
  BY <1>7, <1>8

\* Every step keeps the invariant and is one of FlobStore, or changes nothing
\* in what the Flobs contain.
LEMMA StoresStep ==
  StoresArrays /\ [Next]_vars => StoresArrays' /\ [Store!Next]_FlobContents
<1> SUFFICES ASSUME StoresArrays, [Next]_vars
             PROVE  StoresArrays' /\ [Store!Next]_FlobContents
  OBVIOUS
<1>1. PICK size, data : Consistent(flob, written, TheStore, size, data)
  BY DEF StoresArrays
<1>2. ASSUME NEW h \in Handles,
             \/ CreateFlob(h) \/ CreateFromBlock(h) \/ ResizeFlob(h) \/ Write(h)
             \/ ReadFlob(h) \/ Destroy(h)
             \/ \E src \in Handles : CopyFrom(h, src)
      PROVE  OneStep(h, data)
  BY <1>1, <1>2, CreateStep, BlockStep, ResizeStep, WriteStep, ReadStep, DestroyStep, CopyStep
<1>3. CASE EndOfCommand
  <2>1. TheStore' = [file |-> <<>>, cache |-> <<>>, lru |-> <<>>, used |-> 0,
                     buffer |-> <<>>, destroyed |-> <<>>, f |-> Destroyed]
    BY <1>3 DEF TheStore, EndOfCommand
  <2>2. flob' = [h \in Handles |-> Destroyed] /\ written' = [h \in Handles |-> {}]
    BY <1>3 DEF EndOfCommand
  <2> HIDE DEF TheStore
  <2>3. Consistent(flob', written', TheStore', <<>>, <<>>)
    BY <2>1, <2>2, EmptyConsistent
  <2>4. \A h \in Handles : FlobContents'[h] = NoBlock
    BY <2>2 DEF FlobContents, Live
  <2> QED
    BY <2>3, <2>4 DEF StoresArrays, Store!Next, Store!EndOfCommand
<1>4. CASE UNCHANGED vars
  <2>1. StoresArrays'
    BY <1>4 DEF vars, StoresArrays, TheStore
  <2>2. FlobContents' = FlobContents
    BY <1>4 DEF vars, FlobContents, Live, Visible
  <2> QED
    BY <2>1, <2>2
<1> QED
  BY <1>1, <1>2, <1>3, <1>4, StepTaken DEF Next

\* The cache of native Flobs, with its file and the records that are used
\* again, implements FlobStore, for every size of a slot and of the cache and
\* any number of Flobs: whatever is evicted, loaded, moved in the list or read,
\* each Flob contains what was written to it last and nothing of another one.
THEOREM StoreCorrect == Spec => ImplementsFlobStore
  BY StoresInit, StoresStep, PTL DEF Spec, ImplementsFlobStore, Store!Spec

-----------------------------------------------------------------------------
(* The cache between two operations.                                       *)

\* The invariant implies what NativeFlobCache::check looks for.
LEMMA StoresConsistent == StoresArrays => CacheConsistent
<1> SUFFICES ASSUME StoresArrays PROVE CacheConsistent
  OBVIOUS
<1>1. PICK size, data : Consistent(flob, written, TheStore, size, data)
  BY DEF StoresArrays
<1>2. /\ Good(TheStore, size, data) /\ Stored(TheStore, size, data) /\ TheStore \in States
      /\ Listed(TheStore) /\ SizesOK(TheStore, size, data) /\ Fits(nativeFlobCache, size)
      /\ usedSize <= CacheSize /\ Range(destroyedFlobs) \subseteq 1 .. Len(nativeFlobFile)
  BY <1>1 DEF Consistent, Good, Stored, Listed, TheStore
<1>3. /\ nativeFlobFile \in Seq(Arrays) /\ nativeFlobCache \in Caches
      /\ lru \in Seq(KeyType) /\ usedSize \in Int
  BY <1>2 DEF States, TheStore
<1>4. /\ DOMAIN nativeFlobFile = 1 .. Len(nativeFlobFile)
      /\ \A r \in DOMAIN nativeFlobFile : nativeFlobFile[r] \in Arrays
      /\ Len(nativeFlobFile) \in Nat
  BY <1>3
<1>5. /\ Distinct(lru) /\ Range(lru) = DOMAIN nativeFlobCache
      /\ usedSize = Occupied(nativeFlobCache, DOMAIN nativeFlobCache)
      /\ usedSize \in Nat
  <2>1. /\ Distinct(lru) /\ Range(lru) = DOMAIN nativeFlobCache
        /\ usedSize = Occupied(nativeFlobCache, DOMAIN nativeFlobCache)
    BY <1>2 DEF Listed, TheStore
  <2>2. TheStore.cache = nativeFlobCache
    BY DEF TheStore
  <2>3. Occupied(TheStore.cache, DOMAIN TheStore.cache) \in Nat
    <3>1. DOMAIN TheStore.cache \in SUBSET DOMAIN TheStore.cache
      OBVIOUS
    <3> QED
      BY <1>2, <3>1, ListedFinite
  <2> QED
    BY <2>1, <2>2, <2>3
<1>6. /\ DOMAIN flob = Handles
      /\ \A h \in Handles : FlobOK(flob[h], written[h], size, data)
      /\ \A i \in DOMAIN size : \E h \in Handles : flob[h].id = i
  BY <1>1 DEF Consistent, FlobsOK
<1>7. /\ DOMAIN size \subseteq Records /\ DOMAIN data = DOMAIN size
      /\ \A i \in DOMAIN size : DOMAIN data[i] \subseteq Cells(size[i])
      /\ NoRecord \notin DOMAIN size
  BY <1>2, <1>4 DEF SizesOK, TheStore, Records, NoRecord
<1>8. ASSUME NEW k \in DOMAIN nativeFlobCache
      PROVE  /\ k \in Keys /\ nativeFlobCache[k].changed \in BOOLEAN
             /\ k[1] \in DOMAIN size
             /\ DOMAIN nativeFlobCache[k].mem = SlotCells(k[2], size[k[1]])
             /\ DOMAIN nativeFlobCache[k].mem # {}
  <2>1. TheStore.cache = nativeFlobCache /\ TheStore.file = nativeFlobFile
    BY DEF TheStore
  <2>2. /\ k[1] \in DOMAIN size /\ k[1] \in 1 .. Len(nativeFlobFile) /\ k[2] \in Nat
        /\ k = <<k[1], k[2]>> /\ nativeFlobCache[k] \in Entries
        /\ \A x \in DOMAIN nativeFlobCache[k].mem :
             /\ x \in Nat /\ x < MaxFlobSize /\ k = SlotOf(k[1], x)
        /\ DOMAIN nativeFlobCache[k].mem # {}
    BY <1>2, <2>1, KeysOf
  <2>3. PICK x \in DOMAIN nativeFlobCache[k].mem : x \in Nat /\ x < MaxFlobSize
                                                   /\ k = SlotOf(k[1], x)
    BY <2>2
  <2>4. k[2] = x \div SlotSize
    BY <2>3 DEF SlotOf
  <2>5. k[2] \in 0 .. NrOfSlots - 1
    <3>1. x \div SlotSize <= MaxFlobSize \div SlotSize
      <4>1. x \in Nat /\ MaxFlobSize \in Nat /\ x <= MaxFlobSize
        BY <2>3, FlobAssumption
      <4> QED
        BY <4>1, SlotsAscend
    <3>2. MaxFlobSize \div SlotSize \in Nat
      BY FlobAssumption, SlotNumbers
    <3> QED
      BY <2>2, <2>4, <3>1, <3>2 DEF NrOfSlots
  <2>6. k \in Keys
    BY <2>2, <2>5 DEF Keys
  <2>7. DOMAIN nativeFlobCache[k].mem = SlotCells(k[2], size[k[1]])
    BY <1>2 DEF Fits
  <2> QED
    BY <2>2, <2>6, <2>7 DEF Entries
<1>9. NativeFlobsTypeOK
  <2>1. ASSUME NEW h \in Handles
        PROVE  /\ flob[h].id \in {NoRecord} \cup Records
               /\ flob[h].size \in 0 .. MaxFlobSize
               /\ \/ flob[h].dataPointer = NoBlock
                  \/ /\ flob[h].id = NoRecord
                     /\ IsArray(flob[h].dataPointer, flob[h].size)
               /\ written[h] \subseteq Cells(flob[h].size)
    BY <1>6, <1>7 DEF FlobOK, Destroyed, Objects
  <2>2. \A r \in Records : \E n \in 0 .. MaxFlobSize : IsArray(nativeFlobFile[r], n)
    BY <1>4, ArraysAre DEF Records
  <2>3. Range(destroyedFlobs) \subseteq Records
    BY <1>2, <1>4 DEF Records
  <2>4. DOMAIN nativeFlobCache \subseteq Keys
    BY <1>8
  <2> QED
    BY <1>5, <1>6, <1>8, <2>1, <2>2, <2>3, <2>4 DEF NativeFlobsTypeOK
<1>10. ListMatchesCache
  <2>1. Len(lru) = Cardinality(DOMAIN nativeFlobCache)
    <3>1. lru \in [1 .. Len(lru) -> KeyType] /\ Len(lru) \in Nat /\ DOMAIN lru = 1 .. Len(lru)
      BY <1>3
    <3>2. lru \in [1 .. Len(lru) -> DOMAIN nativeFlobCache]
      BY <1>5, <3>1 DEF Range
    <3>3. lru \in Bijection(1 .. Len(lru), DOMAIN nativeFlobCache)
      BY <1>5, <3>1, <3>2 DEF Bijection, Injection, Surjection, IsInjective, Distinct, Range
    <3>4. ExistsBijection(1 .. Len(lru), DOMAIN nativeFlobCache)
      BY <3>3 DEF ExistsBijection
    <3> QED
      BY <3>1, <3>4, FS_CountingElements
  <2> QED
    BY <1>2, <1>5, <2>1 DEF ListMatchesCache
<1>11. EntriesFitFlobs
  <2> SUFFICES ASSUME NEW k \in DOMAIN nativeFlobCache
               PROVE  \E h \in Handles :
                        /\ flob[h].id = k[1]
                        /\ DOMAIN nativeFlobCache[k].mem = SlotCells(k[2], flob[h].size)
                        /\ DOMAIN nativeFlobCache[k].mem # {}
    BY DEF EntriesFitFlobs
  <2>1. PICK h \in Handles : flob[h].id = k[1]
    BY <1>6, <1>8
  <2>2. flob[h].id # NoRecord
    BY <1>7, <1>8, <2>1
  <2>3. size[k[1]] = flob[h].size
    BY <1>6, <2>1, <2>2 DEF FlobOK, Destroyed
  <2> QED
    BY <1>8, <2>1, <2>3
<1> QED
  BY <1>9, <1>10, <1>11 DEF CacheConsistent

\* Between two operations every entry is in the LRU list once, usedSize is what
\* the entries occupy and within the limit, and each entry belongs to a Flob, at
\* the size the Flob has now.
THEOREM CacheCorrect == Spec => []CacheConsistent
<1>1. StoresArrays /\ [Next]_vars => StoresArrays'
  BY StoresStep
<1> QED
  BY <1>1, StoresInit, StoresConsistent, PTL DEF Spec

-----------------------------------------------------------------------------
(* The Flobs of stored tuples (TupleFlobs).                                *)

USE TupleFlobsAssumption

StoredContents == FlobValues \cup {NoFlob}

-----------------------------------------------------------------------------
(* The operations of a relation.                                           *)

RelationOK(r) == r \in Relations /\ HasFlobs(r) /\ SharesNoFlob(r)

\* From r to s, records are added and deleted, but none changes.
KeepsNumbers(r, s) ==
  \A rec \in DOMAIN r.flobs :
    rec \in DOMAIN s.flobs /\ s.flobs[rec] \in {NoFlob, r.flobs[rec]}

LEMMA DeleteProperties ==
  ASSUME NEW flobs \in Seq(StoredContents), NEW recs
  PROVE  /\ Delete(flobs, recs) \in Seq(StoredContents)
         /\ Len(Delete(flobs, recs)) = Len(flobs)
         /\ DOMAIN flobs = 1 .. Len(flobs)
         /\ \A i \in 1 .. Len(flobs) :
              Delete(flobs, recs)[i] = IF i \in recs THEN NoFlob ELSE flobs[i]
<1> DEFINE n == Len(flobs)
           rest == Delete(flobs, recs)
<1>1. n \in Nat /\ DOMAIN flobs = 1 .. n /\ flobs \in [1 .. n -> StoredContents]
  BY LenProperties
<1>2. rest \in [1 .. n -> StoredContents]
  BY <1>1 DEF Delete, StoredContents
<1>3. rest \in Seq(StoredContents)
  BY <1>1, <1>2, SeqDef
<1>4. Len(rest) \in Nat /\ DOMAIN rest = 1 .. Len(rest)
  BY <1>3, LenProperties
<1>5. Len(rest) = n
  BY <1>1, <1>2, <1>4
<1> QED
  BY <1>1, <1>3, <1>5 DEF Delete

LEMMA DeleteNothing ==
  ASSUME NEW flobs \in Seq(StoredContents)
  PROVE  Delete(flobs, {}) = flobs
<1>1. Len(flobs) \in Nat /\ DOMAIN flobs = 1 .. Len(flobs) /\ flobs \in [1 .. Len(flobs) -> StoredContents]
  BY LenProperties
<1> QED
  BY <1>1 DEF Delete

\* The contents of the attributes of a tuple are a sequence.
LEMMA ValuesAreSequence ==
  ASSUME NEW values \in [Attributes -> FlobValues]
  PROVE  values \in Seq(StoredContents) /\ Len(values) = NrAttributes
<1>1. values \in [1 .. NrAttributes -> StoredContents]
  BY DEF Attributes, StoredContents
<1>2. values \in Seq(StoredContents)
  BY <1>1, SeqDef
<1>3. Len(values) \in Nat /\ DOMAIN values = 1 .. Len(values)
  BY <1>2, LenProperties
<1> QED
  BY <1>1, <1>2, <1>3

LEMMA Concatenated ==
  ASSUME NEW flobs \in Seq(StoredContents), NEW saved \in Seq(StoredContents)
  PROVE  /\ flobs \o saved \in Seq(StoredContents)
         /\ Len(flobs \o saved) = Len(flobs) + Len(saved)
         /\ \A i \in 1 .. Len(flobs) + Len(saved) :
              (flobs \o saved)[i] = IF i <= Len(flobs) THEN flobs[i]
                                                      ELSE saved[i - Len(flobs)]
  BY ConcatProperties

\* new holds flobs without those that are gone, and then saved.
IsWritten(new, flobs, gone, saved) ==
  /\ new \in Seq(StoredContents)
  /\ Len(new) = Len(flobs) + NrAttributes
  /\ DOMAIN new = 1 .. Len(flobs) + NrAttributes
  /\ \A i \in 1 .. Len(flobs) : new[i] = IF i \in gone THEN NoFlob ELSE flobs[i]
  /\ \A a \in Attributes : new[Len(flobs) + a] = saved[a]

LEMMA WrittenFlobs ==
  ASSUME NEW flobs \in Seq(StoredContents), NEW gone, NEW saved \in [Attributes -> FlobValues]
  PROVE  IsWritten(Delete(flobs, gone) \o saved, flobs, gone, saved)
<1>n. PICK n : n = Len(flobs) /\ n \in Nat
  BY LenProperties
<1>w. PICK new : new = Delete(flobs, gone) \o saved
  OBVIOUS
<1>r. PICK rest : rest = Delete(flobs, gone)
  OBVIOUS
<1>1. /\ rest \in Seq(StoredContents) /\ Len(rest) = n
      /\ \A i \in 1 .. n : rest[i] = IF i \in gone THEN NoFlob ELSE flobs[i]
  BY <1>n, <1>r, DeleteProperties
<1>2. saved \in Seq(StoredContents) /\ Len(saved) = NrAttributes
  BY ValuesAreSequence
<1>3. /\ new \in Seq(StoredContents) /\ Len(new) = n + NrAttributes
      /\ \A i \in 1 .. n + NrAttributes : new[i] = IF i <= n THEN rest[i] ELSE saved[i - n]
  <2>1. new = rest \o saved
    BY <1>w, <1>r
  <2> QED
    BY <2>1, <1>1, <1>2, Concatenated, Zenon
<1>4. DOMAIN new = 1 .. n + NrAttributes
  BY <1>3, LenProperties
<1>5. ASSUME NEW i \in 1 .. n
      PROVE  new[i] = IF i \in gone THEN NoFlob ELSE flobs[i]
  BY <1>n, <1>1, <1>3
<1>6. ASSUME NEW a \in Attributes
      PROVE  new[n + a] = saved[a]
  <2>1. a \in 1 .. NrAttributes
    BY DEF Attributes
  <2>2. n + a \in 1 .. n + NrAttributes /\ ~ n + a <= n /\ (n + a) - n = a
    BY <1>n, <2>1
  <2> QED
    BY <1>3, <2>2
<1> QED
  BY <1>n, <1>w, <1>3, <1>4, <1>5, <1>6 DEF IsWritten

LEMMA RelationParts ==
  ASSUME NEW r \in Relations
  PROVE  /\ r.tuples \in Seq([Attributes -> Nat] \cup {NoTuple})
         /\ Len(r.tuples) \in Nat
         /\ r.flobs \in Seq(StoredContents)
         /\ Len(r.flobs) \in Nat
         /\ DOMAIN r.flobs = 1 .. Len(r.flobs)
         /\ \A t \in TupleIds(r) : r.tuples[t] \in [Attributes -> Nat]
<1>1. /\ r.tuples \in Seq([Attributes -> Nat] \cup {NoTuple})
      /\ r.flobs \in Seq(StoredContents)
  BY DEF Relations, StoredContents
<1>2. Len(r.tuples) \in Nat /\ \A t \in 1 .. Len(r.tuples) : r.tuples[t] \in [Attributes -> Nat] \cup {NoTuple}
  BY <1>1, LenProperties, ElementOfSeq
<1>3. Len(r.flobs) \in Nat /\ DOMAIN r.flobs = 1 .. Len(r.flobs)
  BY <1>1, LenProperties
<1> QED
  BY <1>1, <1>2, <1>3 DEF TupleIds

LEMMA HasFlobsByTuple ==
  ASSUME NEW r
  PROVE  HasFlobs(r) <=> \A t \in TupleIds(r), a \in Attributes :
           r.tuples[t][a] \in DOMAIN r.flobs /\ r.flobs[r.tuples[t][a]] # NoFlob
  BY DEF HasFlobs, FlobsOf

WrittenInto(r, tuples, gone, saved) ==
  [tuples |-> tuples, flobs |-> Delete(r.flobs, gone) \o saved]

\* A tuple is written, new or in place of one, and its Flobs behind the
\* others, some of which are destroyed.
LEMMA WrittenTuple ==
  ASSUME NEW r, RelationOK(r),
         NEW tuples \in Seq([Attributes -> Nat] \cup {NoTuple}),
         NEW t \in 1 .. Len(tuples), tuples[t] = NewFlobs(r),
         \A u \in 1 .. Len(tuples) : u # t =>
           u \in 1 .. Len(r.tuples) /\ tuples[u] = r.tuples[u],
         NEW gone,
         \A u \in TupleIds(r), a \in Attributes : u # t => r.tuples[u][a] \notin gone,
         NEW saved \in [Attributes -> FlobValues]
  PROVE  /\ RelationOK(WrittenInto(r, tuples, gone, saved))
         /\ KeepsNumbers(r, WrittenInto(r, tuples, gone, saved))
         /\ Len(WrittenInto(r, tuples, gone, saved).flobs) = Len(r.flobs) + NrAttributes
<1>s. PICK s : s = WrittenInto(r, tuples, gone, saved)
  OBVIOUS
<1>n. PICK n : n = Len(r.flobs)
  OBVIOUS
<1>1. /\ n \in Nat /\ r.flobs \in Seq(StoredContents) /\ DOMAIN r.flobs = 1 .. n
      /\ \A u \in TupleIds(r) : r.tuples[u] \in [Attributes -> Nat]
  BY <1>n, RelationParts DEF RelationOK
<1>2. s.flobs = Delete(r.flobs, gone) \o saved /\ s.tuples = tuples
  BY <1>s DEF WrittenInto
<1>3. /\ s.flobs \in Seq(StoredContents)
      /\ Len(s.flobs) = n + NrAttributes
      /\ DOMAIN s.flobs = 1 .. n + NrAttributes
      /\ \A i \in 1 .. n : s.flobs[i] = IF i \in gone THEN NoFlob ELSE r.flobs[i]
      /\ \A a \in Attributes : s.flobs[n + a] = saved[a]
  <2>1. IsWritten(Delete(r.flobs, gone) \o saved, r.flobs, gone, saved)
    BY <1>1, WrittenFlobs
  <2>2. IsWritten(s.flobs, r.flobs, gone, saved)
    BY <1>2, <2>1
  <2> QED
    BY <1>n, <2>2 DEF IsWritten
<1>6. s \in Relations
  BY <1>s, <1>2, <1>3 DEF Relations, StoredContents, WrittenInto
<1>7. \A u \in TupleIds(s) :
        \/ u = t /\ \A a \in Attributes : s.tuples[u][a] = n + a
        \/ u # t /\ u \in TupleIds(r) /\ s.tuples[u] = r.tuples[u]
  BY <1>2, <1>n DEF TupleIds, NewFlobs
<1>8. \A u \in TupleIds(r), a \in Attributes :
        /\ r.tuples[u][a] \in 1 .. n
        /\ r.flobs[r.tuples[u][a]] # NoFlob
  BY <1>1, HasFlobsByTuple DEF RelationOK
<1>9. HasFlobs(s)
  <2> SUFFICES ASSUME NEW u \in TupleIds(s), NEW a \in Attributes
               PROVE  /\ s.tuples[u][a] \in DOMAIN s.flobs
                      /\ s.flobs[s.tuples[u][a]] # NoFlob
    BY HasFlobsByTuple
  <2> a \in 1 .. NrAttributes
    BY DEF Attributes
  <2>1. CASE u = t
    <3>1. s.tuples[u][a] = n + a
      BY <1>7, <2>1
    <3>2. n + a \in 1 .. n + NrAttributes
      BY <1>1
    <3>3. s.flobs[n + a] = saved[a]
      BY <1>3
    <3>4. saved[a] # NoFlob
      OBVIOUS
    <3> QED
      BY <1>3, <3>1, <3>2, <3>3, <3>4
  <2>2. CASE u # t
    <3>1. u \in TupleIds(r) /\ s.tuples[u] = r.tuples[u]
      BY <1>7, <2>2
    <3> DEFINE rec == r.tuples[u][a]
    <3>2. rec \in 1 .. n /\ r.flobs[rec] # NoFlob /\ rec \notin gone
      BY <1>8, <2>2, <3>1
    <3>3. rec \in 1 .. n + NrAttributes
      BY <1>1, <3>2
    <3>4. s.flobs[rec] = r.flobs[rec]
      BY <1>3, <3>2
    <3> QED
      BY <1>3, <3>1, <3>2, <3>3, <3>4
  <2> QED
    BY <2>1, <2>2
<1>10. SharesNoFlob(s)
  <2> SUFFICES ASSUME NEW u \in TupleIds(s), NEW v \in TupleIds(s),
                      NEW a \in Attributes, NEW b \in Attributes,
                      s.tuples[u][a] = s.tuples[v][b]
               PROVE  u = v /\ a = b
    BY DEF SharesNoFlob
  <2> a \in Nat \ {0} /\ b \in Nat \ {0}
    BY DEF Attributes
  <2>1. CASE u = t /\ v = t
    <3>1. s.tuples[t][a] = n + a /\ s.tuples[t][b] = n + b
      BY <1>7, <2>1
    <3> QED
      BY <1>1, <2>1, <3>1
  <2>2. CASE u = t /\ v # t
    <3>1. s.tuples[u][a] = n + a /\ s.tuples[v][b] = r.tuples[v][b] /\ v \in TupleIds(r)
      BY <1>7, <2>2
    <3>2. r.tuples[v][b] \in 1 .. n
      BY <1>8, <3>1
    <3>3. n + a # r.tuples[v][b]
      BY <1>1, <3>2
    <3> QED
      BY <3>1, <3>3
  <2>3. CASE u # t /\ v = t
    <3>1. s.tuples[v][b] = n + b /\ s.tuples[u][a] = r.tuples[u][a] /\ u \in TupleIds(r)
      BY <1>7, <2>3
    <3>2. r.tuples[u][a] \in 1 .. n
      BY <1>8, <3>1
    <3>3. n + b # r.tuples[u][a]
      BY <1>1, <3>2
    <3> QED
      BY <3>1, <3>3
  <2>4. CASE u # t /\ v # t
    <3>1. /\ u \in TupleIds(r) /\ s.tuples[u] = r.tuples[u]
          /\ v \in TupleIds(r) /\ s.tuples[v] = r.tuples[v]
      BY <1>7, <2>4
    <3> QED
      BY <3>1 DEF RelationOK, SharesNoFlob
  <2> QED
    BY <2>1, <2>2, <2>3, <2>4
<1>11. KeepsNumbers(r, s)
  <2> SUFFICES ASSUME NEW rec \in 1 .. n
               PROVE  rec \in DOMAIN s.flobs /\ s.flobs[rec] \in {NoFlob, r.flobs[rec]}
    BY <1>1 DEF KeepsNumbers
  <2>1. rec \in 1 .. n + NrAttributes
    BY <1>1
  <2> QED
    BY <1>3, <2>1
<1> QED
  BY <1>3, <1>6, <1>9, <1>10, <1>11, <1>n, <1>s DEF RelationOK

LEMMA AppendedOK ==
  ASSUME NEW r, RelationOK(r), NEW values \in [Attributes -> FlobValues]
  PROVE  /\ RelationOK(Appended(r, values))
         /\ KeepsNumbers(r, Appended(r, values))
         /\ Len(Appended(r, values).flobs) = Len(r.flobs) + NrAttributes
<1>n. PICK new : new = NewFlobs(r)
  OBVIOUS
<1>t. PICK tuples : tuples = Append(r.tuples, new)
  OBVIOUS
<1>1. /\ r.tuples \in Seq([Attributes -> Nat] \cup {NoTuple}) /\ Len(r.tuples) \in Nat
      /\ r.flobs \in Seq(StoredContents) /\ Len(r.flobs) \in Nat
  BY RelationParts DEF RelationOK
<1>2. new \in [Attributes -> Nat]
  BY <1>1, <1>n DEF NewFlobs, Attributes
<1>3. /\ tuples \in Seq([Attributes -> Nat] \cup {NoTuple})
      /\ Len(tuples) = Len(r.tuples) + 1
      /\ tuples[Len(r.tuples) + 1] = new
      /\ \A u \in 1 .. Len(r.tuples) : tuples[u] = r.tuples[u]
  BY <1>1, <1>2, <1>t, AppendProperties
<1>4. Appended(r, values) = WrittenInto(r, tuples, {}, values)
  BY <1>1, <1>n, <1>t, DeleteNothing DEF Appended, WrittenInto
<1>5. Len(r.tuples) + 1 \in 1 .. Len(tuples)
  BY <1>1, <1>3
<1>6. \A u \in 1 .. Len(tuples) : u # Len(r.tuples) + 1 =>
        u \in 1 .. Len(r.tuples) /\ tuples[u] = r.tuples[u]
  BY <1>1, <1>3
<1>7. tuples[Len(r.tuples) + 1] = NewFlobs(r)
  BY <1>3, <1>n
<1>8. \A u \in TupleIds(r), a \in Attributes : r.tuples[u][a] \notin {}
  OBVIOUS
<1> DEFINE s == WrittenInto(r, tuples, {}, values)
<1>9. RelationOK(s) /\ KeepsNumbers(r, s) /\ Len(s.flobs) = Len(r.flobs) + NrAttributes
  BY <1>3, <1>5, <1>6, <1>7, <1>8, WrittenTuple, SMTT(30)
<1> QED
  BY <1>4, <1>9, Zenon

LEMMA UpdatedOK ==
  ASSUME NEW r, RelationOK(r), NEW t \in TupleIds(r), NEW changed \in SUBSET Attributes,
         NEW saved \in [Attributes -> FlobValues]
  PROVE  /\ RelationOK(Updated(r, t, changed, saved))
         /\ KeepsNumbers(r, Updated(r, t, changed, saved))
         /\ Len(Updated(r, t, changed, saved).flobs) = Len(r.flobs) + NrAttributes
<1>n. PICK new : new = NewFlobs(r)
  OBVIOUS
<1>t. PICK tuples : tuples = [r.tuples EXCEPT ![t] = new]
  OBVIOUS
<1>g. PICK gone : gone = {r.tuples[t][a] : a \in changed}
  OBVIOUS
<1>1. /\ r.tuples \in Seq([Attributes -> Nat] \cup {NoTuple}) /\ Len(r.tuples) \in Nat
      /\ Len(r.flobs) \in Nat
      /\ t \in 1 .. Len(r.tuples)
  BY RelationParts DEF RelationOK, TupleIds
<1>2. new \in [Attributes -> Nat]
  BY <1>1, <1>n DEF NewFlobs, Attributes
<1>3. /\ tuples \in Seq([Attributes -> Nat] \cup {NoTuple})
      /\ Len(tuples) = Len(r.tuples)
      /\ \A u \in 1 .. Len(r.tuples) : tuples[u] = IF u = t THEN new ELSE r.tuples[u]
  BY <1>1, <1>2, <1>t, ExceptSeq
<1>4. \A u \in TupleIds(r), a \in Attributes : u # t => r.tuples[u][a] \notin gone
  BY <1>g DEF RelationOK, SharesNoFlob
<1>5. Updated(r, t, changed, saved) = WrittenInto(r, tuples, gone, saved)
  BY <1>n, <1>t, <1>g DEF Updated, WrittenInto
<1>6. t \in 1 .. Len(tuples) /\ tuples[t] = NewFlobs(r)
  BY <1>1, <1>3, <1>n
<1>7. \A u \in 1 .. Len(tuples) : u # t => u \in 1 .. Len(r.tuples) /\ tuples[u] = r.tuples[u]
  BY <1>1, <1>3
<1> DEFINE s == WrittenInto(r, tuples, gone, saved)
<1>9. RelationOK(s) /\ KeepsNumbers(r, s) /\ Len(s.flobs) = Len(r.flobs) + NrAttributes
  BY <1>3, <1>4, <1>6, <1>7, WrittenTuple
<1> QED
  BY <1>5, <1>9, Zenon

LEMMA WithoutOK ==
  ASSUME NEW r, RelationOK(r), NEW t \in TupleIds(r)
  PROVE  /\ RelationOK(WithoutTuple(r, t))
         /\ KeepsNumbers(r, WithoutTuple(r, t))
         /\ Len(WithoutTuple(r, t).flobs) = Len(r.flobs)
<1>s. PICK s : s = WithoutTuple(r, t)
  OBVIOUS
<1>g. PICK gone : gone = FlobsOf(r, {t})
  OBVIOUS
<1>1. /\ r.tuples \in Seq([Attributes -> Nat] \cup {NoTuple}) /\ Len(r.tuples) \in Nat
      /\ r.flobs \in Seq(StoredContents)
      /\ DOMAIN r.flobs = 1 .. Len(r.flobs)
      /\ t \in 1 .. Len(r.tuples)
  BY RelationParts DEF RelationOK, TupleIds
<1>2. /\ s.tuples \in Seq([Attributes -> Nat] \cup {NoTuple})
      /\ Len(s.tuples) = Len(r.tuples)
      /\ \A u \in 1 .. Len(r.tuples) : s.tuples[u] = IF u = t THEN NoTuple ELSE r.tuples[u]
  BY <1>1, <1>s, ExceptSeq DEF WithoutTuple
<1>3. s.flobs = Delete(r.flobs, gone)
  BY <1>s, <1>g DEF WithoutTuple
<1>4. /\ s.flobs \in Seq(StoredContents) /\ Len(s.flobs) = Len(r.flobs)
      /\ \A i \in 1 .. Len(r.flobs) :
           s.flobs[i] = IF i \in gone THEN NoFlob ELSE r.flobs[i]
  BY <1>1, <1>3, DeleteProperties
<1>5. DOMAIN s.flobs = 1 .. Len(r.flobs)
  BY <1>4, LenProperties
<1>6. s \in Relations
  BY <1>s, <1>2, <1>4 DEF Relations, StoredContents, WithoutTuple
<1>7. \A u \in TupleIds(s) : u # t /\ u \in TupleIds(r) /\ s.tuples[u] = r.tuples[u]
  BY <1>1, <1>2 DEF TupleIds
<1>8. \A u \in TupleIds(r), a \in Attributes : u # t => r.tuples[u][a] \notin gone
  BY <1>g DEF RelationOK, SharesNoFlob, FlobsOf
<1>9. HasFlobs(s)
  <2> SUFFICES ASSUME NEW u \in TupleIds(s), NEW a \in Attributes
               PROVE  /\ s.tuples[u][a] \in DOMAIN s.flobs
                      /\ s.flobs[s.tuples[u][a]] # NoFlob
    BY HasFlobsByTuple, Zenon
  <2> DEFINE rec == r.tuples[u][a]
  <2>1. u \in TupleIds(r) /\ s.tuples[u][a] = rec /\ rec \notin gone
    BY <1>7, <1>8
  <2>2. rec \in 1 .. Len(r.flobs) /\ r.flobs[rec] # NoFlob
    BY <1>1, <2>1, HasFlobsByTuple DEF RelationOK
  <2> QED
    BY <1>4, <1>5, <2>1, <2>2
<1>10. SharesNoFlob(s)
  BY <1>7 DEF RelationOK, SharesNoFlob
<1>11. KeepsNumbers(r, s)
  BY <1>1, <1>4, <1>5 DEF KeepsNumbers
<1> QED
  BY <1>4, <1>6, <1>9, <1>10, <1>11, <1>s DEF RelationOK

LEMMA EmptyOK == RelationOK(EmptyRelation) /\ Len(EmptyRelation.flobs) = 0
<1>1. \A S : <<>> \in Seq(S) /\ Len(<<>>) = 0
  BY EmptySeq
<1>2. EmptyRelation \in Relations /\ TupleIds(EmptyRelation) = {}
  BY <1>1 DEF EmptyRelation, Relations, TupleIds
<1> QED
  BY <1>1, <1>2, HasFlobsByTuple DEF RelationOK, SharesNoFlob, EmptyRelation

-----------------------------------------------------------------------------
(* Types, and the Flobs of the tuples.                                     *)

Bounded(r) == RelationOK(r) /\ Len(r.flobs) <= MaxRecords
RelationsOK == \A d \in Databases : Bounded(relation[d]) /\ Bounded(committed[d])
FlobsInv == TupleFlobsTypeOK /\ RelationsOK

LEMMA EmptyCache ==
  <<>> \in CacheType /\ DOMAIN <<>> = {} /\ Cardinality(DOMAIN <<>>) <= CacheLimit
<1>1. <<>> \in [{} -> FlobValues] /\ DOMAIN <<>> = {}
  OBVIOUS
<1>2. <<>> \in CacheType
  BY <1>1 DEF CacheType
<1>3. Cardinality({}) = 0
  BY FS_EmptySet
<1>4. Cardinality({}) <= CacheLimit
  BY <1>3
<1> QED
  BY <1>1, <1>2, <1>4

LEMMA FlobsInit == TupleFlobsInit => FlobsInv
<1> SUFFICES ASSUME TupleFlobsInit
             PROVE  FlobsInv
  OBVIOUS
<1>1. Bounded(EmptyRelation) /\ EmptyRelation \in Relations
  BY EmptyOK DEF Bounded, RelationOK
<1>2. RelationsOK
  BY <1>1 DEF TupleFlobsInit, RelationsOK
<1>3. <<>> \in CacheType /\ Cardinality(DOMAIN <<>>) <= CacheLimit
  BY EmptyCache
<1>4. cache \in [Processes -> CacheType]
  BY <1>3 DEF TupleFlobsInit
<1>5. \A p \in Processes : Cardinality(DOMAIN cache[p]) <= CacheLimit
  BY <1>3 DEF TupleFlobsInit
<1> QED
  BY <1>1, <1>2, <1>4, <1>5 DEF TupleFlobsInit, FlobsInv, TupleFlobsTypeOK

\* A Flob of a tuple is read from a record that exists, or from the cache.
LEMMA GetDataType ==
  ASSUME FlobsInv, NEW p \in Processes, NEW d \in Databases,
         NEW rec \in FlobsOf(relation[d], TupleIds(relation[d]))
  PROVE  rec \in 1 .. MaxRecords /\ GetData(p, d, rec) \in FlobValues
<1>1. PICK r : r = relation[d]
  OBVIOUS
<1>2. RelationOK(r) /\ Len(r.flobs) <= MaxRecords
  BY <1>1 DEF FlobsInv, RelationsOK, Bounded
<1>3. r \in Relations /\ HasFlobs(r)
  BY <1>2 DEF RelationOK
<1>4. r.flobs \in Seq(StoredContents) /\ Len(r.flobs) \in Nat /\ DOMAIN r.flobs = 1 .. Len(r.flobs)
  BY <1>3, RelationParts
<1>5. rec \in 1 .. Len(r.flobs) /\ r.flobs[rec] # NoFlob
  BY <1>1, <1>3, <1>4 DEF HasFlobs
<1>6. r.flobs[rec] \in FlobValues
  BY <1>4, <1>5, ElementOfSeq DEF StoredContents
<1>7. rec \in 1 .. MaxRecords
  BY <1>2, <1>4, <1>5
<1>8. ASSUME rec \in DOMAIN cache[p]
      PROVE  cache[p][rec] \in FlobValues
  <2>1. PICK S \in SUBSET (1 .. MaxRecords) : cache[p] \in [S -> FlobValues]
    BY DEF FlobsInv, TupleFlobsTypeOK, CacheType
  <2> QED
    BY <1>8, <2>1
<1> QED
  BY <1>1, <1>6, <1>7, <1>8 DEF GetData

LEMMA LoadedType ==
  ASSUME FlobsInv, NEW p \in Processes, NEW d \in Databases,
         NEW recs \in SUBSET FlobsOf(relation[d], TupleIds(relation[d])),
         NEW c \in LoadedCaches(p, d, recs)
  PROVE  /\ c \in CacheType
         /\ Cardinality(DOMAIN c) <= CacheLimit
         /\ \A rec \in DOMAIN c : /\ rec \in DOMAIN cache[p] \cup recs
                                  /\ c[rec] = GetData(p, d, rec)
<1>1. PICK K \in SUBSET (DOMAIN cache[p] \cup recs) :
        Cardinality(K) <= CacheLimit /\ c = [rec \in K |-> GetData(p, d, rec)]
  BY DEF LoadedCaches
<1>2. PICK S \in SUBSET (1 .. MaxRecords) : cache[p] \in [S -> FlobValues]
  BY DEF FlobsInv, TupleFlobsTypeOK, CacheType
<1>3. \A rec \in K : rec \in 1 .. MaxRecords /\ GetData(p, d, rec) \in FlobValues
  <2> SUFFICES ASSUME NEW rec \in K
               PROVE  rec \in 1 .. MaxRecords /\ GetData(p, d, rec) \in FlobValues
    OBVIOUS
  <2>1. CASE rec \in DOMAIN cache[p]
    BY <1>2, <2>1 DEF GetData
  <2>2. CASE rec \notin DOMAIN cache[p]
    BY <1>1, <2>2, GetDataType
  <2> QED
    BY <2>1, <2>2
<1>4. c \in [K -> FlobValues] /\ K \in SUBSET (1 .. MaxRecords)
  BY <1>1, <1>3
<1> QED
  BY <1>1, <1>4 DEF CacheType

\* The relation of d changes to r.
LEMMA ChangedInv ==
  ASSUME FlobsInv, NEW p \in Processes, NEW d \in Databases,
         NEW r, Bounded(r), RelationChanged(p, d, r),
         cache' \in [Processes -> CacheType],
         \A q \in Processes : Cardinality(DOMAIN cache'[q]) <= CacheLimit
  PROVE  FlobsInv'
<1>1. r \in Relations
  BY DEF Bounded, RelationOK
<1>2. relation' = [relation EXCEPT ![d] = r] /\ committed' = committed
  BY DEF RelationChanged
<1>3. TupleFlobsTypeOK'
  BY <1>1 DEF FlobsInv, TupleFlobsTypeOK, RelationChanged
<1>4. ASSUME NEW e \in Databases
      PROVE  Bounded(relation'[e]) /\ Bounded(committed'[e])
  <2>1. relation'[e] = IF e = d THEN r ELSE relation[e]
    BY <1>2 DEF FlobsInv, TupleFlobsTypeOK
  <2> QED
    BY <1>2, <2>1 DEF FlobsInv, RelationsOK
<1> QED
  BY <1>3, <1>4 DEF FlobsInv, RelationsOK

\* The cache of p changes to one that is loaded.
LEMMA CacheChanged ==
  ASSUME FlobsInv, NEW p \in Processes, NEW c \in CacheType,
         Cardinality(DOMAIN c) <= CacheLimit,
         cache' = [cache EXCEPT ![p] = c]
  PROVE  /\ cache' \in [Processes -> CacheType]
         /\ \A q \in Processes : Cardinality(DOMAIN cache'[q]) <= CacheLimit
<1>1. cache \in [Processes -> CacheType]
  BY DEF FlobsInv, TupleFlobsTypeOK
<1>2. \A q \in Processes : cache'[q] = IF q = p THEN c ELSE cache[q]
  BY <1>1
<1> QED
  BY <1>1, <1>2 DEF FlobsInv, TupleFlobsTypeOK

LEMMA RollBackInv ==
  ASSUME FlobsInv, NEW d \in Databases, RollBack(d)
  PROVE  /\ relation' \in [Databases -> Relations] /\ writer' \in [Databases -> SUBSET Processes]
         /\ committed' = committed
         /\ RelationsOK'
<1>1. /\ relation' = [relation EXCEPT ![d] = committed[d]]
      /\ committed' = committed
      /\ writer' = [writer EXCEPT ![d] = {}]
  BY DEF RollBack
<1>2. ASSUME NEW e \in Databases
      PROVE  Bounded(relation'[e]) /\ Bounded(committed'[e])
  <2>1. relation'[e] = IF e = d THEN committed[d] ELSE relation[e]
    BY <1>1 DEF FlobsInv, TupleFlobsTypeOK
  <2> QED
    BY <1>1, <2>1 DEF FlobsInv, RelationsOK
<1> QED
  BY <1>1, <1>2 DEF FlobsInv, TupleFlobsTypeOK, RelationsOK
LEMMA UpdateTupleParts ==
  ASSUME FlobsInv, NEW p \in Processes, NEW d \in Databases, UpdateTuple(p, d)
  PROVE  \E t \in TupleIds(relation[d]), changed \in SUBSET Attributes,
            saved \in [Attributes -> FlobValues], c \in CacheType :
           /\ RelationChanged(p, d, Updated(relation[d], t, changed, saved))
           /\ Cardinality(DOMAIN c) <= CacheLimit
           /\ cache' = [cache EXCEPT ![p] = c]
           /\ "partial update" \notin Irregular => changed = Attributes
           /\ \A rec \in DOMAIN c :
                /\ rec \in DOMAIN cache[p] \cup FlobsOf(relation[d], TupleIds(relation[d]))
                /\ c[rec] = GetData(p, d, rec)
<1>1. PICK t \in TupleIds(relation[d]), changed \in SUBSET Attributes,
           values \in [Attributes -> FlobValues] :
        LET old == relation[d].tuples[t]
            kept == Attributes \ changed
            saved == [a \in Attributes |->
                        IF a \in changed THEN values[a] ELSE GetData(p, d, old[a])]
        IN /\ kept # {} => "partial update" \in Irregular
           /\ RelationChanged(p, d, Updated(relation[d], t, changed, saved))
           /\ \E c \in LoadedCaches(p, d, {old[a] : a \in kept}) :
                cache' = [cache EXCEPT ![p] = c]
  BY DEF UpdateTuple
<1>2. PICK saved : saved = [a \in Attributes |->
        IF a \in changed THEN values[a] ELSE GetData(p, d, relation[d].tuples[t][a])]
  OBVIOUS
<1>3. PICK recs : recs = {relation[d].tuples[t][a] : a \in Attributes \ changed}
  OBVIOUS
<1>4. recs \in SUBSET FlobsOf(relation[d], TupleIds(relation[d]))
  BY <1>3 DEF FlobsOf
<1>5. \A a \in Attributes : relation[d].tuples[t][a] \in FlobsOf(relation[d], TupleIds(relation[d]))
  BY DEF FlobsOf
<1>6. \A a \in Attributes : GetData(p, d, relation[d].tuples[t][a]) \in FlobValues
  BY <1>5, GetDataType
<1>7. saved \in [Attributes -> FlobValues]
  BY <1>2, <1>6
<1>8. PICK c \in LoadedCaches(p, d, recs) : cache' = [cache EXCEPT ![p] = c]
  BY <1>1, <1>3
<1>9. /\ c \in CacheType /\ Cardinality(DOMAIN c) <= CacheLimit
      /\ \A rec \in DOMAIN c : rec \in DOMAIN cache[p] \cup recs /\ c[rec] = GetData(p, d, rec)
  BY <1>4, <1>8, LoadedType
<1>10. RelationChanged(p, d, Updated(relation[d], t, changed, saved))
  BY <1>1, <1>2
<1>11. "partial update" \notin Irregular => changed = Attributes
  BY <1>1
<1> QED
  BY <1>4, <1>7, <1>8, <1>9, <1>10, <1>11

LEMMA FlobsStep == FlobsInv /\ [TupleFlobsNext]_tupleFlobVars => FlobsInv'
<1> SUFFICES ASSUME FlobsInv, [TupleFlobsNext]_tupleFlobVars
             PROVE  FlobsInv'
  OBVIOUS
<1>t. /\ cache \in [Processes -> CacheType]
      /\ \A q \in Processes : Cardinality(DOMAIN cache[q]) <= CacheLimit
  BY DEF FlobsInv, TupleFlobsTypeOK
<1>0. CASE UNCHANGED tupleFlobVars
  BY <1>0 DEF FlobsInv, TupleFlobsTypeOK, RelationsOK, tupleFlobVars
<1>1. ASSUME NEW p \in Processes, CloseDatabase(p)
      PROVE  FlobsInv'
  <2>1. /\ cache' \in [Processes -> CacheType]
        /\ \A q \in Processes : Cardinality(DOMAIN cache'[q]) <= CacheLimit
    BY <1>1, EmptyCache, CacheChanged DEF CloseDatabase
  <2> QED
    BY <1>1, <2>1 DEF FlobsInv, TupleFlobsTypeOK, RelationsOK, CloseDatabase
<1>2. ASSUME NEW p \in Processes, CloseUncleared(p)
      PROVE  FlobsInv'
  BY <1>2 DEF FlobsInv, TupleFlobsTypeOK, RelationsOK, CloseUncleared
<1>3. ASSUME NEW p \in Processes, Crash(p)
      PROVE  FlobsInv'
  <2>1. /\ cache' \in [Processes -> CacheType]
        /\ \A q \in Processes : Cardinality(DOMAIN cache'[q]) <= CacheLimit
    BY <1>3, EmptyCache, CacheChanged DEF Crash
  <2>2. database' \in [Processes -> Databases \cup {NoDatabase}]
    BY <1>3 DEF FlobsInv, TupleFlobsTypeOK, Crash
  <2>3. CASE UNCHANGED <<relation, committed, writer>>
    BY <2>1, <2>2, <2>3 DEF FlobsInv, TupleFlobsTypeOK, RelationsOK
  <2>4. CASE \E d \in Databases : RollBack(d)
    <3>1. PICK d \in Databases : RollBack(d)
      BY <2>4
    <3> QED
      BY <2>1, <2>2, <3>1, RollBackInv DEF FlobsInv, TupleFlobsTypeOK
  <2> QED
    BY <1>3, <2>3, <2>4 DEF Crash
<1>4. ASSUME NEW p \in Processes, NEW d \in Databases, OpenDatabase(p, d)
      PROVE  FlobsInv'
  BY <1>4 DEF FlobsInv, TupleFlobsTypeOK, RelationsOK, OpenDatabase
<1>5. ASSUME NEW p \in Processes, NEW d \in Databases, AppendTuple(p, d)
      PROVE  FlobsInv'
  <2>1. PICK values \in [Attributes -> FlobValues] : RelationChanged(p, d, Appended(relation[d], values))
    BY <1>5 DEF AppendTuple
  <2>2. RelationOK(relation[d]) /\ Len(relation[d].flobs) + NrAttributes <= MaxRecords
    BY <1>5 DEF AppendTuple, FlobsInv, RelationsOK, Bounded
  <2>3. Bounded(Appended(relation[d], values))
    BY <2>2, AppendedOK DEF Bounded
  <2>4. cache' = cache
    BY <1>5 DEF AppendTuple
  <2> QED
    BY <1>t, <2>1, <2>3, <2>4, ChangedInv
<1>6. ASSUME NEW p \in Processes, NEW d \in Databases, UpdateTuple(p, d)
      PROVE  FlobsInv'
  <2>1. PICK t \in TupleIds(relation[d]), changed \in SUBSET Attributes,
             saved \in [Attributes -> FlobValues], c \in CacheType :
          /\ RelationChanged(p, d, Updated(relation[d], t, changed, saved))
          /\ Cardinality(DOMAIN c) <= CacheLimit
          /\ cache' = [cache EXCEPT ![p] = c]
    <3>1. \E t \in TupleIds(relation[d]), changed \in SUBSET Attributes,
             saved \in [Attributes -> FlobValues], c \in CacheType :
            /\ RelationChanged(p, d, Updated(relation[d], t, changed, saved))
            /\ Cardinality(DOMAIN c) <= CacheLimit
            /\ cache' = [cache EXCEPT ![p] = c]
            /\ "partial update" \notin Irregular => changed = Attributes
            /\ \A rec \in DOMAIN c :
                 /\ rec \in DOMAIN cache[p] \cup FlobsOf(relation[d], TupleIds(relation[d]))
                 /\ c[rec] = GetData(p, d, rec)
      BY <1>6, UpdateTupleParts
    <3> QED
      BY <3>1, Zenon
  <2>2. RelationOK(relation[d]) /\ Len(relation[d].flobs) + NrAttributes <= MaxRecords
    BY <1>6 DEF UpdateTuple, FlobsInv, RelationsOK, Bounded
  <2>3. Bounded(Updated(relation[d], t, changed, saved))
    BY <2>2, UpdatedOK DEF Bounded
  <2>4. /\ cache' \in [Processes -> CacheType]
        /\ \A q \in Processes : Cardinality(DOMAIN cache'[q]) <= CacheLimit
    BY <2>1, CacheChanged
  <2> QED
    BY <2>1, <2>3, <2>4, ChangedInv
<1>7. ASSUME NEW p \in Processes, NEW d \in Databases, DeleteTuple(p, d)
      PROVE  FlobsInv'
  <2>1. PICK t \in TupleIds(relation[d]) : RelationChanged(p, d, WithoutTuple(relation[d], t))
    BY <1>7 DEF DeleteTuple
  <2>2. RelationOK(relation[d]) /\ Len(relation[d].flobs) <= MaxRecords
    BY DEF FlobsInv, RelationsOK, Bounded
  <2>3. Bounded(WithoutTuple(relation[d], t))
    BY <2>2, WithoutOK DEF Bounded
  <2>4. cache' = cache
    BY <1>7 DEF DeleteTuple
  <2> QED
    BY <1>t, <2>1, <2>3, <2>4, ChangedInv
<1>8. ASSUME NEW p \in Processes, NEW d \in Databases, Clear(p, d)
      PROVE  FlobsInv'
  <2>1. Bounded(EmptyRelation)
    BY EmptyOK DEF Bounded
  <2> QED
    BY <1>8, <1>t, <2>1, ChangedInv DEF Clear
<1>9. ASSUME NEW p \in Processes, NEW d \in Databases, ReadTupleFlob(p, d)
      PROVE  FlobsInv'
  <2>0. PICK rec \in FlobsOf(relation[d], TupleIds(relation[d])) :
          \E c \in LoadedCaches(p, d, {rec}) : cache' = [cache EXCEPT ![p] = c]
    BY <1>9 DEF ReadTupleFlob
  <2>1. PICK c \in LoadedCaches(p, d, {rec}) : cache' = [cache EXCEPT ![p] = c]
    BY <2>0
  <2>2. c \in CacheType /\ Cardinality(DOMAIN c) <= CacheLimit
    BY LoadedType
  <2>3. /\ cache' \in [Processes -> CacheType]
        /\ \A q \in Processes : Cardinality(DOMAIN cache'[q]) <= CacheLimit
    BY <2>1, <2>2, CacheChanged
  <2> QED
    BY <1>9, <2>3 DEF FlobsInv, TupleFlobsTypeOK, RelationsOK, ReadTupleFlob
<1>10. ASSUME NEW p \in Processes, NEW d \in Databases, Commit(p, d)
       PROVE  FlobsInv'
  <2>1. /\ committed' = [committed EXCEPT ![d] = relation[d]]
        /\ writer' = [writer EXCEPT ![d] = {}]
        /\ UNCHANGED <<relation, database, cache>>
    BY <1>10 DEF Commit
  <2>2. \A e \in Databases : committed'[e] = IF e = d THEN relation[d] ELSE committed[e]
    BY <2>1 DEF FlobsInv, TupleFlobsTypeOK
  <2>3. RelationsOK'
    BY <2>1, <2>2 DEF FlobsInv, RelationsOK
  <2> QED
    BY <2>1, <2>3 DEF FlobsInv, TupleFlobsTypeOK
<1>11. ASSUME NEW p \in Processes, NEW d \in Databases, Abort(p, d)
       PROVE  FlobsInv'
  BY <1>11, RollBackInv DEF FlobsInv, TupleFlobsTypeOK, Abort
<1> QED
  BY <1>0, <1>1, <1>2, <1>3, <1>4, <1>5, <1>6, <1>7, <1>8, <1>9, <1>10, <1>11 DEF TupleFlobsNext

\* The type of every variable, with the limits of the caches.
THEOREM TupleFlobsTypeCorrect == TupleFlobsSpec => []TupleFlobsTypeOK
<1>1. FlobsInv => TupleFlobsTypeOK
  BY DEF FlobsInv
<1> QED
  BY <1>1, FlobsInit, FlobsStep, PTL DEF TupleFlobsSpec

\* The Flobs of every tuple exist, whatever situations are included: deletions,
\* updates, rollbacks and stale caches do not disturb them.
THEOREM FlobsExist == TupleFlobsSpec => []TuplesHaveFlobs
<1>1. FlobsInv => TuplesHaveFlobs
  BY DEF FlobsInv, RelationsOK, Bounded, RelationOK, TuplesHaveFlobs
<1> QED
  BY <1>1, FlobsInit, FlobsStep, PTL DEF TupleFlobsSpec

\* No two attributes share the record of a Flob.
THEOREM FlobsHaveOneOwner == TupleFlobsSpec => []OneOwnerPerFlob
<1>1. FlobsInv => OneOwnerPerFlob
  BY DEF FlobsInv, RelationsOK, Bounded, RelationOK, OneOwnerPerFlob
<1> QED
  BY <1>1, FlobsInit, FlobsStep, PTL DEF TupleFlobsSpec
-----------------------------------------------------------------------------
(* The caches hold what is stored.  A cache is not told about the changes   *)
(* of others, but the numbers of records are not used again, except after   *)
(* a rollback or when the file is truncated.                                *)

Regular == Irregular \cap {"clear cached", "abort cached", "close uncleared"} = {}

\* What p has cached is current; what p did not change itself is also what a
\* rollback would bring back.
CacheOK(p, d) ==
  /\ database[p] = NoDatabase => DOMAIN cache[p] = {}
  /\ p \in writer[d] => writer[d] = {p} /\ database[p] = d
  /\ writer[d] = {} => relation[d] = committed[d]
  /\ database[p] = d => IsCurrent(cache[p], relation[d])
  /\ database[p] = d /\ p \notin writer[d] => IsCurrent(cache[p], committed[d])
CachesOK == \A p \in Processes, d \in Databases : CacheOK(p, d)

LEMMA CachesInit == TupleFlobsInit => CachesOK
<1>1. DOMAIN <<>> = {}
  OBVIOUS
<1> QED
  BY <1>1 DEF TupleFlobsInit, CachesOK, CacheOK, IsCurrent

LEMMA CurrentStaysCurrent ==
  ASSUME NEW c, NEW r, NEW s, IsCurrent(c, r), KeepsNumbers(r, s)
  PROVE  IsCurrent(c, s)
  BY DEF IsCurrent, KeepsNumbers

\* A cache into which p loads Flobs of the relation is still current.
LEMMA LoadedIsCurrent ==
  ASSUME FlobsInv, NEW p \in Processes, NEW d \in Databases, NEW c,
         IsCurrent(cache[p], relation[d]),
         \A rec \in DOMAIN c :
           /\ rec \in DOMAIN cache[p] \cup FlobsOf(relation[d], TupleIds(relation[d]))
           /\ c[rec] = GetData(p, d, rec)
  PROVE  IsCurrent(c, relation[d])
<1>1. HasFlobs(relation[d])
  BY DEF FlobsInv, RelationsOK, Bounded, RelationOK
<1> QED
  BY <1>1 DEF IsCurrent, GetData, HasFlobs

\* p changes the relation of d to r, which leaves its cache current; the
\* others that have d open are told nothing.
LEMMA ChangedCaches ==
  ASSUME FlobsInv, CachesOK, NEW p \in Processes, NEW d \in Databases, NEW r,
         MayAccess(p, d), RelationChanged(p, d, r),
         \A q \in Processes : database[q] = d => IsCurrent(cache'[q], r),
         \A q \in Processes : q # p => cache'[q] = cache[q]
  PROVE  CachesOK'
<1>1. \A e \in Databases : /\ relation'[e] = IF e = d THEN r ELSE relation[e]
                           /\ writer'[e] = IF e = d THEN {p} ELSE writer[e]
  BY DEF RelationChanged, FlobsInv, TupleFlobsTypeOK
<1>2. committed' = committed /\ database' = database
  BY DEF RelationChanged
<1>3. database[p] = d /\ d # NoDatabase
  BY DEF MayAccess
<1> SUFFICES ASSUME NEW q \in Processes, NEW e \in Databases
             PROVE  CacheOK(q, e)'
  BY DEF CachesOK
<1>4. CacheOK(q, e)
  BY DEF CachesOK
<1>5. CASE e = d /\ q = p
  BY <1>1, <1>2, <1>3, <1>4, <1>5 DEF CacheOK
<1>6. CASE e = d /\ q # p
  BY <1>1, <1>2, <1>3, <1>4, <1>6 DEF CacheOK, MayAccess
<1>7. CASE e # d /\ q = p
  BY <1>1, <1>2, <1>3, <1>4, <1>7 DEF CacheOK
<1>8. CASE e # d /\ q # p
  BY <1>1, <1>2, <1>4, <1>8 DEF CacheOK
<1> QED
  BY <1>5, <1>6, <1>7, <1>8

\* Changes of p that keep the numbers of the records keep all caches current.
LEMMA ChangedKeepingNumbers ==
  ASSUME FlobsInv, CachesOK, NEW p \in Processes, NEW d \in Databases, NEW r,
         MayAccess(p, d), RelationChanged(p, d, r), KeepsNumbers(relation[d], r),
         \A q \in Processes : q # p => cache'[q] = cache[q],
         IsCurrent(cache'[p], relation[d])
  PROVE  CachesOK'
<1>1. ASSUME NEW q \in Processes, database[q] = d
      PROVE  IsCurrent(cache'[q], r)
  <2>1. IsCurrent(cache'[q], relation[d])
    BY <1>1 DEF CachesOK, CacheOK
  <2> QED
    BY <2>1, CurrentStaysCurrent
<1> QED
  BY <1>1, ChangedCaches

\* The transaction of p on d ends with a rollback.
LEMMA RollBackCaches ==
  ASSUME FlobsInv, CachesOK, NEW p \in Processes, NEW d \in Databases,
         p \in writer[d], RollBack(d),
         database' = [database EXCEPT ![p] = NoDatabase] \/ database' = database,
         \A q \in Processes : q # p => cache'[q] = cache[q],
         IsCurrent(cache'[p], committed[d]),
         database'[p] = NoDatabase => DOMAIN cache'[p] = {}
  PROVE  CachesOK'
<1>1. \A e \in Databases : /\ relation'[e] = IF e = d THEN committed[d] ELSE relation[e]
                           /\ writer'[e] = IF e = d THEN {} ELSE writer[e]
  BY DEF RollBack, FlobsInv, TupleFlobsTypeOK
<1>2. committed' = committed
  BY DEF RollBack
<1>3. database[p] = d /\ writer[d] = {p} /\ d # NoDatabase
  BY DEF CachesOK, CacheOK
<1>4. /\ \A q \in Processes : q # p => database'[q] = database[q]
      /\ database'[p] \in {d, NoDatabase}
  BY <1>3 DEF FlobsInv, TupleFlobsTypeOK
<1> SUFFICES ASSUME NEW q \in Processes, NEW e \in Databases
             PROVE  CacheOK(q, e)'
  BY DEF CachesOK
<1>5. CacheOK(q, e)
  BY DEF CachesOK
<1>6. CASE e = d /\ q = p
  BY <1>1, <1>2, <1>3, <1>4, <1>6 DEF CacheOK
<1>7. CASE e = d /\ q # p
  BY <1>1, <1>2, <1>3, <1>4, <1>5, <1>7 DEF CacheOK
<1>8. CASE e # d /\ q = p
  BY <1>1, <1>2, <1>3, <1>4, <1>5, <1>8 DEF CacheOK
<1>9. CASE e # d /\ q # p
  BY <1>1, <1>2, <1>3, <1>4, <1>5, <1>9 DEF CacheOK
<1> QED
  BY <1>6, <1>7, <1>8, <1>9

\* p closes its database, with an empty cache and without a transaction.
LEMMA ClosedCaches ==
  ASSUME FlobsInv, CachesOK, NEW p \in Processes,
         \A d \in Databases : p \notin writer[d],
         database' = [database EXCEPT ![p] = NoDatabase],
         UNCHANGED <<relation, committed, writer>>,
         \A q \in Processes : q # p => cache'[q] = cache[q],
         DOMAIN cache'[p] = {}
  PROVE  CachesOK'
<1>1. \A q \in Processes : database'[q] = IF q = p THEN NoDatabase ELSE database[q]
  BY DEF FlobsInv, TupleFlobsTypeOK
<1> SUFFICES ASSUME NEW q \in Processes, NEW e \in Databases
             PROVE  CacheOK(q, e)'
  BY DEF CachesOK
<1>2. CacheOK(q, e)
  BY DEF CachesOK
<1>3. e # NoDatabase
  OBVIOUS
<1>4. CASE q = p
  BY <1>1, <1>2, <1>3, <1>4 DEF CacheOK
<1>5. CASE q # p
  BY <1>1, <1>2, <1>5 DEF CacheOK
<1> QED
  BY <1>4, <1>5

LEMMA CachesStep == Regular /\ FlobsInv /\ CachesOK /\ [TupleFlobsNext]_tupleFlobVars => CachesOK'
<1> SUFFICES ASSUME Regular, FlobsInv, CachesOK, [TupleFlobsNext]_tupleFlobVars
             PROVE  CachesOK'
  OBVIOUS
<1>t. cache \in [Processes -> CacheType] /\ DOMAIN cache = Processes
  BY DEF FlobsInv, TupleFlobsTypeOK
<1>r. \A d \in Databases : RelationOK(relation[d])
  BY DEF FlobsInv, RelationsOK, Bounded
<1>e. DOMAIN <<>> = {}
  OBVIOUS
<1>i. \A p \in Processes, d \in Databases : MayAccess(p, d) => IsCurrent(cache[p], relation[d])
  BY DEF CachesOK, CacheOK, MayAccess
<1>0. CASE UNCHANGED tupleFlobVars
  BY <1>0 DEF CachesOK, CacheOK, tupleFlobVars
<1>1. ASSUME NEW p \in Processes, CloseDatabase(p)
      PROVE  CachesOK'
  <2>1. /\ \A q \in Processes : q # p => cache'[q] = cache[q]
        /\ DOMAIN cache'[p] = {}
    BY <1>1, <1>t, <1>e DEF CloseDatabase
  <2> QED
    BY <1>1, <2>1, ClosedCaches DEF CloseDatabase
<1>2. ASSUME NEW p \in Processes, CloseUncleared(p)
      PROVE  CachesOK'
  <2>1. cache' = cache /\ DOMAIN cache[p] = {}
    BY <1>2 DEF CloseUncleared, Regular
  <2> QED
    BY <1>2, <2>1, ClosedCaches DEF CloseUncleared
<1>3. ASSUME NEW p \in Processes, Crash(p)
      PROVE  CachesOK'
  <2>1. /\ \A q \in Processes : q # p => cache'[q] = cache[q]
        /\ DOMAIN cache'[p] = {}
    BY <1>3, <1>t, <1>e DEF Crash
  <2>2. database' = [database EXCEPT ![p] = NoDatabase]
    BY <1>3 DEF Crash
  <2>3. CASE (\A d \in Databases : p \notin writer[d]) /\ UNCHANGED <<relation, committed, writer>>
    BY <2>1, <2>2, <2>3, ClosedCaches
  <2>4. CASE \E d \in Databases : p \in writer[d] /\ RollBack(d)
    <3>1. PICK d \in Databases : p \in writer[d] /\ RollBack(d)
      BY <2>4
    <3>2. IsCurrent(cache'[p], committed[d])
      BY <2>1 DEF IsCurrent
    <3> QED
      BY <2>1, <2>2, <3>1, <3>2, RollBackCaches
  <2> QED
    BY <1>3, <2>3, <2>4 DEF Crash
<1>4. ASSUME NEW p \in Processes, NEW d \in Databases, OpenDatabase(p, d)
      PROVE  CachesOK'
  <2>1. \A q \in Processes : database'[q] = IF q = p THEN d ELSE database[q]
    BY <1>4 DEF OpenDatabase, FlobsInv, TupleFlobsTypeOK
  <2>2. UNCHANGED <<relation, committed, writer, cache>> /\ database[p] = NoDatabase
    BY <1>4 DEF OpenDatabase
  <2> SUFFICES ASSUME NEW q \in Processes, NEW e \in Databases
               PROVE  CacheOK(q, e)'
    BY DEF CachesOK
  <2>3. CacheOK(q, e) /\ e # NoDatabase
    BY DEF CachesOK
  <2>4. CASE q = p
    <3>1. DOMAIN cache[p] = {} /\ p \notin writer[e]
      BY <2>2, <2>3, <2>4 DEF CacheOK
    <3> QED
      BY <2>1, <2>2, <2>3, <2>4, <3>1 DEF CacheOK, IsCurrent
  <2>5. CASE q # p
    BY <2>1, <2>2, <2>3, <2>5 DEF CacheOK
  <2> QED
    BY <2>4, <2>5
<1>5. ASSUME NEW p \in Processes, NEW d \in Databases, AppendTuple(p, d)
      PROVE  CachesOK'
  <2>1. PICK values \in [Attributes -> FlobValues] : RelationChanged(p, d, Appended(relation[d], values))
    BY <1>5 DEF AppendTuple
  <2>2. MayAccess(p, d) /\ cache' = cache
    BY <1>5 DEF AppendTuple
  <2>3. KeepsNumbers(relation[d], Appended(relation[d], values))
    BY <1>r, AppendedOK
  <2> QED
    BY <1>i, <2>1, <2>2, <2>3, ChangedKeepingNumbers
<1>6. ASSUME NEW p \in Processes, NEW d \in Databases, UpdateTuple(p, d)
      PROVE  CachesOK'
  <2>1. \E t \in TupleIds(relation[d]), changed \in SUBSET Attributes,
           saved \in [Attributes -> FlobValues], c \in CacheType :
          /\ RelationChanged(p, d, Updated(relation[d], t, changed, saved))
          /\ Cardinality(DOMAIN c) <= CacheLimit
          /\ cache' = [cache EXCEPT ![p] = c]
          /\ "partial update" \notin Irregular => changed = Attributes
          /\ \A rec \in DOMAIN c :
               /\ rec \in DOMAIN cache[p] \cup FlobsOf(relation[d], TupleIds(relation[d]))
               /\ c[rec] = GetData(p, d, rec)
    BY <1>6, UpdateTupleParts
  <2>2. PICK t \in TupleIds(relation[d]), changed \in SUBSET Attributes,
             saved \in [Attributes -> FlobValues], c \in CacheType :
          /\ RelationChanged(p, d, Updated(relation[d], t, changed, saved))
          /\ cache' = [cache EXCEPT ![p] = c]
          /\ \A rec \in DOMAIN c :
               /\ rec \in DOMAIN cache[p] \cup FlobsOf(relation[d], TupleIds(relation[d]))
               /\ c[rec] = GetData(p, d, rec)
    BY <2>1, ZenonT(30)
  <2>3. MayAccess(p, d)
    BY <1>6 DEF UpdateTuple
  <2>4. cache'[p] = c /\ \A q \in Processes : q # p => cache'[q] = cache[q]
    BY <1>t, <2>2
  <2>5. IsCurrent(cache'[p], relation[d])
    BY <1>i, <2>2, <2>3, <2>4, LoadedIsCurrent
  <2>6. KeepsNumbers(relation[d], Updated(relation[d], t, changed, saved))
    BY <1>r, UpdatedOK
  <2> QED
    BY <2>2, <2>3, <2>4, <2>5, <2>6, ChangedKeepingNumbers
<1>7. ASSUME NEW p \in Processes, NEW d \in Databases, DeleteTuple(p, d)
      PROVE  CachesOK'
  <2>1. PICK t \in TupleIds(relation[d]) : RelationChanged(p, d, WithoutTuple(relation[d], t))
    BY <1>7 DEF DeleteTuple
  <2>2. MayAccess(p, d) /\ cache' = cache
    BY <1>7 DEF DeleteTuple
  <2>3. KeepsNumbers(relation[d], WithoutTuple(relation[d], t))
    BY <1>r, WithoutOK
  <2> QED
    BY <1>i, <2>1, <2>2, <2>3, ChangedKeepingNumbers
<1>8. ASSUME NEW p \in Processes, NEW d \in Databases, Clear(p, d)
      PROVE  CachesOK'
  <2>1. \A q \in Processes : database[q] = d => DOMAIN cache[q] = {}
    BY <1>8 DEF Clear, Regular
  <2>2. \A q \in Processes : database[q] = d => IsCurrent(cache[q], EmptyRelation)
    BY <2>1 DEF IsCurrent
  <2>3. MayAccess(p, d) /\ RelationChanged(p, d, EmptyRelation) /\ cache' = cache
    BY <1>8 DEF Clear
  <2> QED
    BY <2>2, <2>3, ChangedCaches
<1>9. ASSUME NEW p \in Processes, NEW d \in Databases, ReadTupleFlob(p, d)
      PROVE  CachesOK'
  <2>0. PICK rec \in FlobsOf(relation[d], TupleIds(relation[d])) :
          \E c \in LoadedCaches(p, d, {rec}) : cache' = [cache EXCEPT ![p] = c]
    BY <1>9 DEF ReadTupleFlob
  <2>1. PICK c \in LoadedCaches(p, d, {rec}) : cache' = [cache EXCEPT ![p] = c]
    BY <2>0
  <2>2. \A k \in DOMAIN c :
          /\ k \in DOMAIN cache[p] \cup FlobsOf(relation[d], TupleIds(relation[d]))
          /\ c[k] = GetData(p, d, k)
    BY LoadedType
  <2>3. cache'[p] = c /\ \A q \in Processes : q # p => cache'[q] = cache[q]
    BY <1>t, <2>1
  <2>4. MayAccess(p, d) /\ UNCHANGED <<relation, committed, writer, database>>
    BY <1>9 DEF ReadTupleFlob
  <2>5. IsCurrent(cache'[p], relation[d])
    BY <1>i, <2>2, <2>3, <2>4, LoadedIsCurrent
  <2> SUFFICES ASSUME NEW q \in Processes, NEW e \in Databases
               PROVE  CacheOK(q, e)'
    BY DEF CachesOK
  <2>6. CacheOK(q, e) /\ CacheOK(p, d) /\ d # NoDatabase
    BY DEF CachesOK
  <2>7. CASE q = p
    BY <2>4, <2>5, <2>6, <2>7 DEF CacheOK, MayAccess
  <2>8. CASE q # p
    BY <2>3, <2>4, <2>6, <2>8 DEF CacheOK
  <2> QED
    BY <2>7, <2>8
<1>10. ASSUME NEW p \in Processes, NEW d \in Databases, Commit(p, d)
       PROVE  CachesOK'
  <2>1. \A e \in Databases : /\ committed'[e] = IF e = d THEN relation[d] ELSE committed[e]
                             /\ writer'[e] = IF e = d THEN {} ELSE writer[e]
    BY <1>10 DEF Commit, FlobsInv, TupleFlobsTypeOK
  <2>2. UNCHANGED <<relation, database, cache>>
    BY <1>10 DEF Commit
  <2> SUFFICES ASSUME NEW q \in Processes, NEW e \in Databases
               PROVE  CacheOK(q, e)'
    BY DEF CachesOK
  <2>3. CacheOK(q, e)
    BY DEF CachesOK
  <2> QED
    BY <2>1, <2>2, <2>3 DEF CacheOK
<1>11. ASSUME NEW p \in Processes, NEW d \in Databases, Abort(p, d)
       PROVE  CachesOK'
  <2>1. /\ IsCurrent(cache[p], committed[d])
        /\ p \in writer[d] /\ RollBack(d) /\ UNCHANGED <<database, cache>>
    BY <1>11 DEF Abort, Regular
  <2>2. database[p] = NoDatabase => DOMAIN cache[p] = {}
    BY DEF CachesOK, CacheOK
  <2> QED
    BY <2>1, <2>2, RollBackCaches
<1> QED
  BY <1>0, <1>1, <1>2, <1>3, <1>4, <1>5, <1>6, <1>7, <1>8, <1>9, <1>10, <1>11 DEF TupleFlobsNext

\* Whoever may read a tuple finds in the cache what is stored, unless a
\* relation is cleared or rolled back while its Flobs are cached, or a
\* database closed without clearing the cache.
THEOREM CachesCorrect ==
  ASSUME Regular
  PROVE  TupleFlobsSpec => []CachedIsStored
<1>1. FlobsInv /\ CachesOK => CachedIsStored
  <2> SUFFICES ASSUME FlobsInv, CachesOK, NEW p \in Processes, NEW d \in Databases,
                      MayAccess(p, d),
                      NEW rec \in FlobsOf(relation[d], TupleIds(relation[d])) \cap DOMAIN cache[p]
               PROVE  cache[p][rec] = relation[d].flobs[rec]
    BY DEF CachedIsStored
  <2>1. HasFlobs(relation[d])
    BY DEF FlobsInv, RelationsOK, Bounded, RelationOK
  <2>2. IsCurrent(cache[p], relation[d])
    BY DEF CachesOK, CacheOK, MayAccess
  <2> QED
    BY <2>1, <2>2 DEF HasFlobs, IsCurrent
<1>2. TupleFlobsInit => CachesOK
  BY CachesInit
<1>3. FlobsInv /\ CachesOK /\ [TupleFlobsNext]_tupleFlobVars => CachesOK'
  BY CachesStep
<1> QED
  BY <1>1, <1>2, <1>3, FlobsInit, FlobsStep, PTL DEF TupleFlobsSpec
-----------------------------------------------------------------------------
(* WithoutTuple partial updates, the Flob file holds nothing but the Flobs of    *)
(* the tuples.                                                              *)

LEMMA GarbageByTuple ==
  ASSUME NEW r
  PROVE  HasNoGarbage(r) <=> \A rec \in DOMAIN r.flobs :
           \/ r.flobs[rec] = NoFlob
           \/ \E t \in TupleIds(r), a \in Attributes : rec = r.tuples[t][a]
  BY DEF HasNoGarbage, FlobsOf

LEMMA EmptyNoGarbage == HasNoGarbage(EmptyRelation)
<1>1. DOMAIN <<>> = {}
  OBVIOUS
<1> QED
  BY <1>1 DEF HasNoGarbage, EmptyRelation

LEMMA WrittenNoGarbage ==
  ASSUME NEW r, RelationOK(r), HasNoGarbage(r),
         NEW tuples, NEW t \in 1 .. Len(tuples), tuples[t] = NewFlobs(r),
         \A u \in TupleIds(r) : u # t => u \in 1 .. Len(tuples) /\ tuples[u] = r.tuples[u],
         NEW gone,
         \A a \in Attributes : t \in TupleIds(r) => r.tuples[t][a] \in gone,
         NEW saved \in [Attributes -> FlobValues]
  PROVE  HasNoGarbage(WrittenInto(r, tuples, gone, saved))
<1>s. PICK s : s = WrittenInto(r, tuples, gone, saved)
  OBVIOUS
<1>1. s.flobs = Delete(r.flobs, gone) \o saved /\ s.tuples = tuples
  BY <1>s DEF WrittenInto
<1>n. PICK n : n = Len(r.flobs)
  OBVIOUS
<1>2. n \in Nat /\ r.flobs \in Seq(StoredContents) /\ DOMAIN r.flobs = 1 .. n
  BY <1>n, RelationParts DEF RelationOK
<1>3. IsWritten(s.flobs, r.flobs, gone, saved)
  <2>1. IsWritten(Delete(r.flobs, gone) \o saved, r.flobs, gone, saved)
    BY <1>2, WrittenFlobs
  <2> QED
    BY <1>1, <2>1
<1>4. NewFlobs(r) \in [Attributes -> Nat] /\ NewFlobs(r) # NoTuple
  <2>1. NewFlobs(r) \in [Attributes -> Nat]
    BY <1>n, <1>2 DEF NewFlobs, Attributes
  <2> QED
    BY <2>1 DEF Attributes
<1>5. t \in TupleIds(s) /\ \A a \in Attributes : s.tuples[t][a] = n + a
  BY <1>n, <1>1, <1>4 DEF TupleIds, NewFlobs
<1>6. \A u \in TupleIds(r) : u # t => u \in TupleIds(s) /\ s.tuples[u] = r.tuples[u]
  BY <1>1 DEF TupleIds
<1>7. ASSUME NEW rec \in DOMAIN s.flobs, s.flobs[rec] # NoFlob
      PROVE  \E u \in TupleIds(s), a \in Attributes : rec = s.tuples[u][a]
  <2>1. rec \in 1 .. n + NrAttributes
    BY <1>n, <1>3 DEF IsWritten
  <2>2. CASE rec \in 1 .. n
    <3>1. rec \notin gone /\ r.flobs[rec] # NoFlob
      BY <1>n, <1>3, <1>7, <2>2 DEF IsWritten
    <3>2. PICK u \in TupleIds(r), a \in Attributes : rec = r.tuples[u][a]
      BY <1>2, <2>2, <3>1, GarbageByTuple
    <3>3. u # t
      BY <3>1, <3>2
    <3> QED
      BY <1>6, <3>2, <3>3
  <2>3. CASE rec \notin 1 .. n
    <3>1. rec - n \in Attributes /\ rec = n + (rec - n)
      BY <1>2, <2>1, <2>3 DEF Attributes
    <3> QED
      BY <1>5, <3>1
  <2> QED
    BY <2>2, <2>3
<1> QED
  BY <1>s, <1>7, GarbageByTuple

LEMMA AppendedNoGarbage ==
  ASSUME NEW r, RelationOK(r), HasNoGarbage(r), NEW values \in [Attributes -> FlobValues]
  PROVE  HasNoGarbage(Appended(r, values))
<1>n. PICK new : new = NewFlobs(r)
  OBVIOUS
<1>t. PICK tuples : tuples = Append(r.tuples, new)
  OBVIOUS
<1>1. /\ r.tuples \in Seq([Attributes -> Nat] \cup {NoTuple}) /\ Len(r.tuples) \in Nat
      /\ r.flobs \in Seq(StoredContents) /\ Len(r.flobs) \in Nat
  BY RelationParts DEF RelationOK
<1>2. new \in [Attributes -> Nat]
  BY <1>1, <1>n DEF NewFlobs, Attributes
<1>3. /\ Len(tuples) = Len(r.tuples) + 1
      /\ tuples[Len(r.tuples) + 1] = new
      /\ \A u \in 1 .. Len(r.tuples) : tuples[u] = r.tuples[u]
  BY <1>1, <1>2, <1>t, AppendProperties
<1>4. PICK t : t = Len(r.tuples) + 1
  OBVIOUS
<1>5. /\ t \in 1 .. Len(tuples) /\ tuples[t] = NewFlobs(r)
      /\ t \notin TupleIds(r)
      /\ \A u \in TupleIds(r) : u # t => u \in 1 .. Len(tuples) /\ tuples[u] = r.tuples[u]
  BY <1>1, <1>3, <1>4, <1>n DEF TupleIds
<1>6. HasNoGarbage(WrittenInto(r, tuples, {}, values))
  BY <1>5, WrittenNoGarbage
<1>7. Appended(r, values) = WrittenInto(r, tuples, {}, values)
  BY <1>1, <1>n, <1>t, DeleteNothing DEF Appended, WrittenInto
<1> QED
  BY <1>6, <1>7

LEMMA UpdatedNoGarbage ==
  ASSUME NEW r, RelationOK(r), HasNoGarbage(r), NEW t \in TupleIds(r),
         NEW saved \in [Attributes -> FlobValues]
  PROVE  HasNoGarbage(Updated(r, t, Attributes, saved))
<1>n. PICK new : new = NewFlobs(r)
  OBVIOUS
<1>t. PICK tuples : tuples = [r.tuples EXCEPT ![t] = new]
  OBVIOUS
<1>g. PICK gone : gone = {r.tuples[t][a] : a \in Attributes}
  OBVIOUS
<1>1. /\ r.tuples \in Seq([Attributes -> Nat] \cup {NoTuple})
      /\ Len(r.flobs) \in Nat
      /\ t \in 1 .. Len(r.tuples)
  BY RelationParts DEF RelationOK, TupleIds
<1>2. new \in [Attributes -> Nat]
  BY <1>1, <1>n DEF NewFlobs, Attributes
<1>3. /\ Len(tuples) = Len(r.tuples)
      /\ \A u \in 1 .. Len(r.tuples) : tuples[u] = IF u = t THEN new ELSE r.tuples[u]
  BY <1>1, <1>2, <1>t, ExceptSeq
<1>4. /\ t \in 1 .. Len(tuples) /\ tuples[t] = NewFlobs(r)
      /\ \A u \in TupleIds(r) : u # t => u \in 1 .. Len(tuples) /\ tuples[u] = r.tuples[u]
      /\ \A a \in Attributes : r.tuples[t][a] \in gone
  BY <1>1, <1>3, <1>n, <1>g DEF TupleIds
<1>5. HasNoGarbage(WrittenInto(r, tuples, gone, saved))
  BY <1>4, WrittenNoGarbage
<1>6. Updated(r, t, Attributes, saved) = WrittenInto(r, tuples, gone, saved)
  BY <1>n, <1>t, <1>g DEF Updated, WrittenInto
<1> QED
  BY <1>5, <1>6

LEMMA WithoutNoGarbage ==
  ASSUME NEW r, RelationOK(r), HasNoGarbage(r), NEW t \in TupleIds(r)
  PROVE  HasNoGarbage(WithoutTuple(r, t))
<1>s. PICK s : s = WithoutTuple(r, t)
  OBVIOUS
<1>1. /\ r.tuples \in Seq([Attributes -> Nat] \cup {NoTuple})
      /\ r.flobs \in Seq(StoredContents)
      /\ t \in 1 .. Len(r.tuples)
  BY RelationParts DEF RelationOK, TupleIds
<1>2. /\ Len(s.tuples) = Len(r.tuples)
      /\ \A u \in 1 .. Len(r.tuples) : s.tuples[u] = IF u = t THEN NoTuple ELSE r.tuples[u]
  BY <1>1, <1>s, ExceptSeq DEF WithoutTuple
<1>3. \A u \in TupleIds(r) : u # t => u \in TupleIds(s) /\ s.tuples[u] = r.tuples[u]
  BY <1>2 DEF TupleIds
<1>4. \A rec \in DOMAIN s.flobs :
        rec \in DOMAIN r.flobs /\ (s.flobs[rec] # NoFlob =>
          r.flobs[rec] # NoFlob /\ rec \notin FlobsOf(r, {t}))
  BY <1>s DEF WithoutTuple, Delete
<1>5. \A a \in Attributes : r.tuples[t][a] \in FlobsOf(r, {t})
  BY DEF FlobsOf
<1>6. ASSUME NEW rec \in DOMAIN s.flobs, s.flobs[rec] # NoFlob
      PROVE  \E u \in TupleIds(s), a \in Attributes : rec = s.tuples[u][a]
  <2>1. PICK u \in TupleIds(r), a \in Attributes : rec = r.tuples[u][a]
    BY <1>4, <1>6, GarbageByTuple
  <2>2. u # t
    BY <1>4, <1>5, <1>6, <2>1
  <2> QED
    BY <1>3, <2>1, <2>2
<1> QED
  BY <1>s, <1>6, GarbageByTuple

NoGarbageInv == FlobsInv /\ NoGarbage

\* The relation of d changes to r.
LEMMA ChangedNoGarbage ==
  ASSUME NoGarbageInv, NEW p \in Processes, NEW d \in Databases,
         NEW r, HasNoGarbage(r), RelationChanged(p, d, r)
  PROVE  NoGarbage'
<1>1. /\ \A e \in Databases : relation'[e] = IF e = d THEN r ELSE relation[e]
      /\ committed' = committed
  BY DEF RelationChanged, NoGarbageInv, FlobsInv, TupleFlobsTypeOK
<1> QED
  BY <1>1 DEF NoGarbageInv, NoGarbage

LEMMA RollBackNoGarbage ==
  ASSUME NoGarbageInv, NEW d \in Databases, RollBack(d)
  PROVE  NoGarbage'
<1>1. /\ \A e \in Databases : relation'[e] = IF e = d THEN committed[d] ELSE relation[e]
      /\ committed' = committed
  BY DEF RollBack, NoGarbageInv, FlobsInv, TupleFlobsTypeOK
<1> QED
  BY <1>1 DEF NoGarbageInv, NoGarbage

LEMMA NoGarbageStep ==
  "partial update" \notin Irregular /\ NoGarbageInv /\ [TupleFlobsNext]_tupleFlobVars => NoGarbage'
<1> SUFFICES ASSUME "partial update" \notin Irregular, NoGarbageInv, [TupleFlobsNext]_tupleFlobVars
             PROVE  NoGarbage'
  OBVIOUS
<1>r. /\ FlobsInv
      /\ \A d \in Databases : RelationOK(relation[d]) /\ HasNoGarbage(relation[d])
  BY DEF NoGarbageInv, FlobsInv, RelationsOK, Bounded, NoGarbage
<1>0. ASSUME UNCHANGED <<relation, committed>>
      PROVE  NoGarbage'
  BY <1>0 DEF NoGarbageInv, NoGarbage
<1>1. ASSUME NEW p \in Processes, NEW d \in Databases, AppendTuple(p, d)
      PROVE  NoGarbage'
  <2>1. PICK values \in [Attributes -> FlobValues] : RelationChanged(p, d, Appended(relation[d], values))
    BY <1>1 DEF AppendTuple
  <2> QED
    BY <1>r, <2>1, AppendedNoGarbage, ChangedNoGarbage
<1>2. ASSUME NEW p \in Processes, NEW d \in Databases, UpdateTuple(p, d)
      PROVE  NoGarbage'
  <2>1. \E t \in TupleIds(relation[d]), changed \in SUBSET Attributes,
           saved \in [Attributes -> FlobValues], c \in CacheType :
          /\ RelationChanged(p, d, Updated(relation[d], t, changed, saved))
          /\ Cardinality(DOMAIN c) <= CacheLimit
          /\ cache' = [cache EXCEPT ![p] = c]
          /\ "partial update" \notin Irregular => changed = Attributes
          /\ \A rec \in DOMAIN c :
               /\ rec \in DOMAIN cache[p] \cup FlobsOf(relation[d], TupleIds(relation[d]))
               /\ c[rec] = GetData(p, d, rec)
    BY <1>r, <1>2, UpdateTupleParts
  <2>2. PICK t \in TupleIds(relation[d]), changed \in SUBSET Attributes,
             saved \in [Attributes -> FlobValues] :
          changed = Attributes /\ RelationChanged(p, d, Updated(relation[d], t, changed, saved))
    BY <2>1, Zenon
  <2> QED
    BY <1>r, <2>2, UpdatedNoGarbage, ChangedNoGarbage
<1>3. ASSUME NEW p \in Processes, NEW d \in Databases, DeleteTuple(p, d)
      PROVE  NoGarbage'
  <2>1. PICK t \in TupleIds(relation[d]) : RelationChanged(p, d, WithoutTuple(relation[d], t))
    BY <1>3 DEF DeleteTuple
  <2> QED
    BY <1>r, <2>1, WithoutNoGarbage, ChangedNoGarbage
<1>4. ASSUME NEW p \in Processes, NEW d \in Databases, Clear(p, d)
      PROVE  NoGarbage'
  <2>1. HasNoGarbage(EmptyRelation)
    BY EmptyNoGarbage
  <2> QED
    BY <1>4, <2>1, ChangedNoGarbage DEF Clear
<1>5. ASSUME NEW p \in Processes, NEW d \in Databases, Commit(p, d)
      PROVE  NoGarbage'
  <2>1. /\ \A e \in Databases : committed'[e] = IF e = d THEN relation[d] ELSE committed[e]
        /\ relation' = relation
    BY <1>r, <1>5 DEF Commit, FlobsInv, TupleFlobsTypeOK
  <2> QED
    BY <2>1 DEF NoGarbageInv, NoGarbage
<1>6. ASSUME NEW p \in Processes, NEW d \in Databases, Abort(p, d)
      PROVE  NoGarbage'
  BY <1>6, RollBackNoGarbage DEF Abort
<1>7. ASSUME NEW p \in Processes, Crash(p)
      PROVE  NoGarbage'
  BY <1>0, <1>7, RollBackNoGarbage DEF Crash
<1>8. ASSUME NEW p \in Processes,
             \/ CloseDatabase(p) \/ CloseUncleared(p)
             \/ \E d \in Databases : OpenDatabase(p, d) \/ ReadTupleFlob(p, d)
      PROVE  NoGarbage'
  BY <1>0, <1>8 DEF CloseDatabase, CloseUncleared, OpenDatabase, ReadTupleFlob
<1>9. CASE UNCHANGED tupleFlobVars
  BY <1>0, <1>9 DEF tupleFlobVars
<1> QED
  BY <1>1, <1>2, <1>3, <1>4, <1>5, <1>6, <1>7, <1>8, <1>9 DEF TupleFlobsNext

\* As long as every update replaces all large attributes, each record of the
\* Flob file belongs to a tuple or is deleted.
THEOREM NoGarbageCorrect ==
  ASSUME "partial update" \notin Irregular
  PROVE  TupleFlobsSpec => []NoGarbage
<1>1. TupleFlobsInit => NoGarbage
  BY EmptyNoGarbage DEF TupleFlobsInit, NoGarbage
<1>2. FlobsInv /\ NoGarbage /\ [TupleFlobsNext]_tupleFlobVars => NoGarbage'
  BY NoGarbageStep DEF NoGarbageInv
<1> QED
  BY <1>1, <1>2, FlobsInit, FlobsStep, PTL DEF TupleFlobsSpec

=============================================================================
