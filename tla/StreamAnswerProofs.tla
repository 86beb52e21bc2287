--------------------------- MODULE StreamAnswerProofs ---------------------------
(***************************************************************************)
(* What an answer is: the theorem that a query appends to its result a     *)
(* prefix of the stream that the tree of its operators means (StreamAnswer),*)
(* for any tree, any relation and any constants.  The protocol of the      *)
(* streams and the owners of their tuples are those of StreamQueryProofs.  *)
(***************************************************************************)
EXTENDS StreamQueryProofs, StreamAnswer

-----------------------------------------------------------------------------
(* Induction, for a set of natural numbers: the provers do not instantiate *)
(* the library's theorem, which is about an operator.                      *)

\* What holds at 0 and goes on from k to k + 1 holds up to last.
LEMMA Ascend ==
  ASSUME NEW last \in Nat, NEW S, 0 \in S, \A k \in 0 .. last - 1 : k \in S => k + 1 \in S
  PROVE  \A k \in 0 .. last : k \in S
<1> DEFINE T == {k \in 0 .. last : k \notin S}
<1> SUFFICES ASSUME T # {} PROVE FALSE
  OBVIOUS
<1>1. PICK m \in T : \A k \in T : m <= k
  <2>1. T \in SUBSET Nat
    OBVIOUS
  <2> HIDE DEF T
  <2> QED
    BY <2>1, LeastNode
<1>2. m # 0 /\ m - 1 \in 0 .. last - 1 /\ m - 1 \in S
  BY <1>1
<1> QED
  BY <1>2

-----------------------------------------------------------------------------
(* Sequences of sequences.                                                 *)

\* Concatenation is associative.
LEMMA Associates ==
  ASSUME NEW V
  PROVE  \A s, t, u \in Seq(V) : (s \o t) \o u = s \o (t \o u)
OBVIOUS

\* The first sequences of pieces, one after the other.
Upto(f, pieces, k) ==
  f = [i \in 1 .. k |-> IF i = 1 THEN pieces[i] ELSE f[i - 1] \o pieces[i]]

\* Pieces can be put one after the other, up to any of them.
LEMMA UptoExists ==
  ASSUME NEW V, NEW pieces \in Seq(Seq(V)), pieces # << >>
  PROVE  /\ \E f : Upto(f, pieces, Len(pieces))
         /\ \A f : Upto(f, pieces, Len(pieces)) => \A i \in 1 .. Len(pieces) : f[i] \in Seq(V)
<1> DEFINE last == Len(pieces)
           Known == {k \in Nat : \E f : Upto(f, pieces, k + 1)}
<1>1. last \in Nat \ {0} /\ \A i \in 1 .. last : pieces[i] \in Seq(V)
  BY EmptySeq, LenProperties, ElementOfSeq
<1>2. 0 \in Known
  <2>1. Upto([i \in 1 .. 1 |-> pieces[1]], pieces, 0 + 1)
    BY DEF Upto
  <2> QED
    BY <2>1
<1>3. ASSUME NEW k \in 0 .. (last - 1) - 1, k \in Known PROVE k + 1 \in Known
  <2>1. PICK f : Upto(f, pieces, k + 1)
    BY <1>3
  <2> DEFINE g == [i \in 1 .. k + 2 |-> IF i = k + 2 THEN f[k + 1] \o pieces[i] ELSE f[i]]
  <2>2. ASSUME NEW i \in 1 .. k + 2
        PROVE  g[i] = IF i = 1 THEN pieces[i] ELSE g[i - 1] \o pieces[i]
    <3>1. CASE i = k + 2
      <4>1. i # 1 /\ i - 1 = k + 1 /\ k + 1 \in 1 .. k + 2 /\ k + 1 # k + 2
        BY <3>1
      <4>2. g[k + 1] = f[k + 1]
        BY <4>1
      <4> QED
        BY <3>1, <4>1, <4>2
    <3>2. CASE i \in 1 .. k + 1
      <4>1. g[i] = f[i] /\ (i # 1 => g[i - 1] = f[i - 1])
        BY <3>2
      <4> QED
        BY <2>1, <3>2, <4>1 DEF Upto
    <3> QED
      BY <3>1, <3>2
  <2>3. g = [i \in 1 .. k + 2 |-> IF i = 1 THEN pieces[i] ELSE g[i - 1] \o pieces[i]]
    BY <2>2
  <2>4. Upto(g, pieces, k + 2)
    <3> HIDE DEF g
    <3> QED
      BY <2>3 DEF Upto
  <2>5. (k + 1) + 1 = k + 2 /\ k + 1 \in Nat
    OBVIOUS
  <2>6. Upto(g, pieces, (k + 1) + 1)
    <3> HIDE DEF g
    <3> QED
      BY <2>4, <2>5
  <2> QED
    BY <2>5, <2>6
<1>4. \E f : Upto(f, pieces, last)
  <2> HIDE DEF Known
  <2>1. last - 1 \in Known
    <3>1. last - 1 \in Nat /\ last - 1 \in 0 .. last - 1
      BY <1>1
    <3>2. \A k \in 0 .. last - 1 : k \in Known
      BY <1>2, <1>3, <3>1, Ascend
    <3> QED
      BY <3>1, <3>2
  <2>2. (last - 1) + 1 = last
    BY <1>1
  <2> QED
    BY <2>1, <2>2 DEF Known
<1>5. ASSUME NEW f, Upto(f, pieces, last) PROVE \A i \in 1 .. last : f[i] \in Seq(V)
  <2> DEFINE S == {k \in Nat : k + 1 \in 1 .. last => f[k + 1] \in Seq(V)}
  <2>1. 0 \in S
    BY <1>1, <1>5 DEF Upto
  <2>2. ASSUME NEW k \in 0 .. (last - 1) - 1, k \in S PROVE k + 1 \in S
    <3>1. k + 1 \in 1 .. last /\ k + 2 \in 1 .. last /\ k + 2 # 1 /\ (k + 2) - 1 = k + 1
      BY <1>1
    <3>2. f[k + 2] = f[k + 1] \o pieces[k + 2]
      BY <1>5, <3>1 DEF Upto
    <3>3. f[k + 2] \in Seq(V)
      BY <1>1, <2>2, <3>1, <3>2, ConcatProperties
    <3> QED
      BY <3>1, <3>3
  <2>3. \A k \in 0 .. last - 1 : k \in S
    <3> HIDE DEF S
    <3>1. last - 1 \in Nat
      BY <1>1
    <3> QED
      BY <2>1, <2>2, <3>1, Ascend
  <2> SUFFICES ASSUME NEW i \in 1 .. last PROVE f[i] \in Seq(V)
    OBVIOUS
  <2>4. i - 1 \in 0 .. last - 1 /\ (i - 1) + 1 = i
    BY <1>1
  <2> QED
    BY <2>3, <2>4
<1> QED
  BY <1>4, <1>5

\* FlattenSeq, without its recursion.
LEMMA Flattened ==
  ASSUME NEW V, NEW pieces \in Seq(Seq(V)), pieces # << >>
  PROVE  \E f : /\ Upto(f, pieces, Len(pieces)) /\ FlattenSeq(pieces) = f[Len(pieces)]
                /\ \A i \in 1 .. Len(pieces) : f[i] \in Seq(V)
<1> DEFINE f == CHOOSE f : Upto(f, pieces, Len(pieces))
<1>1. Upto(f, pieces, Len(pieces))
  BY UptoExists
<1>2. Len(pieces) # 0
  BY EmptySeq
<1>3. FlattenSeq(pieces) = f[Len(pieces)]
  BY <1>2 DEF FlattenSeq, Upto
<1> QED
  BY <1>1, <1>3, UptoExists

\* No pieces give nothing.
LEMMA FlatEmpty ==
  FlattenSeq(<< >>) = << >>
BY DEF FlattenSeq

\* Pieces of values give values.
LEMMA FlatType ==
  ASSUME NEW V, NEW pieces \in Seq(Seq(V))
  PROVE  FlattenSeq(pieces) \in Seq(V)
<1>1. CASE pieces = << >>
  BY <1>1, FlatEmpty, EmptySeq
<1>2. CASE pieces # << >>
  <2>1. PICK f : /\ Upto(f, pieces, Len(pieces)) /\ FlattenSeq(pieces) = f[Len(pieces)]
                 /\ \A i \in 1 .. Len(pieces) : f[i] \in Seq(V)
    BY <1>2, Flattened
  <2>2. Len(pieces) \in 1 .. Len(pieces)
    BY <1>2, EmptySeq
  <2> QED
    BY <2>1, <2>2
<1> QED
  BY <1>1, <1>2

\* The first piece comes first.
LEMMA FlatFirst ==
  ASSUME NEW V, NEW piece \in Seq(V), NEW pieces \in Seq(Seq(V))
  PROVE  FlattenSeq(<<piece>> \o pieces) = piece \o FlattenSeq(pieces)
<1> DEFINE all == <<piece>> \o pieces
           last == Len(pieces)
<1>1. /\ all \in Seq(Seq(V)) /\ Len(all) = last + 1 /\ last \in Nat /\ all # << >>
      /\ all[1] = piece /\ \A i \in 1 .. last : all[i + 1] = pieces[i]
  <2>1. <<piece>> \in Seq(Seq(V)) /\ Len(<<piece>>) = 1 /\ <<piece>>[1] = piece
    OBVIOUS
  <2>2. last \in Nat
    BY LenProperties
  <2>3. /\ all \in Seq(Seq(V)) /\ Len(all) = 1 + last
        /\ \A i \in 1 .. 1 + last : all[i] = IF i <= 1 THEN <<piece>>[i] ELSE pieces[i - 1]
    BY <2>1, ConcatProperties
  <2>4. all[1] = piece
    BY <2>1, <2>2, <2>3
  <2>5. \A i \in 1 .. last : all[i + 1] = pieces[i]
    BY <2>2, <2>3
  <2>6. all # << >>
    BY <2>2, <2>3, EmptySeq
  <2> HIDE DEF all
  <2> QED
    BY <2>2, <2>3, <2>4, <2>5, <2>6
<1> HIDE DEF all
<1>2. PICK f : Upto(f, all, last + 1) /\ FlattenSeq(all) = f[last + 1]
  BY <1>1, Flattened
<1>3. CASE pieces = << >>
  <2>1. last = 0 /\ FlattenSeq(pieces) = << >>
    BY <1>3, FlatEmpty, EmptySeq
  <2>2. f[last + 1] = piece
    BY <1>1, <1>2, <2>1 DEF Upto
  <2>3. piece \o << >> = piece
    BY ConcatEmptySeq
  <2> QED
    BY <1>2, <2>1, <2>2, <2>3 DEF all
<1>4. CASE pieces # << >>
  <2>1. PICK g : /\ Upto(g, pieces, last) /\ FlattenSeq(pieces) = g[last]
                 /\ \A i \in 1 .. last : g[i] \in Seq(V)
    BY <1>4, Flattened
  <2>2. last \in Nat \ {0}
    BY <1>4, EmptySeq
  <2>0. \A s, t \in Seq(V) : (piece \o s) \o t = piece \o (s \o t)
    BY Associates
  <2> DEFINE S == {k \in Nat : k + 1 \in 1 .. last => f[k + 2] = piece \o g[k + 1]}
  <2>3. 0 \in S
    <3>0. /\ 1 \in 1 .. last + 1 /\ 2 \in 1 .. last + 1 /\ 1 \in 1 .. last
          /\ 2 # 1 /\ 2 - 1 = 1 /\ 1 + 1 = 2
      BY <2>2
    <3>1. f[1] = piece
      BY <1>1, <1>2, <3>0 DEF Upto
    <3>2. f[2] = f[1] \o all[2]
      <4>1. f[2] = f[2 - 1] \o all[2]
        BY <1>2, <3>0 DEF Upto
      <4> QED
        BY <3>0, <4>1
    <3>3. all[2] = pieces[1]
      <4>1. all[1 + 1] = pieces[1]
        BY <1>1, <3>0
      <4> QED
        BY <3>0, <4>1
    <3>4. g[1] = pieces[1]
      BY <2>1, <3>0 DEF Upto
    <3>5. 0 + 1 = 1 /\ 0 + 2 = 2
      OBVIOUS
    <3> QED
      BY <3>1, <3>2, <3>3, <3>4, <3>5
  <2>4. ASSUME NEW k \in 0 .. (last - 1) - 1, k \in S PROVE k + 1 \in S
    <3>1. /\ k + 1 \in 1 .. last /\ k + 2 \in 1 .. last /\ k + 2 # 1 /\ (k + 2) - 1 = k + 1
          /\ k + 3 \in 1 .. last + 1 /\ k + 3 # 1 /\ (k + 3) - 1 = k + 2 /\ (k + 2) + 1 = k + 3
          /\ (k + 1) + 1 = k + 2 /\ (k + 1) + 2 = k + 3
      BY <2>2
    <3>2. f[k + 3] = f[k + 2] \o all[k + 3] /\ all[k + 3] = pieces[k + 2]
      <4>1. f[k + 3] = f[(k + 3) - 1] \o all[k + 3]
        BY <1>2, <3>1 DEF Upto
      <4>2. all[(k + 2) + 1] = pieces[k + 2]
        BY <1>1, <3>1
      <4> QED
        BY <3>1, <4>1, <4>2
    <3>3. g[k + 2] = g[k + 1] \o pieces[k + 2]
      <4>1. g[k + 2] = g[(k + 2) - 1] \o pieces[k + 2]
        BY <2>1, <3>1 DEF Upto
      <4> QED
        BY <3>1, <4>1
    <3>4. f[k + 2] = piece \o g[k + 1]
      BY <2>4, <3>1
    <3>5. g[k + 1] \in Seq(V) /\ pieces[k + 2] \in Seq(V)
      BY <2>1, <3>1, ElementOfSeq
    <3>6. f[k + 3] = piece \o g[k + 2]
      <4>1. (piece \o g[k + 1]) \o pieces[k + 2] = piece \o (g[k + 1] \o pieces[k + 2])
        BY <2>0, <3>5, Zenon
      <4> QED
        BY <3>2, <3>3, <3>4, <4>1
    <3> QED
      BY <3>1, <3>6
  <2>5. last - 1 \in S
    <3> HIDE DEF S
    <3>1. last - 1 \in Nat /\ last - 1 \in 0 .. last - 1
      BY <2>2
    <3>2. \A k \in 0 .. last - 1 : k \in S
      BY <2>3, <2>4, <3>1, Ascend
    <3> QED
      BY <3>1, <3>2
  <2>6. (last - 1) + 1 = last /\ last \in 1 .. last /\ (last - 1) + 2 = last + 1
    BY <2>2
  <2>7. f[last + 1] = piece \o g[last]
    BY <2>5, <2>6
  <2> QED
    BY <1>2, <2>1, <2>7 DEF all
<1> QED
  BY <1>3, <1>4

\* Empty pieces give nothing.
LEMMA FlatNothing ==
  ASSUME NEW pieces \in Seq(Seq({})) \cup Seq({<< >>})
  PROVE  FlattenSeq(pieces) = << >>
<1>1. pieces \in Seq(Seq({}))
  <2>1. {<< >>} \subseteq Seq({})
    BY EmptySeq
  <2> QED
    BY <2>1, SeqMonotonic
<1>2. FlattenSeq(pieces) \in Seq({})
  BY <1>1, FlatType
<1>3. ASSUME NEW s \in Seq({}), s # << >> PROVE FALSE
  <2>1. Len(s) \in Nat \ {0}
    BY <1>3, EmptySeq
  <2>2. s[1] \in {}
    BY <2>1, ElementOfSeq
  <2> QED
    BY <2>2
<1> QED
  BY <1>2, <1>3

-----------------------------------------------------------------------------
(* What operators do with one more value.                                  *)

\* results has a sequence for each value.
Gives(results, V) == results \in [V -> Seq(V)]
\* What the values give, one after the other.
Each(values, results) == FlattenSeq([i \in DOMAIN values |-> results[values[i]]])

\* The pieces that values give are sequences, one for each value.
LEMMA PiecesAre ==
  ASSUME NEW V, NEW W, NEW values \in Seq(V), NEW results \in [V -> W]
  PROVE  [i \in DOMAIN values |-> results[values[i]]] \in Seq(W)
<1>1. DOMAIN values = 1 .. Len(values) /\ Len(values) \in Nat
      /\ \A i \in 1 .. Len(values) : values[i] \in V
  BY LenProperties, ElementOfSeq
<1>2. \A i \in 1 .. Len(values) : results[values[i]] \in W
  BY <1>1
<1> QED
  BY <1>1, <1>2, SeqDef

\* What values give is a sequence.
LEMMA EachType ==
  ASSUME NEW V, NEW values \in Seq(V), NEW results, Gives(results, V)
  PROVE  Each(values, results) \in Seq(V)
<1>1. [i \in DOMAIN values |-> results[values[i]]] \in Seq(Seq(V))
  BY PiecesAre DEF Gives
<1> QED
  BY <1>1, FlatType DEF Each

\* No values give nothing.
LEMMA EachEmpty ==
  ASSUME NEW results
  PROVE  Each(<< >>, results) = << >>
<1>1. [i \in DOMAIN << >> |-> results[<< >>[i]]] = << >>
  OBVIOUS
<1> QED
  BY <1>1, FlatEmpty DEF Each

\* What the first value gives comes first.
LEMMA EachFirst ==
  ASSUME NEW V, NEW results, Gives(results, V)
  PROVE  \A values \in Seq(V) : \A v \in V :
           Each(<<v>> \o values, results) = results[v] \o Each(values, results)
<1> TAKE values \in Seq(V)
<1> TAKE v \in V
<1> DEFINE all == <<v>> \o values
           pieces == [i \in DOMAIN values |-> results[values[i]]]
           more == [i \in DOMAIN all |-> results[all[i]]]
<1>1. /\ all \in Seq(V) /\ Len(all) = 1 + Len(values) /\ Len(values) \in Nat
      /\ \A i \in 1 .. 1 + Len(values) : all[i] = IF i <= 1 THEN v ELSE values[i - 1]
  BY ConcatProperties, LenProperties
<1>2. DOMAIN values = 1 .. Len(values) /\ DOMAIN all = 1 .. 1 + Len(values)
  BY <1>1, LenProperties
<1>3. pieces \in Seq(Seq(V)) /\ Len(pieces) = Len(values) /\ results[v] \in Seq(V)
  BY <1>2, <1>1, PiecesAre, LenProperties DEF Gives
<1>4. more \in Seq(Seq(V)) /\ Len(more) = 1 + Len(values)
  <2> HIDE DEF all
  <2>1. more \in Seq(Seq(V))
    BY <1>1, PiecesAre DEF Gives
  <2> QED
    BY <1>1, <1>2, <2>1, LenProperties
<1>5. <<results[v]>> \in Seq(Seq(V)) /\ Len(<<results[v]>>) = 1 /\ <<results[v]>>[1] = results[v]
  BY <1>3
<1>6. /\ <<results[v]>> \o pieces \in Seq(Seq(V))
      /\ Len(<<results[v]>> \o pieces) = 1 + Len(values)
      /\ \A i \in 1 .. 1 + Len(values) :
           (<<results[v]>> \o pieces)[i] = IF i <= 1 THEN results[v] ELSE pieces[i - 1]
  <2> HIDE DEF pieces
  <2> QED
    BY <1>1, <1>3, <1>5, ConcatProperties
<1>7. ASSUME NEW i \in 1 .. 1 + Len(values)
      PROVE  more[i] = (<<results[v]>> \o pieces)[i]
  <2>1. more[i] = results[all[i]]
    BY <1>2
  <2>2. CASE i = 1
    BY <1>1, <1>6, <2>1, <2>2
  <2>3. CASE i # 1
    <3>1. i - 1 \in 1 .. Len(values) /\ ~(i <= 1)
      BY <1>1, <2>3
    <3>2. pieces[i - 1] = results[values[i - 1]]
      BY <1>2, <3>1
    <3> HIDE DEF pieces, more, all
    <3> QED
      BY <1>1, <1>6, <2>1, <3>1, <3>2
  <2> QED
    BY <2>2, <2>3
<1>8. more = <<results[v]>> \o pieces
  <2> HIDE DEF more, pieces
  <2> QED
    BY <1>4, <1>6, <1>7, SeqEqual
<1>9. FlattenSeq(more) = results[v] \o FlattenSeq(pieces)
  <2> HIDE DEF more, pieces
  <2> QED
    BY <1>3, <1>8, FlatFirst
<1> QED
  BY <1>9 DEF Each

\* Values that give nothing give nothing together.
LEMMA EachNothing ==
  ASSUME NEW V, NEW values \in Seq(V), NEW results \in [V -> {<< >>}]
  PROVE  Each(values, results) = << >>
<1>1. [i \in DOMAIN values |-> results[values[i]]] \in Seq({<< >>})
  BY PiecesAre
<1> QED
  BY <1>1, FlatNothing DEF Each

\* A value has an attribute, and the tail of values are values.
LEMMA ValuesAre ==
  /\ << >> \in Values
  /\ \A v, w \in Values : v \o w \in Values
  /\ \A v \in Values : Attribute(v) \in Attributes
<1>1. \A v \in Values : Attribute(v) \in Attributes
  <2> SUFFICES ASSUME NEW v \in Values, v # << >> PROVE Last(v) \in Attributes
    BY AttributeAssumption DEF Attribute
  <2>1. Len(v) \in 1 .. Len(v)
    BY EmptySeq DEF Values
  <2> QED
    BY <2>1, ElementOfSeq DEF Values, Last
<1> QED
  BY <1>1, EmptySeq, ConcatProperties DEF Values

\* filter
LEMMA FilteredMore ==
  ASSUME NEW it, NEW outer
  PROVE  /\ Filtered(it, outer, << >>) = << >>
         /\ \A values \in Seq(Values) : Filtered(it, outer, values) \in Seq(Values)
         /\ \A values \in Seq(Values) : \A v \in Values :
              Filtered(it, outer, <<v>> \o values) =
                IF Accepted(it, outer, v) THEN <<v>> \o Filtered(it, outer, values)
                ELSE Filtered(it, outer, values)
<1> DEFINE results == [v \in Values |-> IF Accepted(it, outer, v) THEN <<v>> ELSE << >>]
<1>1. Gives(results, Values)
  BY DEF Gives
<1>2. ASSUME NEW values \in Seq(Values) PROVE Filtered(it, outer, values) = Each(values, results)
  <2>1. \A i \in DOMAIN values : values[i] \in Values
    BY LenProperties, ElementOfSeq
  <2>2. \A i \in DOMAIN values :
          results[values[i]] = IF Accepted(it, outer, values[i]) THEN <<values[i]>> ELSE << >>
    BY <2>1
  <2>3. [i \in DOMAIN values |-> results[values[i]]]
          = [i \in DOMAIN values |-> IF Accepted(it, outer, values[i]) THEN <<values[i]>> ELSE << >>]
    BY <2>2
  <2> QED
    BY <2>3 DEF Filtered, Each
<1>3. ASSUME NEW values \in Seq(Values), NEW v \in Values
      PROVE  Filtered(it, outer, <<v>> \o values) =
                IF Accepted(it, outer, v) THEN <<v>> \o Filtered(it, outer, values)
                ELSE Filtered(it, outer, values)
  <2>1. <<v>> \o values \in Seq(Values)
    BY ConcatProperties
  <2>2. results[v] = IF Accepted(it, outer, v) THEN <<v>> ELSE << >>
    OBVIOUS
  <2>3. Filtered(it, outer, <<v>> \o values) = results[v] \o Filtered(it, outer, values)
    <3> HIDE DEF results
    <3>1. Each(<<v>> \o values, results) = results[v] \o Each(values, results)
      BY <1>1, EachFirst
    <3> QED
      BY <1>2, <2>1, <3>1
  <2>4. << >> \o Filtered(it, outer, values) = Filtered(it, outer, values)
    <3> HIDE DEF results
    <3>1. Filtered(it, outer, values) \in Seq(Values)
      BY <1>1, <1>2, EachType
    <3> QED
      BY <3>1, ConcatEmptySeq
  <2> HIDE DEF results
  <2> QED
    BY <2>2, <2>3, <2>4
<1>4. << >> \in Seq(Values)
  BY EmptySeq
<1> HIDE DEF results
<1>5. Filtered(it, outer, << >>) = << >>
  BY <1>2, <1>4, EachEmpty
<1>6. \A values \in Seq(Values) : Filtered(it, outer, values) \in Seq(Values)
  BY <1>1, <1>2, EachType
<1> QED
  BY <1>3, <1>5, <1>6

\* cancel
LEMMA UntilMore ==
  ASSUME NEW it, NEW outer
  PROVE  /\ Until(it, outer, << >>) = << >>
         /\ \A values \in Seq(Values) : Until(it, outer, values) \in Seq(Values)
         /\ \A values \in Seq(Values) : \A v \in Values :
              Until(it, outer, <<v>> \o values) =
                IF Accepted(it, outer, v) THEN << >> ELSE <<v>> \o Until(it, outer, values)
<1> DEFINE Ends(values, i) == \E j \in 1 .. i : Accepted(it, outer, values[j])
           Pieces(values) == [i \in DOMAIN values |-> IF Ends(values, i) THEN << >> ELSE <<values[i]>>]
<1>1. \A values : Until(it, outer, values) = FlattenSeq(Pieces(values))
  BY DEF Until
<1>2. ASSUME NEW values \in Seq(Values)
      PROVE  /\ Pieces(values) \in Seq(Seq(Values)) /\ Len(Pieces(values)) = Len(values)
             /\ Len(values) \in Nat /\ DOMAIN values = 1 .. Len(values)
             /\ \A i \in 1 .. Len(values) :
                  Pieces(values)[i] = IF Ends(values, i) THEN << >> ELSE <<values[i]>>
  <2>1. /\ DOMAIN values = 1 .. Len(values) /\ Len(values) \in Nat
        /\ \A i \in 1 .. Len(values) : values[i] \in Values
    BY LenProperties, ElementOfSeq
  <2>2. /\ DOMAIN Pieces(values) = 1 .. Len(values)
        /\ Pieces(values) = [i \in 1 .. Len(values) |-> Pieces(values)[i]]
        /\ \A i \in 1 .. Len(values) :
             Pieces(values)[i] = IF Ends(values, i) THEN << >> ELSE <<values[i]>>
    BY <2>1
  <2>3. \A i \in 1 .. Len(values) : Pieces(values)[i] \in Seq(Values)
    <3>1. << >> \in Seq(Values) /\ \A v \in Values : <<v>> \in Seq(Values)
      OBVIOUS
    <3> HIDE DEF Pieces, Ends
    <3> QED
      BY <2>1, <2>2, <3>1
  <2>4. Pieces(values) \in [1 .. Len(values) -> Seq(Values)]
    <3> HIDE DEF Pieces, Ends
    <3> QED
      BY <2>2, <2>3
  <2> HIDE DEF Pieces, Ends
  <2>5. Pieces(values) \in Seq(Seq(Values))
    BY <2>1, <2>4, SeqDef
  <2>6. DOMAIN Pieces(values) = 1 .. Len(Pieces(values)) /\ Len(Pieces(values)) \in Nat
    BY <2>5, LenProperties
  <2> QED
    BY <2>1, <2>2, <2>5, <2>6
<1>3. ASSUME NEW values \in Seq(Values), NEW v \in Values
      PROVE  Until(it, outer, <<v>> \o values) =
                IF Accepted(it, outer, v) THEN << >> ELSE <<v>> \o Until(it, outer, values)
  <2> DEFINE all == <<v>> \o values
  <2>1. /\ all \in Seq(Values) /\ Len(all) = 1 + Len(values)
        /\ \A i \in 1 .. 1 + Len(values) : all[i] = IF i <= 1 THEN v ELSE values[i - 1]
    BY ConcatProperties, LenProperties
  <2> HIDE DEF all
  <2>2. /\ Pieces(all) \in Seq(Seq(Values)) /\ Len(Pieces(all)) = 1 + Len(values)
        /\ \A i \in 1 .. 1 + Len(values) :
             Pieces(all)[i] = IF Ends(all, i) THEN << >> ELSE <<all[i]>>
    <3> HIDE DEF Pieces, Ends
    <3> QED
      BY <1>2, <2>1
  <2>3. Len(values) \in Nat /\ all[1] = v
    BY <2>1, LenProperties
  <2>4. CASE Accepted(it, outer, v)
    <3>1. \A i \in 1 .. 1 + Len(values) : Ends(all, i)
      BY <2>3, <2>4
    <3> HIDE DEF Pieces, Ends
    <3>2. \A i \in 1 .. 1 + Len(values) : Pieces(all)[i] \in {<< >>}
      BY <2>2, <3>1
    <3>3. Pieces(all) \in [1 .. 1 + Len(values) -> {<< >>}]
      BY <2>2, <3>2, LenProperties
    <3>4. Pieces(all) \in Seq({<< >>})
      <4>1. 1 + Len(values) \in Nat
        BY <2>3
      <4> QED
        BY <3>3, <4>1, SeqDef
    <3> QED
      BY <1>1, <2>4, <3>4, FlatNothing DEF all
  <2>5. CASE ~Accepted(it, outer, v)
    <3>1. \A i \in 1 .. Len(values) : all[i + 1] = values[i]
      BY <2>1, <2>3
    <3>2. ASSUME NEW i \in 1 .. Len(values) PROVE Ends(all, i + 1) <=> Ends(values, i)
      <4>1. ASSUME NEW j \in 1 .. i + 1, Accepted(it, outer, all[j]) PROVE Ends(values, i)
        <5>1. j # 1
          BY <2>3, <2>5, <4>1
        <5>2. j - 1 \in 1 .. i /\ j - 1 \in 1 .. Len(values) /\ (j - 1) + 1 = j
          BY <2>3, <5>1
        <5>3. all[(j - 1) + 1] = values[j - 1]
          BY <3>1, <5>2
        <5>4. Accepted(it, outer, values[j - 1])
          BY <4>1, <5>2, <5>3
        <5> QED
          BY <5>2, <5>4
      <4>2. ASSUME NEW j \in 1 .. i, Accepted(it, outer, values[j]) PROVE Ends(all, i + 1)
        <5>1. j + 1 \in 1 .. i + 1 /\ all[j + 1] = values[j]
          BY <2>3, <3>1
        <5> QED
          BY <4>2, <5>1
      <4> QED
        BY <4>1, <4>2
    <3>3. ~Ends(all, 1)
      <4>1. \A j \in 1 .. 1 : j = 1
        OBVIOUS
      <4> QED
        BY <2>3, <2>5, <4>1
    <3> DEFINE pieces == <<<<v>>>> \o Pieces(values)
    <3>4. /\ Pieces(values) \in Seq(Seq(Values)) /\ Len(Pieces(values)) = Len(values)
          /\ \A i \in 1 .. Len(values) :
               Pieces(values)[i] = IF Ends(values, i) THEN << >> ELSE <<values[i]>>
      <4> HIDE DEF Pieces, Ends
      <4> QED
        BY <1>2
    <3> HIDE DEF Pieces, Ends
    <3>5. <<<<v>>>> \in Seq(Seq(Values)) /\ Len(<<<<v>>>>) = 1 /\ <<<<v>>>>[1] = <<v>>
          /\ <<v>> \in Seq(Values)
      OBVIOUS
    <3>6. /\ pieces \in Seq(Seq(Values)) /\ Len(pieces) = 1 + Len(values)
          /\ \A i \in 1 .. 1 + Len(values) :
               pieces[i] = IF i <= 1 THEN <<v>> ELSE Pieces(values)[i - 1]
      BY <2>3, <3>4, <3>5, ConcatProperties
    <3>7. ASSUME NEW i \in 1 .. 1 + Len(values) PROVE Pieces(all)[i] = pieces[i]
      <4> HIDE DEF pieces
      <4>1. CASE i = 1
        BY <2>2, <2>3, <3>3, <3>6, <4>1
      <4>2. CASE i # 1
        <5>1. i - 1 \in 1 .. Len(values) /\ (i - 1) + 1 = i /\ ~(i <= 1)
          BY <2>3, <4>2
        <5>2. Ends(all, (i - 1) + 1) <=> Ends(values, i - 1)
          BY <3>2, <5>1
        <5>3. all[(i - 1) + 1] = values[i - 1]
          BY <3>1, <5>1
        <5>4. pieces[i] = IF Ends(values, i - 1) THEN << >> ELSE <<values[i - 1]>>
          BY <3>4, <3>6, <5>1
        <5> QED
          BY <2>2, <5>1, <5>2, <5>3, <5>4
      <4> QED
        BY <4>1, <4>2
    <3>8. Pieces(all) = pieces
      <4> HIDE DEF pieces
      <4> QED
        BY <2>2, <3>6, <3>7, SeqEqual
    <3>9. FlattenSeq(pieces) = <<v>> \o FlattenSeq(Pieces(values))
      BY <3>4, <3>5, FlatFirst
    <3> HIDE DEF pieces
    <3> QED
      BY <1>1, <2>5, <3>8, <3>9 DEF all
  <2> QED
    BY <2>4, <2>5
<1>4. Until(it, outer, << >>) = << >>
  <2>1. Pieces(<< >>) = << >>
    OBVIOUS
  <2> HIDE DEF Pieces, Ends
  <2> QED
    BY <1>1, <2>1, FlatEmpty
<1>5. \A values \in Seq(Values) : Until(it, outer, values) \in Seq(Values)
  <2> HIDE DEF Pieces, Ends
  <2> QED
    BY <1>1, <1>2, FlatType
<1> QED
  BY <1>3, <1>4, <1>5

\* head
LEMMA FirstMore ==
  ASSUME NEW k \in Int
  PROVE  /\ FirstOf(<< >>, k) = << >>
         /\ \A values \in Seq(Values) :
              FirstOf(values, k) \in Seq(Values) /\ (k <= 0 => FirstOf(values, k) = << >>)
         /\ k > 0 => \A values \in Seq(Values) : \A v \in Values :
              FirstOf(<<v>> \o values, k) = <<v>> \o FirstOf(values, k - 1)
<1>1. FirstOf(<< >>, k) = << >>
  <2>1. Len(<< >>) = 0
    BY EmptySeq
  <2>2. CASE k < 0
    BY <2>1, <2>2, SubSeqEmpty DEF FirstOf
  <2>3. CASE ~(k < 0)
    BY <2>1, <2>3, SubSeqEmpty DEF FirstOf
  <2> QED
    BY <2>2, <2>3
<1>2. ASSUME NEW values \in Seq(Values)
      PROVE  FirstOf(values, k) \in Seq(Values) /\ (k <= 0 => FirstOf(values, k) = << >>)
  <2> DEFINE last == IF k < Len(values) THEN k ELSE Len(values)
  <2>1. /\ Len(values) \in Nat /\ last \in Int /\ last <= Len(values)
        /\ \A i \in 1 .. last : values[i] \in Values
    BY LenProperties, ElementOfSeq
  <2>2. k <= 0 => last < 1
    BY <2>1
  <2> HIDE DEF last
  <2>3. SubSeq(values, 1, last) \in Seq(Values)
    BY <2>1, SubSeqProperties
  <2>4. k <= 0 => SubSeq(values, 1, last) = << >>
    BY <2>1, <2>2, SubSeqEmpty
  <2> QED
    BY <2>3, <2>4 DEF FirstOf, last
<1>3. ASSUME k > 0, NEW values \in Seq(Values), NEW v \in Values
      PROVE  FirstOf(<<v>> \o values, k) = <<v>> \o FirstOf(values, k - 1)
  <2> DEFINE all == <<v>> \o values
             last == IF k - 1 < Len(values) THEN k - 1 ELSE Len(values)
  <2>1. /\ all \in Seq(Values) /\ Len(all) = 1 + Len(values) /\ Len(values) \in Nat
        /\ \A i \in 1 .. 1 + Len(values) : all[i] = IF i <= 1 THEN v ELSE values[i - 1]
    BY ConcatProperties, LenProperties
  <2> HIDE DEF all
  <2>2. last \in Nat /\ last <= Len(values)
    BY <1>3, <2>1
  <2>3. FirstOf(all, k) = SubSeq(all, 1, 1 + last)
    <3>1. (IF k < Len(all) THEN k ELSE Len(all)) = 1 + last
      BY <1>3, <2>1
    <3> QED
      BY <3>1 DEF FirstOf
  <2>4. FirstOf(values, k - 1) = SubSeq(values, 1, last)
    BY DEF FirstOf
  <2> HIDE DEF last
  <2>5. /\ SubSeq(values, 1, last) \in Seq(Values) /\ Len(SubSeq(values, 1, last)) = last
        /\ \A i \in 1 .. last : SubSeq(values, 1, last)[i] = values[i]
    <3>1. \A i \in 1 .. last : values[i] \in Values
      BY <2>1, <2>2, ElementOfSeq
    <3> QED
      BY <2>2, <3>1, SubSeqProperties
  <2>6. /\ SubSeq(all, 1, 1 + last) \in Seq(Values) /\ Len(SubSeq(all, 1, 1 + last)) = 1 + last
        /\ \A i \in 1 .. 1 + last : SubSeq(all, 1, 1 + last)[i] = all[i]
    <3>1. \A i \in 1 .. 1 + last : all[i] \in Values
      BY <2>1, <2>2, ElementOfSeq
    <3> QED
      BY <2>2, <3>1, SubSeqProperties
  <2> DEFINE rest == <<v>> \o SubSeq(values, 1, last)
  <2>7. /\ rest \in Seq(Values) /\ Len(rest) = 1 + last
        /\ \A i \in 1 .. 1 + last :
             rest[i] = IF i <= 1 THEN v ELSE SubSeq(values, 1, last)[i - 1]
    BY <2>2, <2>5, ConcatProperties
  <2> HIDE DEF rest
  <2>8. ASSUME NEW i \in 1 .. 1 + last PROVE SubSeq(all, 1, 1 + last)[i] = rest[i]
    <3>1. i \in 1 .. 1 + Len(values) /\ (~(i <= 1) => i - 1 \in 1 .. last)
      BY <2>1, <2>2
    <3> QED
      BY <2>1, <2>5, <2>6, <2>7, <3>1
  <2>9. SubSeq(all, 1, 1 + last) = rest
    BY <2>6, <2>7, <2>8, SeqEqual
  <2> QED
    BY <2>3, <2>4, <2>9 DEF all, rest
<1> QED
  BY <1>1, <1>2, <1>3

\* feed, and the buffer of a product
LEMMA RestOf ==
  ASSUME NEW V, NEW values \in Seq(V), NEW k \in Nat \ {0}
  PROVE  /\ SubSeq(values, k, Len(values)) \in Seq(V)
         /\ k <= Len(values) =>
              SubSeq(values, k, Len(values)) = <<values[k]>> \o SubSeq(values, k + 1, Len(values))
         /\ k > Len(values) => SubSeq(values, k, Len(values)) = << >>
         /\ SubSeq(values, 1, Len(values)) = values
<1>1. Len(values) \in Nat /\ \A i \in k .. Len(values) : values[i] \in V
  BY LenProperties, ElementOfSeq
<1>2. SubSeq(values, k, Len(values)) \in Seq(V)
  BY <1>1, SubSeqProperties
<1>3. k <= Len(values) =>
        SubSeq(values, k, Len(values)) = <<values[k]>> \o SubSeq(values, k + 1, Len(values))
  <2> SUFFICES ASSUME k <= Len(values)
               PROVE  SubSeq(values, k, Len(values)) = <<values[k]>> \o SubSeq(values, k + 1, Len(values))
    OBVIOUS
  <2>1. k \in 1 .. Len(values) /\ Len(values) \in k .. Len(values)
    BY <1>1
  <2> QED
    BY <2>1, SubSeqRecursiveFirst
<1>4. k > Len(values) => SubSeq(values, k, Len(values)) = << >>
  BY <1>1, SubSeqEmpty
<1> QED
  BY <1>2, <1>3, <1>4, SubSeqFull

\* product and loopjoin
LEMMA PrefixedMore ==
  ASSUME NEW x \in Values
  PROVE  /\ Prefixed(x, << >>) = << >>
         /\ \A values \in Seq(Values) : Prefixed(x, values) \in Seq(Values)
         /\ \A values \in Seq(Values) : \A v \in Values :
              Prefixed(x, <<v>> \o values) = <<x \o v>> \o Prefixed(x, values)
<1>1. Prefixed(x, << >>) = << >>
  BY DEF Prefixed
<1>2. ASSUME NEW values \in Seq(Values)
      PROVE  /\ Prefixed(x, values) \in Seq(Values) /\ Len(Prefixed(x, values)) = Len(values)
             /\ \A i \in 1 .. Len(values) : Prefixed(x, values)[i] = x \o values[i]
             /\ Len(values) \in Nat
  <2>1. DOMAIN values = 1 .. Len(values) /\ Len(values) \in Nat
        /\ \A i \in 1 .. Len(values) : values[i] \in Values
    BY LenProperties, ElementOfSeq
  <2>2. \A i \in 1 .. Len(values) : x \o values[i] \in Values
    BY <2>1, ValuesAre
  <2>3. Prefixed(x, values) \in Seq(Values)
    BY <2>1, <2>2, SeqDef DEF Prefixed
  <2>4. DOMAIN Prefixed(x, values) = 1 .. Len(values)
    BY <2>1 DEF Prefixed
  <2>5. DOMAIN Prefixed(x, values) = 1 .. Len(Prefixed(x, values))
        /\ Len(Prefixed(x, values)) \in Nat
    BY <2>3, LenProperties
  <2> QED
    BY <2>1, <2>3, <2>4, <2>5 DEF Prefixed
<1>3. ASSUME NEW values \in Seq(Values), NEW v \in Values
      PROVE  Prefixed(x, <<v>> \o values) = <<x \o v>> \o Prefixed(x, values)
  <2> DEFINE all == <<v>> \o values
             rest == <<x \o v>> \o Prefixed(x, values)
  <2>1. /\ all \in Seq(Values) /\ Len(all) = 1 + Len(values) /\ Len(values) \in Nat
        /\ \A i \in 1 .. 1 + Len(values) : all[i] = IF i <= 1 THEN v ELSE values[i - 1]
    BY ConcatProperties, LenProperties
  <2>2. /\ rest \in Seq(Values) /\ Len(rest) = 1 + Len(values)
        /\ \A i \in 1 .. 1 + Len(values) :
             rest[i] = IF i <= 1 THEN x \o v ELSE Prefixed(x, values)[i - 1]
    <3>1. x \o v \in Values
      BY ValuesAre
    <3>2. /\ <<x \o v>> \in Seq(Values) /\ Len(<<x \o v>>) = 1 /\ <<x \o v>>[1] = x \o v
      BY <3>1
    <3>3. Prefixed(x, values) \in Seq(Values) /\ Len(Prefixed(x, values)) = Len(values)
          /\ Len(values) \in Nat
      BY <1>2
    <3>4. /\ rest \in Seq(Values) /\ Len(rest) = Len(<<x \o v>>) + Len(Prefixed(x, values))
          /\ \A i \in 1 .. Len(<<x \o v>>) + Len(Prefixed(x, values)) :
               rest[i] = IF i <= Len(<<x \o v>>) THEN <<x \o v>>[i]
                         ELSE Prefixed(x, values)[i - Len(<<x \o v>>)]
      BY <3>2, <3>3, ConcatProperties
    <3> HIDE DEF rest
    <3>5. ASSUME NEW i \in 1 .. 1 + Len(values)
          PROVE  rest[i] = IF i <= 1 THEN x \o v ELSE Prefixed(x, values)[i - 1]
      BY <3>2, <3>3, <3>4
    <3> QED
      BY <3>2, <3>3, <3>4, <3>5
  <2> HIDE DEF all, rest
  <2>3. /\ Prefixed(x, all) \in Seq(Values) /\ Len(Prefixed(x, all)) = 1 + Len(values)
        /\ \A i \in 1 .. 1 + Len(values) : Prefixed(x, all)[i] = x \o all[i]
    BY <1>2, <2>1
  <2>4. ASSUME NEW i \in 1 .. 1 + Len(values) PROVE Prefixed(x, all)[i] = rest[i]
    <3>1. ~(i <= 1) => i - 1 \in 1 .. Len(values)
      BY <2>1
    <3>2. CASE i <= 1
      <4>1. all[i] = v /\ rest[i] = x \o v
        BY <2>1, <2>2, <3>2
      <4> QED
        BY <2>3, <4>1
    <3>3. CASE ~(i <= 1)
      <4>1. Prefixed(x, values)[i - 1] = x \o values[i - 1]
        BY <1>2, <3>1, <3>3
      <4> QED
        BY <2>1, <2>2, <2>3, <3>3, <4>1
    <3> QED
      BY <3>2, <3>3
  <2>5. Prefixed(x, all) = rest
    BY <2>2, <2>3, <2>4, SeqEqual
  <2> QED
    BY <2>5 DEF all, rest
<1> QED
  BY <1>1, <1>2, <1>3

\* What a product finds, and a loopjoin whose function finds found.
Products(values, rows) == Joins(values, [i \in DOMAIN values |-> rows])
Loops(values, found) == Joins(values, [i \in DOMAIN values |-> found[Attribute(values[i])]])

\* A loopjoin begins with what its function finds for the first value.
LEMMA LoopsMore ==
  ASSUME NEW found \in [Attributes -> Seq(Values)]
  PROVE  /\ Loops(<< >>, found) = << >>
         /\ \A values \in Seq(Values) : Loops(values, found) \in Seq(Values)
         /\ \A values \in Seq(Values) : \A v \in Values :
              Loops(<<v>> \o values, found)
                = Prefixed(v, found[Attribute(v)]) \o Loops(values, found)
<1> DEFINE results == [v \in Values |-> Prefixed(v, found[Attribute(v)])]
<1>1. Gives(results, Values)
  <2>1. \A v \in Values : Prefixed(v, found[Attribute(v)]) \in Seq(Values)
    BY PrefixedMore, ValuesAre
  <2> QED
    BY <2>1 DEF Gives
<1>2. ASSUME NEW values \in Seq(Values) PROVE Loops(values, found) = Each(values, results)
  <2>1. \A i \in DOMAIN values : values[i] \in Values
    BY LenProperties, ElementOfSeq
  <2>2. \A i \in DOMAIN values :
          results[values[i]] = Prefixed(values[i], found[Attribute(values[i])])
    BY <2>1
  <2>3. [i \in DOMAIN values |-> results[values[i]]]
          = [i \in DOMAIN values |->
               Prefixed(values[i], [j \in DOMAIN values |-> found[Attribute(values[j])]][i])]
    <3> HIDE DEF results
    <3> QED
      BY <2>2
  <2> QED
    BY <2>3 DEF Loops, Joins, Each
<1>3. \A v \in Values : results[v] = Prefixed(v, found[Attribute(v)])
  OBVIOUS
<1> HIDE DEF results
<1>4. ASSUME NEW values \in Seq(Values), NEW v \in Values
      PROVE  Loops(<<v>> \o values, found)
                = Prefixed(v, found[Attribute(v)]) \o Loops(values, found)
  <2>1. <<v>> \o values \in Seq(Values)
    BY ConcatProperties
  <2>2. Each(<<v>> \o values, results) = results[v] \o Each(values, results)
    BY <1>1, EachFirst
  <2> QED
    BY <1>2, <1>3, <2>1, <2>2
<1>5. Loops(<< >>, found) = << >>
  <2>1. << >> \in Seq(Values)
    BY EmptySeq
  <2> QED
    BY <1>2, <2>1, EachEmpty
<1>6. \A values \in Seq(Values) : Loops(values, found) \in Seq(Values)
  BY <1>1, <1>2, EachType
<1> QED
  BY <1>4, <1>5, <1>6

\* A product begins with what the first value gives.
LEMMA ProductsMore ==
  ASSUME NEW rows \in Seq(Values)
  PROVE  /\ Products(<< >>, rows) = << >>
         /\ \A values \in Seq(Values) : /\ Products(values, rows) \in Seq(Values)
                                        /\ Products(values, << >>) = << >>
         /\ \A values \in Seq(Values) : \A v \in Values :
              Products(<<v>> \o values, rows) = Prefixed(v, rows) \o Products(values, rows)
<1> DEFINE found(r) == [a \in Attributes |-> r]
<1>1. ASSUME NEW r, NEW values \in Seq(Values)
      PROVE  Products(values, r) = Loops(values, found(r))
  <2>1. \A i \in DOMAIN values : Attribute(values[i]) \in Attributes
    BY LenProperties, ElementOfSeq, ValuesAre
  <2>2. [i \in DOMAIN values |-> r] = [i \in DOMAIN values |-> found(r)[Attribute(values[i])]]
    BY <2>1
  <2> QED
    BY <2>2 DEF Products, Loops
<1>2. \A r \in Seq(Values) : found(r) \in [Attributes -> Seq(Values)]
  OBVIOUS
<1>3. \A r : \A v \in Values : found(r)[Attribute(v)] = r
  BY ValuesAre
<1> HIDE DEF found
<1>4. << >> \in Seq(Values)
  BY EmptySeq
<1>5. ASSUME NEW values \in Seq(Values) PROVE Products(values, << >>) = << >>
  <2> DEFINE pieces == [i \in DOMAIN values |-> Prefixed(values[i], [j \in DOMAIN values |-> << >>][i])]
  <2>1. \A i \in DOMAIN values : pieces[i] = << >>
    BY DEF Prefixed
  <2>2. DOMAIN values = 1 .. Len(values) /\ Len(values) \in Nat /\ DOMAIN pieces = DOMAIN values
    BY LenProperties
  <2>3. pieces \in [1 .. Len(values) -> {<< >>}]
    BY <2>1, <2>2
  <2>4. pieces \in Seq({<< >>})
    <3> HIDE DEF pieces
    <3> QED
      BY <2>2, <2>3, SeqDef
  <2>5. FlattenSeq(pieces) = << >>
    <3> HIDE DEF pieces
    <3> QED
      BY <2>4, FlatNothing
  <2> QED
    BY <2>5 DEF Products, Joins
<1>6. ASSUME NEW values \in Seq(Values), NEW v \in Values
      PROVE  Products(<<v>> \o values, rows) = Prefixed(v, rows) \o Products(values, rows)
  <2>1. <<v>> \o values \in Seq(Values)
    BY ConcatProperties
  <2>2. Loops(<<v>> \o values, found(rows))
          = Prefixed(v, found(rows)[Attribute(v)]) \o Loops(values, found(rows))
    BY <1>2, LoopsMore
  <2> QED
    BY <1>1, <1>3, <2>1, <2>2
<1>7. Products(<< >>, rows) = << >>
  BY <1>1, <1>2, <1>4, LoopsMore
<1>8. \A values \in Seq(Values) : Products(values, rows) \in Seq(Values)
  BY <1>1, <1>2, LoopsMore
<1> QED
  BY <1>5, <1>6, <1>7, <1>8

-----------------------------------------------------------------------------
(* What a tree means.                                                      *)

\* Sons are below their fathers, and operators have the sons that they need.
LEMMA TreeIs ==
  ASSUME NEW tree, IsTree(tree)
  PROVE  /\ DOMAIN tree = 1 .. Len(tree) /\ Len(tree) \in Nat \ {0}
         /\ \A x \in DOMAIN tree :
              /\ tree[x].op \in {"feed", "filter", "head", "cancel", "concat", "product",
                                 "loopjoin", "consume"}
              /\ DOMAIN tree[x].sons =
                   CASE tree[x].op = "feed" -> {}
                     [] tree[x].op \in {"filter", "head", "cancel", "consume"} -> {1}
                     [] OTHER -> {1, 2}
              /\ tree[x].op = "head" => \A a \in DOMAIN tree[x].most : tree[x].most[a] \in Nat
              /\ \A k \in DOMAIN tree[x].sons :
                   SonOf(tree, x, k) \in DOMAIN tree /\ SonOf(tree, x, k) > x
<1>1. DOMAIN tree = 1 .. Len(tree) /\ Len(tree) \in Nat \ {0}
  BY DEF IsTree
<1> SUFFICES ASSUME NEW x \in DOMAIN tree
             PROVE  /\ tree[x].op \in {"feed", "filter", "head", "cancel", "concat", "product",
                                       "loopjoin", "consume"}
                    /\ DOMAIN tree[x].sons =
                         CASE tree[x].op = "feed" -> {}
                           [] tree[x].op \in {"filter", "head", "cancel", "consume"} -> {1}
                           [] OTHER -> {1, 2}
                    /\ tree[x].op = "head" => \A a \in DOMAIN tree[x].most : tree[x].most[a] \in Nat
                    /\ \A k \in DOMAIN tree[x].sons :
                         SonOf(tree, x, k) \in DOMAIN tree /\ SonOf(tree, x, k) > x
  BY <1>1
<1>2. /\ tree[x].op \in DOMAIN Arity /\ DOMAIN tree[x].sons = 1 .. Arity[tree[x].op]
      /\ tree[x].op = "head" => \A a \in DOMAIN tree[x].most : tree[x].most[a] \in Nat
      /\ \A k \in DOMAIN tree[x].sons :
           tree[x].sons[k] \in Nat \ {0} /\ SonOf(tree, x, k) \in DOMAIN tree
  BY DEF IsTree
<1>3. /\ DOMAIN Arity = {"feed", "filter", "head", "cancel", "concat", "product",
                         "loopjoin", "consume"}
      /\ \A op \in DOMAIN Arity :
           Arity[op] = CASE op = "feed" -> 0
                         [] op \in {"filter", "head", "cancel", "consume"} -> 1
                         [] OTHER -> 2
  BY DEF Arity
<1>4. 1 .. 0 = {} /\ 1 .. 1 = {1} /\ 1 .. 2 = {1, 2}
  OBVIOUS
<1>5. \A k \in DOMAIN tree[x].sons : SonOf(tree, x, k) > x
  BY <1>1, <1>2 DEF SonOf
<1>6. DOMAIN tree[x].sons =
        CASE tree[x].op = "feed" -> {}
          [] tree[x].op \in {"filter", "head", "cancel", "consume"} -> {1}
          [] OTHER -> {1, 2}
  BY <1>2, <1>3, <1>4
<1> QED
  BY <1>2, <1>3, <1>5, <1>6

\* It depends only on what the sons mean.
SonsSame(tree, x, f, g) ==
  \A k \in DOMAIN tree[x].sons : f[SonOf(tree, x, k)] = g[SonOf(tree, x, k)]

\* What a node means depends only on what its sons mean.
LEMMA PromisedSame ==
  ASSUME NEW tree, IsTree(tree), NEW x \in DOMAIN tree, NEW f, NEW g, SonsSame(tree, x, f, g)
  PROVE  \A outer : Promised(tree, f, x, outer) = Promised(tree, g, x, outer)
<1> TAKE outer
<1>1. CASE tree[x].op = "feed"
  BY <1>1 DEF Promised
<1>2. CASE tree[x].op \in {"filter", "head", "cancel", "consume"}
  <2>1. f[SonOf(tree, x, 1)] = g[SonOf(tree, x, 1)]
    BY <1>2, TreeIs DEF SonsSame
  <2> QED
    BY <1>2, <2>1 DEF Promised
<1>3. CASE tree[x].op \in {"concat", "product", "loopjoin"}
  <2>1. f[SonOf(tree, x, 1)] = g[SonOf(tree, x, 1)] /\ f[SonOf(tree, x, 2)] = g[SonOf(tree, x, 2)]
    BY <1>3, TreeIs DEF SonsSame
  <2> QED
    BY <1>3, <2>1 DEF Promised
<1> QED
  BY <1>1, <1>2, <1>3, TreeIs

\* For each attribute of the tuple of its scope, the values of a stream.
Streams == [Attributes -> Seq(Values)]

\* The number that a head lets pass is a natural number.
LEMMA MostIs ==
  ASSUME NEW tree, IsTree(tree), NEW x \in DOMAIN tree, tree[x].op = "head", NEW outer
  PROVE  Most(tree[x], outer) \in Nat
BY TreeIs DEF Most

\* If the sons mean streams, so does the node.
LEMMA PromisedType ==
  ASSUME NEW tree \in Plans, NEW x \in DOMAIN tree, NEW f,
         \A k \in DOMAIN tree[x].sons : f[SonOf(tree, x, k)] \in Streams,
         NEW outer \in Attributes
  PROVE  Promised(tree, f, x, outer) \in Seq(Values)
<1>1. IsTree(tree)
  BY TreeAssumption
<1>2. CASE tree[x].op = "feed"
  BY <1>2, AttributeAssumption DEF Promised
<1>3. CASE tree[x].op \in {"filter", "head", "cancel", "consume"}
  <2> DEFINE first == f[SonOf(tree, x, 1)][outer]
  <2>1. first \in Seq(Values)
    BY <1>1, <1>3, TreeIs DEF Streams
  <2> HIDE DEF first
  <2>2. CASE tree[x].op = "filter"
    <3>1. Promised(tree, f, x, outer) = Filtered(tree[x], outer, first)
      BY <2>2 DEF Promised, first
    <3> QED
      BY <2>1, <3>1, FilteredMore
  <2>3. CASE tree[x].op = "head"
    <3>1. Promised(tree, f, x, outer) = FirstOf(first, Most(tree[x], outer))
      BY <2>3 DEF Promised, first
    <3>2. Most(tree[x], outer) \in Int
      BY <1>1, <2>3, MostIs
    <3> QED
      BY <2>1, <3>1, <3>2, FirstMore
  <2>4. CASE tree[x].op = "cancel"
    <3>1. Promised(tree, f, x, outer) = Until(tree[x], outer, first)
      BY <2>4 DEF Promised, first
    <3> QED
      BY <2>1, <3>1, UntilMore
  <2>5. CASE tree[x].op = "consume"
    BY <2>1, <2>5 DEF Promised, first
  <2> QED
    BY <1>3, <2>2, <2>3, <2>4, <2>5
<1>4. CASE tree[x].op \in {"concat", "product", "loopjoin"}
  <2> DEFINE first == f[SonOf(tree, x, 1)][outer]
             second == f[SonOf(tree, x, 2)]
  <2>1. first \in Seq(Values) /\ second \in Streams
    BY <1>1, <1>4, TreeIs DEF Streams
  <2>2. second[outer] \in Seq(Values)
    BY <2>1 DEF Streams
  <2> HIDE DEF first, second
  <2>3. CASE tree[x].op = "concat"
    <3>1. Promised(tree, f, x, outer) = first \o second[outer]
      BY <2>3 DEF Promised, first, second
    <3> QED
      BY <2>1, <2>2, <3>1, ConcatProperties
  <2>4. CASE tree[x].op = "product"
    <3>1. Promised(tree, f, x, outer) = Products(first, second[outer])
      BY <2>4 DEF Promised, Products, first, second
    <3> QED
      BY <2>1, <2>2, <3>1, ProductsMore
  <2>5. CASE tree[x].op = "loopjoin"
    <3>1. Promised(tree, f, x, outer) = Loops(first, second)
      BY <2>5 DEF Promised, Loops, first, second
    <3> QED
      BY <2>1, <3>1, LoopsMore DEF Streams
  <2> QED
    BY <1>4, <2>3, <2>4, <2>5
<1> QED
  BY <1>1, <1>2, <1>3, <1>4, TreeIs

\* f says what the nodes of tree from first on mean.
Means(tree, f, first) ==
  f = [x \in first .. Len(tree) |-> [outer \in Attributes |-> Promised(tree, f, x, outer)]]

\* From the last node to the first one.
LEMMA MeansExists ==
  ASSUME NEW tree \in Plans
  PROVE  \E f : Means(tree, f, 1) /\ \A x \in DOMAIN tree : f[x] \in Streams
<1> DEFINE last == Len(tree)
           Typed(f, k) == \A x \in k .. last : f[x] \in Streams
           Known == {k \in Nat : \E f : Means(tree, f, last - k) /\ Typed(f, last - k)}
<1>1. IsTree(tree) /\ last \in Nat \ {0} /\ DOMAIN tree = 1 .. last
  BY TreeAssumption, TreeIs
<1>2. ASSUME NEW first \in 1 .. last, NEW f,
             first + 1 \in 1 .. last => Means(tree, f, first + 1) /\ Typed(f, first + 1)
      PROVE  \E g : Means(tree, g, first) /\ Typed(g, first)
  <2> DEFINE g == [x \in first .. last |->
                     IF x = first THEN [outer \in Attributes |-> Promised(tree, f, x, outer)]
                     ELSE f[x]]
  <2>1. ASSUME NEW x \in first .. last
        PROVE  \A k \in DOMAIN tree[x].sons :
                 /\ SonOf(tree, x, k) \in first + 1 .. last
                 /\ g[SonOf(tree, x, k)] = f[SonOf(tree, x, k)]
                 /\ f[SonOf(tree, x, k)] \in Streams
    <3> SUFFICES ASSUME NEW k \in DOMAIN tree[x].sons
                 PROVE  /\ SonOf(tree, x, k) \in first + 1 .. last
                        /\ g[SonOf(tree, x, k)] = f[SonOf(tree, x, k)]
                        /\ f[SonOf(tree, x, k)] \in Streams
      OBVIOUS
    <3> DEFINE y == SonOf(tree, x, k)
    <3>1. x \in DOMAIN tree
      BY <1>1
    <3>2. y \in 1 .. last /\ y > x
      BY <1>1, <3>1, TreeIs
    <3> HIDE DEF y
    <3>3. y \in first + 1 .. last /\ y # first /\ y \in first .. last /\ first + 1 \in 1 .. last
      BY <1>1, <3>2
    <3>4. g[y] = f[y] /\ f[y] \in Streams
      BY <1>2, <3>3
    <3> QED
      BY <3>3, <3>4 DEF y
  <2>2. ASSUME NEW x \in first .. last
        PROVE  g[x] = [outer \in Attributes |-> Promised(tree, f, x, outer)]
    <3>1. CASE x = first
      BY <3>1
    <3>2. CASE x # first
      <4>1. x \in first + 1 .. last /\ first + 1 \in 1 .. last
        BY <1>1, <3>2
      <4> QED
        BY <1>2, <3>2, <4>1 DEF Means
    <3> QED
      BY <3>1, <3>2
  <2>3. ASSUME NEW x \in first .. last
        PROVE  /\ g[x] = [outer \in Attributes |-> Promised(tree, g, x, outer)]
               /\ g[x] \in Streams
    <3>1. x \in DOMAIN tree
      BY <1>1
    <3> HIDE DEF g
    <3>2. \A outer \in Attributes : Promised(tree, g, x, outer) = Promised(tree, f, x, outer)
      <4>1. SonsSame(tree, x, g, f)
        BY <2>1 DEF SonsSame
      <4>2. IsTree(tree)
        BY <1>1
      <4> QED
        BY <3>1, <4>1, <4>2, PromisedSame
    <3>3. \A outer \in Attributes : Promised(tree, f, x, outer) \in Seq(Values)
      BY <2>1, <3>1, PromisedType
    <3>4. g[x] = [outer \in Attributes |-> Promised(tree, g, x, outer)]
      BY <2>2, <3>2
    <3> QED
      BY <3>2, <3>3, <3>4 DEF Streams
  <2>4. g = [x \in first .. last |-> g[x]]
    OBVIOUS
  <2> HIDE DEF g
  <2>5. Means(tree, g, first)
    <3>1. g = [x \in first .. last |-> [outer \in Attributes |-> Promised(tree, g, x, outer)]]
      BY <2>3, <2>4
    <3> QED
      BY <3>1 DEF Means
  <2>6. Typed(g, first)
    BY <2>3
  <2> HIDE DEF Typed
  <2> QED
    BY <2>5, <2>6
<1> HIDE DEF Typed
<1>3. 0 \in Known
  <2>1. last \in 1 .. last /\ last + 1 \notin 1 .. last /\ last - 0 = last
    BY <1>1
  <2>2. \E g : Means(tree, g, last) /\ Typed(g, last)
    BY <1>2, <2>1
  <2> QED
    BY <2>1, <2>2
<1>4. ASSUME NEW k \in 0 .. (last - 1) - 1, k \in Known PROVE k + 1 \in Known
  <2>1. PICK f : Means(tree, f, last - k) /\ Typed(f, last - k)
    BY <1>4
  <2>2. last - (k + 1) \in 1 .. last /\ (last - (k + 1)) + 1 = last - k
    BY <1>1
  <2>3. \E g : Means(tree, g, last - (k + 1)) /\ Typed(g, last - (k + 1))
    BY <1>2, <2>1, <2>2
  <2> QED
    BY <2>3
<1>5. last - 1 \in Known
  <2> HIDE DEF Known
  <2>1. last - 1 \in Nat /\ last - 1 \in 0 .. last - 1
    BY <1>1
  <2>2. \A k \in 0 .. last - 1 : k \in Known
    BY <1>3, <1>4, <2>1, Ascend
  <2> QED
    BY <2>1, <2>2
<1>6. last - (last - 1) = 1
  BY <1>1
<1>7. \E f : Means(tree, f, 1) /\ Typed(f, 1)
  BY <1>5, <1>6
<1> QED
  BY <1>1, <1>7 DEF Typed

\* Meaning is what the recursion over the tree says, and streams of values.
LEMMA MeaningIs ==
  ASSUME NEW tree \in Plans
  PROVE  /\ \A x \in DOMAIN tree : Meaning(tree)[x] \in Streams
         /\ \A x \in DOMAIN tree : \A outer \in Attributes :
              Meaning(tree)[x][outer] = Promised(tree, Meaning(tree), x, outer)
<1> DEFINE Is(f) == f = [x \in DOMAIN tree |->
                           [outer \in Attributes |-> Promised(tree, f, x, outer)]]
           f == CHOOSE f : Is(f)
<1>1. Meaning(tree) = f
  BY DEF Meaning
<1>2. DOMAIN tree = 1 .. Len(tree) /\ Len(tree) \in Nat /\ IsTree(tree)
  BY TreeAssumption, TreeIs
<1>3. \E g : Is(g)
  <2>1. PICK g : Means(tree, g, 1)
    BY MeansExists
  <2>2. Is(g)
    BY <1>2, <2>1 DEF Means
  <2> HIDE DEF Is
  <2> QED
    BY <2>2
<1>4. Is(f)
  <2> HIDE DEF Is
  <2> QED
    BY <1>3
<1>5. \A x \in DOMAIN tree : f[x] = [outer \in Attributes |-> Promised(tree, f, x, outer)]
  <2> HIDE DEF f
  <2> QED
    BY <1>4
<1>6. \A x \in DOMAIN tree : f[x] \in Streams
  <2> HIDE DEF f, Is
  <2> DEFINE last == Len(tree)
             Known == {k \in Nat : \A x \in last - k .. last : f[x] \in Streams}
  <2>1. ASSUME NEW first \in 1 .. last, \A x \in first + 1 .. last : f[x] \in Streams
        PROVE  \A x \in first .. last : f[x] \in Streams
    <3>1. first \in DOMAIN tree
      BY <1>2
    <3>2. \A k \in DOMAIN tree[first].sons : f[SonOf(tree, first, k)] \in Streams
      <4>1. \A k \in DOMAIN tree[first].sons : SonOf(tree, first, k) \in first + 1 .. last
        BY <1>2, <3>1, TreeIs
      <4> QED
        BY <2>1, <4>1
    <3>3. \A outer \in Attributes : Promised(tree, f, first, outer) \in Seq(Values)
      BY <3>1, <3>2, PromisedType
    <3>4. f[first] \in Streams
      BY <1>5, <3>1, <3>3 DEF Streams
    <3>5. \A x \in first .. last : x = first \/ x \in first + 1 .. last
      BY <1>2
    <3> QED
      BY <2>1, <3>4, <3>5
  <2>2. last \in Nat \ {0}
    BY <1>2, TreeIs
  <2>3. 0 \in Known
    <3>1. last \in 1 .. last /\ last - 0 = last /\ \A x \in last + 1 .. last : FALSE
      BY <2>2
    <3> QED
      BY <2>1, <3>1
  <2>4. ASSUME NEW k \in 0 .. (last - 1) - 1, k \in Known PROVE k + 1 \in Known
    <3>1. last - (k + 1) \in 1 .. last /\ (last - (k + 1)) + 1 = last - k
      BY <2>2
    <3>2. \A x \in last - (k + 1) .. last : f[x] \in Streams
      BY <2>1, <2>4, <3>1
    <3> QED
      BY <3>2
  <2>5. last - 1 \in Known
    <3> HIDE DEF Known
    <3>1. last - 1 \in Nat /\ last - 1 \in 0 .. last - 1
      BY <2>2
    <3>2. \A k \in 0 .. last - 1 : k \in Known
      BY <2>3, <2>4, <3>1, Ascend
    <3> QED
      BY <3>1, <3>2
  <2>6. last - (last - 1) = 1
    BY <2>2
  <2> QED
    BY <1>2, <2>5, <2>6
<1> HIDE DEF f
<1>7. \A x \in DOMAIN tree : \A outer \in Attributes : f[x][outer] = Promised(tree, f, x, outer)
  BY <1>5
<1> QED
  BY <1>1, <1>6, <1>7

-----------------------------------------------------------------------------
(* The invariant of the answer.  owed has the values that a stream has yet *)
(* to yield, outer the attribute of the tuple of its scope that it was     *)
(* opened for.                                                             *)

\* The attribute that the function of a loopjoin gets, and the one that the
\* functions of a node get.
Passed(x) == IF argument[x] = None THEN 0 ELSE Attribute(Value(argument[x]))
CurrentOuter(x) == IF plan[x].scope = 0 THEN 0 ELSE Passed(x - plan[x].scope)

\* The values of a buffer of tuples.
Rows(tuples) == [i \in DOMAIN tuples |-> Value(tuples[i])]

\* What the node x has yet to yield, at a place of its value mapping, if its
\* sons have yet to yield what they owe after what came from one of them.
LeftOfConcat(x, message, at, first, second, found, came) ==
  IF message = "OPEN" THEN first \o (IF at = "first" THEN found[1] ELSE second)
  ELSE IF local[x].second THEN came \o second
  ELSE (came \o first) \o second

LeftOfProduct(x, message, at, first, second, found, came) ==
  LET info == local[x] IN
  IF message = "OPEN"
    THEN IF at \in {"opened", "current"} THEN Products(came \o first, found[1])
         ELSE IF info.current = None THEN << >>
         ELSE Products(<<Value(info.current)>> \o first,
                       IF at = "second" THEN second ELSE Rows(info.buffer) \o (came \o second))
  ELSE IF at = "current" THEN Products(came \o first, Rows(info.buffer))
  ELSE IF info.current = None THEN << >>
  ELSE Prefixed(Value(info.current), SubSeq(Rows(info.buffer), info.next, Len(Rows(info.buffer))))
         \o Products(first, Rows(info.buffer))

LeftOfLoopjoin(x, message, at, first, second, found, came) ==
  IF at \in {"opened", "first", "closed", "outer"} THEN Loops(came \o first, found[2])
  ELSE IF at = "function"
    THEN Prefixed(Value(argument[x]), second) \o Loops(first, found[2])
  ELSE IF local[x].x = None THEN << >>
  ELSE Prefixed(Value(local[x].x), came \o second) \o Loops(first, found[2])

\* found has what the second son finds for the scope of x, and for any scope.
LeftOf(x, message, at, a, first, second, found, came) ==
  IF message = "OPEN" /\ at = "start" THEN Meaning(plan)[x][a]
  ELSE CASE Op(x) = "feed" ->
              IF local[x] = None THEN << >>
              ELSE SubSeq(plan[x].relation, local[x].next, Len(plan[x].relation))
         [] Op(x) = "filter" -> Filtered(plan[x], a, came \o first)
         [] Op(x) = "head" -> FirstOf(came \o first, local[x].most - local[x].taken)
         [] Op(x) = "cancel" -> Until(plan[x], a, came \o first)
         [] Op(x) = "concat" -> LeftOfConcat(x, message, at, first, second, found, came)
         [] Op(x) = "product" -> LeftOfProduct(x, message, at, first, second, found, came)
         [] Op(x) = "loopjoin" -> LeftOfLoopjoin(x, message, at, first, second, found, came)
         [] Op(x) = "consume" -> IF at = "closed" THEN << >> ELSE came \o first

\* What the second son means, for a and for any attribute.
Found(x, a) == <<Meaning(plan)[SonOf(plan, x, 2)][a], Meaning(plan)[SonOf(plan, x, 2)]>>

\* The same, by what the sons owe.
Left(x, message, at, owed, outer, came) ==
  LeftOf(x, message, at, outer[x], owed[SonOf(plan, x, 1)], owed[SonOf(plan, x, 2)],
         Found(x, outer[x]), came)

\* The streams of the sons are opened for the scope of x, or for its function.
Link(x, k, at, outer) ==
  SonState(x, k) = "open" =>
    IF Op(x) = "loopjoin" /\ k = 2
      THEN at \in {"start", "inner", "function"} => outer[SonOf(plan, x, k)] = Passed(x)
      ELSE outer[SonOf(plan, x, k)] = outer[x]

Linked(x, at, outer) == \A k \in DOMAIN plan[x].sons : Link(x, k, at, outer)

\* What the operators know on their way.
Begun(x, message, at) ==
  /\ Op(x) = "head" /\ at = "next" => local[x].taken < local[x].most
  /\ Op(x) = "product" /\ message = "OPEN" /\ at # "start" =>
       local[x].next = 1 /\ (at # "buffer" => local[x].buffer = << >>)

\* x owes what it has yet to yield, and its sons are opened for it.
Fits(x, message, at, owed, outer, came) ==
  /\ owed[x] = Left(x, message, at, owed, outer, came)
  /\ Linked(x, at, outer) /\ Begun(x, message, at)

\* The value that the operator at the top has got and not taken yet.
Came ==
  IF stack # << >> /\ Top.at # "start" /\ Yielded THEN <<Value(answer.tuple)>> ELSE << >>

\* The types of the ghosts and of the tuples.
Ghosts(owed, outer) == owed \in [Nodes -> Seq(Values)] /\ outer \in [Nodes -> Attributes]
HeapTyped(h) == \A t \in DOMAIN h : h[t].value \in Values

\* Open streams between two requests, calls on the stack, and the result.
IdleExact(owed, outer) ==
  \A x \in Nodes : ~OnStack(x) /\ streams[x] = "open" =>
    Fits(x, "REQUEST", "start", owed, outer, << >>)

AtWorkExact(owed, outer) ==
  \A i \in DOMAIN stack : stack[i].message \in {"OPEN", "REQUEST"} =>
    /\ outer[stack[i].node] = CurrentOuter(stack[i].node)
    /\ Fits(stack[i].node, stack[i].message, stack[i].at, owed, outer,
            IF i = 1 THEN Came ELSE << >>)

ResultExact(owed) ==
  /\ result \in Seq(Values) /\ result \o owed[1] = Meaning(plan)[1][0]
  /\ stack = << >> \/ destroyed > 0 => owed[1] = << >>

\* Everybody owes what the tree means: the invariant, with its ghosts.
Exact(owed, outer) ==
  /\ plan \in Plans /\ Ghosts(owed, outer) /\ HeapTyped(heap)
  /\ \A x \in Nodes : streams[x] = "ended" => owed[x] = << >>
  /\ ResultExact(owed) /\ IdleExact(owed, outer) /\ AtWorkExact(owed, outer)

-----------------------------------------------------------------------------
(* What a step leaves alone.                                               *)

\* The tuples that the others keep have their values.
SameValues(x) == \A y \in Nodes \ {x} : \A t \in Has(y) : Value(t)' = Value(t)

\* Where a node is, as Has sees it.
Spot(y, message, at) ==
  /\ Passing(y) <=> at = "function"
  /\ Stale(y) <=> message = "REQUEST" /\ at = "outer"

\* What the node has for itself: the tuples that it reads.
Reading(y, message, at) ==
  IF Op(y) = "product" THEN local[y] # None
  ELSE IF Op(y) = "loopjoin"
    THEN /\ local[y] # None
         /\ at \in {"start", "inner"} /\ SonState(y, 2) = "open" => local[y].x = argument[y]
  ELSE TRUE

\* What a node has yet to yield stays if the tuples it reads and its sons do.
LEMMA LeftKept ==
  ASSUME ProtocolInv, NEW x \in Nodes, NEW y \in Nodes, y # x, Alone(x), SameValues(x),
         NEW message \in {"OPEN", "REQUEST"}, NEW at, Spot(y, message, at),
         message # "OPEN" \/ at # "start" => Reading(y, message, at),
         NEW owed, NEW owed2, NEW outer, NEW outer2, NEW came,
         outer2[y] = outer[y],
         \A k \in DOMAIN plan[y].sons : owed2[SonOf(plan, y, k)] = owed[SonOf(plan, y, k)]
  PROVE  Left(y, message, at, owed2, outer2, came)' = Left(y, message, at, owed, outer, came)
<1>1. plan' = plan /\ local'[y] = local[y] /\ argument'[y] = argument[y] /\ Op(y)' = Op(y)
  BY DEF Alone, Op
<1>0. IsTree(plan) /\ local[y] \in LocalOf[Op(y)] \cup {None}
  BY DEF ProtocolInv, ValuesOK
<1>2. /\ Op(y) \notin {"feed"} => owed2[SonOf(plan, y, 1)] = owed[SonOf(plan, y, 1)]
      /\ Op(y) \in {"concat", "product", "loopjoin"} =>
           owed2[SonOf(plan, y, 2)] = owed[SonOf(plan, y, 2)]
      /\ Op(y) \in {"feed", "filter", "head", "cancel", "concat", "product", "loopjoin", "consume"}
  <2>1. Op(y) \in {"feed", "filter", "head", "cancel", "concat", "product", "loopjoin", "consume"}
    BY <1>0, SonsOf DEF Arity
  <2>2. DOMAIN plan[y].sons =
              CASE Op(y) = "feed" -> {}
                [] Op(y) \in {"filter", "head", "cancel", "consume"} -> {1}
                [] OTHER -> {1, 2}
    BY <1>0, SonsOf
  <2> QED
    BY <2>1, <2>2
<1>3. CASE message = "OPEN" /\ at = "start"
  BY <1>1, <1>3 DEF Left, LeftOf
<1>4. CASE ~(message = "OPEN" /\ at = "start")
  <2>1. CASE Op(y) = "feed"
    BY <1>1, <1>4, <2>1 DEF Left, LeftOf
  <2>2. CASE Op(y) \in {"filter", "head", "cancel", "consume"}
    BY <1>1, <1>2, <1>4, <2>2 DEF Left, LeftOf
  <2>3. CASE Op(y) = "concat"
    BY <1>1, <1>2, <1>4, <2>3 DEF Left, LeftOf, LeftOfConcat, Found
  <2>4. CASE Op(y) = "product"
    <3>0. local[y] # None /\ local[y] \in LocalOf["product"]
      BY <1>0, <1>4, <2>4 DEF Reading
    <3>1. local[y].buffer \in Seq(Tuples) /\ None \notin Tuples
      BY <3>0, Locals
    <3>2. Has(y) = ({local[y].current} \cup Range(local[y].buffer)) \ {None}
      BY <2>4, <3>0 DEF Has
    <3>3. local[y].current # None => Value(local[y].current)' = Value(local[y].current)
      BY <1>1, <3>2 DEF SameValues
    <3>4. \A i \in DOMAIN local[y].buffer : local[y].buffer[i] \in Has(y)
      <4>1. \A i \in DOMAIN local[y].buffer :
              local[y].buffer[i] \in Tuples /\ local[y].buffer[i] \in Range(local[y].buffer)
        BY <3>1, ElementOfSeq, LenProperties DEF Range
      <4> QED
        BY <3>1, <3>2, <4>1
    <3>5. \A i \in DOMAIN local[y].buffer :
               Value(local[y].buffer[i])' = Value(local[y].buffer[i])
      BY <1>1, <3>4 DEF SameValues
    <3>6. Rows(local[y].buffer)' = Rows(local[y].buffer)
      BY <1>1, <3>5 DEF Rows
    <3> QED
      BY <1>1, <1>2, <1>4, <2>4, <3>3, <3>6 DEF Left, LeftOf, LeftOfProduct, Found
  <2>5. CASE Op(y) = "loopjoin"
    BY <1>1, <1>2, <1>4, <2>5 DEF Left, LeftOf, LeftOfLoopjoin, Found, SameValues, Has, Reading, Spot
  <2> QED
    BY <1>2, <2>1, <2>2, <2>3, <2>4, <2>5
<1> QED
  BY <1>3, <1>4

\* The attribute that a function gets stays if its tuple does.
LEMMA PassedKept ==
  ASSUME ProtocolInv, NEW x \in Nodes, NEW y \in Nodes, y # x, Alone(x), SameValues(x),
         NEW message \in {"OPEN", "REQUEST"}, NEW at, Spot(y, message, at),
         Op(y) = "loopjoin", at \in {"start", "inner", "function"},
         at # "function" => Reading(y, message, at) /\ SonState(y, 2) = "open"
  PROVE  Passed(y)' = Passed(y)
<1>1. plan' = plan /\ local'[y] = local[y] /\ argument'[y] = argument[y]
  BY DEF Alone
<1>2. argument[y] # None => argument[y] \in Has(y)
  BY DEF Has, Spot, Reading
<1>3. argument[y] # None => Value(argument[y])' = Value(argument[y])
  BY <1>1, <1>2 DEF SameValues
<1> QED
  BY <1>1, <1>3 DEF Passed

\* A son stays opened for the scope it was opened for.
LEMMA LinkKept ==
  ASSUME ProtocolInv, NEW x \in Nodes, NEW y \in Nodes, y # x, Alone(x), SameValues(x),
         NEW message \in {"OPEN", "REQUEST"}, NEW at, Spot(y, message, at),
         message # "OPEN" \/ at # "start" => Reading(y, message, at),
         NEW k \in DOMAIN plan[y].sons, SonState(y, k)' = SonState(y, k),
         NEW outer, NEW outer2, outer2[y] = outer[y],
         SonState(y, k) = "open" => outer2[SonOf(plan, y, k)] = outer[SonOf(plan, y, k)],
         message # "OPEN" \/ at # "start" => Link(y, k, at, outer),
         message = "OPEN" /\ at = "start" => SonState(y, k) = "closed"
  PROVE  Link(y, k, at, outer2)'
<1>1. plan' = plan /\ Op(y)' = Op(y)
  BY DEF Alone, Op
<1>2. SUFFICES ASSUME SonState(y, k) = "open", ~(message = "OPEN" /\ at = "start")
               PROVE  Link(y, k, at, outer2)'
  BY DEF Link
<1>3. CASE Op(y) = "loopjoin" /\ k = 2
  <2>1. at \in {"start", "inner", "function"} => Passed(y)' = Passed(y)
    BY <1>2, <1>3, PassedKept
  <2> QED
    BY <1>1, <1>2, <1>3, <2>1 DEF Link
<1>4. CASE ~(Op(y) = "loopjoin" /\ k = 2)
  BY <1>1, <1>2, <1>4 DEF Link
<1> QED
  BY <1>3, <1>4

\* A node that neither the caller nor the son is has what it had.
Beside(y, owed, owed2, outer, outer2) ==
  /\ owed2[y] = owed[y] /\ outer2[y] = outer[y]
  /\ \A k \in DOMAIN plan[y].sons :
       /\ owed2[SonOf(plan, y, k)] = owed[SonOf(plan, y, k)]
       /\ outer2[SonOf(plan, y, k)] = outer[SonOf(plan, y, k)]
       /\ SonState(y, k)' = SonState(y, k)

\* A node beside the step has to yield what it had.
LEMMA FitsKept ==
  ASSUME ProtocolInv, NEW x \in Nodes, NEW y \in Nodes, y # x, Alone(x), SameValues(x),
         NEW message \in {"OPEN", "REQUEST"}, NEW at, Spot(y, message, at),
         message # "OPEN" \/ at # "start", Reading(y, message, at),
         NEW owed, NEW owed2, NEW outer, NEW outer2, NEW came,
         Beside(y, owed, owed2, outer, outer2),
         Fits(y, message, at, owed, outer, came)
  PROVE  Fits(y, message, at, owed2, outer2, came)'
<1>1. Left(y, message, at, owed2, outer2, came)' = Left(y, message, at, owed, outer, came)
  BY LeftKept DEF Beside
<1>2. \A k \in DOMAIN plan[y].sons : Link(y, k, at, outer2)'
  <2> TAKE k \in DOMAIN plan[y].sons
  <2>1. /\ SonState(y, k)' = SonState(y, k) /\ outer2[y] = outer[y]
        /\ outer2[SonOf(plan, y, k)] = outer[SonOf(plan, y, k)]
    BY DEF Beside
  <2>2. Link(y, k, at, outer)
    BY DEF Fits, Linked
  <2> QED
    BY <2>1, <2>2, LinkKept
<1>3. plan' = plan /\ local'[y] = local[y]
  BY DEF Alone
<1>4. Begun(y, message, at)'
  BY <1>3 DEF Fits, Begun, Op
<1>5. Linked(y, at, outer2)'
  BY <1>2, <1>3 DEF Linked
<1> QED
  BY <1>1, <1>4, <1>5 DEF Fits, Beside

\* A node below the top, by its frame.
LEMMA FrameSpot ==
  ASSUME ProtocolInv, NEW i \in DOMAIN stack, i # 1, NEW y, y = stack[i].node,
         NEW message \in {"OPEN", "REQUEST"}, message = stack[i].message,
         NEW at, at = stack[i].at
  PROVE  /\ y \in Nodes \ {n} /\ at # "start" /\ stack # << >>
         /\ Spot(y, message, at) /\ Reading(y, message, at)
<1>1. ValuesOK /\ PathOK /\ FramesOK
  BY DEF ProtocolInv
<1>2. stack # << >>
  BY <1>1 DEF ValuesOK
<1>3. /\ i \in 2 .. Len(stack) /\ y \in Nodes /\ y < n /\ n \in Nat /\ Nodes \subseteq Nat
      /\ \A j \in DOMAIN stack : stack[j].node \in Nat
  BY <1>2, StackNodes
<1>4. \E k, m : Waits(Op(y), message, at, k, m)
  BY <1>1, <1>2, <1>3, StackShape
<1>5. at # "start" /\ Running(y, message, at)
  BY <1>1, <1>4, WaitsAt DEF FramesOK
<1>6. \A j \in DOMAIN stack : stack[j].node = y <=> j = i
  <2>1. \A j, l \in DOMAIN stack : j < l => stack[j].node > stack[l].node
    BY <1>1 DEF PathOK
  <2>2. DOMAIN stack = 1 .. Len(stack) /\ Len(stack) \in Nat
    BY <1>2, StackNodes
  <2>3. \A j \in DOMAIN stack : j < i \/ i < j \/ j = i
    BY <2>2
  <2> QED
    BY <1>3, <2>1, <2>3
<1>7. Spot(y, message, at)
  BY <1>6 DEF Spot, Passing, Stale
<1>8. Reading(y, message, at)
  BY <1>5 DEF Reading, Running
<1> QED
  BY <1>2, <1>3, <1>5, <1>7, <1>8

\* A node that waits to be called.
LEMMA QuietSpot ==
  ASSUME ProtocolInv, NEW y \in Nodes, ~OnStack(y), streams[y] = "open"
  PROVE  Spot(y, "REQUEST", "start") /\ Reading(y, "REQUEST", "start")
<1>1. Idle(y)
  BY DEF ProtocolInv, QuietOK
<1>2. IdleOpened(y)
  BY <1>1 DEF Idle
<1>3. Spot(y, "REQUEST", "start")
  BY DEF OnStack, Spot, Passing, Stale
<1>4. Reading(y, "REQUEST", "start")
  BY <1>2 DEF IdleOpened, Reading
<1> QED
  BY <1>3, <1>4

\* The tuples that neither x nor the answer has stay as they are.
Stays(x) == \A t \in DOMAIN heap \ (Given \cup Has(x)) : Value(t)' = Value(t)

\* The tuples that the other nodes have stay as they are.
LEMMA OthersSame ==
  ASSUME TupleInv, NEW x \in Nodes, Stays(x)
  PROVE  SameValues(x)
<1> SUFFICES ASSUME NEW y \in Nodes \ {x}, NEW t \in Has(y)
             PROVE  Value(t)' = Value(t)
  BY DEF SameValues
<1>1. /\ t \in DOMAIN heap /\ t \notin Given /\ t \notin Has(x)
  BY DEF TupleInv, OneHolder
<1> QED
  BY <1>1 DEF Stays

\* If the heap stays, so do all tuples.
LEMMA UnchangedHeap ==
  ASSUME UNCHANGED heap
  PROVE  /\ \A t : Value(t)' = Value(t)
         /\ \A x : Stays(x)
         /\ HeapTyped(heap) => HeapTyped(heap')
<1>1. \A t : Value(t)' = Value(t)
  BY DEF Value, Live
<1> QED
  BY <1>1 DEF Stays, HeapTyped

\* Deleting the tuple that has come leaves those of the others.
LEMMA WithoutOne ==
  ASSUME TupleInv, NEW u, heap' = Without(heap, u)
  PROVE  /\ \A t : t # u => Value(t)' = Value(t)
         /\ HeapTyped(heap) => HeapTyped(heap')
<1>1. HeapFine(heap)
  BY DEF TupleInv, OneHolder
<1>2. heap' = IF u \notin DOMAIN heap THEN heap ELSE [t \in DOMAIN heap \ {u} |-> heap[t]]
  <2>1. u \in DOMAIN heap => ~(heap[u].refs > 1)
    BY <1>1 DEF HeapFine
  <2> QED
    BY <2>1 DEF Without
<1> QED
  BY <1>2 DEF Value, Live, HeapTyped

\* A new tuple leaves those in memory as they are.
LEMMA WithNew ==
  ASSUME TupleInv, NEW value, NEW u, YieldNew(value, u)
  PROVE  \E w \in Tuples :
           /\ Return("YIELD", w) /\ Value(w)' = value
           /\ \A t \in DOMAIN heap \ {u} : Value(t)' = Value(t)
           /\ HeapTyped(heap) /\ value \in Values => HeapTyped(heap')
<1> PICK rest : rest = Without(heap, u)
  OBVIOUS
<1> PICK w : w = Fresh(rest)
  OBVIOUS
<1>1. HeapFine(heap)
  BY DEF TupleInv, OneHolder
<1>2. rest = IF u \notin DOMAIN heap THEN heap ELSE [t \in DOMAIN heap \ {u} |-> heap[t]]
  <2>1. u \in DOMAIN heap => ~(heap[u].refs > 1)
    BY <1>1 DEF HeapFine
  <2> QED
    BY <2>1 DEF Without
<1>3. HeapFine(rest) /\ DOMAIN rest = DOMAIN heap \ {u}
  BY <1>1, WithoutFine
<1>4. w \in Tuples /\ w \notin DOMAIN rest
  BY <1>3, WithFine
<1>5. heap' = [t \in DOMAIN rest \cup {w} |->
                 IF t = w THEN [value |-> value, refs |-> 1] ELSE rest[t]]
  BY DEF YieldNew, With
<1>6. Return("YIELD", w)
  BY DEF YieldNew
<1>7. Value(w)' = value
  BY <1>5 DEF Value, Live
<1>8. \A t \in DOMAIN heap \ {u} : Value(t)' = Value(t)
  BY <1>2, <1>3, <1>4, <1>5 DEF Value, Live
<1>9. HeapTyped(heap) /\ value \in Values => HeapTyped(heap')
  BY <1>2, <1>3, <1>5 DEF HeapTyped
<1> QED
  BY <1>4, <1>6, <1>7, <1>8, <1>9

\* Deleting what a product holds leaves the tuples of the others.
LEMMA WithoutHeld ==
  ASSUME ProtocolInv, TupleInv, NEW x \in Nodes, x = n, Op(x) = "product",
         DeleteAll(HeldByProduct)
  PROVE  /\ Stays(x)
         /\ HeapTyped(heap) => HeapTyped(heap')
<1>1. DOMAIN heap' = DOMAIN heap \ Has(x) /\ HeapFine(heap)
  BY HeldDeleted DEF TupleInv, OneHolder
<1>2. \A t \in DOMAIN heap : heap[t] = [value |-> heap[t].value, refs |-> 1]
  BY <1>1 DEF HeapFine
<1>3. \A t \in DOMAIN heap' : heap'[t].value = heap[t].value
  <2> DEFINE places(t) == Cardinality({i \in DOMAIN HeldByProduct : HeldByProduct[i] = t})
             rest == {t \in DOMAIN heap : heap[t].refs > places(t)}
  <2>1. heap' = [t \in rest |-> [heap[t] EXCEPT !.refs = @ - places(t)]]
    BY DEF DeleteAll
  <2> HIDE DEF places
  <2>2. \A t \in rest : [heap[t] EXCEPT !.refs = @ - places(t)].value = heap[t].value
    <3> TAKE t \in rest
    <3>1. PICK v : heap[t] = [value |-> v, refs |-> 1]
      BY <1>2
    <3> QED
      BY <3>1
  <2> QED
    BY <2>1, <2>2
<1> QED
  BY <1>1, <1>3 DEF Stays, Value, Live, HeapTyped

\* The functions of a node that is at work get what they got.
LEMMA OuterKept ==
  ASSUME ProtocolInv, TupleInv, NEW x, x = n, stack # << >>, Alone(x), SameValues(x),
         NEW i \in DOMAIN stack, stack[i].message \in {"OPEN", "REQUEST"},
         NEW y, y = stack[i].node
  PROVE  CurrentOuter(y)' = CurrentOuter(y)
<1>1. plan' = plan
  BY DEF Alone
<1>2. CASE plan[y].scope = 0
  BY <1>1, <1>2 DEF CurrentOuter
<1>3. CASE plan[y].scope # 0
  <2> PICK s : s = y - plan[y].scope
    OBVIOUS
  <2>1. ScopeOK /\ ValuesOK /\ PathOK /\ FramesOK
    BY DEF TupleInv, ProtocolInv
  <2>2. PICK j \in DOMAIN stack :
          /\ j > i /\ stack[j].node = s
          /\ stack[j].message \in {"OPEN", "REQUEST"} /\ stack[j].at \in {"function", "inner"}
    BY <1>3, <2>1 DEF ScopeOK
  <2>3. /\ DOMAIN stack = 1 .. Len(stack) /\ Len(stack) \in Nat
        /\ j \in DOMAIN stack /\ j # 1
    <3>1. DOMAIN stack = 1 .. Len(stack) /\ Len(stack) \in Nat
      BY StackNodes
    <3> QED
      BY <2>2, <3>1
  <2> PICK message \in {"OPEN", "REQUEST"} : message = stack[j].message
    BY <2>2
  <2> PICK at \in {"function", "inner"} : at = stack[j].at
    BY <2>2
  <2>4. s \in Nodes \ {x} /\ Spot(s, message, at) /\ Reading(s, message, at)
    BY <2>2, <2>3, FrameSpot
  <2>5. \E k, m : Waits(Op(s), message, at, k, m)
    BY <2>1, <2>2, <2>3, StackShape
  <2>6. Op(s) = "loopjoin" /\ (at = "inner" => message = "REQUEST")
    BY <2>5 DEF Waits
  <2>7. Running(s, message, at)
    BY <2>1, <2>2 DEF FramesOK
  <2>8. argument[s] \in Has(s)
    BY <2>4, <2>6, <2>7 DEF Running, Has, Spot
  <2>9. argument'[s] = argument[s] /\ Value(argument[s])' = Value(argument[s])
    <3>1. argument'[s] = argument[s]
      BY <2>4 DEF Alone
    <3> QED
      BY <2>4, <2>8, <3>1 DEF SameValues
  <2> QED
    BY <1>1, <2>9 DEF CurrentOuter, Passed
<1> QED
  BY <1>2, <1>3

\* The scope of a son.
LEMMA ScopeIs ==
  ASSUME IsTree(plan), NEW x \in Nodes, NEW k \in DOMAIN plan[x].sons,
         NEW z, z = SonOf(plan, x, k)
  PROVE  IF Op(x) = "loopjoin" /\ k = 2
           THEN plan[z].scope # 0 /\ z - plan[z].scope = x
           ELSE /\ plan[z].scope = 0 <=> plan[x].scope = 0
                /\ plan[z].scope # 0 => z - plan[z].scope = x - plan[x].scope
<1>1. /\ plan[x].sons[k] \in Nat \ {0} /\ plan[z].scope = ScopeOfSon(plan[x], k)
      /\ plan[x].scope \in Nat
  BY DEF IsTree, Nodes
<1>2. x \in Nat
  BY NodesAndSons
<1>3. z = x + plan[x].sons[k]
  BY DEF SonOf
<1> QED
  BY <1>1, <1>2, <1>3 DEF ScopeOfSon, Op

\* The functions of a son get what those of its father get, or the tuple passed.
LEMMA SonsOuter ==
  ASSUME IsTree(plan), NEW x \in Nodes, NEW k \in DOMAIN plan[x].sons
  PROVE  CurrentOuter(SonOf(plan, x, k)) =
           IF Op(x) = "loopjoin" /\ k = 2 THEN Passed(x) ELSE CurrentOuter(x)
<1> PICK z : z = SonOf(plan, x, k)
  OBVIOUS
<1> QED
  BY ScopeIs DEF CurrentOuter

\* The same after the step.
LEMMA SonsOuterNext ==
  ASSUME IsTree(plan), plan' = plan, NEW x \in Nodes, NEW k \in DOMAIN plan[x].sons
  PROVE  CurrentOuter(SonOf(plan, x, k))' =
           IF Op(x) = "loopjoin" /\ k = 2 THEN Passed(x)' ELSE CurrentOuter(x)'
<1> PICK z : z = SonOf(plan, x, k)
  OBVIOUS
<1> QED
  BY ScopeIs DEF CurrentOuter

\* What the functions get is the attribute of a tuple.
LEMMA OuterTyped ==
  ASSUME HeapTyped(heap)
  PROVE  \A t : Value(t) \in Values /\ Attribute(Value(t)) \in Attributes
<1>1. \A t : Value(t) \in Values
  BY ValuesAre DEF HeapTyped, Value, Live
<1> QED
  BY <1>1, ValuesAre

\* What functions get is an attribute.
LEMMA CurrentTyped ==
  ASSUME HeapTyped(heap)
  PROVE  \A x : Passed(x) \in Attributes /\ CurrentOuter(x) \in Attributes
BY OuterTyped, AttributeAssumption DEF Passed, CurrentOuter

\* The same after the step.
LEMMA CurrentTypedNext ==
  ASSUME HeapTyped(heap')
  PROVE  \A x : Passed(x)' \in Attributes /\ CurrentOuter(x)' \in Attributes
<1>1. \A t : Value(t)' \in Values
  BY ValuesAre DEF HeapTyped, Value, Live
<1>2. \A t : Attribute(Value(t)') \in Attributes
  BY <1>1, ValuesAre
<1> QED
  BY <1>2, AttributeAssumption DEF Passed, CurrentOuter

-----------------------------------------------------------------------------
(* A call.                                                                 *)

\* After a call the frame of the son is on that of its father.
LEMMA CallStack ==
  ASSUME ProtocolInv, stack # << >>, NEW x, x = n, NEW k \in DOMAIN plan[x].sons,
         NEW m \in {"OPEN", "REQUEST", "CLOSE"}, NEW at \in Places,
         Push(Son(k), m, at), NEW z, z = SonOf(plan, x, k)
  PROVE  /\ stack' # << >> /\ DOMAIN stack' = 1 .. Len(stack) + 1 /\ Top' = stack'[1]
         /\ stack'[1].node = z /\ stack'[1].message = m /\ stack'[1].at = "start"
         /\ stack'[2].node = x /\ stack'[2].message = Top.message /\ stack'[2].at = at
         /\ \A i \in 3 .. Len(stack) + 1 :
              stack'[i] = stack[i - 1] /\ i - 1 \in DOMAIN stack /\ i - 1 # 1
         /\ Len(stack) \in Nat \ {0} /\ DOMAIN stack = 1 .. Len(stack)
         /\ \A y : ~OnStack(y)' => ~OnStack(y) /\ y # x /\ y # z
         /\ z \in Nodes /\ z # x /\ z # 1 /\ ~OnStack(z)
<1> PICK F : F = Frame(z, m)
  OBVIOUS
<1> PICK G : G = [Top EXCEPT !.at = at]
  OBVIOUS
<1>1. Top \in Frames /\ x \in Nodes /\ IsTree(plan) /\ stack \in Seq(Frames)
  BY TopOf DEF ProtocolInv, ValuesOK
<1>2. z \in Nodes /\ z > x /\ x \in Nat /\ x >= 1 /\ z \in Nat
  BY <1>1, NodesAndSons
<1>3. /\ F \in Frames /\ F.node = z /\ F.message = m /\ F.at = "start"
      /\ G \in Frames /\ G.node = x /\ G.message = Top.message /\ G.at = at
  BY <1>1, <1>2 DEF Frame, Frames, Places, n
<1>4. stack' = <<F, G>> \o Tail(stack)
  BY DEF Push, Son
<1>5. /\ stack' \in Seq(Frames) /\ Len(stack') = Len(stack) + 1
      /\ stack'[1] = F /\ stack'[2] = G /\ Head(stack') = F
      /\ \A i \in 2 .. Len(stack) : stack'[i + 1] = stack[i]
  BY <1>1, <1>3, <1>4, Pushed
<1>6. /\ Len(stack) \in Nat \ {0} /\ DOMAIN stack = 1 .. Len(stack) /\ Top = stack[1]
      /\ \A i \in DOMAIN stack : i # 1 => stack[i].node < x
  BY StackNodes
<1>7. /\ DOMAIN stack' = 1 .. Len(stack) + 1 /\ stack' # << >>
      /\ 1 \in DOMAIN stack' /\ 2 \in DOMAIN stack'
  BY <1>5, <1>6
<1>8. \A i \in 3 .. Len(stack) + 1 : i - 1 \in 2 .. Len(stack) /\ (i - 1) + 1 = i
  BY <1>6
<1>9. \A i \in 3 .. Len(stack) + 1 :
              stack'[i] = stack[i - 1] /\ i - 1 \in DOMAIN stack /\ i - 1 # 1
  BY <1>5, <1>6, <1>8
<1>10. ASSUME NEW y, ~OnStack(y)'
       PROVE  ~OnStack(y) /\ y # x /\ y # z
  <2>1. \A i \in DOMAIN stack' : stack'[i].node # y
    BY <1>10 DEF OnStack
  <2>2. y # z /\ y # x
    BY <1>3, <1>5, <1>7, <2>1
  <2>3. \A i \in DOMAIN stack : i # 1 => i \in 2 .. Len(stack) /\ i + 1 \in DOMAIN stack'
    BY <1>6, <1>7
  <2>4. \A i \in DOMAIN stack : stack[i].node # y
    <3> TAKE i \in DOMAIN stack
    <3>1. CASE i = 1
      BY <1>6, <2>2, <3>1 DEF n
    <3>2. CASE i # 1
      BY <1>5, <2>1, <2>3, <3>2
    <3> QED
      BY <3>1, <3>2
  <2> QED
    BY <2>2, <2>4 DEF OnStack
<1>11. ~OnStack(z)
  <2>1. \A i \in DOMAIN stack : stack[i].node # z
    <3> TAKE i \in DOMAIN stack
    <3>1. CASE i = 1
      BY <1>2, <1>6, <3>1 DEF n
    <3>2. CASE i # 1
      BY <1>2, <1>6, <3>2
    <3> QED
      BY <3>1, <3>2
  <2> QED
    BY <2>1 DEF OnStack
<1>12. z # x /\ z # 1
  BY <1>2
<1> QED
  BY <1>2, <1>3, <1>5, <1>6, <1>7, <1>9, <1>10, <1>11, <1>12 DEF Top

\* x opens a son for what its functions get, or leaves it what it owes.
Handing(x, z, m, owed, owed2, outer, outer2) ==
  /\ \A y \in Nodes \ {z} : outer2[y] = outer[y]
  /\ \A y \in Nodes \ {z} : owed2[y] = owed[y] \/ (y = x /\ x = 1)
  /\ IF m = "OPEN"
       THEN outer2[z] = CurrentOuter(z)' /\ owed2[z] = Meaning(plan)[z][outer2[z]]
       ELSE outer2[z] = outer[z] /\ owed2[z] = owed[z]

\* The nodes that neither call nor are called are beside the step.
LEMMA BesideCall ==
  ASSUME ProtocolInv, NEW x \in Nodes, NEW k \in DOMAIN plan[x].sons, NEW z,
         z = SonOf(plan, x, k), NEW m, NEW owed, NEW owed2, NEW outer, NEW outer2,
         Handing(x, z, m, owed, owed2, outer, outer2), UNCHANGED streams, plan' = plan,
         NEW y \in Nodes \ {x}, y # z \/ m # "OPEN"
  PROVE  Beside(y, owed, owed2, outer, outer2)
<1>1. IsTree(plan)
  BY DEF ProtocolInv, ValuesOK
<1>2. /\ Nodes = 1 .. Len(plan) /\ Len(plan) \in Nat \ {0}
      /\ \A l \in DOMAIN plan[y].sons :
           /\ SonOf(plan, y, l) \in Nodes /\ SonOf(plan, y, l) > y
           /\ SonOf(plan, y, l) # z
  BY <1>1, NodesAndSons
<1>3. \A l \in DOMAIN plan[y].sons : SonOf(plan, y, l) # 1
  BY <1>2
<1>4. outer2[y] = outer[y] /\ owed2[y] = owed[y]
  BY DEF Handing
<1>5. \A l \in DOMAIN plan[y].sons :
        /\ owed2[SonOf(plan, y, l)] = owed[SonOf(plan, y, l)]
        /\ outer2[SonOf(plan, y, l)] = outer[SonOf(plan, y, l)]
  BY <1>2, <1>3 DEF Handing
<1>6. \A l \in DOMAIN plan[y].sons : SonState(y, l)' = SonState(y, l)
  BY DEF SonState
<1> QED
  BY <1>4, <1>5, <1>6 DEF Beside

\* The caller, at its new place.
LEMMA CallerLinked ==
  ASSUME ProtocolInv, NEW x \in Nodes, NEW k \in DOMAIN plan[x].sons, NEW z,
         z = SonOf(plan, x, k), NEW m, NEW owed, NEW owed2, NEW outer, NEW outer2,
         Handing(x, z, m, owed, owed2, outer, outer2), UNCHANGED streams, plan' = plan,
         NEW message, NEW at, NEW next, Waits(Op(x), message, next, k, m), Asked(z, m),
         Linked(x, at, outer),
         Op(x) = "loopjoin" /\ next = "inner" /\ message = "REQUEST" =>
           at \in {"start", "function"} /\ Passed(x)' = Passed(x),
         message \in {"OPEN", "REQUEST"}
  PROVE  Linked(x, next, outer2)'
<1>1. IsTree(plan)
  BY DEF ProtocolInv, ValuesOK
<1>2. SUFFICES ASSUME NEW l \in DOMAIN plan[x].sons, SonState(x, l) = "open"
               PROVE  Link(x, l, next, outer2)'
  BY DEF Linked, Link, SonState
<1>3. l = k => m # "OPEN"
  BY <1>2 DEF Asked, SonState
<1>4. /\ SonOf(plan, x, l) \in Nodes
      /\ SonOf(plan, x, l) = z <=> l = k
      /\ z # x
  BY <1>1, NodesAndSons
<1>5. outer2[SonOf(plan, x, l)] = outer[SonOf(plan, x, l)] /\ outer2[x] = outer[x]
  BY <1>3, <1>4 DEF Handing
<1>6. Link(x, l, at, outer)
  BY DEF Linked
<1>7. CASE Op(x) = "loopjoin" /\ l = 2
  <2>1. next \in {"start", "inner", "function"} => next = "inner" /\ message = "REQUEST"
    BY <1>3, <1>7 DEF Waits
  <2> QED
    BY <1>2, <1>5, <1>6, <1>7, <2>1 DEF Link, Op
<1>8. CASE ~(Op(x) = "loopjoin" /\ l = 2)
  BY <1>2, <1>5, <1>6, <1>8 DEF Link, Op
<1> QED
  BY <1>7, <1>8

\* The son that is called.
LEMMA SonFits ==
  ASSUME ProtocolInv, TupleInv, stack # << >>, NEW x, x = n, Alone(x), SameValues(x),
         NEW k \in DOMAIN plan[x].sons, NEW z, z = SonOf(plan, x, k), ~OnStack(z),
         z \in Nodes, z # x,
         NEW message, message = Top.message, NEW at, NEW m \in {"OPEN", "REQUEST"},
         Waits(Op(x), message, at, k, m), Asked(z, m), UNCHANGED streams,
         NEW owed, NEW owed2, NEW outer, NEW outer2, Exact(owed, outer),
         Handing(x, z, m, owed, owed2, outer, outer2),
         Linked(x, at, outer2)'
  PROVE  outer2[z] = CurrentOuter(z)' /\ Fits(z, m, "start", owed2, outer2, << >>)'
<1>1. plan' = plan /\ IsTree(plan) /\ x \in Nodes
  BY StackNodes DEF Alone, ProtocolInv, ValuesOK
<1>2. CASE m = "OPEN"
  <2>1. streams[z] = "closed" /\ Idle(z)
    BY <1>2 DEF Asked, ProtocolInv, QuietOK
  <2>2. \A l \in DOMAIN plan[z].sons : SonState(z, l) = "closed"
    BY <2>1 DEF Idle, IdleClosed
  <2>3. Linked(z, "start", outer2)'
    BY <1>1, <2>2 DEF Linked, Link, SonState
  <2>4. Begun(z, m, "start")'
    BY DEF Begun
  <2>5. owed2[z] = Left(z, m, "start", owed2, outer2, << >>)'
    BY <1>1, <1>2 DEF Handing, Left, LeftOf
  <2> QED
    BY <1>2, <2>3, <2>4, <2>5 DEF Handing, Fits
<1>3. CASE m = "REQUEST"
  <2>1. streams[z] = "open"
    BY <1>3 DEF Asked
  <2>2. Fits(z, "REQUEST", "start", owed, outer, << >>)
    BY <2>1 DEF Exact, IdleExact
  <2>3. Spot(z, "REQUEST", "start") /\ Reading(z, "REQUEST", "start")
    BY <2>1, QuietSpot
  <2>4. Beside(z, owed, owed2, outer, outer2)
    BY <1>1, <1>3, BesideCall
  <2>5. Fits(z, m, "start", owed2, outer2, << >>)'
    BY <1>1, <1>3, <2>2, <2>3, <2>4, FitsKept
  <2>6. Link(x, k, at, outer2)' /\ SonState(x, k)' = "open"
    BY <1>1, <2>1 DEF Linked, SonState
  <2>7. CASE Op(x) = "loopjoin" /\ k = 2
    <3>1. at = "inner"
      BY <1>3, <2>7 DEF Waits
    <3> QED
      BY <1>1, <2>5, <2>6, <2>7, <3>1, SonsOuterNext DEF Link, Op
  <2>8. CASE ~(Op(x) = "loopjoin" /\ k = 2)
    <3>1. outer2[z] = outer2[x] /\ outer2[x] = outer[x]
      BY <1>1, <2>6, <2>8 DEF Link, Op, Handing
    <3>2. 1 \in DOMAIN stack /\ stack[1].node = x /\ Top = stack[1]
      BY StackNodes DEF n
    <3>3. message \in {"OPEN", "REQUEST"}
      BY <1>3 DEF Waits
    <3>4. outer[x] = CurrentOuter(x)
      BY <3>2, <3>3 DEF Exact, AtWorkExact
    <3>5. CurrentOuter(x)' = CurrentOuter(x)
      BY <3>2, <3>3, OuterKept
    <3> QED
      BY <1>1, <2>5, <2>8, <3>1, <3>4, <3>5, SonsOuterNext
  <2> QED
    BY <2>7, <2>8
<1> QED
  BY <1>2, <1>3

\* What the caller has to show for its new place.
GoesOn(x, message, at, next, owed2, outer2) ==
  message \in {"OPEN", "REQUEST"} =>
    /\ owed2[x] = Left(x, message, next, owed2, outer2, << >>)'
    /\ Begun(x, message, next)'
    /\ Op(x) = "loopjoin" /\ next = "inner" =>
         at \in {"start", "function"} /\ Passed(x)' = Passed(x)

\* A call keeps the invariant if the caller shows what its new place asks.
LEMMA CallExact ==
  ASSUME ProtocolInv, TupleInv, stack # << >>, NEW x, x = n, Alone(x), Stays(x), HeapTyped(heap'),
         NEW k \in DOMAIN plan[x].sons, NEW z, z = SonOf(plan, x, k),
         NEW message, message = Top.message, NEW at, at = Top.at, NEW m, NEW next,
         Push(Son(k), m, next), UNCHANGED <<streams, endVars>>,
         Waits(Op(x), message, next, k, m), Asked(z, m),
         NEW owed, NEW owed2, NEW outer, NEW outer2, Exact(owed, outer),
         Ghosts(owed2, outer2), Handing(x, z, m, owed, owed2, outer, outer2),
         result' \in Seq(Values), result' \o owed2[1] = Meaning(plan)[1][0],
         GoesOn(x, message, at, next, owed2, outer2)
  PROVE  Exact(owed2, outer2)'
<1>1. m \in {"OPEN", "REQUEST", "CLOSE"} /\ next \in Places
  BY DEF Waits, Places
<1>2. /\ plan' = plan /\ Nodes' = Nodes /\ IsTree(plan) /\ x \in Nodes /\ plan \in Plans
      /\ streams' = streams
  BY StackNodes DEF Alone, Nodes, ProtocolInv, ValuesOK, Exact
<1>3. SameValues(x)
  BY <1>2, OthersSame
<1>4. /\ stack' # << >> /\ DOMAIN stack' = 1 .. Len(stack) + 1 /\ Top' = stack'[1]
      /\ stack'[1].node = z /\ stack'[1].message = m /\ stack'[1].at = "start"
      /\ stack'[2].node = x /\ stack'[2].message = message /\ stack'[2].at = next
      /\ \A i \in 3 .. Len(stack) + 1 :
           stack'[i] = stack[i - 1] /\ i - 1 \in DOMAIN stack /\ i - 1 # 1
      /\ Len(stack) \in Nat \ {0} /\ DOMAIN stack = 1 .. Len(stack)
      /\ \A y : ~OnStack(y)' => ~OnStack(y) /\ y # x /\ y # z
      /\ z \in Nodes /\ z # x /\ z # 1 /\ ~OnStack(z)
  BY <1>1, CallStack
<1>5. Came' = << >>
  BY <1>4 DEF Came
<1>6. 1 \in DOMAIN stack /\ stack[1].node = x /\ stack[1].message = message /\ stack[1].at = at
  BY StackNodes DEF n
<1>7. message \in {"OPEN", "REQUEST"} =>
        /\ Linked(x, at, outer) /\ outer[x] = CurrentOuter(x)
        /\ CurrentOuter(x)' = CurrentOuter(x)
  BY <1>3, <1>6, OuterKept DEF Exact, AtWorkExact, Fits
<1>8. message \in {"OPEN", "REQUEST"} => Linked(x, next, outer2)'
  BY <1>2, <1>7, CallerLinked DEF GoesOn
<1>9. m \in {"OPEN", "REQUEST"} => message \in {"OPEN", "REQUEST"}
  BY DEF Waits
<1>10. m \in {"OPEN", "REQUEST"} =>
         outer2[z] = CurrentOuter(z)' /\ Fits(z, m, "start", owed2, outer2, << >>)'
  BY <1>2, <1>3, <1>4, <1>8, <1>9, SonFits
<1>11. message \in {"OPEN", "REQUEST"} =>
         outer2[x] = CurrentOuter(x)' /\ Fits(x, message, next, owed2, outer2, << >>)'
  BY <1>2, <1>4, <1>7, <1>8 DEF GoesOn, Fits, Handing
<1>12. AtWorkExact(owed2, outer2)'
  <2>1. ASSUME NEW i \in 3 .. Len(stack) + 1, NEW f, f = stack'[i],
               f.message \in {"OPEN", "REQUEST"}
        PROVE  /\ outer2[f.node] = CurrentOuter(f.node)'
               /\ Fits(f.node, f.message, f.at, owed2, outer2, << >>)'
    <3> PICK j : j = i - 1
      OBVIOUS
    <3>1. f = stack[j] /\ j \in DOMAIN stack /\ j # 1
      BY <1>4, <2>1
    <3> PICK y : y = f.node
      OBVIOUS
    <3> PICK msg \in {"OPEN", "REQUEST"} : msg = f.message
      BY <2>1
    <3> PICK place : place = f.at
      OBVIOUS
    <3>2. /\ y \in Nodes \ {x} /\ place # "start"
          /\ Spot(y, msg, place) /\ Reading(y, msg, place)
      BY <3>1, FrameSpot
    <3>3. y # z
      BY <1>4, <3>1 DEF OnStack
    <3>4. Beside(y, owed, owed2, outer, outer2)
      BY <1>2, <3>2, <3>3, BesideCall
    <3>5. outer[y] = CurrentOuter(y) /\ Fits(y, msg, place, owed, outer, << >>)
      BY <3>1 DEF Exact, AtWorkExact
    <3>6. Fits(y, msg, place, owed2, outer2, << >>)'
      BY <1>2, <1>3, <3>2, <3>4, <3>5, FitsKept
    <3>7. CurrentOuter(y)' = CurrentOuter(y)
      BY <1>3, <3>1, OuterKept
    <3>8. outer2[y] = outer[y]
      BY <3>4 DEF Beside
    <3> QED
      BY <3>5, <3>6, <3>7, <3>8
  <2>2. \A i \in DOMAIN stack' : i = 1 \/ i = 2 \/ (i \in 3 .. Len(stack) + 1 /\ i # 1)
    BY <1>4
  <2>3. ASSUME NEW i \in DOMAIN stack', NEW f, f = stack'[i], NEW came,
               came = IF i = 1 THEN Came' ELSE << >>, f.message \in {"OPEN", "REQUEST"}
        PROVE  /\ outer2[f.node] = CurrentOuter(f.node)'
               /\ Fits(f.node, f.message, f.at, owed2, outer2, came)'
    <3>1. CASE i = 1
      BY <1>4, <1>5, <1>10, <2>3, <3>1
    <3>2. CASE i = 2
      BY <1>4, <1>11, <2>3, <3>2
    <3>3. CASE i \in 3 .. Len(stack) + 1 /\ i # 1
      BY <2>1, <2>3, <3>3
    <3> QED
      BY <2>2, <3>1, <3>2, <3>3
  <2> QED
    BY <2>3 DEF AtWorkExact
<1>13. IdleExact(owed2, outer2)'
  <2> SUFFICES ASSUME NEW y \in Nodes, ~OnStack(y)', streams[y] = "open"
               PROVE  Fits(y, "REQUEST", "start", owed2, outer2, << >>)'
    BY <1>2 DEF IdleExact
  <2>1. ~OnStack(y) /\ y # x /\ y # z
    BY <1>4
  <2>2. Spot(y, "REQUEST", "start") /\ Reading(y, "REQUEST", "start")
    BY <2>1, QuietSpot
  <2>3. Beside(y, owed, owed2, outer, outer2)
    BY <1>2, <2>1, BesideCall
  <2>4. Fits(y, "REQUEST", "start", owed, outer, << >>)
    BY <2>1 DEF Exact, IdleExact
  <2> QED
    BY <1>2, <1>3, <2>1, <2>2, <2>3, <2>4, FitsKept
<1>14. \A y \in Nodes : streams'[y] = "ended" => owed2[y] = << >>
  <2> SUFFICES ASSUME NEW y \in Nodes, streams[y] = "ended" PROVE owed2[y] = << >>
    BY <1>2
  <2>1. owed[y] = << >>
    BY DEF Exact
  <2>2. CASE y = z
    BY <2>1, <2>2 DEF Handing, Asked
  <2>3. CASE y # z /\ y # 1
    BY <2>1, <2>3 DEF Handing
  <2>4. CASE y = 1 /\ x # 1
    BY <1>4, <2>1, <2>4 DEF Handing
  <2>5. CASE y = 1 /\ x = 1
    <3>1. Op(x) = "consume"
      BY <1>2, <2>5, SonsOf
    <3>2. message = "OPEN"
      BY <3>1 DEF Waits
    <3>3. Asked(x, message)
      BY <1>6, <1>2 DEF ProtocolInv, FramesOK
    <3> QED
      BY <2>5, <3>2, <3>3 DEF Asked
  <2> QED
    BY <2>2, <2>3, <2>4, <2>5
<1>15. ResultExact(owed2)'
  <2>1. destroyed' = 0
    <3>1. message # "CLOSEPROGRESS"
      BY WaitsAt
    <3> QED
      BY <3>1, TopOf DEF endVars
  <2> QED
    BY <1>2, <1>4, <2>1 DEF ResultExact
<1> QED
  BY <1>2, <1>12, <1>13, <1>14, <1>15 DEF Exact, Ghosts

-----------------------------------------------------------------------------
(* A return.                                                               *)

\* After a return the frame of the father is on top, at its place.
LEMMA ReturnStack ==
  ASSUME ProtocolInv, stack # << >>, NEW x, x = n, stack' = Tail(stack)
  PROVE  /\ DOMAIN stack = 1 .. Len(stack) /\ Len(stack) \in Nat \ {0}
         /\ \A i \in DOMAIN stack' :
              stack'[i] = stack[i + 1] /\ i + 1 \in DOMAIN stack /\ i + 1 # 1 /\ i \in Nat \ {0}
         /\ \A i \in DOMAIN stack : i # 1 => i - 1 \in DOMAIN stack' /\ (i - 1) + 1 = i
         /\ 1 \in DOMAIN stack' => 2 \in DOMAIN stack /\ 1 + 1 = 2
         /\ stack' # << >> => Top' = stack[2]
         /\ stack' = << >> <=> Len(stack) = 1
         /\ \A y : ~OnStack(y)' => ~OnStack(y) \/ y = x
         /\ ~OnStack(x)'
         /\ Len(stack) # 1 => \E k \in DOMAIN plan[stack[2].node].sons :
              /\ x = SonOf(plan, stack[2].node, k)
              /\ Waits(Op(stack[2].node), stack[2].message, stack[2].at, k, Top.message)
<1>1. ValuesOK /\ PathOK /\ stack \in Seq(Frames)
  BY DEF ProtocolInv, ValuesOK
<1>2. /\ Tail(stack) \in Seq(Frames) /\ Len(Tail(stack)) = Len(stack) - 1
      /\ \A i \in 1 .. Len(stack) - 1 : Tail(stack)[i] = stack[i + 1]
      /\ Len(stack) \in Nat \ {0}
      /\ Tail(stack) # << >> => Head(Tail(stack)) = stack[2] /\ Len(stack) > 1
      /\ Tail(stack) = << >> <=> Len(stack) = 1
  BY <1>1, Popped
<1>3. DOMAIN stack = 1 .. Len(stack) /\ DOMAIN stack' = 1 .. Len(stack) - 1 /\ Top = stack[1]
  BY <1>2, StackNodes
<1>4. \A i \in DOMAIN stack' :
              stack'[i] = stack[i + 1] /\ i + 1 \in DOMAIN stack /\ i + 1 # 1 /\ i \in Nat \ {0}
  BY <1>2, <1>3
<1>5. /\ \A i \in DOMAIN stack : i # 1 => i - 1 \in DOMAIN stack' /\ (i - 1) + 1 = i
      /\ 1 \in DOMAIN stack' => 2 \in DOMAIN stack /\ 1 + 1 = 2
  BY <1>2, <1>3
<1>6. \A y : ~OnStack(y)' => ~OnStack(y) \/ y = x
  <2> SUFFICES ASSUME NEW y, OnStack(y), y # x PROVE OnStack(y)'
    OBVIOUS
  <2>1. PICK i \in DOMAIN stack : stack[i].node = y
    BY DEF OnStack
  <2>2. i # 1
    BY <1>3, <2>1 DEF n
  <2>3. i - 1 \in DOMAIN stack' /\ stack'[i - 1] = stack[i]
    BY <1>4, <1>5, <2>2
  <2> QED
    BY <2>1, <2>3 DEF OnStack
<1>7. ~OnStack(x)'
  <2>1. \A i \in DOMAIN stack : i # 1 => stack[i].node # x
    <3>1. \A i \in DOMAIN stack : i # 1 => stack[i].node < x /\ stack[i].node \in Nat
      BY StackNodes
    <3>2. x \in Nat
      BY StackNodes
    <3> QED
      BY <3>1, <3>2
  <2> QED
    BY <1>4, <2>1 DEF OnStack
<1>8. Len(stack) # 1 => \E k \in DOMAIN plan[stack[2].node].sons :
              /\ x = SonOf(plan, stack[2].node, k)
              /\ Waits(Op(stack[2].node), stack[2].message, stack[2].at, k, Top.message)
  <2> SUFFICES ASSUME Len(stack) # 1
               PROVE  \E k \in DOMAIN plan[stack[2].node].sons :
                        /\ x = SonOf(plan, stack[2].node, k)
                        /\ Waits(Op(stack[2].node), stack[2].message, stack[2].at, k, Top.message)
    OBVIOUS
  <2>1. 2 \in 2 .. Len(stack) /\ 2 - 1 = 1
    BY <1>2
  <2> QED
    BY <1>1, <1>3, <2>1, StackShape DEF n
<1>9. stack' # << >> => Top' = stack[2]
  BY <1>2 DEF Top
<1> QED
  BY <1>2, <1>3, <1>4, <1>5, <1>6, <1>7, <1>8, <1>9

\* What goes on with nothing is all.
LEMMA NothingBefore ==
  \A s \in Seq(Values) : << >> \o s = s /\ s \o << >> = s
OBVIOUS

\* The answer of x to m takes what came from what x owed.
Answering(x, m, came, rest, owed, owed2) ==
  /\ owed2 = [owed EXCEPT ![x] = rest] /\ came \o rest = owed[x]
  /\ m # "REQUEST" => came = << >> /\ rest = owed[x]

\* What the father has yet to yield, after the answer of its son x.
LEMMA Handover ==
  ASSUME ProtocolInv, NEW x \in Nodes, NEW y \in Nodes, y # x, Alone(x), SameValues(x),
         NEW k \in DOMAIN plan[y].sons, x = SonOf(plan, y, k),
         NEW message \in {"OPEN", "REQUEST"}, NEW at, NEW m, Waits(Op(y), message, at, k, m),
         Spot(y, message, at), Reading(y, message, at), Running(y, message, at),
         NEW owed, NEW outer, Ghosts(owed, outer), NEW rest, NEW came, NEW owed2,
         Answering(x, m, came, rest, owed, owed2)
  PROVE  Left(y, message, at, owed2, outer, came)' = Left(y, message, at, owed, outer, << >>)
<1>1. at # "start"
  BY WaitsAt
<1>5. /\ owed2 = [owed EXCEPT ![x] = rest] /\ came \o rest = owed[x]
      /\ m # "REQUEST" => came = << >> /\ rest = owed[x]
      /\ owed \in [Nodes -> Seq(Values)]
  BY DEF Answering, Ghosts
<1>2. Left(y, message, at, owed, outer, << >>)' = Left(y, message, at, owed, outer, << >>)
  BY <1>1, LeftKept
<1>3. CASE m # "REQUEST"
  <2>1. owed2 = owed
    BY <1>3, <1>5
  <2> QED
    BY <1>2, <1>3, <1>5, <2>1
<1>4. CASE m = "REQUEST"
  <2>1. plan' = plan /\ Op(y)' = Op(y) /\ local'[y] = local[y] /\ IsTree(plan)
    BY DEF Alone, Op, ProtocolInv, ValuesOK
  <2> PICK s1 : s1 = SonOf(plan, y, 1)
    OBVIOUS
  <2> PICK s2 : s2 = SonOf(plan, y, 2)
    OBVIOUS
  <2>2. CASE k = 1
    <3>1. came \o owed2[s1] = << >> \o owed[s1] /\ owed[s1] \in Seq(Values)
      BY <1>5, <2>2, NothingBefore
    <3>2. 2 \in DOMAIN plan[y].sons => owed2[s2] = owed[s2]
      <4>1. 2 \in DOMAIN plan[y].sons => s2 # x
        BY <2>1, <2>2, NodesAndSons
      <4> QED
        BY <1>5, <4>1
    <3>3. CASE Op(y) \in {"filter", "head", "cancel", "consume"}
      BY <1>1, <2>1, <3>1, <3>3 DEF Left, LeftOf
    <3>4. CASE Op(y) \in {"concat", "product", "loopjoin"}
      <4>1. owed2[s2] = owed[s2]
        BY <2>1, <3>2, <3>4, SonsOf
      <4>2. CASE Op(y) = "concat"
        <5>1. message = "REQUEST" /\ ~local[y].second
          BY <1>4, <2>2, <4>2 DEF Waits, Running
        <5> QED
          BY <1>1, <2>1, <3>1, <4>1, <4>2, <5>1 DEF Left, LeftOf, LeftOfConcat
      <4>3. CASE Op(y) = "product"
        <5>1. at = "current"
          BY <1>4, <2>2, <4>3 DEF Waits
        <5> QED
          BY <1>1, <2>1, <3>1, <4>1, <4>3, <5>1 DEF Left, LeftOf, LeftOfProduct, Found
      <4>4. CASE Op(y) = "loopjoin"
        <5>1. at \in {"first", "outer"}
          BY <1>4, <2>2, <4>4 DEF Waits
        <5> QED
          BY <1>1, <2>1, <3>1, <4>1, <4>4, <5>1 DEF Left, LeftOf, LeftOfLoopjoin, Found
      <4> QED
        BY <3>4, <4>2, <4>3, <4>4
    <3> QED
      BY <1>2, <1>4, <3>3, <3>4 DEF Waits
  <2>3. CASE k = 2
    <3>1. came \o owed2[s2] = << >> \o owed[s2] /\ owed[s2] \in Seq(Values)
      BY <1>5, <2>3, NothingBefore
    <3>2. Op(y) \in {"concat", "product", "loopjoin"} /\ 1 \in DOMAIN plan[y].sons
      BY <1>4, <2>1, <2>3, SonsOf DEF Waits
    <3>3. owed2[s1] = owed[s1]
      <4>1. s1 # x
        BY <2>1, <2>3, <3>2, NodesAndSons
      <4> QED
        BY <1>5, <4>1
    <3>4. CASE Op(y) = "concat"
      <4>1. message = "REQUEST" /\ local[y].second
        BY <1>4, <2>3, <3>4 DEF Waits, Running
      <4> QED
        BY <1>1, <1>2, <2>1, <3>1, <3>3, <3>4, <4>1 DEF Left, LeftOf, LeftOfConcat
    <3>5. CASE Op(y) = "product"
      <4>1. message = "OPEN" /\ at = "buffer"
        BY <1>4, <2>3, <3>5 DEF Waits
      <4> QED
        BY <1>1, <1>2, <2>1, <3>1, <3>3, <3>5, <4>1 DEF Left, LeftOf, LeftOfProduct, Found
    <3>6. CASE Op(y) = "loopjoin"
      <4>1. message = "REQUEST" /\ at = "inner" /\ local[y].x # None
        BY <1>4, <2>3, <3>6 DEF Waits, Running
      <4> QED
        BY <1>1, <1>2, <2>1, <3>1, <3>3, <3>6, <4>1 DEF Left, LeftOf, LeftOfLoopjoin, Found
    <3> QED
      BY <3>2, <3>4, <3>5, <3>6
  <2> QED
    BY <1>4, <2>2, <2>3 DEF Waits
<1> QED
  BY <1>3, <1>4

\* Only the stream of x changes.
OnlyStream(x) == \A z \in Nodes \ {x} : streams'[z] = streams[z]

\* The father of a stream that returns.
LEMMA FatherFits ==
  ASSUME ProtocolInv, TupleInv, stack # << >>, NEW x, x = n, Alone(x), SameValues(x),
         Len(stack) # 1, NEW y, y = stack[2].node,
         NEW message \in {"OPEN", "REQUEST"}, message = stack[2].message,
         NEW at, at = stack[2].at,
         NEW status, OnlyStream(x),
         streams'[x] = After(Top.message, status),
         NEW owed, NEW outer, Exact(owed, outer), NEW rest, NEW came, NEW owed2,
         Answering(x, Top.message, came, rest, owed, owed2)
  PROVE  /\ outer[y] = CurrentOuter(y)'
         /\ Fits(y, message, at, owed2, outer, came)'
<1>1. ValuesOK /\ PathOK /\ FramesOK /\ IsTree(plan) /\ plan' = plan
  BY DEF ProtocolInv, ValuesOK, Alone
<1>2. /\ DOMAIN stack = 1 .. Len(stack) /\ Len(stack) \in Nat \ {0} /\ Top = stack[1]
      /\ 1 \in DOMAIN stack /\ x \in Nodes /\ stack[1].node = x
  BY StackNodes DEF n
<1>3. 2 \in DOMAIN stack /\ 2 # 1 /\ 2 \in 2 .. Len(stack) /\ 2 - 1 = 1
  BY <1>2
<1>4. PICK k \in DOMAIN plan[y].sons :
        x = SonOf(plan, y, k) /\ Waits(Op(y), message, at, k, Top.message)
  BY <1>1, <1>2, <1>3, StackShape
<1>5. y \in Nodes \ {x} /\ at # "start" /\ Spot(y, message, at) /\ Reading(y, message, at)
  BY <1>3, FrameSpot
<1>6. Running(y, message, at)
  BY <1>1, <1>3, <1>5 DEF FramesOK
<1>7. outer[y] = CurrentOuter(y) /\ Fits(y, message, at, owed, outer, << >>)
  BY <1>3 DEF Exact, AtWorkExact
<1>8. CurrentOuter(y)' = CurrentOuter(y)
  BY <1>3, OuterKept
<1>9. owed \in [Nodes -> Seq(Values)]
  BY DEF Exact, Ghosts
<1>10. Left(y, message, at, owed2, outer, came)' = Left(y, message, at, owed, outer, << >>)
  <2> PICK m : m = Top.message
    OBVIOUS
  <2>1. /\ Waits(Op(y), message, at, k, m) /\ Answering(x, m, came, rest, owed, owed2)
        /\ y \in Nodes /\ y # x
    BY <1>4, <1>5
  <2>2. Ghosts(owed, outer)
    BY DEF Exact
  <2> QED
    BY <1>2, <1>4, <1>5, <1>6, <2>1, <2>2, Handover
<1>11. owed2[y] = owed[y]
  BY <1>5, <1>9 DEF Answering
<1>12. Begun(y, message, at)'
  BY <1>1, <1>5, <1>7 DEF Fits, Begun, Op, Alone
<1>13. ASSUME NEW l \in DOMAIN plan[y].sons \ {k} PROVE Link(y, l, at, outer)'
  <2>1. SonOf(plan, y, l) \in Nodes \ {x}
    BY <1>1, <1>4, <1>5, NodesAndSons
  <2>2. SonState(y, l)' = SonState(y, l)
    BY <1>1, <2>1 DEF SonState, OnlyStream
  <2>3. Link(y, l, at, outer)
    BY <1>7 DEF Fits, Linked
  <2> QED
    BY <1>2, <1>5, <2>2, <2>3, LinkKept
<1>14. Link(y, k, at, outer)'
  <2> SUFFICES ASSUME streams'[x] = "open" PROVE Link(y, k, at, outer)'
    BY <1>1, <1>4 DEF Link, SonState
  <2>1. Top.message \in {"OPEN", "REQUEST"}
    BY <1>4, WaitsAt DEF After
  <2>2. outer[x] = CurrentOuter(x)
    BY <1>2, <2>1 DEF Exact, AtWorkExact
  <2>3. CurrentOuter(x) = IF Op(y) = "loopjoin" /\ k = 2 THEN Passed(y) ELSE CurrentOuter(y)
    BY <1>1, <1>4, <1>5, SonsOuter
  <2>4. CASE Op(y) = "loopjoin" /\ k = 2
    <3>1. at \in {"inner", "function"}
      BY <1>4, <2>1, <2>4 DEF Waits
    <3>2. at # "function" => SonState(y, 2) = "open"
      <4>1. at # "function" => Top.message = "REQUEST"
        BY <1>4, <2>1, <2>4 DEF Waits
      <4>2. Asked(x, Top.message)
        BY <1>1, <1>2 DEF FramesOK
      <4> QED
        BY <1>4, <2>4, <4>1, <4>2 DEF Asked, SonState
    <3>3. Passed(y)' = Passed(y)
      BY <1>2, <1>5, <2>4, <3>1, <3>2, PassedKept
    <3> QED
      BY <1>1, <1>4, <2>2, <2>3, <2>4, <3>3 DEF Link, Op
  <2>5. CASE ~(Op(y) = "loopjoin" /\ k = 2)
    BY <1>1, <1>4, <1>7, <2>2, <2>3, <2>5 DEF Link, Op
  <2> QED
    BY <2>4, <2>5
<1>15. Linked(y, at, outer)'
  BY <1>1, <1>13, <1>14 DEF Linked
<1> QED
  BY <1>7, <1>8, <1>10, <1>11, <1>12, <1>15 DEF Fits

\* What an operator that returns has to show.
Delivers(x, message, status, tuple, owed, owed2, outer, rest) ==
  /\ owed2 = [owed EXCEPT ![x] = rest] /\ rest \in Seq(Values)
  /\ owed[x] = IF status = "YIELD" THEN <<Value(tuple)'>> \o rest ELSE rest
  /\ status = "YIELD" => Value(tuple)' \in Values
  /\ IF message = "REQUEST" THEN status \in {"YIELD", "CANCEL"}
     ELSE status = "OK" /\ rest = owed[x]
  /\ status = "CANCEL" \/ x = 1 => rest = << >>
  /\ x # 1 /\ After(message, status) = "open" =>
       Fits(x, "REQUEST", "start", owed2, outer, << >>)'

\* A return keeps the invariant if the operator delivers what it owed.
LEMMA ReturnExact ==
  ASSUME ProtocolInv, TupleInv, stack # << >>, NEW x, x = n, Alone(x), Stays(x), HeapTyped(heap'),
         NEW message, message = Top.message, NEW status, NEW tuple, Return(status, tuple),
         NEW owed, NEW owed2, NEW outer, NEW rest, Exact(owed, outer),
         Delivers(x, message, status, tuple, owed, owed2, outer, rest)
  PROVE  Exact(owed2, outer)'
<1>1. /\ plan' = plan /\ Nodes' = Nodes /\ IsTree(plan) /\ x \in Nodes /\ plan \in Plans
      /\ PathOK /\ EndOK /\ FramesOK
      /\ owed \in [Nodes -> Seq(Values)] /\ outer \in [Nodes -> Attributes]
      /\ DOMAIN streams = Nodes
  BY StackNodes DEF Alone, Nodes, ProtocolInv, ValuesOK, Exact, Ghosts
<1>2. SameValues(x)
  BY <1>1, OthersSame
<1>3. /\ DOMAIN stack = 1 .. Len(stack) /\ Len(stack) \in Nat \ {0}
      /\ \A i \in DOMAIN stack' :
           stack'[i] = stack[i + 1] /\ i + 1 \in DOMAIN stack /\ i + 1 # 1 /\ i \in Nat \ {0}
      /\ 1 \in DOMAIN stack' => 2 \in DOMAIN stack /\ 1 + 1 = 2
      /\ stack' # << >> => Top' = stack[2]
      /\ stack' = << >> <=> Len(stack) = 1
      /\ \A y : ~OnStack(y)' => ~OnStack(y) \/ y = x
      /\ ~OnStack(x)'
      /\ Len(stack) # 1 => \E k \in DOMAIN plan[stack[2].node].sons :
           /\ x = SonOf(plan, stack[2].node, k)
           /\ Waits(Op(stack[2].node), stack[2].message, stack[2].at, k, Top.message)
  BY ReturnStack DEF Return
<1>4. /\ Top = stack[1] /\ 1 \in DOMAIN stack /\ stack[1].node = x /\ Nodes \subseteq Nat
      /\ \A i \in DOMAIN stack : stack[i].node \in Nodes
  BY StackNodes DEF n
<1>5. /\ x # 1 => streams' = [streams EXCEPT ![x] = After(message, status)]
      /\ x = 1 => streams' = streams
      /\ result' = result /\ destroyed' = destroyed
      /\ answer' = [status |-> status, tuple |-> tuple]
  BY <1>1, SonsOf DEF Return, IsStream, Op, endVars
<1>6. /\ owed2[x] = rest /\ \A y \in Nodes \ {x} : owed2[y] = owed[y]
      /\ owed2 \in [Nodes -> Seq(Values)]
      /\ message # "REQUEST" => owed2 = owed
  BY <1>1 DEF Delivers
<1>7. Len(stack) = 1 => x = 1 \/ message = "CLOSEPROGRESS"
  BY <1>1, <1>3, <1>4 DEF PathOK, Frame
<1>8. Len(stack) # 1 => x # 1
  <2> SUFFICES ASSUME Len(stack) # 1 PROVE x # 1
    OBVIOUS
  <2>1. 2 \in DOMAIN stack
    BY <1>3
  <2>2. PICK k \in DOMAIN plan[stack[2].node].sons : x = SonOf(plan, stack[2].node, k)
    BY <1>3
  <2>3. x > stack[2].node /\ stack[2].node >= 1 /\ stack[2].node \in Nat
    BY <1>1, <1>4, <2>1, <2>2, NodesAndSons
  <2> QED
    BY <2>3
<1>16. x = 1 => streams[1] = "closed"
  <2>2. CASE destroyed = 0 /\ x = 1
    <3>1. message = "OPEN"
      BY <1>1, <1>3, <1>4, <1>8, <2>2 DEF PathOK
    <3>2. Asked(x, message)
      BY <1>1, <1>4 DEF FramesOK
    <3> QED
      BY <2>2, <3>1, <3>2 DEF Asked
  <2>3. CASE destroyed # 0
    <3>1. destroyed > 0 /\ 1 \in Nodes
      BY <1>1, <2>3, NodesAndSons DEF EndOK
    <3> QED
      BY <1>1, <3>1 DEF EndOK
  <2> QED
    BY <2>2, <2>3
<1>9. Came' = IF stack' # << >> /\ status = "YIELD" THEN <<Value(tuple)'>> ELSE << >>
  <2>1. stack' # << >> => Top'.at # "start"
    <3>1. stack' # << >> => Len(stack) # 1
      BY <1>3
    <3> QED
      BY <1>3, <3>1, WaitsAt
  <2> QED
    BY <1>5, <2>1 DEF Came, Yielded
<1>10. /\ Len(stack) # 1 => Came' \o rest = owed[x]
       /\ message # "REQUEST" => Came' = << >> /\ rest = owed[x]
  <2>1. << >> \o rest = rest
    BY NothingBefore DEF Delivers
  <2> QED
    BY <1>3, <1>9, <2>1 DEF Delivers
<1>11. /\ OnlyStream(x) /\ \A y \in Nodes \ {x} : streams'[y] = streams[y]
       /\ x # 1 => streams'[x] = After(Top.message, status)
  BY <1>1, <1>5 DEF OnlyStream
<1>12. AtWorkExact(owed2, outer)'
  <2>1. ASSUME NEW i \in DOMAIN stack', NEW f, f = stack'[i], NEW came,
               came = IF i = 1 THEN Came' ELSE << >>, f.message \in {"OPEN", "REQUEST"}
        PROVE  /\ outer[f.node] = CurrentOuter(f.node)'
               /\ Fits(f.node, f.message, f.at, owed2, outer, came)'
    <3>0. Len(stack) # 1
      BY <1>3, <2>1
    <3>1. CASE i = 1
      <4>1. f = stack[2]
        BY <1>3, <2>1, <3>1
      <4> PICK y : y = f.node
        OBVIOUS
      <4> PICK msg \in {"OPEN", "REQUEST"} : msg = f.message
        BY <2>1
      <4> PICK place : place = f.at
        OBVIOUS
      <4>2. /\ came \o rest = owed[x]
            /\ Top.message # "REQUEST" => came = << >> /\ rest = owed[x]
        BY <1>10, <2>1, <3>0, <3>1
      <4>3. Answering(x, Top.message, came, rest, owed, owed2)
        BY <4>2 DEF Delivers, Answering
      <4>4. y = stack[2].node /\ msg = stack[2].message /\ place = stack[2].at
        BY <4>1
      <4>5. streams'[x] = After(Top.message, status)
        BY <1>8, <1>11, <3>0
      <4>6. outer[y] = CurrentOuter(y)' /\ Fits(y, msg, place, owed2, outer, came)'
        BY <1>2, <1>11, <3>0, <4>3, <4>4, <4>5, FatherFits
      <4> QED
        BY <4>6
    <3>2. CASE i # 1
      <4> PICK j : j = i + 1
        OBVIOUS
      <4>1. f = stack[j] /\ j \in DOMAIN stack /\ j # 1
        BY <1>3, <2>1
      <4>7. 2 \in DOMAIN stack /\ 2 < j
        BY <1>3, <2>1, <3>2, <4>1
      <4> PICK y : y = f.node
        OBVIOUS
      <4> PICK msg \in {"OPEN", "REQUEST"} : msg = f.message
        BY <2>1
      <4> PICK place : place = f.at
        OBVIOUS
      <4>2. /\ y \in Nodes \ {x} /\ place # "start"
            /\ Spot(y, msg, place) /\ Reading(y, msg, place)
        BY <4>1, FrameSpot
      <4>3. stack[2].node > y /\ y \in Nat
        BY <1>1, <1>4, <4>1, <4>7 DEF PathOK
      <4>4. \A l \in DOMAIN plan[y].sons : SonOf(plan, y, l) \in Nodes \ {x}
        <5>1. PICK k \in DOMAIN plan[stack[2].node].sons : x = SonOf(plan, stack[2].node, k)
          BY <1>3, <3>0
        <5>2. \A l \in DOMAIN plan[y].sons : SonOf(plan, y, l) = x => y = stack[2].node
          BY <1>1, <1>4, <4>2, <4>7, <5>1, NodesAndSons
        <5>3. y # stack[2].node
          BY <1>1, <1>4, <4>3, <4>7
        <5> QED
          BY <1>1, <4>2, <5>2, <5>3, NodesAndSons
      <4>5. Beside(y, owed, owed2, outer, outer)
        BY <1>6, <1>11, <4>2, <4>4 DEF Beside, SonState, Alone
      <4>6. outer[y] = CurrentOuter(y) /\ Fits(y, msg, place, owed, outer, << >>)
        BY <4>1 DEF Exact, AtWorkExact
      <4>8. Fits(y, msg, place, owed2, outer, << >>)'
        BY <1>1, <1>2, <4>2, <4>5, <4>6, FitsKept
      <4>9. CurrentOuter(y)' = CurrentOuter(y)
        BY <1>2, <4>1, OuterKept
      <4> QED
        BY <2>1, <3>2, <4>6, <4>8, <4>9
    <3> QED
      BY <3>1, <3>2
  <2> QED
    BY <2>1 DEF AtWorkExact
<1>13. IdleExact(owed2, outer)'
  <2> SUFFICES ASSUME NEW y \in Nodes, ~OnStack(y)', streams'[y] = "open"
               PROVE  Fits(y, "REQUEST", "start", owed2, outer, << >>)'
    BY <1>1 DEF IdleExact
  <2>1. CASE y = x
    <3>1. x # 1
      BY <1>5, <1>16, <2>1
    <3>2. After(message, status) = "open"
      BY <1>11, <2>1, <3>1
    <3> QED
      BY <2>1, <3>1, <3>2 DEF Delivers
  <2>2. CASE y # x
    <3>1. ~OnStack(y) /\ streams[y] = "open"
      BY <1>3, <1>11, <2>2
    <3>2. Spot(y, "REQUEST", "start") /\ Reading(y, "REQUEST", "start")
      BY <3>1, QuietSpot
    <3>3. \A l \in DOMAIN plan[y].sons : SonOf(plan, y, l) \in Nodes \ {x}
      <4> SUFFICES ASSUME NEW l \in DOMAIN plan[y].sons, SonOf(plan, y, l) = x PROVE FALSE
        BY <1>1, NodesAndSons
      <4>1. CASE Len(stack) # 1
        <5>1. 2 \in DOMAIN stack
          BY <1>3, <4>1
        <5>2. PICK k \in DOMAIN plan[stack[2].node].sons : x = SonOf(plan, stack[2].node, k)
          BY <1>3, <4>1
        <5>3. y = stack[2].node
          BY <1>1, <1>4, <5>1, <5>2, NodesAndSons
        <5> QED
          BY <3>1, <5>1, <5>3 DEF OnStack
      <4>2. CASE Len(stack) = 1
        <5>1. x # 1
          <6>1. x > y /\ y >= 1 /\ y \in Nat
            BY <1>1, NodesAndSons
          <6> QED
            BY <6>1
        <5>2. message = "CLOSEPROGRESS"
          BY <1>7, <4>2, <5>1
        <5>3. destroyed # 0
          BY <1>1, <1>3, <1>4, <4>2, <5>1, <5>2 DEF PathOK
        <5>4. destroyed > 0
          BY <1>1, <5>3 DEF EndOK
        <5> QED
          BY <1>1, <3>1, <5>4 DEF EndOK
      <4> QED
        BY <4>1, <4>2
    <3>4. Beside(y, owed, owed2, outer, outer)
      BY <1>6, <1>11, <2>2, <3>3 DEF Beside, SonState, Alone
    <3>5. Fits(y, "REQUEST", "start", owed, outer, << >>)
      BY <3>1 DEF Exact, IdleExact
    <3> QED
      BY <1>1, <1>2, <2>2, <3>2, <3>4, <3>5, FitsKept
  <2> QED
    BY <2>1, <2>2
<1>14. \A y \in Nodes : streams'[y] = "ended" => owed2[y] = << >>
  <2> SUFFICES ASSUME NEW y \in Nodes, streams'[y] = "ended" PROVE owed2[y] = << >>
    OBVIOUS
  <2>1. CASE y # x
    BY <1>6, <1>11, <2>1 DEF Exact
  <2>2. CASE y = x
    <3>1. x # 1
      BY <1>5, <1>16, <2>2
    <3>2. After(message, status) = "ended"
      BY <1>11, <2>2, <3>1
    <3>3. message = "REQUEST" /\ status # "YIELD"
      BY <3>2 DEF After
    <3> QED
      BY <1>6, <2>2, <3>3 DEF Delivers
  <2> QED
    BY <2>1, <2>2
<1>15. ResultExact(owed2)'
  <2>1. ResultExact(owed) /\ 1 \in Nodes
    BY <1>1, NodesAndSons DEF Exact
  <2>2. x = 1 => message # "REQUEST" /\ owed[1] = << >> /\ owed2[1] = << >>
    <3> SUFFICES ASSUME x = 1 PROVE message # "REQUEST" /\ owed[1] = << >> /\ owed2[1] = << >>
      OBVIOUS
    <3>1. message # "REQUEST"
      BY <1>1, <1>4, <1>16 DEF FramesOK, Asked
    <3> QED
      BY <1>6, <3>1 DEF Delivers
  <2>3. owed2[1] = owed[1]
    BY <1>6, <2>1, <2>2
  <2>4. stack' = << >> \/ destroyed' > 0 => owed2[1] = << >>
    <3>1. stack' = << >> => x = 1 \/ destroyed > 0
      <4>1. Len(stack) = 1 /\ x # 1 => destroyed # 0
        BY <1>1, <1>3, <1>4 DEF PathOK
      <4> QED
        BY <1>1, <1>3, <4>1 DEF EndOK
    <3> QED
      BY <1>5, <2>1, <2>2, <2>3, <3>1 DEF ResultExact
  <2> QED
    BY <1>1, <1>5, <2>1, <2>3, <2>4 DEF ResultExact
<1> QED
  BY <1>1, <1>6, <1>12, <1>13, <1>14, <1>15 DEF Exact, Ghosts

-----------------------------------------------------------------------------
(* The operator at the top.                                                *)

\* What the invariant says of the operator at the top.
TopKnows(x, message, at, owed, outer) ==
  /\ outer[x] = CurrentOuter(x) /\ outer[x] \in Attributes /\ OuterAttribute = outer[x]
  /\ owed[x] = Left(x, message, at, owed, outer, Came)
  /\ Linked(x, at, outer) /\ Begun(x, message, at)
  /\ at = "start" \/ ~Yielded => Came = << >>
  /\ at # "start" /\ Yielded => Came = <<Value(answer.tuple)>>
  /\ owed[x] \in Seq(Values)
  /\ \A k \in DOMAIN plan[x].sons : owed[SonOf(plan, x, k)] \in Seq(Values)

\* The operator at the top has to yield what its place says.
LEMMA AtTop ==
  ASSUME ProtocolInv, NEW owed, NEW outer, Exact(owed, outer),
         NEW op, NEW message \in {"OPEN", "REQUEST"}, NEW at, In(op, message, at), NEW x, x = n
  PROVE  TopKnows(x, message, at, owed, outer)
<1>1. stack # << >> /\ Top.message = message /\ Top.at = at /\ IsTree(plan)
  BY DEF In, ProtocolInv, ValuesOK
<1>2. /\ 1 \in DOMAIN stack /\ stack[1].node = x /\ stack[1].message = message
      /\ stack[1].at = at /\ x \in Nodes
  BY <1>1, StackNodes DEF n
<1>3. outer[x] = CurrentOuter(x) /\ Fits(x, message, at, owed, outer, Came)
  BY <1>2 DEF Exact, AtWorkExact
<1>4. owed \in [Nodes -> Seq(Values)] /\ outer \in [Nodes -> Attributes]
  BY DEF Exact, Ghosts
<1>5. \A k \in DOMAIN plan[x].sons : SonOf(plan, x, k) \in Nodes
  BY <1>1, <1>2, NodesAndSons
<1>6. OuterAttribute = CurrentOuter(x)
  BY DEF OuterAttribute, CurrentOuter, Passed, Outer
<1>7. /\ at = "start" \/ ~Yielded => Came = << >>
      /\ at # "start" /\ Yielded => Came = <<Value(answer.tuple)>>
  BY <1>1 DEF Came
<1>8. /\ owed[x] \in Seq(Values) /\ outer[x] \in Attributes
      /\ \A k \in DOMAIN plan[x].sons : owed[SonOf(plan, x, k)] \in Seq(Values)
  BY <1>2, <1>4, <1>5
<1> QED
  BY <1>3, <1>6, <1>7, <1>8 DEF Fits, TopKnows

\* A stream that has answered CANCEL owes nothing more.
LEMMA EndedOwes ==
  ASSUME ProtocolInv, NEW owed, NEW outer, Exact(owed, outer),
         NEW op, NEW message, NEW at, In(op, message, at), NEW x, x = n, ~Yielded,
         NEW k, Waits(op, message, at, k, "REQUEST")
  PROVE  owed[SonOf(plan, x, k)] = << >>
<1>1. at # "start"
  BY WaitsAt
<1>2. PICK l \in DOMAIN plan[x].sons, m \in {"OPEN", "REQUEST", "CLOSE"} :
        /\ Waits(op, message, at, l, m)
        /\ SonState(x, l) = After(m, answer.status) /\ Answers(m)
  BY <1>1, Begins
<1>3. l = k /\ m = "REQUEST"
  BY <1>2 DEF Waits
<1>4. streams[SonOf(plan, x, k)] = "ended"
  BY <1>2, <1>3 DEF After, Answers, Yielded, SonState
<1>5. SonOf(plan, x, k) \in Nodes
  BY <1>2, <1>3, Begins, NodesAndSons DEF ProtocolInv, ValuesOK
<1> QED
  BY <1>4, <1>5 DEF Exact

\* The stream that is called, by the invariant after the call.
LEMMA CallAsked ==
  ASSUME ProtocolInv, ProtocolInv', stack # << >>, NEW x, x = n, NEW k \in DOMAIN plan[x].sons,
         NEW m \in {"OPEN", "REQUEST", "CLOSE"}, NEW at \in Places, Push(Son(k), m, at),
         UNCHANGED streams
  PROVE  Asked(SonOf(plan, x, k), m)
<1> PICK z : z = SonOf(plan, x, k)
  OBVIOUS
<1>1. /\ DOMAIN stack' = 1 .. Len(stack) + 1 /\ stack'[1].node = z /\ stack'[1].message = m
      /\ Len(stack) \in Nat
  BY CallStack
<1>2. 1 \in DOMAIN stack'
  BY <1>1
<1>3. ASSUME NEW f, f = stack'[1] PROVE Asked(f.node, f.message)'
  BY <1>2, <1>3 DEF ProtocolInv, FramesOK
<1>4. Asked(z, m)'
  BY <1>1, <1>3
<1> QED
  BY <1>4 DEF Asked

\* A call that opens no stream.
LEMMA CallOn ==
  ASSUME ProtocolInv, TupleInv, ProtocolInv', NEW owed, NEW outer, Exact(owed, outer),
         NEW op, NEW message, NEW at, In(op, message, at), NEW x, x = n,
         Alone(x), Stays(x), HeapTyped(heap'),
         NEW k \in DOMAIN plan[x].sons, NEW m \in {"REQUEST", "CLOSE"}, NEW next,
         Call(Son(k), m, next), Waits(op, message, next, k, m),
         GoesOn(x, message, at, next, owed, outer)
  PROVE  Exact(owed, outer)'
<1>1. /\ stack # << >> /\ Top.message = message /\ Top.at = at /\ Op(x) = op
  BY DEF In, Op
<1>2. next \in Places
  BY DEF Waits, Places
<1>3. /\ UNCHANGED <<streams, endVars>> /\ Push(Son(k), m, next) /\ result' = result
  BY DEF Call
<1>4. Asked(SonOf(plan, x, k), m)
  BY <1>1, <1>2, <1>3, CallAsked
<1> PICK z : z = SonOf(plan, x, k)
  OBVIOUS
<1>5. Handing(x, z, m, owed, owed, outer, outer)
  BY DEF Handing
<1>6. /\ result' \in Seq(Values) /\ result' \o owed[1] = Meaning(plan)[1][0]
      /\ Ghosts(owed, outer)
  BY <1>3 DEF Exact, ResultExact
<1> QED
  BY <1>1, <1>3, <1>4, <1>5, <1>6, CallExact

\* A stream is opened for what its functions get.
Opens(z, owed, owed2, outer, outer2) ==
  /\ outer2 = [outer EXCEPT ![z] = CurrentOuter(z)']
  /\ owed2 = [owed EXCEPT ![z] = Meaning(plan)[z][CurrentOuter(z)']]

\* There are ghosts for a stream that is opened.
LEMMA OpensExist ==
  \A z, owed, outer : \E owed2, outer2 : Opens(z, owed, owed2, outer, outer2)
BY DEF Opens

\* They have their types.
LEMMA OpensGhosts ==
  ASSUME ProtocolInv, NEW x \in Nodes, Alone(x), NEW k \in DOMAIN plan[x].sons, NEW z,
         z = SonOf(plan, x, k), HeapTyped(heap'),
         NEW owed, NEW owed2, NEW outer, NEW outer2, Exact(owed, outer),
         Opens(z, owed, owed2, outer, outer2)
  PROVE  /\ Ghosts(owed2, outer2) /\ Handing(x, z, "OPEN", owed, owed2, outer, outer2)
         /\ owed2[x] = owed[x] /\ outer2[x] = outer[x] /\ owed2[1] = owed[1]
         /\ owed2[z] = Meaning(plan)[z][CurrentOuter(z)'] /\ owed2[z] \in Seq(Values)
         /\ \A l \in DOMAIN plan[x].sons \ {k} :
              owed2[SonOf(plan, x, l)] = owed[SonOf(plan, x, l)]
<1>1. IsTree(plan) /\ plan \in Plans
  BY DEF ProtocolInv, ValuesOK, Exact
<1>2. /\ z \in Nodes /\ z # x /\ z # 1
      /\ \A l \in DOMAIN plan[x].sons \ {k} : SonOf(plan, x, l) \in Nodes /\ SonOf(plan, x, l) # z
  <2>1. /\ z \in Nodes /\ z > x /\ Nodes = 1 .. Len(plan) /\ Len(plan) \in Nat
        /\ \A l \in DOMAIN plan[x].sons \ {k} : SonOf(plan, x, l) \in Nodes /\ SonOf(plan, x, l) # z
    BY <1>1, NodesAndSons
  <2> QED
    BY <2>1
<1>3. CurrentOuter(z)' \in Attributes
  BY CurrentTypedNext
<1>4. Meaning(plan)[z] \in [Attributes -> Seq(Values)]
  BY <1>1, <1>2, MeaningIs DEF Streams, Nodes
<1>5. owed \in [Nodes -> Seq(Values)] /\ outer \in [Nodes -> Attributes]
  BY DEF Exact, Ghosts
<1> PICK c \in Attributes : c = CurrentOuter(z)'
  BY <1>3
<1> PICK v \in Seq(Values) : v = Meaning(plan)[z][c]
  BY <1>4
<1>6. outer2 = [outer EXCEPT ![z] = c] /\ owed2 = [owed EXCEPT ![z] = v]
  BY DEF Opens
<1>7. Ghosts(owed2, outer2)
  BY <1>2, <1>5, <1>6 DEF Ghosts
<1>8. owed2[z] = v /\ outer2[z] = c
  BY <1>2, <1>5, <1>6
<1>9. \A y \in Nodes \ {z} : owed2[y] = owed[y] /\ outer2[y] = outer[y]
  BY <1>5, <1>6
<1>10. Handing(x, z, "OPEN", owed, owed2, outer, outer2)
  BY <1>8, <1>9 DEF Handing
<1>11. 1 \in Nodes
  BY <1>1, NodesAndSons
<1> QED
  BY <1>2, <1>7, <1>8, <1>9, <1>10, <1>11

\* A call that opens a stream.
LEMMA CallOpen ==
  ASSUME ProtocolInv, TupleInv, ProtocolInv', NEW owed, NEW outer, Exact(owed, outer),
         NEW op, NEW message, NEW at, In(op, message, at), NEW x, x = n,
         Alone(x), Stays(x), HeapTyped(heap'),
         NEW k \in DOMAIN plan[x].sons, NEW next,
         Push(Son(k), "OPEN", next), UNCHANGED <<streams, result, endVars>>,
         Waits(op, message, next, k, "OPEN"), NEW z, z = SonOf(plan, x, k),
         NEW owed2, NEW outer2, Opens(z, owed, owed2, outer, outer2),
         GoesOn(x, message, at, next, owed2, outer2)
  PROVE  Exact(owed2, outer2)'
<1>1. /\ stack # << >> /\ Top.message = message /\ Top.at = at /\ Op(x) = op /\ x \in Nodes
  BY StackNodes DEF In, Op
<1>2. next \in Places
  BY DEF Waits, Places
<1>3. UNCHANGED <<streams, endVars>> /\ result' = result
  OBVIOUS
<1>4. Asked(z, "OPEN")
  BY <1>1, <1>2, <1>3, CallAsked
<1>5. /\ Ghosts(owed2, outer2) /\ Handing(x, z, "OPEN", owed, owed2, outer, outer2)
      /\ owed2[1] = owed[1]
  BY <1>1, OpensGhosts
<1>6. result' \in Seq(Values) /\ result' \o owed2[1] = Meaning(plan)[1][0]
  BY <1>3, <1>5 DEF Exact, ResultExact
<1> QED
  BY <1>1, <1>3, <1>4, <1>5, <1>6, CallExact

\* There are ghosts by which everybody owes what the tree means.
Known == \E owed, outer : Exact(owed, outer)

\* To show that the answer is known after a step, show ghosts.
LEMMA KnownNext ==
  ASSUME NEW owed, NEW outer, Exact(owed, outer)'
  PROVE  Known'
BY DEF Known

\* A loopjoin that returns with its function open reads what it has passed.
Ready(x, at) ==
  Op(x) = "loopjoin" /\ SonState(x, 2) = "open" =>
    at \in {"start", "inner", "function"} /\ Passed(x)' = Passed(x)

\* An operator that returns fits its place between two requests.
LEMMA FitsReturned ==
  ASSUME ProtocolInv, NEW x \in Nodes, x = n, Op(x) # "consume",
         NEW status, NEW tuple, Return(status, tuple),
         NEW at, NEW outer, Linked(x, at, outer), Ready(x, at),
         NEW owed2, owed2[x] = Left(x, "REQUEST", "start", owed2, outer, << >>)'
  PROVE  Fits(x, "REQUEST", "start", owed2, outer, << >>)'
<1>1. /\ plan' = plan /\ Op(x)' = Op(x)
      /\ \A k \in DOMAIN plan[x].sons : SonState(x, k)' = SonState(x, k)
  BY Returned
<1>2. \A k \in DOMAIN plan[x].sons : Link(x, k, "start", outer)'
  BY <1>1 DEF Linked, Link, Ready
<1>3. Linked(x, "start", outer)'
  BY <1>1, <1>2 DEF Linked
<1>4. Begun(x, "REQUEST", "start")'
  BY DEF Begun
<1> QED
  BY <1>3, <1>4 DEF Fits

\* The root is a consume, and nothing else is.
LEMMA ConsumeFirst ==
  ASSUME ProtocolInv, NEW x \in Nodes
  PROVE  Op(x) = "consume" <=> x = 1
BY SonsOf DEF ProtocolInv, ValuesOK

\* A return without a tuple.
LEMMA ReturnQuiet ==
  ASSUME ProtocolInv, TupleInv, NEW owed, NEW outer, Exact(owed, outer),
         NEW op, NEW message, NEW at, In(op, message, at), NEW x, x = n,
         Alone(x), Stays(x), HeapTyped(heap'),
         NEW status, status # "YIELD", NEW tuple, Return(status, tuple),
         IF message = "REQUEST" THEN status = "CANCEL" ELSE status = "OK",
         message = "REQUEST" \/ op = "consume" => owed[x] = << >>,
         message = "OPEN" /\ op # "consume" =>
           Ready(x, at) /\ owed[x] = Left(x, "REQUEST", "start", owed, outer, << >>)'
  PROVE  Exact(owed, outer)'
<1>1. stack # << >> /\ Top.message = message /\ Op(x) = op /\ x \in Nodes
  BY Begins
<1>2. owed \in [Nodes -> Seq(Values)]
  BY DEF Exact, Ghosts
<1> PICK rest : rest = owed[x]
  OBVIOUS
<1>3. owed = [owed EXCEPT ![x] = rest] /\ rest \in Seq(Values)
  BY <1>1, <1>2
<1>4. x = 1 <=> op = "consume"
  BY <1>1, ConsumeFirst
<1>5. ASSUME x # 1, After(message, status) = "open"
      PROVE  Fits(x, "REQUEST", "start", owed, outer, << >>)'
  <2>1. message = "OPEN" /\ op # "consume"
    BY <1>4, <1>5 DEF After
  <2>2. Linked(x, at, outer)
    BY <2>1, AtTop DEF TopKnows
  <2> QED
    BY <1>1, <2>1, <2>2, FitsReturned
<1>6. Delivers(x, message, status, tuple, owed, owed, outer, rest)
  BY <1>3, <1>4, <1>5 DEF Delivers
<1> QED
  BY <1>1, <1>6, ReturnExact

\* A return with a tuple.
LEMMA ReturnYield ==
  ASSUME ProtocolInv, TupleInv, NEW owed, NEW outer, Exact(owed, outer),
         NEW op, op # "consume", NEW at, In(op, "REQUEST", at), NEW x, x = n,
         Alone(x), Stays(x), HeapTyped(heap'),
         NEW tuple, Return("YIELD", tuple), Ready(x, at),
         NEW value \in Values, Value(tuple)' = value,
         NEW rest \in Seq(Values), owed[x] = <<value>> \o rest,
         NEW owed2, owed2 = [owed EXCEPT ![x] = rest],
         rest = Left(x, "REQUEST", "start", owed2, outer, << >>)'
  PROVE  Exact(owed2, outer)'
<1>1. stack # << >> /\ Top.message = "REQUEST" /\ Op(x) = op /\ x \in Nodes
  BY Begins
<1>2. owed \in [Nodes -> Seq(Values)]
  BY DEF Exact, Ghosts
<1>3. owed2[x] = rest
  BY <1>1, <1>2
<1>4. x # 1
  BY <1>1, ConsumeFirst
<1>5. Linked(x, at, outer)
  BY AtTop DEF TopKnows
<1>6. Fits(x, "REQUEST", "start", owed2, outer, << >>)'
  BY <1>1, <1>3, <1>5, FitsReturned
<1>7. Delivers(x, "REQUEST", "YIELD", tuple, owed, owed2, outer, rest)
  BY <1>4, <1>6 DEF Delivers
<1> QED
  BY <1>1, <1>7, ReturnExact

\* A stream that is being closed owes nothing that matters.
LEMMA Closing ==
  ASSUME ProtocolInv, TupleInv, ProtocolInv', NEW owed, NEW outer, Exact(owed, outer),
         NEW op, op # "consume", NEW message \in {"CLOSE", "CLOSEPROGRESS"}, NEW at,
         In(op, message, at), NEW x, x = n, Alone(x), Stays(x), HeapTyped(heap'),
         \/ Return("OK", None)
         \/ \E k \in DOMAIN plan[x].sons : \E next :
              Call(Son(k), "CLOSE", next) /\ Waits(op, message, next, k, "CLOSE")
  PROVE  Known'
<1>1. CASE Return("OK", None)
  <2>1. Exact(owed, outer)'
    BY <1>1, ReturnQuiet
  <2> QED
    BY <2>1, KnownNext
<1>2. ASSUME NEW k \in DOMAIN plan[x].sons, NEW next,
             Call(Son(k), "CLOSE", next), Waits(op, message, next, k, "CLOSE")
      PROVE  Known'
  <2>1. GoesOn(x, message, at, next, owed, outer)
    BY DEF GoesOn
  <2>2. Exact(owed, outer)'
    BY <1>2, <2>1, CallOn
  <2> QED
    BY <2>2, KnownNext
<1> QED
  BY <1>1, <1>2

\* What a son that has been opened owes.
SonOpened(x, k, z, owed, owed2, outer, outer2) ==
  /\ owed2[x] = owed[x] /\ outer2[x] = outer[x] /\ owed2[z] \in Seq(Values)
  /\ owed2[z] = Meaning(plan)[z][IF Op(x) = "loopjoin" /\ k = 2 THEN Passed(x)' ELSE outer[x]]
  /\ \A l \in DOMAIN plan[x].sons \ {k} : owed2[SonOf(plan, x, l)] = owed[SonOf(plan, x, l)]

\* Opening a son gives it what it means, and leaves the others.
LEMMA OpenedSon ==
  ASSUME ProtocolInv, TupleInv, NEW owed, NEW outer, Exact(owed, outer),
         NEW op, NEW message \in {"OPEN", "REQUEST"}, NEW at, In(op, message, at), NEW x, x = n,
         Alone(x), Stays(x), HeapTyped(heap'),
         NEW k \in DOMAIN plan[x].sons, NEW z, z = SonOf(plan, x, k),
         NEW owed2, NEW outer2, Opens(z, owed, owed2, outer, outer2)
  PROVE  SonOpened(x, k, z, owed, owed2, outer, outer2)
<1>1. /\ stack # << >> /\ Top.message = message /\ Op(x) = op /\ x \in Nodes
      /\ IsTree(plan) /\ plan' = plan
  BY Begins DEF ProtocolInv, ValuesOK, Alone
<1>2. 1 \in DOMAIN stack /\ stack[1].node = x /\ stack[1].message = message
  BY <1>1, StackNodes DEF n
<1>3. SameValues(x)
  BY <1>1, OthersSame
<1>4. CurrentOuter(x)' = CurrentOuter(x)
  BY <1>1, <1>2, <1>3, OuterKept
<1>5. outer[x] = CurrentOuter(x)
  BY AtTop DEF TopKnows
<1>6. CurrentOuter(z)' = IF op = "loopjoin" /\ k = 2 THEN Passed(x)' ELSE outer[x]
  BY <1>1, <1>4, <1>5, SonsOuterNext
<1>7. /\ owed2[x] = owed[x] /\ outer2[x] = outer[x] /\ owed2[z] \in Seq(Values)
      /\ owed2[z] = Meaning(plan)[z][CurrentOuter(z)']
      /\ \A l \in DOMAIN plan[x].sons \ {k} :
              owed2[SonOf(plan, x, l)] = owed[SonOf(plan, x, l)]
  BY <1>1, OpensGhosts
<1> QED
  BY <1>1, <1>6, <1>7 DEF SonOpened

\* What Set, KeepLocal, Return and Call change.
LEMMA Moves ==
  ASSUME ProtocolInv, NEW x \in Nodes, x = n
  PROVE  /\ \A info : Set(info) => local'[x] = info
         /\ KeepLocal => local'[x] = local[x]
         /\ \A status, tuple : Return(status, tuple) =>
              plan' = plan /\ argument' = argument /\ result' = result
         /\ \A z, m, at : Call(z, m, at) =>
              /\ plan' = plan /\ argument' = argument /\ Push(z, m, at)
              /\ UNCHANGED <<streams, result, endVars>>
<1>1. DOMAIN local = Nodes
  BY DEF ProtocolInv, ValuesOK
<1> QED
  BY <1>1 DEF Set, KeepLocal, Return, Call, treeVars

\* A step that leaves the heap is nobody else's business.
LEMMA Quietly ==
  ASSUME ProtocolInv, NEW owed, NEW outer, Exact(owed, outer), NEW x, x = n,
         KeepLocal \/ (\E info : Set(info)), UNCHANGED heap, plan' = plan, argument' = argument
  PROVE  /\ Alone(x) /\ Stays(x) /\ HeapTyped(heap') /\ Passed(x)' = Passed(x)
         /\ \A t : Value(t)' = Value(t)
<1>1. Alone(x)
  BY StaysAlone
<1>2. Stays(x) /\ HeapTyped(heap') /\ \A t : Value(t)' = Value(t)
  BY UnchangedHeap DEF Exact
<1>3. Passed(x)' = Passed(x)
  BY <1>2 DEF Passed
<1> QED
  BY <1>1, <1>2, <1>3

\* What a node owes when its stream is to be opened.
LEMMA ToOpen ==
  ASSUME ProtocolInv, NEW owed, NEW outer, Exact(owed, outer),
         NEW op, In(op, "OPEN", "start"), NEW x, x = n
  PROVE  /\ owed[x] = Promised(plan, Meaning(plan), x, outer[x])
         /\ outer[x] \in Attributes /\ x \in Nodes /\ Op(x) = op
         /\ \A k \in DOMAIN plan[x].sons : Meaning(plan)[SonOf(plan, x, k)] \in [Attributes -> Seq(Values)]
<1>1. /\ plan \in Plans /\ IsTree(plan) /\ x \in Nodes /\ Op(x) = op
      /\ \A k \in DOMAIN plan[x].sons : SonOf(plan, x, k) \in Nodes
  BY Begins, NodesAndSons DEF ProtocolInv, ValuesOK, Exact
<1>2. owed[x] = Left(x, "OPEN", "start", owed, outer, Came) /\ outer[x] \in Attributes
  <2>1. TopKnows(x, "OPEN", "start", owed, outer)
    BY AtTop
  <2> QED
    BY <2>1 DEF TopKnows
<1>3. owed[x] = Meaning(plan)[x][outer[x]]
  BY <1>2 DEF Left, LeftOf
<1> QED
  BY <1>1, <1>2, <1>3, MeaningIs DEF Nodes, Streams

\* The local information of a feed is some.
LEMMA FeedInfo ==
  ASSUME NEW next \in Nat \ {0}
  PROVE  [next |-> next] # None
<1>1. [next |-> next] \in [next : Tuples]
  BY DEF Tuples
<1> QED
  BY <1>1, Locals

\* The rest of a relation begins with its next value.
LEMMA RestFirst ==
  ASSUME NEW values \in Seq(Values), NEW k \in Nat \ {0}, k <= Len(values),
         NEW after, after = k + 1, NEW value, value = values[k],
         NEW rest, rest = SubSeq(values, after, Len(values))
  PROVE  /\ SubSeq(values, k, Len(values)) = <<value>> \o rest
         /\ rest \in Seq(Values) /\ value \in Values /\ after \in Nat \ {0}
<1>1. SubSeq(values, k, Len(values)) = <<values[k]>> \o SubSeq(values, k + 1, Len(values))
  BY RestOf
<1>2. after \in Nat \ {0} /\ k \in 1 .. Len(values)
  BY LenProperties
<1>3. rest \in Seq(Values)
  BY <1>2, RestOf
<1> QED
  BY <1>1, <1>2, <1>3, ElementOfSeq

\* What a feed owes is the rest of its relation.
LEMMA FeedLeft ==
  ASSUME plan' = plan, NEW x, Op(x) = "feed", NEW place, local'[x] = [next |-> place],
         local'[x] # None, NEW owed, NEW outer
  PROVE  Left(x, "REQUEST", "start", owed, outer, << >>)' =
           SubSeq(plan[x].relation, place, Len(plan[x].relation))
<1>1. Op(x)' = "feed"
  BY DEF Op
<1>2. local'[x].next = place
  OBVIOUS
<1> QED
  BY <1>1, <1>2 DEF Left, LeftOf

\* Each step of a feed keeps the invariant.
LEMMA FeedAnswers ==
  ASSUME ProtocolInv, TupleInv, ProtocolInv', Known, Feed
  PROVE  Known'
<1> PICK x : x = n
  OBVIOUS
<1> PICK owed, outer : Exact(owed, outer)
  BY DEF Known
<1>0. None \notin DOMAIN heap
  BY Locals DEF TupleInv, OneHolder, HeapFine
<1>1. CASE In("feed", "OPEN", "start") /\ Set([next |-> 1]) /\ KeepTuples /\ Return("OK", None)
  <2>1. /\ owed[x] = Promised(plan, Meaning(plan), x, outer[x]) /\ x \in Nodes
        /\ Op(x) = "feed" /\ plan \in Plans
    BY <1>1, ToOpen DEF Exact
  <2>2. owed[x] = plan[x].relation /\ plan[x].relation \in Seq(Values)
    BY <2>1, AttributeAssumption DEF Promised, Op, Nodes
  <2>3. SubSeq(plan[x].relation, 1, Len(plan[x].relation)) = plan[x].relation
    BY <2>2, RestOf
  <2>4. [next |-> 1] # None
    BY FeedInfo
  <2>5. /\ plan' = plan /\ argument' = argument /\ local'[x] = [next |-> 1]
        /\ local'[x] # None
    BY <1>1, <2>1, <2>4, Moves
  <2>6. Alone(x) /\ Stays(x) /\ HeapTyped(heap')
    BY <1>1, <2>5, Quietly DEF KeepTuples
  <2>7. owed[x] = Left(x, "REQUEST", "start", owed, outer, << >>)'
    <3>1. Left(x, "REQUEST", "start", owed, outer, << >>)' =
            SubSeq(plan[x].relation, 1, Len(plan[x].relation))
      BY <2>1, <2>5, FeedLeft
    <3> QED
      BY <2>2, <2>3, <3>1
  <2>8. Ready(x, "start")
    BY <2>1 DEF Ready
  <2>9. Exact(owed, outer)'
    BY <1>1, <2>6, <2>7, <2>8, ReturnQuiet
  <2> QED
    BY <2>9, KnownNext
<1>2. CASE /\ In("feed", "REQUEST", "start")
           /\ local[n] # None /\ local[n].next <= Len(plan[n].relation)
           /\ Set([next |-> local[n].next + 1])
           /\ YieldNew(plan[n].relation[local[n].next], None)
  <2>1. x \in Nodes /\ Op(x) = "feed" /\ plan \in Plans /\ local[x] \in LocalOf["feed"]
    BY <1>2, Begins DEF Exact
  <2>2. PICK rel \in Seq(Values) : rel = plan[x].relation
    BY <2>1, AttributeAssumption DEF Op, Nodes
  <2>3. PICK place \in Nat \ {0} : place = local[x].next
    BY <2>1, Locals DEF Tuples
  <2>4. PICK after : after = place + 1
    OBVIOUS
  <2>5. PICK value : value = rel[place]
    OBVIOUS
  <2>6. PICK rest : rest = SubSeq(rel, after, Len(rel))
    OBVIOUS
  <2>7. /\ place <= Len(rel) /\ Set([next |-> after]) /\ YieldNew(value, None)
        /\ local[x] # None
    BY <1>2, <2>2, <2>3, <2>4, <2>5
  <2>8. /\ SubSeq(rel, place, Len(rel)) = <<value>> \o rest
        /\ rest \in Seq(Values) /\ value \in Values /\ after \in Nat \ {0}
    BY <2>4, <2>5, <2>6, <2>7, RestFirst
  <2>9. owed[x] = <<value>> \o rest
    <3>1. TopKnows(x, "REQUEST", "start", owed, outer)
      BY <1>2, AtTop
    <3>2. owed[x] = Left(x, "REQUEST", "start", owed, outer, Came)
      BY <3>1 DEF TopKnows
    <3>3. owed[x] = SubSeq(plan[x].relation, local[x].next, Len(plan[x].relation))
      BY <2>1, <2>7, <3>2 DEF Left, LeftOf
    <3> QED
      BY <2>2, <2>3, <2>8, <3>3
  <2>10. PICK w \in Tuples : /\ Return("YIELD", w) /\ Value(w)' = value
                             /\ \A t \in DOMAIN heap \ {None} : Value(t)' = Value(t)
                             /\ HeapTyped(heap) /\ value \in Values => HeapTyped(heap')
    BY <2>7, WithNew
  <2>11. /\ plan' = plan /\ argument' = argument /\ local'[x] = [next |-> after]
         /\ local'[x] # None
    BY <2>1, <2>7, <2>8, <2>10, Moves, FeedInfo
  <2>12. Alone(x) /\ Stays(x) /\ HeapTyped(heap')
    <3>1. Alone(x)
      BY <2>7, <2>11, StaysAlone
    <3>2. HeapTyped(heap)
      BY DEF Exact
    <3> QED
      BY <1>0, <2>8, <2>10, <3>1, <3>2 DEF Stays
  <2>13. PICK owed2 : owed2 = [owed EXCEPT ![x] = rest]
    OBVIOUS
  <2>14. rest = Left(x, "REQUEST", "start", owed2, outer, << >>)'
    <3>1. Left(x, "REQUEST", "start", owed2, outer, << >>)' =
            SubSeq(plan[x].relation, after, Len(plan[x].relation))
      BY <2>1, <2>11, FeedLeft
    <3> QED
      BY <2>2, <2>6, <3>1
  <2>15. Ready(x, "start")
    BY <2>1 DEF Ready
  <2>16. Exact(owed2, outer)'
    BY <1>2, <2>8, <2>9, <2>10, <2>12, <2>13, <2>14, <2>15, ReturnYield
  <2> QED
    BY <2>16, KnownNext
<1>3. CASE /\ In("feed", "REQUEST", "start")
           /\ ~(local[n] # None /\ local[n].next <= Len(plan[n].relation))
           /\ KeepLocal /\ KeepTuples /\ Return("CANCEL", None)
  <2>1. x \in Nodes /\ Op(x) = "feed" /\ plan \in Plans /\ local[x] \in LocalOf["feed"] \cup {None}
    BY <1>3, Begins DEF Exact
  <2>2. owed[x] = << >>
    <3>0. TopKnows(x, "REQUEST", "start", owed, outer)
      BY <1>3, AtTop
    <3>1. owed[x] = Left(x, "REQUEST", "start", owed, outer, Came)
      BY <3>0 DEF TopKnows
    <3>2. owed[x] = IF local[x] = None THEN << >>
                    ELSE SubSeq(plan[x].relation, local[x].next, Len(plan[x].relation))
      BY <2>1, <3>1 DEF Left, LeftOf
    <3>3. plan[x].relation \in Seq(Values)
      BY <2>1, AttributeAssumption DEF Op, Nodes
    <3>4. local[x] # None => local[x].next \in Nat \ {0} /\ local[x].next > Len(plan[x].relation)
      <4>1. local[x] # None => local[x].next \in Nat \ {0}
        BY <2>1, Locals DEF Tuples
      <4>2. Len(plan[x].relation) \in Nat
        BY <3>3, LenProperties
      <4> QED
        BY <1>3, <4>1, <4>2
    <3> QED
      BY <3>2, <3>3, <3>4, RestOf
  <2>3. plan' = plan /\ argument' = argument
    BY <1>3, <2>1, Moves
  <2>4. Alone(x) /\ Stays(x) /\ HeapTyped(heap')
    BY <1>3, <2>3, Quietly DEF KeepTuples
  <2>5. Exact(owed, outer)'
    BY <1>3, <2>2, <2>4, ReturnQuiet
  <2> QED
    BY <2>5, KnownNext
<1>4. CASE In("feed", "CLOSE", "start") /\ Set(None) /\ KeepTuples /\ Return("OK", None)
  <2>1. x \in Nodes
    BY <1>4, Begins
  <2>2. plan' = plan /\ argument' = argument
    BY <1>4, <2>1, Moves
  <2>3. Alone(x) /\ Stays(x) /\ HeapTyped(heap')
    BY <1>4, <2>2, Quietly DEF KeepTuples
  <2> QED
    BY <1>4, <2>3, Closing
<1> QED
  BY <1>1, <1>2, <1>3, <1>4 DEF Feed

\* Steps that leave the tuples where they are.
LEMMA GoOn ==
  ASSUME ProtocolInv, TupleInv, ProtocolInv', NEW owed, NEW outer, Exact(owed, outer),
         NEW op, NEW message, NEW at, In(op, message, at), NEW x, x = n,
         KeepLocal \/ (\E info : Set(info)), UNCHANGED heap,
         NEW k \in DOMAIN plan[x].sons, NEW m \in {"REQUEST", "CLOSE"}, NEW next,
         Call(Son(k), m, next), Waits(op, message, next, k, m),
         GoesOn(x, message, at, next, owed, outer)
  PROVE  Known'
<1>1. x \in Nodes
  BY Begins
<1>2. plan' = plan /\ argument' = argument
  BY <1>1, Moves
<1>3. Alone(x) /\ Stays(x) /\ HeapTyped(heap')
  BY <1>2, Quietly
<1>4. Exact(owed, outer)'
  BY <1>3, CallOn
<1> QED
  BY <1>4, KnownNext

\* A call for OPEN that leaves the tuples where they are.
LEMMA GoOpen ==
  ASSUME ProtocolInv, TupleInv, ProtocolInv', NEW owed, NEW outer, Exact(owed, outer),
         NEW op, NEW message, NEW at, In(op, message, at), NEW x, x = n,
         KeepLocal \/ (\E info : Set(info)), UNCHANGED heap,
         NEW k \in DOMAIN plan[x].sons, NEW next,
         Call(Son(k), "OPEN", next), Waits(op, message, next, k, "OPEN"),
         NEW z, z = SonOf(plan, x, k),
         NEW owed2, NEW outer2, Opens(z, owed, owed2, outer, outer2),
         GoesOn(x, message, at, next, owed2, outer2)
  PROVE  Known'
<1>1. x \in Nodes
  BY Begins
<1>2. /\ plan' = plan /\ argument' = argument /\ Push(Son(k), "OPEN", next)
      /\ UNCHANGED <<streams, result, endVars>>
  BY <1>1, Moves
<1>3. Alone(x) /\ Stays(x) /\ HeapTyped(heap')
  BY <1>2, Quietly
<1>4. Exact(owed2, outer2)'
  BY <1>2, <1>3, CallOpen
<1> QED
  BY <1>4, KnownNext

\* A return without a tuple, by a step that leaves the tuples alone.
LEMMA EndsQuietly ==
  ASSUME ProtocolInv, TupleInv, NEW owed, NEW outer, Exact(owed, outer),
         NEW op, NEW message, NEW at, In(op, message, at), NEW x, x = n,
         KeepLocal \/ (\E info : Set(info)), UNCHANGED heap,
         NEW status, status # "YIELD", NEW tuple, Return(status, tuple),
         IF message = "REQUEST" THEN status = "CANCEL" ELSE status = "OK",
         message = "REQUEST" \/ op = "consume" => owed[x] = << >>,
         message = "OPEN" /\ op # "consume" =>
           Ready(x, at) /\ owed[x] = Left(x, "REQUEST", "start", owed, outer, << >>)'
  PROVE  Known'
<1>1. x \in Nodes
  BY Begins
<1>2. plan' = plan /\ argument' = argument
  BY <1>1, Moves
<1>3. Alone(x) /\ Stays(x) /\ HeapTyped(heap')
  BY <1>2, Quietly
<1>4. Exact(owed, outer)'
  BY <1>3, ReturnQuiet
<1> QED
  BY <1>4, KnownNext

\* The end of a CLOSE.
LEMMA ClosesQuietly ==
  ASSUME ProtocolInv, TupleInv, ProtocolInv', Known,
         NEW op, op # "consume", NEW message \in {"CLOSE", "CLOSEPROGRESS"}, NEW at,
         In(op, message, at), KeepLocal \/ (\E info : Set(info)), UNCHANGED heap,
         \/ Return("OK", None)
         \/ \E k \in DOMAIN plan[n].sons : \E next :
              Call(Son(k), "CLOSE", next) /\ Waits(op, message, next, k, "CLOSE")
  PROVE  Known'
<1>0. PICK x : x = n
  OBVIOUS
<1>1. PICK owed, outer : Exact(owed, outer)
  BY DEF Known
<1>2. x \in Nodes
  BY <1>0, Begins
<1>3. plan' = plan /\ argument' = argument
  BY <1>0, <1>2, Moves
<1>4. Alone(x) /\ Stays(x) /\ HeapTyped(heap')
  BY <1>0, <1>1, <1>3, Quietly
<1> QED
  BY <1>0, <1>1, <1>4, Closing

\* The value that has come.
LEMMA CameValue ==
  ASSUME NEW owed, NEW outer, Exact(owed, outer)
  PROVE  \A t : Value(t) \in Values /\ Attribute(Value(t)) \in Attributes
BY OuterTyped DEF Exact

\* A node yields the tuple that has come.
LEMMA PassesOn ==
  ASSUME ProtocolInv, TupleInv, NEW owed, NEW outer, Exact(owed, outer),
         NEW op, op # "consume", op # "loopjoin", NEW at, In(op, "REQUEST", at), NEW x, x = n,
         KeepLocal \/ (\E info : Set(info)), UNCHANGED heap, Return("YIELD", answer.tuple),
         NEW value, value = Value(answer.tuple), NEW rest \in Seq(Values), owed[x] = <<value>> \o rest,
         NEW owed2, owed2 = [owed EXCEPT ![x] = rest],
         rest = Left(x, "REQUEST", "start", owed2, outer, << >>)'
  PROVE  Known'
<1>1. x \in Nodes /\ Op(x) = op
  BY Begins
<1>2. plan' = plan /\ argument' = argument
  BY <1>1, Moves
<1>3. /\ Alone(x) /\ Stays(x) /\ HeapTyped(heap') /\ \A t : Value(t)' = Value(t)
  BY <1>2, Quietly
<1>4. PICK t : t = answer.tuple
  OBVIOUS
<1>5. Return("YIELD", t) /\ Value(t)' = value /\ value \in Values
  BY <1>3, <1>4, CameValue
<1>6. Ready(x, at)
  BY <1>1 DEF Ready
<1>7. Exact(owed2, outer)'
  BY <1>3, <1>5, <1>6, ReturnYield
<1> QED
  BY <1>7, KnownNext

\* The sons of a node that yields owe what they owed.
LEMMA SonsOwe ==
  ASSUME ProtocolInv, NEW owed, NEW outer, Exact(owed, outer), NEW x \in Nodes,
         NEW rest, NEW owed2, owed2 = [owed EXCEPT ![x] = rest]
  PROVE  \A k \in DOMAIN plan[x].sons : owed2[SonOf(plan, x, k)] = owed[SonOf(plan, x, k)]
<1>1. \A k \in DOMAIN plan[x].sons : SonOf(plan, x, k) \in Nodes \ {x}
  BY NodesAndSons DEF ProtocolInv, ValuesOK
<1>2. owed \in [Nodes -> Seq(Values)]
  BY DEF Exact, Ghosts
<1> QED
  BY <1>1, <1>2

\* Steps that delete the tuple that has come.
LEMMA TakesAway ==
  ASSUME ProtocolInv, TupleInv, NEW owed, NEW outer, Exact(owed, outer),
         NEW op, NEW message, NEW at, In(op, message, at), at # "start", Yielded, NEW x, x = n,
         KeepLocal \/ (\E info : Set(info)), heap' = Without(heap, answer.tuple),
         plan' = plan, argument' = argument
  PROVE  Alone(x) /\ Stays(x) /\ HeapTyped(heap')
<1>1. Alone(x)
  BY StaysAlone
<1>2. PICK u : u = answer.tuple
  OBVIOUS
<1>3. Given = {u}
  BY <1>2, TakesAnswer
<1>4. (\A t : t # u => Value(t)' = Value(t)) /\ (HeapTyped(heap) => HeapTyped(heap'))
  BY <1>2, WithoutOne
<1> QED
  BY <1>1, <1>3, <1>4 DEF Stays, Exact

\* Nothing has come if the node has not asked for it.
LEMMA NoneCame ==
  ASSUME ProtocolInv, NEW op, NEW message, NEW at, In(op, message, at), at # "start",
         \A k : ~Waits(op, message, at, k, "REQUEST")
  PROVE  ~Yielded
<1>1. PICK k, m : Waits(op, message, at, k, m) /\ Answers(m)
  BY Begins
<1>2. m # "REQUEST"
  BY <1>1
<1> QED
  BY <1>1, <1>2 DEF Answers, Yielded

\* The operators with one son.
LEMMA UnaryLeft ==
  ASSUME NEW x, NEW message, NEW at, ~(message = "OPEN" /\ at = "start"),
         NEW owed, NEW outer, NEW came, NEW s, s = SonOf(plan, x, 1),
         NEW left, left = Left(x, message, at, owed, outer, came)
  PROVE  /\ Op(x) = "filter" => left = Filtered(plan[x], outer[x], came \o owed[s])
         /\ Op(x) = "head" => left = FirstOf(came \o owed[s], local[x].most - local[x].taken)
         /\ Op(x) = "cancel" => left = Until(plan[x], outer[x], came \o owed[s])
BY DEF Left, LeftOf

\* The same after the step.
LEMMA UnaryLeftNext ==
  ASSUME plan' = plan, NEW x, NEW message, NEW at, ~(message = "OPEN" /\ at = "start"),
         NEW owed, NEW outer, owed[SonOf(plan, x, 1)] \in Seq(Values),
         NEW s, s = SonOf(plan, x, 1),
         NEW left, left = Left(x, message, at, owed, outer, << >>)'
  PROVE  /\ Op(x) = "filter" => left = Filtered(plan[x], outer[x], owed[s])
         /\ Op(x) = "head" => left = FirstOf(owed[s], local'[x].most - local'[x].taken)
         /\ Op(x) = "cancel" => left = Until(plan[x], outer[x], owed[s])
<1>1. << >> \o owed[s] = owed[s]
  BY NothingBefore
<1>2. Op(x)' = Op(x)
  BY DEF Op
<1> QED
  BY <1>1, <1>2 DEF Left, LeftOf

\* The value that the operator at the top has got, at its place.
Coming(at, came) ==
  came = IF at = "start" \/ ~Yielded THEN << >> ELSE <<Value(answer.tuple)>>

\* What an operator with one son owes when its son has answered.
LEMMA UnaryOwes ==
  ASSUME ProtocolInv, NEW owed, NEW outer, Exact(owed, outer),
         NEW op \in {"filter", "head", "cancel"},
         NEW message \in {"OPEN", "REQUEST"}, NEW at, In(op, message, at), NEW x, x = n,
         ~(message = "OPEN" /\ at = "start"), NEW s, s = SonOf(plan, x, 1),
         NEW came, Coming(at, came)
  PROVE  /\ x \in Nodes /\ Op(x) = op /\ owed[s] \in Seq(Values) /\ owed[x] \in Seq(Values)
         /\ outer[x] \in Attributes /\ OuterAttribute = outer[x] /\ 1 \in DOMAIN plan[x].sons
         /\ op = "filter" => owed[x] = Filtered(plan[x], outer[x], came \o owed[s])
         /\ op = "head" => owed[x] = FirstOf(came \o owed[s], local[x].most - local[x].taken)
         /\ op = "cancel" => owed[x] = Until(plan[x], outer[x], came \o owed[s])
<1>1. x \in Nodes /\ Op(x) = op /\ 1 \in DOMAIN plan[x].sons
  BY Begins
<1>2. TopKnows(x, message, at, owed, outer)
  BY AtTop
<1>3. /\ owed[s] \in Seq(Values) /\ owed[x] \in Seq(Values) /\ came = Came
      /\ outer[x] \in Attributes /\ OuterAttribute = outer[x]
      /\ owed[x] = Left(x, message, at, owed, outer, Came)
  BY <1>1, <1>2 DEF TopKnows, Coming
<1> QED
  BY <1>1, <1>3, UnaryLeft

\* Each step of a filter keeps the invariant.
LEMMA FilterAnswers ==
  ASSUME ProtocolInv, TupleInv, ProtocolInv', Known, Filter
  PROVE  Known'
<1>0. PICK x : x = n
  OBVIOUS
<1>k. PICK owed, outer : Exact(owed, outer)
  BY DEF Known
<1>s. PICK s : s = SonOf(plan, x, 1)
  OBVIOUS
<1>1. CASE In("filter", "OPEN", "start") /\ Call(Son(1), "OPEN", "opened") /\ KeepLocal /\ KeepTuples
  <2>1. /\ 1 \in DOMAIN plan[x].sons /\ Waits("filter", "OPEN", "opened", 1, "OPEN")
        /\ UNCHANGED heap /\ plan' = plan /\ argument' = argument /\ x \in Nodes
    BY <1>0, <1>1, Begins, Moves DEF Waits, KeepTuples
  <2>2. /\ owed[x] = Promised(plan, Meaning(plan), x, outer[x]) /\ Op(x) = "filter"
    BY <1>0, <1>k, <1>1, ToOpen
  <2>3. owed[x] = Filtered(plan[x], outer[x], Meaning(plan)[s][outer[x]])
    BY <1>s, <2>2 DEF Promised, Op
  <2>4. PICK owed2, outer2 : Opens(s, owed, owed2, outer, outer2)
    BY OpensExist
  <2>5. Alone(x) /\ Stays(x) /\ HeapTyped(heap')
    BY <1>0, <1>k, <1>1, <2>1, Quietly
  <2>6. /\ owed2[x] = owed[x] /\ outer2[x] = outer[x] /\ owed2[s] \in Seq(Values)
        /\ owed2[s] = Meaning(plan)[s][outer[x]]
    <3>1. SonOpened(x, 1, s, owed, owed2, outer, outer2)
      BY <1>0, <1>k, <1>s, <1>1, <2>1, <2>4, <2>5, OpenedSon
    <3> QED
      BY <2>2, <3>1 DEF SonOpened
  <2>7. owed2[x] = Left(x, "OPEN", "opened", owed2, outer2, << >>)'
    BY <1>s, <2>1, <2>2, <2>3, <2>6, UnaryLeftNext
  <2>8. Begun(x, "OPEN", "opened")'
    BY <2>1, <2>2 DEF Begun, Op
  <2>9. GoesOn(x, "OPEN", "start", "opened", owed2, outer2)
    BY <2>2, <2>7, <2>8 DEF GoesOn
  <2> QED
    BY <1>0, <1>k, <1>s, <1>1, <2>1, <2>4, <2>9, GoOpen
<1>2. CASE /\ In("filter", "OPEN", "opened") /\ Set([opened |-> TRUE])
           /\ KeepTuples /\ Return("OK", None)
  <2>1. PICK came : Coming("opened", came)
    BY DEF Coming
  <2>2. /\ owed[x] = Filtered(plan[x], outer[x], came \o owed[s]) /\ x \in Nodes
        /\ Op(x) = "filter" /\ owed[s] \in Seq(Values)
    BY <1>0, <1>k, <1>s, <1>2, <2>1, UnaryOwes
  <2>3. came = << >>
    <3>1. ~Yielded
      BY <1>2, NoneCame DEF Waits
    <3> QED
      BY <2>1, <3>1 DEF Coming
  <2>4. plan' = plan
    BY <1>0, <1>2, <2>2, Moves
  <2>5. owed[x] = Left(x, "REQUEST", "start", owed, outer, << >>)'
    BY <1>s, <2>2, <2>3, <2>4, NothingBefore, UnaryLeftNext
  <2>6. Ready(x, "opened") /\ UNCHANGED heap
    BY <1>2, <2>2 DEF Ready, KeepTuples
  <2> QED
    BY <1>0, <1>k, <1>2, <2>5, <2>6, EndsQuietly
<1>3. CASE /\ In("filter", "REQUEST", "start") /\ local[n] = None /\ KeepLocal /\ KeepTuples
  <2>1. streams[x] = "open" /\ Idle(x) /\ Op(x) = "filter" /\ local[x] = None
    BY <1>0, <1>3, Begins DEF Asked
  <2> QED
    BY <2>1 DEF Idle, IdleOpened
<1>4. CASE /\ In("filter", "REQUEST", "start") /\ KeepLocal /\ KeepTuples
           /\ Call(Son(1), "REQUEST", "next")
  <2>1. /\ 1 \in DOMAIN plan[x].sons /\ Waits("filter", "REQUEST", "next", 1, "REQUEST")
        /\ UNCHANGED heap /\ plan' = plan
    BY <1>0, <1>4, Begins, Moves DEF Waits, KeepTuples
  <2>2. PICK came : Coming("start", came)
    BY DEF Coming
  <2>3. /\ owed[x] = Filtered(plan[x], outer[x], came \o owed[s])
        /\ Op(x) = "filter" /\ owed[s] \in Seq(Values)
    BY <1>0, <1>k, <1>s, <1>4, <2>2, UnaryOwes
  <2>4. owed[x] = Left(x, "REQUEST", "next", owed, outer, << >>)'
    BY <1>s, <2>1, <2>2, <2>3, NothingBefore, UnaryLeftNext DEF Coming
  <2>5. GoesOn(x, "REQUEST", "start", "next", owed, outer)
    BY <2>1, <2>3, <2>4 DEF GoesOn, Begun, Op
  <2> QED
    BY <1>0, <1>k, <1>4, <2>1, <2>5, GoOn
<1>5. CASE /\ In("filter", "REQUEST", "next") /\ KeepLocal /\ ~Yielded /\ KeepTuples
           /\ Return("CANCEL", None)
  <2>1. PICK came : Coming("next", came)
    BY DEF Coming
  <2>2. owed[x] = Filtered(plan[x], outer[x], came \o owed[s])
    BY <1>0, <1>k, <1>s, <1>5, <2>1, UnaryOwes
  <2>3. owed[s] = << >>
    BY <1>0, <1>k, <1>s, <1>5, EndedOwes DEF Waits
  <2>4. owed[x] = << >>
    <3>1. came \o << >> = << >>
      BY <1>5, <2>1 DEF Coming
    <3> QED
      BY <2>2, <2>3, <3>1, FilteredMore
  <2> QED
    BY <1>0, <1>k, <1>5, <2>4, EndsQuietly DEF KeepTuples
<1>6. CASE /\ In("filter", "REQUEST", "next") /\ KeepLocal /\ Yielded
           /\ Accepts(answer.tuple) /\ UNCHANGED heap /\ Return("YIELD", answer.tuple)
  <2>1. PICK value : value = Value(answer.tuple)
    OBVIOUS
  <2>2. PICK came : came = <<value>> /\ Coming("next", came)
    BY <1>6, <2>1 DEF Coming
  <2>3. /\ owed[x] = Filtered(plan[x], outer[x], came \o owed[s]) /\ x \in Nodes
        /\ Op(x) = "filter" /\ owed[s] \in Seq(Values) /\ OuterAttribute = outer[x]
        /\ 1 \in DOMAIN plan[x].sons
    BY <1>0, <1>k, <1>s, <1>6, <2>1, <2>2, UnaryOwes
  <2>4. value \in Values /\ Accepted(plan[x], outer[x], value)
    BY <1>0, <1>k, <1>6, <2>1, <2>3, CameValue DEF Accepts, Accepted
  <2>5. PICK rest : rest = Filtered(plan[x], outer[x], owed[s])
    OBVIOUS
  <2>6. owed[x] = <<value>> \o rest /\ rest \in Seq(Values)
    BY <2>2, <2>3, <2>4, <2>5, FilteredMore
  <2>7. PICK owed2 : owed2 = [owed EXCEPT ![x] = rest]
    OBVIOUS
  <2>8. owed2[s] = owed[s]
    BY <1>k, <1>s, <2>3, <2>7, SonsOwe
  <2>9. plan' = plan
    BY <1>0, <1>6, <2>3, Moves
  <2>10. rest = Left(x, "REQUEST", "start", owed2, outer, << >>)'
    BY <1>s, <2>3, <2>5, <2>8, <2>9, UnaryLeftNext
  <2> QED
    BY <1>0, <1>k, <1>6, <2>1, <2>6, <2>7, <2>10, PassesOn
<1>7. CASE /\ In("filter", "REQUEST", "next") /\ KeepLocal /\ Yielded /\ ~Accepts(answer.tuple)
           /\ heap' = Without(heap, answer.tuple) /\ Call(Son(1), "REQUEST", "next")
  <2>1. PICK value : value = Value(answer.tuple)
    OBVIOUS
  <2>2. PICK came : came = <<value>> /\ Coming("next", came)
    BY <1>7, <2>1 DEF Coming
  <2>3. /\ owed[x] = Filtered(plan[x], outer[x], came \o owed[s]) /\ x \in Nodes
        /\ Op(x) = "filter" /\ owed[s] \in Seq(Values) /\ OuterAttribute = outer[x]
        /\ 1 \in DOMAIN plan[x].sons
    BY <1>0, <1>k, <1>s, <1>7, <2>1, <2>2, UnaryOwes
  <2>4. value \in Values /\ ~Accepted(plan[x], outer[x], value)
    BY <1>0, <1>k, <1>7, <2>1, <2>3, CameValue DEF Accepts, Accepted
  <2>5. owed[x] = Filtered(plan[x], outer[x], owed[s])
    BY <2>2, <2>3, <2>4, FilteredMore
  <2>6. plan' = plan /\ argument' = argument /\ Waits("filter", "REQUEST", "next", 1, "REQUEST")
    BY <1>0, <1>7, <2>3, Moves DEF Waits
  <2>7. owed[x] = Left(x, "REQUEST", "next", owed, outer, << >>)'
    BY <1>s, <2>3, <2>5, <2>6, UnaryLeftNext
  <2>8. GoesOn(x, "REQUEST", "next", "next", owed, outer)
    BY <2>3, <2>6, <2>7 DEF GoesOn, Begun, Op
  <2>9. Alone(x) /\ Stays(x) /\ HeapTyped(heap')
    BY <1>0, <1>k, <1>7, <2>6, TakesAway
  <2>10. Exact(owed, outer)'
    BY <1>0, <1>k, <1>7, <2>3, <2>6, <2>8, <2>9, CallOn
  <2> QED
    BY <2>10, KnownNext
<1>8. CASE /\ In("filter", "CLOSE", "start") /\ KeepLocal /\ KeepTuples /\ Return("OK", None)
  BY <1>8, ClosesQuietly DEF KeepTuples
<1>9. CASE /\ In("filter", "CLOSE", "start") /\ KeepLocal /\ KeepTuples
           /\ Call(Son(1), "CLOSE", "closed")
  <2>1. 1 \in DOMAIN plan[n].sons /\ Waits("filter", "CLOSE", "closed", 1, "CLOSE")
    BY <1>9, Begins DEF Waits
  <2> QED
    BY <1>9, <2>1, ClosesQuietly DEF KeepTuples
<1>10. CASE In("filter", "CLOSE", "closed") /\ Set(None) /\ KeepTuples /\ Return("OK", None)
  BY <1>10, ClosesQuietly DEF KeepTuples
<1> QED
  BY <1>1, <1>2, <1>3, <1>4, <1>5, <1>6, <1>7, <1>8, <1>9, <1>10 DEF Filter, FilterNext

\* A call of the only son for OPEN.
LEMMA UnaryOpens ==
  ASSUME ProtocolInv, TupleInv, ProtocolInv', NEW owed, NEW outer, Exact(owed, outer),
         NEW op \in {"filter", "head", "cancel"}, In(op, "OPEN", "start"), NEW x, x = n,
         NEW next, Waits(op, "OPEN", next, 1, "OPEN"),
         KeepLocal \/ (\E info : Set(info)), UNCHANGED heap, Call(Son(1), "OPEN", next),
         NEW s, s = SonOf(plan, x, 1), NEW most \in Nat,
         op = "head" => most = Most(plan[x], outer[x]) /\ local'[x].most - local'[x].taken = most
  PROVE  Known'
<1>1. /\ 1 \in DOMAIN plan[x].sons /\ plan' = plan /\ argument' = argument /\ x \in Nodes
      /\ next # "start" /\ next # "next"
  BY Begins, Moves DEF Waits
<1>2. /\ owed[x] = Promised(plan, Meaning(plan), x, outer[x]) /\ Op(x) = op
  BY ToOpen
<1>3. /\ op = "filter" => owed[x] = Filtered(plan[x], outer[x], Meaning(plan)[s][outer[x]])
      /\ op = "head" => owed[x] = FirstOf(Meaning(plan)[s][outer[x]], most)
      /\ op = "cancel" => owed[x] = Until(plan[x], outer[x], Meaning(plan)[s][outer[x]])
  BY <1>2 DEF Promised, Op
<1>4. PICK owed2, outer2 : Opens(s, owed, owed2, outer, outer2)
  BY OpensExist
<1>5. Alone(x) /\ Stays(x) /\ HeapTyped(heap')
  BY <1>1, Quietly
<1>6. SonOpened(x, 1, s, owed, owed2, outer, outer2)
  BY <1>1, <1>4, <1>5, OpenedSon
<1>7. /\ owed2[x] = owed[x] /\ outer2[x] = outer[x] /\ owed2[s] \in Seq(Values)
      /\ owed2[s] = Meaning(plan)[s][outer[x]]
  BY <1>2, <1>6 DEF SonOpened
<1>8. owed2[x] = Left(x, "OPEN", next, owed2, outer2, << >>)'
  BY <1>1, <1>2, <1>3, <1>7, UnaryLeftNext
<1>9. Begun(x, "OPEN", next)'
  BY <1>1, <1>2 DEF Begun, Op
<1>10. GoesOn(x, "OPEN", "start", next, owed2, outer2)
  BY <1>2, <1>8, <1>9 DEF GoesOn
<1> QED
  BY <1>1, <1>4, <1>10, GoOpen

\* The answer to a call for OPEN, and a call for REQUEST.
LEMMA UnaryOpened ==
  ASSUME ProtocolInv, TupleInv, NEW owed, NEW outer, Exact(owed, outer),
         NEW op \in {"filter", "head", "cancel"}, NEW at, In(op, "OPEN", at), at # "start",
         NEW x, x = n, \A k : ~Waits(op, "OPEN", at, k, "REQUEST"),
         KeepLocal, KeepTuples, Return("OK", None)
  PROVE  Known'
<1>1. PICK s : s = SonOf(plan, x, 1)
  OBVIOUS
<1>2. PICK came : Coming(at, came)
  BY DEF Coming
<1>3. /\ x \in Nodes /\ Op(x) = op /\ owed[s] \in Seq(Values)
      /\ op = "filter" => owed[x] = Filtered(plan[x], outer[x], came \o owed[s])
      /\ op = "head" => owed[x] = FirstOf(came \o owed[s], local[x].most - local[x].taken)
      /\ op = "cancel" => owed[x] = Until(plan[x], outer[x], came \o owed[s])
  BY <1>1, <1>2, UnaryOwes
<1>4. came \o owed[s] = owed[s]
  <2>1. came = << >>
    BY <1>2, NoneCame DEF Coming
  <2> QED
    BY <1>3, <2>1, NothingBefore
<1>5. plan' = plan /\ local'[x] = local[x]
  BY <1>3, Moves
<1>6. owed[x] = Left(x, "REQUEST", "start", owed, outer, << >>)'
  BY <1>1, <1>3, <1>4, <1>5, UnaryLeftNext
<1>7. Ready(x, at) /\ UNCHANGED heap
  BY <1>3 DEF Ready, KeepTuples
<1> QED
  BY <1>3, <1>6, <1>7, EndsQuietly

\* A call of the only son for REQUEST.
LEMMA UnaryAsks ==
  ASSUME ProtocolInv, TupleInv, ProtocolInv', NEW owed, NEW outer, Exact(owed, outer),
         NEW op \in {"filter", "head", "cancel"}, In(op, "REQUEST", "start"), NEW x, x = n,
         NEW next, Waits(op, "REQUEST", next, 1, "REQUEST"),
         KeepLocal, KeepTuples, Call(Son(1), "REQUEST", next),
         op = "head" => local[x].taken < local[x].most
  PROVE  Known'
<1>1. PICK s : s = SonOf(plan, x, 1)
  OBVIOUS
<1>2. PICK came : Coming("start", came)
  BY DEF Coming
<1>3. /\ x \in Nodes /\ Op(x) = op /\ owed[s] \in Seq(Values) /\ 1 \in DOMAIN plan[x].sons
      /\ op = "filter" => owed[x] = Filtered(plan[x], outer[x], came \o owed[s])
      /\ op = "head" => owed[x] = FirstOf(came \o owed[s], local[x].most - local[x].taken)
      /\ op = "cancel" => owed[x] = Until(plan[x], outer[x], came \o owed[s])
  BY <1>1, <1>2, UnaryOwes
<1>4. came \o owed[s] = owed[s]
  BY <1>2, <1>3, NothingBefore DEF Coming
<1>5. plan' = plan /\ local'[x] = local[x] /\ UNCHANGED heap
  BY <1>3, Moves DEF KeepTuples
<1>6. owed[x] = Left(x, "REQUEST", next, owed, outer, << >>)'
  BY <1>1, <1>3, <1>4, <1>5, UnaryLeftNext
<1>7. Begun(x, "REQUEST", next)'
  BY <1>3, <1>5 DEF Begun, Op
<1>8. GoesOn(x, "REQUEST", "start", next, owed, outer)
  BY <1>3, <1>6, <1>7 DEF GoesOn
<1> QED
  BY <1>3, <1>5, <1>8, GoOn

\* The only son has ended, and so does the node.
LEMMA UnaryEnds ==
  ASSUME ProtocolInv, TupleInv, NEW owed, NEW outer, Exact(owed, outer),
         NEW op \in {"filter", "head", "cancel"}, NEW at, In(op, "REQUEST", at), NEW x, x = n,
         Waits(op, "REQUEST", at, 1, "REQUEST"), ~Yielded,
         KeepLocal, KeepTuples, Return("CANCEL", None),
         op = "head" => local[x].most - local[x].taken \in Int
  PROVE  Known'
<1>1. PICK s : s = SonOf(plan, x, 1)
  OBVIOUS
<1>2. PICK came : Coming(at, came)
  BY DEF Coming
<1>3. /\ x \in Nodes
      /\ op = "filter" => owed[x] = Filtered(plan[x], outer[x], came \o owed[s])
      /\ op = "head" => owed[x] = FirstOf(came \o owed[s], local[x].most - local[x].taken)
      /\ op = "cancel" => owed[x] = Until(plan[x], outer[x], came \o owed[s])
  BY <1>1, <1>2, UnaryOwes
<1>4. owed[s] = << >>
  BY <1>1, EndedOwes
<1>5. came \o owed[s] = << >>
  BY <1>2, <1>4 DEF Coming
<1>6. owed[x] = << >>
  BY <1>3, <1>5, FilteredMore, FirstMore, UntilMore
<1> QED
  BY <1>6, EndsQuietly DEF KeepTuples

\* The local information of a head counts what it has let pass.
LEMMA HeadInfoIs ==
  ASSUME ProtocolInv, NEW x \in Nodes, Op(x) = "head", local[x] # None
  PROVE  /\ local[x].taken \in Nat /\ local[x].most \in Nat
         /\ local[x].most - local[x].taken \in Int
         /\ \A after : after = [local[x] EXCEPT !.taken = @ + 1] =>
              after.most = local[x].most /\ after.taken = local[x].taken + 1
<1>1. local[x] \in [taken : Nat, most : Nat]
  BY Locals DEF ProtocolInv, ValuesOK
<1> QED
  BY <1>1

\* Each step of a head keeps the invariant.
LEMMA HeadAnswers ==
  ASSUME ProtocolInv, TupleInv, ProtocolInv', Known, HeadOf
  PROVE  Known'
<1>0. PICK x : x = n
  OBVIOUS
<1>k. PICK owed, outer : Exact(owed, outer)
  BY DEF Known
<1>s. PICK s : s = SonOf(plan, x, 1)
  OBVIOUS
<1>1. CASE /\ In("head", "OPEN", "start") /\ Set(NewHead) /\ UNCHANGED heap
           /\ Call(Son(1), "OPEN", "opened")
  <2>1. /\ x \in Nodes /\ Op(x) = "head" /\ IsTree(plan) /\ Waits("head", "OPEN", "opened", 1, "OPEN")
    BY <1>0, <1>1, Begins DEF Waits, ProtocolInv, ValuesOK
  <2>2. PICK most \in Nat : most = Most(plan[x], outer[x])
    BY <2>1, MostIs DEF Op, Nodes
  <2>3. OuterAttribute = outer[x]
    <3>1. TopKnows(x, "OPEN", "start", owed, outer)
      BY <1>0, <1>k, <1>1, AtTop
    <3> QED
      BY <3>1 DEF TopKnows
  <2>4. local'[x] = [taken |-> 0, most |-> most]
    BY <1>0, <1>1, <2>1, <2>2, <2>3, Moves DEF NewHead, Most
  <2>5. local'[x].most - local'[x].taken = most
    BY <2>4
  <2> QED
    BY <1>0, <1>k, <1>s, <1>1, <2>1, <2>2, <2>5, UnaryOpens
<1>2. CASE /\ In("head", "OPEN", "opened") /\ KeepLocal /\ KeepTuples /\ Return("OK", None)
  BY <1>0, <1>k, <1>2, UnaryOpened DEF Waits
<1>3. CASE /\ In("head", "REQUEST", "start") /\ local[n].taken >= local[n].most
           /\ Return("CANCEL", None) /\ KeepLocal /\ KeepTuples
  <2>1. x \in Nodes /\ Op(x) = "head" /\ local[x] # None
    BY <1>0, <1>3, Begins DEF Idle, IdleOpened, Asked
  <2>2. PICK came : Coming("start", came)
    BY DEF Coming
  <2>3. /\ owed[x] = FirstOf(came \o owed[s], local[x].most - local[x].taken)
        /\ owed[s] \in Seq(Values)
    BY <1>0, <1>k, <1>s, <1>3, <2>2, UnaryOwes
  <2>4. PICK k \in Int : k = local[x].most - local[x].taken /\ k <= 0
    BY <1>0, <1>3, <2>1, HeadInfoIs
  <2>5. came \o owed[s] = owed[s]
    BY <2>2, <2>3, NothingBefore DEF Coming
  <2>6. owed[x] = << >>
    BY <2>3, <2>4, <2>5, FirstMore
  <2> QED
    BY <1>0, <1>k, <1>3, <2>6, EndsQuietly DEF KeepTuples
<1>4. CASE /\ In("head", "REQUEST", "start") /\ ~(local[n].taken >= local[n].most)
           /\ Call(Son(1), "REQUEST", "next") /\ KeepLocal /\ KeepTuples
  <2>1. x \in Nodes /\ Op(x) = "head" /\ local[x] # None
    BY <1>0, <1>4, Begins DEF Idle, IdleOpened, Asked
  <2>2. local[x].taken < local[x].most
    BY <1>0, <1>4, <2>1, HeadInfoIs
  <2>3. Waits("head", "REQUEST", "next", 1, "REQUEST")
    BY DEF Waits
  <2> QED
    BY <1>0, <1>k, <1>4, <2>2, <2>3, UnaryAsks
<1>5. CASE /\ In("head", "REQUEST", "next") /\ KeepTuples /\ ~Yielded /\ KeepLocal
           /\ Return("CANCEL", None)
  <2>1. x \in Nodes /\ Op(x) = "head" /\ local[x] # None
    BY <1>0, <1>5, Begins DEF Running
  <2>2. Waits("head", "REQUEST", "next", 1, "REQUEST") /\ local[x].most - local[x].taken \in Int
    BY <2>1, HeadInfoIs DEF Waits
  <2> QED
    BY <1>0, <1>k, <1>5, <2>2, UnaryEnds
<1>6. CASE /\ In("head", "REQUEST", "next") /\ KeepTuples /\ Yielded
           /\ Set([local[n] EXCEPT !.taken = @ + 1]) /\ Return("YIELD", answer.tuple)
  <2>1. x \in Nodes /\ Op(x) = "head" /\ local[x] # None
    BY <1>0, <1>6, Begins DEF Running
  <2>2. PICK value : value = Value(answer.tuple)
    OBVIOUS
  <2>3. PICK came : came = <<value>> /\ Coming("next", came)
    BY <1>6, <2>2 DEF Coming
  <2>4. /\ owed[x] = FirstOf(came \o owed[s], local[x].most - local[x].taken)
        /\ owed[s] \in Seq(Values)
    BY <1>0, <1>k, <1>s, <1>6, <2>3, UnaryOwes
  <2>5. value \in Values
    BY <1>k, <2>2, CameValue
  <2>6. local[x].taken < local[x].most
    <3>1. TopKnows(x, "REQUEST", "next", owed, outer)
      BY <1>0, <1>k, <1>6, AtTop
    <3> QED
      BY <2>1, <3>1 DEF TopKnows, Begun
  <2>7. PICK after : after = [local[n] EXCEPT !.taken = @ + 1]
    OBVIOUS
  <2>8. after.most = local[x].most /\ after.taken = local[x].taken + 1
    BY <1>0, <2>1, <2>7, HeadInfoIs
  <2>9. PICK k \in Int : k = local[x].most - local[x].taken /\ k > 0
    BY <2>1, <2>6, HeadInfoIs
  <2>10. PICK rest : rest = FirstOf(owed[s], k - 1)
    OBVIOUS
  <2>11. k - 1 = after.most - after.taken /\ k - 1 \in Int
    BY <2>1, <2>8, <2>9, HeadInfoIs
  <2>12. owed[x] = <<value>> \o rest /\ rest \in Seq(Values)
    <3>1. owed[x] = <<value>> \o rest
      BY <2>3, <2>4, <2>5, <2>9, <2>10, FirstMore
    <3> QED
      BY <2>4, <2>10, <2>11, <3>1, FirstMore
  <2>13. PICK owed2 : owed2 = [owed EXCEPT ![x] = rest]
    OBVIOUS
  <2>14. owed2[s] = owed[s]
    BY <1>0, <1>k, <1>s, <1>6, <2>1, <2>13, Begins, SonsOwe
  <2>15. plan' = plan /\ local'[x] = after
    BY <1>0, <1>6, <2>1, <2>7, Moves
  <2>16. rest = Left(x, "REQUEST", "start", owed2, outer, << >>)'
    BY <1>s, <2>1, <2>4, <2>10, <2>11, <2>14, <2>15, UnaryLeftNext
  <2> QED
    BY <1>0, <1>k, <1>6, <2>2, <2>12, <2>13, <2>16, PassesOn DEF KeepTuples
<1>7. CASE In("head", "CLOSE", "start") /\ Call(Son(1), "CLOSE", "closed") /\ KeepLocal /\ KeepTuples
  <2>1. 1 \in DOMAIN plan[n].sons /\ Waits("head", "CLOSE", "closed", 1, "CLOSE")
    BY <1>7, Begins DEF Waits
  <2> QED
    BY <1>7, <2>1, ClosesQuietly DEF KeepTuples
<1>8. CASE In("head", "CLOSE", "closed") /\ KeepLocal /\ KeepTuples /\ Return("OK", None)
  BY <1>8, ClosesQuietly DEF KeepTuples
<1>9. CASE In("head", "CLOSEPROGRESS", "start") /\ Set(None) /\ KeepTuples /\ Return("OK", None)
  BY <1>9, ClosesQuietly DEF KeepTuples
<1> QED
  BY <1>1, <1>2, <1>3, <1>4, <1>5, <1>6, <1>7, <1>8, <1>9 DEF HeadOf, HeadInfo

\* Each step of a cancel keeps the invariant.
LEMMA CancelAnswers ==
  ASSUME ProtocolInv, TupleInv, ProtocolInv', Known, Cancel
  PROVE  Known'
<1>0. PICK x : x = n
  OBVIOUS
<1>k. PICK owed, outer : Exact(owed, outer)
  BY DEF Known
<1>s. PICK s : s = SonOf(plan, x, 1)
  OBVIOUS
<1>1. CASE In("cancel", "OPEN", "start") /\ Call(Son(1), "OPEN", "done") /\ KeepLocal /\ KeepTuples
  <2>1. Waits("cancel", "OPEN", "done", 1, "OPEN") /\ UNCHANGED heap
    BY <1>1 DEF Waits, KeepTuples
  <2>2. PICK most \in Nat : most = 0
    OBVIOUS
  <2> QED
    BY <1>0, <1>k, <1>s, <1>1, <2>1, <2>2, UnaryOpens
<1>2. CASE In("cancel", "REQUEST", "start") /\ Call(Son(1), "REQUEST", "done")
           /\ KeepLocal /\ KeepTuples
  <2>1. Waits("cancel", "REQUEST", "done", 1, "REQUEST")
    BY DEF Waits
  <2> QED
    BY <1>0, <1>k, <1>2, <2>1, UnaryAsks
<1>3. CASE In("cancel", "CLOSE", "start") /\ Call(Son(1), "CLOSE", "done") /\ KeepLocal /\ KeepTuples
  <2>1. 1 \in DOMAIN plan[n].sons /\ Waits("cancel", "CLOSE", "done", 1, "CLOSE")
    BY <1>3, Begins DEF Waits
  <2> QED
    BY <1>3, <2>1, ClosesQuietly DEF KeepTuples
<1>4. CASE In("cancel", "OPEN", "done") /\ KeepLocal /\ KeepTuples /\ Return("OK", None)
  BY <1>0, <1>k, <1>4, UnaryOpened DEF Waits
<1>5. CASE In("cancel", "CLOSE", "done") /\ KeepLocal /\ KeepTuples /\ Return("OK", None)
  BY <1>5, ClosesQuietly DEF KeepTuples
<1>6. CASE /\ In("cancel", "REQUEST", "done") /\ KeepLocal /\ ~Yielded /\ KeepTuples
           /\ Return("CANCEL", None)
  <2>1. Waits("cancel", "REQUEST", "done", 1, "REQUEST")
    BY DEF Waits
  <2> QED
    BY <1>0, <1>k, <1>6, <2>1, UnaryEnds
<1>7. ASSUME In("cancel", "REQUEST", "done"), KeepLocal, Yielded
      PROVE  \E value \in Values, rest \in Seq(Values) :
               /\ value = Value(answer.tuple) /\ rest = Until(plan[x], outer[x], owed[s])
               /\ owed[x] = IF Accepts(answer.tuple) THEN << >> ELSE <<value>> \o rest
  <2>1. PICK value : value = Value(answer.tuple)
    OBVIOUS
  <2>2. PICK came : came = <<value>> /\ Coming("done", came)
    BY <1>7, <2>1 DEF Coming
  <2>3. /\ owed[x] = Until(plan[x], outer[x], came \o owed[s]) /\ x \in Nodes
        /\ owed[s] \in Seq(Values) /\ OuterAttribute = outer[x]
    BY <1>0, <1>k, <1>s, <1>7, <2>1, <2>2, UnaryOwes
  <2>4. value \in Values /\ (Accepted(plan[x], outer[x], value) <=> Accepts(answer.tuple))
    BY <1>0, <1>k, <1>7, <2>1, <2>3, CameValue DEF Accepts, Accepted
  <2>5. PICK rest \in Seq(Values) : rest = Until(plan[x], outer[x], owed[s])
    BY <2>3, UntilMore
  <2>6. owed[x] = IF Accepted(plan[x], outer[x], value) THEN << >>
                  ELSE <<value>> \o Until(plan[x], outer[x], owed[s])
    BY <2>2, <2>3, <2>4, UntilMore
  <2> QED
    BY <2>1, <2>4, <2>5, <2>6
<1>8. CASE /\ In("cancel", "REQUEST", "done") /\ KeepLocal /\ Yielded /\ Accepts(answer.tuple)
           /\ heap' = Without(heap, answer.tuple) /\ Return("CANCEL", None)
  <2>1. owed[x] = << >> /\ x \in Nodes
    BY <1>0, <1>7, <1>8, Begins
  <2>2. plan' = plan /\ argument' = argument
    BY <1>0, <1>8, <2>1, Moves
  <2>3. Alone(x) /\ Stays(x) /\ HeapTyped(heap')
    BY <1>0, <1>k, <1>8, <2>2, TakesAway
  <2>4. Exact(owed, outer)'
    BY <1>0, <1>k, <1>8, <2>1, <2>3, ReturnQuiet
  <2> QED
    BY <2>4, KnownNext
<1>9. CASE /\ In("cancel", "REQUEST", "done") /\ KeepLocal /\ Yielded /\ ~Accepts(answer.tuple)
           /\ UNCHANGED heap /\ Return("YIELD", answer.tuple)
  <2>1. PICK value \in Values, rest \in Seq(Values) :
               /\ value = Value(answer.tuple) /\ rest = Until(plan[x], outer[x], owed[s])
               /\ owed[x] = <<value>> \o rest
    BY <1>7, <1>9
  <2>2. x \in Nodes /\ Op(x) = "cancel" /\ 1 \in DOMAIN plan[x].sons
    BY <1>0, <1>9, Begins
  <2>3. PICK owed2 : owed2 = [owed EXCEPT ![x] = rest]
    OBVIOUS
  <2>4. owed2[s] = owed[s] /\ owed[s] \in Seq(Values)
    <3>1. owed[s] \in Seq(Values)
      <4>1. PICK came : Coming("done", came)
        BY DEF Coming
      <4> QED
        BY <1>0, <1>k, <1>s, <1>9, <4>1, UnaryOwes
    <3> QED
      BY <1>k, <1>s, <2>2, <2>3, <3>1, SonsOwe
  <2>5. plan' = plan
    BY <1>0, <1>9, <2>2, Moves
  <2>6. rest = Left(x, "REQUEST", "start", owed2, outer, << >>)'
    BY <1>s, <2>1, <2>2, <2>4, <2>5, UnaryLeftNext
  <2>7. value = Value(answer.tuple) /\ owed[x] = <<value>> \o rest
    BY <2>1
  <2> QED
    BY <1>0, <1>k, <1>9, <2>3, <2>6, <2>7, PassesOn
<1> QED
  BY <1>1, <1>2, <1>3, <1>4, <1>5, <1>6, <1>8, <1>9 DEF Cancel

-----------------------------------------------------------------------------
(* concat.                                                                 *)

\* What a concat has yet to yield, by what its sons have.
ConcatOwing(left, message, at, later, first, second, found, came) ==
  left = IF message = "OPEN" THEN first \o (IF at = "first" THEN found ELSE second)
         ELSE IF later THEN came \o second ELSE (came \o first) \o second

\* It is what the invariant says.
LEMMA ConcatLeft ==
  ASSUME NEW x, Op(x) = "concat", NEW owed, NEW outer, NEW came, NEW message, NEW at,
         ~(message = "OPEN" /\ at = "start"),
         NEW left, left = Left(x, message, at, owed, outer, came)
  PROVE  ConcatOwing(left, message, at, local[x].second, owed[SonOf(plan, x, 1)],
                     owed[SonOf(plan, x, 2)], Meaning(plan)[SonOf(plan, x, 2)][outer[x]], came)
BY DEF Left, LeftOf, LeftOfConcat, Found, ConcatOwing

\* The same after the step.
LEMMA ConcatLeftNext ==
  ASSUME plan' = plan, NEW x, Op(x) = "concat", NEW owed, NEW outer, NEW message, NEW at,
         ~(message = "OPEN" /\ at = "start"), NEW later, later = local'[x].second,
         NEW first, first = owed[SonOf(plan, x, 1)],
         NEW second, second = owed[SonOf(plan, x, 2)],
         NEW found, found = Meaning(plan)[SonOf(plan, x, 2)][outer[x]],
         NEW left, ConcatOwing(left, message, at, later, first, second, found, << >>)
  PROVE  left = Left(x, message, at, owed, outer, << >>)'
<1>1. Op(x)' = "concat"
  BY DEF Op
<1> QED
  BY <1>1 DEF Left, LeftOf, LeftOfConcat, Found, ConcatOwing

\* What a concat knows at its places.
ConcatKnows(x, message, at, owed, outer, first, second, came) ==
  /\ x \in Nodes /\ Op(x) = "concat" /\ DOMAIN plan[x].sons = {1, 2}
  /\ first \in Seq(Values) /\ second \in Seq(Values)
  /\ ConcatOwing(owed[x], message, at, local[x].second, first, second,
                 Meaning(plan)[SonOf(plan, x, 2)][outer[x]], came)
  /\ message = "REQUEST" => local[x].second \in BOOLEAN
  /\ message = "REQUEST" /\ at = "first" => ~local[x].second
  /\ message = "REQUEST" /\ at = "second" => local[x].second

\* What a concat owes, at each of its places.
LEMMA ConcatOwes ==
  ASSUME ProtocolInv, NEW owed, NEW outer, Exact(owed, outer),
         NEW message \in {"OPEN", "REQUEST"}, NEW at, In("concat", message, at), NEW x, x = n,
         ~(message = "OPEN" /\ at = "start"), NEW first, first = owed[SonOf(plan, x, 1)],
         NEW second, second = owed[SonOf(plan, x, 2)], NEW came, Coming(at, came)
  PROVE  ConcatKnows(x, message, at, owed, outer, first, second, came)
<1>1. /\ x \in Nodes /\ Op(x) = "concat" /\ DOMAIN plan[x].sons = {1, 2}
      /\ local[x] \in LocalOf["concat"] \cup {None}
  BY Begins
<1>2. TopKnows(x, message, at, owed, outer)
  BY AtTop
<1>3. /\ owed[SonOf(plan, x, 1)] \in Seq(Values) /\ owed[SonOf(plan, x, 2)] \in Seq(Values)
      /\ came = Came /\ owed[x] = Left(x, message, at, owed, outer, Came)
  BY <1>1, <1>2 DEF TopKnows, Coming
<1>4. ConcatOwing(owed[x], message, at, local[x].second, first, second,
                  Meaning(plan)[SonOf(plan, x, 2)][outer[x]], came)
  <2>1. PICK left : left = owed[x]
    OBVIOUS
  <2>2. left = Left(x, message, at, owed, outer, came)
    BY <1>3, <2>1
  <2>3. ConcatOwing(left, message, at, local[x].second, owed[SonOf(plan, x, 1)],
                    owed[SonOf(plan, x, 2)], Meaning(plan)[SonOf(plan, x, 2)][outer[x]], came)
    BY <1>1, <2>2, ConcatLeft
  <2> QED
    BY <2>1, <2>3
<1>5. message = "REQUEST" => local[x] # None
  <2>1. CASE at = "start"
    BY <1>1, <2>1, Begins DEF Idle, IdleOpened, Asked
  <2>2. CASE at # "start"
    <3>1. Running(x, message, at) /\ \E k, m : Waits("concat", message, at, k, m)
      BY <2>2, Begins
    <3>2. at \in {"first", "second"}
      BY <3>1 DEF Waits
    <3> QED
      BY <1>1, <3>1, <3>2 DEF Running
  <2> QED
    BY <2>1, <2>2
<1>6. message = "REQUEST" => local[x].second \in BOOLEAN
  BY <1>1, <1>5, Locals
<1>7. /\ message = "REQUEST" /\ at = "first" => ~local[x].second
      /\ message = "REQUEST" /\ at = "second" => local[x].second
  <2>1. at \in {"first", "second"} => Running(x, message, at)
    BY Begins
  <2> QED
    BY <1>1, <2>1 DEF Running
<1>8. first \in Seq(Values) /\ second \in Seq(Values)
  BY <1>3
<1> QED
  BY <1>1, <1>4, <1>6, <1>7, <1>8 DEF ConcatKnows

\* rest is what a concat still has, by the stream it is at.
ConcatHas(rest, info, first, second) ==
  rest = IF info.second THEN second ELSE first \o second

\* What a concat has between two requests.
LEMMA ConcatRest ==
  ASSUME plan' = plan, NEW x, Op(x) = "concat", NEW owed, NEW outer, NEW at,
         NEW first \in Seq(Values), first = owed[SonOf(plan, x, 1)],
         NEW second \in Seq(Values), second = owed[SonOf(plan, x, 2)],
         NEW info, info = local'[x],
         NEW rest, ConcatHas(rest, info, first, second)
  PROVE  rest = Left(x, "REQUEST", at, owed, outer, << >>)'
<1>1. PICK found : found = Meaning(plan)[SonOf(plan, x, 2)][outer[x]]
  OBVIOUS
<1>2. ConcatOwing(rest, "REQUEST", at, info.second, first, second, found, << >>)
  BY NothingBefore DEF ConcatOwing, ConcatHas
<1>3. PICK later : later = info.second
  OBVIOUS
<1>4. ConcatOwing(rest, "REQUEST", at, later, first, second, found, << >>)
  BY <1>2, <1>3
<1> QED
  BY <1>1, <1>3, <1>4, ConcatLeftNext

\* Each step of a concat keeps the invariant.
LEMMA ConcatAnswers ==
  ASSUME ProtocolInv, TupleInv, ProtocolInv', Known, Concat
  PROVE  Known'
<1>0. PICK x : x = n
  OBVIOUS
<1>k. PICK owed, outer : Exact(owed, outer)
  BY DEF Known
<1>f. PICK first : first = owed[SonOf(plan, x, 1)]
  OBVIOUS
<1>g. PICK second : second = owed[SonOf(plan, x, 2)]
  OBVIOUS
<1>1. CASE In("concat", "OPEN", "start") /\ Call(Son(1), "OPEN", "first") /\ KeepLocal /\ KeepTuples
  <2>1. /\ DOMAIN plan[x].sons = {1, 2} /\ Waits("concat", "OPEN", "first", 1, "OPEN")
        /\ UNCHANGED heap /\ plan' = plan /\ argument' = argument /\ x \in Nodes
    BY <1>0, <1>1, Begins, Moves DEF Waits, KeepTuples
  <2>2. /\ owed[x] = Promised(plan, Meaning(plan), x, outer[x]) /\ Op(x) = "concat"
    BY <1>0, <1>k, <1>1, ToOpen
  <2>s. PICK s : s = SonOf(plan, x, 1)
    OBVIOUS
  <2>3. owed[x] = Meaning(plan)[s][outer[x]] \o Meaning(plan)[SonOf(plan, x, 2)][outer[x]]
    BY <2>s, <2>2 DEF Promised, Op
  <2>4. PICK owed2, outer2 : Opens(s, owed, owed2, outer, outer2)
    BY OpensExist
  <2>5. Alone(x) /\ Stays(x) /\ HeapTyped(heap')
    BY <1>0, <1>k, <1>1, <2>1, Quietly
  <2>6. SonOpened(x, 1, s, owed, owed2, outer, outer2)
    BY <1>0, <1>k, <1>1, <2>s, <2>1, <2>4, <2>5, OpenedSon
  <2>7. owed2[x] = owed[x] /\ outer2[x] = outer[x] /\ owed2[s] = Meaning(plan)[s][outer[x]]
    BY <2>2, <2>6 DEF SonOpened
  <2>8. PICK left, mine, other, found :
          /\ left = owed2[x] /\ mine = owed2[s] /\ other = owed2[SonOf(plan, x, 2)]
          /\ found = Meaning(plan)[SonOf(plan, x, 2)][outer2[x]]
    OBVIOUS
  <2>9. ConcatOwing(left, "OPEN", "first", local'[x].second, mine, other, found, << >>)
    BY <2>3, <2>7, <2>8 DEF ConcatOwing
  <2>10. owed2[x] = Left(x, "OPEN", "first", owed2, outer2, << >>)'
    <3>1. left = Left(x, "OPEN", "first", owed2, outer2, << >>)'
      BY <2>s, <2>1, <2>2, <2>8, <2>9, ConcatLeftNext
    <3> QED
      BY <2>8, <3>1
  <2>11. Begun(x, "OPEN", "first")'
    BY <2>1, <2>2 DEF Begun, Op
  <2>12. GoesOn(x, "OPEN", "start", "first", owed2, outer2)
    BY <2>2, <2>10, <2>11 DEF GoesOn
  <2> QED
    BY <1>0, <1>k, <1>1, <2>s, <2>1, <2>4, <2>12, GoOpen
<1>2. CASE In("concat", "OPEN", "first") /\ Call(Son(2), "OPEN", "second") /\ KeepLocal /\ KeepTuples
  <2>1. PICK came : Coming("first", came)
    BY DEF Coming
  <2>2. ConcatKnows(x, "OPEN", "first", owed, outer, first, second, came)
    BY <1>0, <1>k, <1>f, <1>g, <1>2, <2>1, ConcatOwes
  <2>3. /\ x \in Nodes /\ Op(x) = "concat" /\ DOMAIN plan[x].sons = {1, 2}
        /\ owed[x] = first \o Meaning(plan)[SonOf(plan, x, 2)][outer[x]]
    BY <2>2 DEF ConcatKnows, ConcatOwing
  <2>4. /\ Waits("concat", "OPEN", "second", 2, "OPEN")
        /\ UNCHANGED heap /\ plan' = plan /\ argument' = argument
    BY <1>0, <1>2, <2>3, Moves DEF Waits, KeepTuples
  <2>s. PICK s : s = SonOf(plan, x, 2)
    OBVIOUS
  <2>5. PICK owed2, outer2 : Opens(s, owed, owed2, outer, outer2)
    BY OpensExist
  <2>6. Alone(x) /\ Stays(x) /\ HeapTyped(heap')
    BY <1>0, <1>k, <1>2, <2>4, Quietly
  <2>7. SonOpened(x, 2, s, owed, owed2, outer, outer2)
    BY <1>0, <1>k, <1>2, <2>s, <2>3, <2>5, <2>6, OpenedSon
  <2>8. /\ owed2[x] = owed[x] /\ outer2[x] = outer[x] /\ owed2[s] = Meaning(plan)[s][outer[x]]
        /\ owed2[SonOf(plan, x, 1)] = first
    BY <1>f, <2>3, <2>7 DEF SonOpened
  <2>9. PICK left, other, found :
          left = owed2[x] /\ other = owed2[s] /\ found = Meaning(plan)[s][outer2[x]]
    OBVIOUS
  <2>10. ConcatOwing(left, "OPEN", "second", local'[x].second, first, other, found, << >>)
    BY <2>s, <2>3, <2>8, <2>9 DEF ConcatOwing
  <2>11. owed2[x] = Left(x, "OPEN", "second", owed2, outer2, << >>)'
    <3>1. left = Left(x, "OPEN", "second", owed2, outer2, << >>)'
      BY <2>s, <2>3, <2>4, <2>8, <2>9, <2>10, ConcatLeftNext
    <3> QED
      BY <2>9, <3>1
  <2>12. Begun(x, "OPEN", "second")'
    BY <2>3, <2>4 DEF Begun, Op
  <2>13. GoesOn(x, "OPEN", "first", "second", owed2, outer2)
    BY <2>3, <2>11, <2>12 DEF GoesOn
  <2> QED
    BY <1>0, <1>k, <1>2, <2>s, <2>3, <2>4, <2>5, <2>13, GoOpen
<1>3. CASE In("concat", "OPEN", "second") /\ Set([second |-> FALSE]) /\ KeepTuples /\ Return("OK", None)
  <2>1. PICK came : Coming("second", came)
    BY DEF Coming
  <2>2. ConcatKnows(x, "OPEN", "second", owed, outer, first, second, came)
    BY <1>0, <1>k, <1>f, <1>g, <1>3, <2>1, ConcatOwes
  <2>3. /\ x \in Nodes /\ Op(x) = "concat" /\ first \in Seq(Values) /\ second \in Seq(Values)
        /\ owed[x] = first \o second
    BY <2>2 DEF ConcatKnows, ConcatOwing
  <2>4. local'[x] = [second |-> FALSE] /\ plan' = plan /\ UNCHANGED heap
    BY <1>0, <1>3, <2>3, Moves DEF KeepTuples
  <2>5. PICK info, rest : info = local'[x] /\ rest = owed[x]
    OBVIOUS
  <2>i. ConcatHas(rest, info, first, second)
    BY <2>3, <2>4, <2>5 DEF ConcatHas
  <2>6. owed[x] = Left(x, "REQUEST", "start", owed, outer, << >>)'
    <3>1. Op(x) = "concat" /\ first \in Seq(Values) /\ second \in Seq(Values) /\ plan' = plan
      BY <2>3, <2>4
    <3>2. info = local'[x]
      BY <2>5
    <3>3. rest = Left(x, "REQUEST", "start", owed, outer, << >>)'
      BY <1>f, <1>g, <2>i, <3>1, <3>2, ConcatRest
    <3> QED
      BY <2>5, <3>3
  <2>7. Ready(x, "second")
    BY <2>3 DEF Ready
  <2> QED
    BY <1>0, <1>k, <1>3, <2>4, <2>6, <2>7, EndsQuietly
<1>4. CASE In("concat", "CLOSE", "start") /\ Call(Son(1), "CLOSE", "first") /\ KeepLocal /\ KeepTuples
  <2>1. 1 \in DOMAIN plan[n].sons /\ Waits("concat", "CLOSE", "first", 1, "CLOSE")
    BY <1>4, Begins DEF Waits
  <2> QED
    BY <1>4, <2>1, ClosesQuietly DEF KeepTuples
<1>5. CASE In("concat", "CLOSE", "first") /\ Call(Son(2), "CLOSE", "second") /\ KeepLocal /\ KeepTuples
  <2>1. 2 \in DOMAIN plan[n].sons /\ Waits("concat", "CLOSE", "second", 2, "CLOSE")
    BY <1>5, Begins DEF Waits
  <2> QED
    BY <1>5, <2>1, ClosesQuietly DEF KeepTuples
<1>6. CASE In("concat", "CLOSE", "second") /\ Set(None) /\ KeepTuples /\ Return("OK", None)
  BY <1>6, ClosesQuietly DEF KeepTuples
<1>7. ASSUME In("concat", "REQUEST", "start"), KeepLocal, KeepTuples, NEW k \in {1, 2}, NEW next,
             k = 2 <=> local[n].second, next = IF k = 2 THEN "second" ELSE "first",
             Call(Son(k), "REQUEST", next)
      PROVE  Known'
  <2>1. PICK came : came = << >> /\ Coming("start", came)
    BY DEF Coming
  <2>2. ConcatKnows(x, "REQUEST", "start", owed, outer, first, second, came)
    BY <1>0, <1>k, <1>f, <1>g, <1>7, <2>1, ConcatOwes
  <2>3. /\ x \in Nodes /\ Op(x) = "concat" /\ DOMAIN plan[x].sons = {1, 2}
        /\ first \in Seq(Values) /\ second \in Seq(Values) /\ local[x].second \in BOOLEAN
        /\ owed[x] = IF local[x].second THEN came \o second ELSE (came \o first) \o second
    BY <2>2 DEF ConcatKnows, ConcatOwing
  <2>4. owed[x] = IF local[x].second THEN second ELSE first \o second
    BY <2>1, <2>3, NothingBefore
  <2>5. plan' = plan /\ local'[x] = local[x] /\ UNCHANGED heap
    BY <1>0, <1>7, <2>3, Moves DEF KeepTuples
  <2>l. PICK info, rest : info = local'[x] /\ rest = owed[x]
    OBVIOUS
  <2>i. ConcatHas(rest, info, first, second)
    BY <2>4, <2>5, <2>l DEF ConcatHas
  <2>6. owed[x] = Left(x, "REQUEST", next, owed, outer, << >>)'
    <3>1. Op(x) = "concat" /\ first \in Seq(Values) /\ second \in Seq(Values) /\ plan' = plan
      BY <2>3, <2>5
    <3>2. info = local'[x]
      BY <2>l
    <3>3. rest = Left(x, "REQUEST", next, owed, outer, << >>)'
      BY <1>f, <1>g, <2>i, <3>1, <3>2, ConcatRest
    <3> QED
      BY <2>l, <3>3
  <2>7. GoesOn(x, "REQUEST", "start", next, owed, outer) /\ Waits("concat", "REQUEST", next, k, "REQUEST")
    BY <1>7, <2>3, <2>5, <2>6 DEF GoesOn, Waits, Begun, Op
  <2> QED
    BY <1>0, <1>k, <1>7, <2>3, <2>5, <2>7, GoOn
<1>8. ASSUME NEW at \in {"first", "second"}, In("concat", "REQUEST", at), KeepTuples, Yielded,
             KeepLocal, Return("YIELD", answer.tuple)
      PROVE  Known'
  <2>1. PICK value : value = Value(answer.tuple)
    OBVIOUS
  <2>2. PICK came : came = <<value>> /\ Coming(at, came)
    BY <1>8, <2>1 DEF Coming
  <2>3. ConcatKnows(x, "REQUEST", at, owed, outer, first, second, came)
    BY <1>0, <1>k, <1>f, <1>g, <1>8, <2>2, ConcatOwes
  <2>4. /\ x \in Nodes /\ Op(x) = "concat" /\ DOMAIN plan[x].sons = {1, 2}
        /\ first \in Seq(Values) /\ second \in Seq(Values) /\ local[x].second \in BOOLEAN
        /\ owed[x] = IF local[x].second THEN came \o second ELSE (came \o first) \o second
    BY <2>3 DEF ConcatKnows, ConcatOwing
  <2>5. value \in Values
    BY <1>k, <2>1, CameValue
  <2>l. PICK info : info = local[x]
    OBVIOUS
  <2>6. PICK rest : rest = IF info.second THEN second ELSE first \o second
    OBVIOUS
  <2>i. rest \in Seq(Values)
    <3>1. first \o second \in Seq(Values)
      BY <2>4
    <3> QED
      BY <2>4, <2>6, <3>1
  <2>7. owed[x] = <<value>> \o rest
    BY <2>2, <2>4, <2>5, <2>l, <2>6, Associates
  <2>8. PICK owed2 : owed2 = [owed EXCEPT ![x] = rest]
    OBVIOUS
  <2>9. \A k \in DOMAIN plan[x].sons : owed2[SonOf(plan, x, k)] = owed[SonOf(plan, x, k)]
    <3>1. x \in Nodes
      BY <2>4
    <3> QED
      BY <1>k, <2>8, <3>1, SonsOwe
  <2>f. first = owed2[SonOf(plan, x, 1)]
    BY <1>f, <2>4, <2>9
  <2>g. second = owed2[SonOf(plan, x, 2)]
    BY <1>g, <2>4, <2>9
  <2>10. plan' = plan /\ info = local'[x]
    BY <1>0, <1>8, <2>4, <2>l, Moves
  <2>11. rest = Left(x, "REQUEST", "start", owed2, outer, << >>)'
    <3>1. Op(x) = "concat" /\ first \in Seq(Values) /\ second \in Seq(Values) /\ plan' = plan
      BY <2>4, <2>10
    <3>2. info = local'[x]
      BY <2>10
    <3>3. ConcatHas(rest, info, first, second)
      BY <2>6 DEF ConcatHas
    <3> QED
      BY <2>f, <2>g, <3>1, <3>2, <3>3, ConcatRest
  <2>12. UNCHANGED heap
    BY <1>8 DEF KeepTuples
  <2> QED
    BY <1>0, <1>k, <1>8, <2>1, <2>i, <2>7, <2>8, <2>11, <2>12, PassesOn
<1>9. CASE /\ In("concat", "REQUEST", "first") /\ KeepTuples /\ ~Yielded
           /\ Set([second |-> TRUE]) /\ Call(Son(2), "REQUEST", "second")
  <2>1. PICK came : came = << >> /\ Coming("first", came)
    BY <1>9 DEF Coming
  <2>2. ConcatKnows(x, "REQUEST", "first", owed, outer, first, second, came)
    BY <1>0, <1>k, <1>f, <1>g, <1>9, <2>1, ConcatOwes
  <2>3. /\ x \in Nodes /\ Op(x) = "concat" /\ DOMAIN plan[x].sons = {1, 2}
        /\ first \in Seq(Values) /\ second \in Seq(Values)
        /\ owed[x] = (came \o first) \o second
    BY <2>2 DEF ConcatKnows, ConcatOwing
  <2>4. first = << >>
    BY <1>0, <1>k, <1>f, <1>9, EndedOwes DEF Waits
  <2>5. owed[x] = second
    BY <2>1, <2>3, <2>4, NothingBefore
  <2>6. plan' = plan /\ local'[x] = [second |-> TRUE] /\ UNCHANGED heap
    BY <1>0, <1>9, <2>3, Moves DEF KeepTuples
  <2>l. PICK info, rest : info = local'[x] /\ rest = owed[x]
    OBVIOUS
  <2>i. ConcatHas(rest, info, first, second)
    BY <2>5, <2>6, <2>l DEF ConcatHas
  <2>7. owed[x] = Left(x, "REQUEST", "second", owed, outer, << >>)'
    <3>1. Op(x) = "concat" /\ first \in Seq(Values) /\ second \in Seq(Values) /\ plan' = plan
      BY <2>3, <2>6
    <3>2. info = local'[x]
      BY <2>l
    <3>3. rest = Left(x, "REQUEST", "second", owed, outer, << >>)'
      BY <1>f, <1>g, <2>i, <3>1, <3>2, ConcatRest
    <3> QED
      BY <2>l, <3>3
  <2>8. /\ GoesOn(x, "REQUEST", "first", "second", owed, outer)
        /\ Waits("concat", "REQUEST", "second", 2, "REQUEST")
    BY <2>3, <2>6, <2>7 DEF GoesOn, Waits, Begun, Op
  <2> QED
    BY <1>0, <1>k, <1>9, <2>3, <2>6, <2>8, GoOn
<1>10. CASE /\ In("concat", "REQUEST", "second") /\ KeepLocal /\ KeepTuples /\ ~Yielded
            /\ Return(answer.status, answer.tuple)
  <2>1. PICK came : came = << >> /\ Coming("second", came)
    BY <1>10 DEF Coming
  <2>2. ConcatKnows(x, "REQUEST", "second", owed, outer, first, second, came)
    BY <1>0, <1>k, <1>f, <1>g, <1>10, <2>1, ConcatOwes
  <2>3. second \in Seq(Values) /\ owed[x] = came \o second
    BY <2>2 DEF ConcatKnows, ConcatOwing
  <2>4. second = << >>
    BY <1>0, <1>k, <1>g, <1>10, EndedOwes DEF Waits
  <2>5. owed[x] = << >>
    BY <2>1, <2>3, <2>4, NothingBefore
  <2>6. answer.status = "CANCEL"
    <3>1. \E k, m : Waits("concat", "REQUEST", "second", k, m) /\ Answers(m)
      BY <1>0, <1>10, Begins
    <3> QED
      BY <1>10, <3>1 DEF Waits, Answers, Yielded
  <2> QED
    BY <1>0, <1>k, <1>10, <2>5, <2>6, EndsQuietly DEF KeepTuples
<1>11. CASE /\ In("concat", "REQUEST", "start") /\ KeepLocal /\ KeepTuples
            /\ IF local[n].second THEN Call(Son(2), "REQUEST", "second")
               ELSE Call(Son(1), "REQUEST", "first")
  BY <1>7, <1>11
<1> QED
  BY <1>1, <1>2, <1>3, <1>4, <1>5, <1>6, <1>8, <1>9, <1>10, <1>11 DEF Concat, Yielded

-----------------------------------------------------------------------------
(* product.                                                                *)

\* What a product has yet to yield, by its local information, the values of
\* the tuples that this has and what its sons have.
ProductOwing(left, message, at, info, value, rows, first, second, found, came) ==
  left = IF message = "OPEN"
           THEN IF at \in {"opened", "current"} THEN Products(came \o first, found)
                ELSE IF info.current = None THEN << >>
                ELSE Products(<<value>> \o first,
                              IF at = "second" THEN second ELSE rows \o (came \o second))
         ELSE IF at = "current" THEN Products(came \o first, rows)
         ELSE IF info.current = None THEN << >>
         ELSE Prefixed(value, SubSeq(rows, info.next, Len(rows))) \o Products(first, rows)

\* It is what the invariant says.
LEMMA ProductLeft ==
  ASSUME NEW x, Op(x) = "product", NEW owed, NEW outer, NEW came, NEW message, NEW at,
         ~(message = "OPEN" /\ at = "start"),
         NEW left, left = Left(x, message, at, owed, outer, came)
  PROVE  ProductOwing(left, message, at, local[x], Value(local[x].current), Rows(local[x].buffer),
                      owed[SonOf(plan, x, 1)], owed[SonOf(plan, x, 2)],
                      Meaning(plan)[SonOf(plan, x, 2)][outer[x]], came)
BY DEF Left, LeftOf, LeftOfProduct, Found, ProductOwing

\* value and rows are those of the tuples that the product holds after the step.
Shows(info, value, rows) == value = Value(info.current)' /\ rows = Rows(info.buffer)'

\* The same after the step.
LEMMA ProductLeftNext ==
  ASSUME plan' = plan, NEW x, Op(x) = "product", NEW owed, NEW outer, NEW message, NEW at,
         ~(message = "OPEN" /\ at = "start"), NEW info, info = local'[x],
         NEW value, NEW rows, Shows(info, value, rows), NEW first, first = owed[SonOf(plan, x, 1)],
         NEW second, second = owed[SonOf(plan, x, 2)],
         NEW found, found = Meaning(plan)[SonOf(plan, x, 2)][outer[x]],
         NEW left, ProductOwing(left, message, at, info, value, rows, first, second, found, << >>)
  PROVE  left = Left(x, message, at, owed, outer, << >>)'
<1>1. Op(x)' = "product"
  BY DEF Op
<1>2. value = Value(local[x].current)' /\ rows = Rows(local[x].buffer)'
  BY DEF Shows
<1> QED
  BY <1>1, <1>2 DEF Left, LeftOf, LeftOfProduct, Found, ProductOwing

\* A tuple more in the buffer, or a product more.
LEMMA RowsMore ==
  ASSUME NEW buffer \in Seq(Tuples), NEW t
  PROVE  /\ Rows(<< >>) = << >> /\ Len(Rows(buffer)) = Len(buffer)
         /\ Rows(Append(buffer, t)) = Append(Rows(buffer), Value(t))
         /\ \A k \in DOMAIN buffer : Rows(buffer)[k] = Value(buffer[k])
BY DEF Rows

\* The values of a buffer are values.
LEMMA RowsTyped ==
  ASSUME NEW buffer \in Seq(Tuples), HeapTyped(heap)
  PROVE  Rows(buffer) \in Seq(Values)
<1>1. \A t : Value(t) \in Values
  BY OuterTyped
<1>2. Len(buffer) \in Nat /\ DOMAIN buffer = 1 .. Len(buffer)
  OBVIOUS
<1>3. Rows(buffer) \in [1 .. Len(buffer) -> Values]
  BY <1>1, <1>2 DEF Rows
<1> QED
  BY <1>2, <1>3, SeqDef

\* They stay while the tuples do.
LEMMA RowsKept ==
  ASSUME NEW buffer, \A k \in DOMAIN buffer : Value(buffer[k])' = Value(buffer[k])
  PROVE  Rows(buffer)' = Rows(buffer)
BY DEF Rows

\* The products of value from the k-th row on are one more and the rest.
Splits(value, rows, k, more, rest) ==
  /\ Prefixed(value, SubSeq(rows, k, Len(rows))) \o more = <<value \o rows[k]>> \o rest
  /\ rest \in Seq(Values) /\ value \o rows[k] \in Values

\* The next product is the one with the next row.
LEMMA OneProduct ==
  ASSUME NEW rows \in Seq(Values), NEW k \in Nat \ {0}, k <= Len(rows), NEW value \in Values,
         NEW more \in Seq(Values), NEW after, after = k + 1,
         NEW rest, rest = Prefixed(value, SubSeq(rows, after, Len(rows))) \o more
  PROVE  Splits(value, rows, k, more, rest)
<1>1. PICK row, later : row = rows[k] /\ later = SubSeq(rows, after, Len(rows))
  OBVIOUS
<1>2. /\ SubSeq(rows, k, Len(rows)) = <<row>> \o later /\ later \in Seq(Values)
      /\ row \in Values
  BY <1>1, RestFirst
<1>3. PICK s : s = Prefixed(value, later)
  OBVIOUS
<1>4. /\ Prefixed(value, <<row>> \o later) = <<value \o row>> \o s
      /\ s \in Seq(Values)
  BY <1>2, <1>3, PrefixedMore
<1>5. value \o row \in Values
  BY <1>2, ValuesAre
<1>6. (<<value \o row>> \o s) \o more = <<value \o row>> \o (s \o more)
  BY <1>4, <1>5, Associates
<1>7. rest = s \o more /\ s \o more \in Seq(Values)
  BY <1>1, <1>3, <1>4
<1> QED
  BY <1>1, <1>2, <1>4, <1>5, <1>6, <1>7 DEF Splits

\* After the last row there is none.
LEMMA NoProduct ==
  ASSUME NEW rows \in Seq(Values), NEW k \in Nat \ {0}, k > Len(rows), NEW value \in Values,
         NEW first \in Seq(Values)
  PROVE  Prefixed(value, SubSeq(rows, k, Len(rows))) \o Products(first, rows)
           = Products(first, rows)
<1>1. SubSeq(rows, k, Len(rows)) = << >>
  BY RestOf
<1>2. Prefixed(value, << >>) = << >>
  BY PrefixedMore
<1>3. Products(first, rows) \in Seq(Values)
  BY ProductsMore
<1> QED
  BY <1>1, <1>2, <1>3, NothingBefore

\* From the first row on they are all.
LEMMA AllProducts ==
  ASSUME NEW rows \in Seq(Values), NEW value \in Values, NEW first \in Seq(Values)
  PROVE  /\ Products(<<value>> \o first, rows)
              = Prefixed(value, SubSeq(rows, 1, Len(rows))) \o Products(first, rows)
         /\ Products(first, rows) \in Seq(Values) /\ Products(first, << >>) = << >>
<1>1. SubSeq(rows, 1, Len(rows)) = rows
  BY RestOf
<1> QED
  BY <1>1, ProductsMore

\* The row that comes is appended to the buffer, before those still to come.
LEMMA RowAfterRow ==
  ASSUME NEW rows \in Seq(Values), NEW value \in Values, NEW second \in Seq(Values)
  PROVE  rows \o (<<value>> \o second) = Append(rows, value) \o second
<1>1. Append(rows, value) = rows \o <<value>> /\ <<value>> \in Seq(Values)
  OBVIOUS
<1> QED
  BY <1>1, Associates

\* What a product knows at its places.
ProductKnows(x, message, at, info, owed, outer, value, rows, first, second, found, came) ==
  /\ x \in Nodes /\ Op(x) = "product" /\ DOMAIN plan[x].sons = {1, 2}
  /\ first \in Seq(Values) /\ second \in Seq(Values) /\ found \in Seq(Values)
  /\ info # None /\ info \in LocalOf["product"]
  /\ info.buffer \in Seq(Tuples) /\ info.current \in Tuples \cup {None}
  /\ info.next \in Nat \ {0} /\ Len(rows) = Len(info.buffer)
  /\ rows \in Seq(Values) /\ value \in Values /\ (info.buffer = << >> => rows = << >>)
  /\ ProductOwing(owed[x], message, at, info, value, rows, first, second, found, came)
  /\ message = "OPEN" => info.next = 1 /\ (at # "buffer" => info.buffer = << >>)

\* The local information of a product.
LEMMA ProductTyped ==
  ASSUME NEW info \in LocalOf["product"]
  PROVE  /\ info.buffer \in Seq(Tuples) /\ info.current \in Tuples \cup {None}
         /\ info.next \in Nat \ {0} /\ info # None
<1>1. LocalOf["product"] = [current : Tuples \cup {None}, buffer : Seq(Tuples), next : Tuples]
  BY Locals
<1>2. None \notin LocalOf["product"]
  BY Locals
<1> QED
  BY <1>1, <1>2 DEF Tuples

\* What a product owes, at each of its places.
LEMMA ProductOwes ==
  ASSUME ProtocolInv, TupleInv, NEW owed, NEW outer, Exact(owed, outer),
         NEW message \in {"OPEN", "REQUEST"}, NEW at, In("product", message, at), NEW x, x = n,
         ~(message = "OPEN" /\ at = "start"), NEW info, info = local[x],
         NEW value, value = Value(info.current), NEW rows, rows = Rows(info.buffer),
         NEW first, first = owed[SonOf(plan, x, 1)], NEW second, second = owed[SonOf(plan, x, 2)],
         NEW found, found = Meaning(plan)[SonOf(plan, x, 2)][outer[x]], NEW came, Coming(at, came)
  PROVE  ProductKnows(x, message, at, info, owed, outer, value, rows, first, second, found, came)
<1>1. /\ x \in Nodes /\ Op(x) = "product" /\ DOMAIN plan[x].sons = {1, 2}
      /\ local[x] \in LocalOf["product"] \cup {None}
  BY Begins
<1>2. TopKnows(x, message, at, owed, outer)
  BY AtTop
<1>3. /\ owed[SonOf(plan, x, 1)] \in Seq(Values) /\ owed[SonOf(plan, x, 2)] \in Seq(Values)
      /\ came = Came /\ owed[x] = Left(x, message, at, owed, outer, Came)
      /\ outer[x] \in Attributes /\ Begun(x, message, at)
  BY <1>1, <1>2 DEF TopKnows, Coming
<1>4. ProductOwing(owed[x], message, at, info, value, rows, first, second, found, came)
  <2>1. PICK left : left = owed[x]
    OBVIOUS
  <2>2. left = Left(x, message, at, owed, outer, came)
    BY <1>3, <2>1
  <2>3. ProductOwing(left, message, at, local[x], Value(local[x].current), Rows(local[x].buffer),
                     owed[SonOf(plan, x, 1)], owed[SonOf(plan, x, 2)],
                     Meaning(plan)[SonOf(plan, x, 2)][outer[x]], came)
    BY <1>1, <2>2, ProductLeft
  <2> QED
    BY <2>1, <2>3
<1>5. info # None
  <2>1. CASE at = "start"
    <3>1. message = "REQUEST"
      BY <2>1
    <3> QED
      BY <1>1, <2>1, <3>1, Begins DEF Idle, IdleOpened, Asked
  <2>2. CASE at # "start"
    <3>1. Running(x, message, at)
      BY <2>2, Begins
    <3> QED
      BY <1>1, <3>1 DEF Running
  <2> QED
    BY <2>1, <2>2
<1>6. info \in LocalOf["product"]
  BY <1>1, <1>5
<1>7. /\ info.buffer \in Seq(Tuples) /\ info.current \in Tuples \cup {None}
      /\ info.next \in Nat \ {0}
  BY <1>6, ProductTyped
<1>8. HeapTyped(heap) /\ plan \in Plans
  BY DEF Exact
<1>9. /\ rows \in Seq(Values) /\ Len(rows) = Len(info.buffer)
      /\ (info.buffer = << >> => rows = << >>)
  BY <1>7, <1>8, RowsMore, RowsTyped
<1>10. value \in Values
  BY <1>8, OuterTyped
<1>11. found \in Seq(Values)
  <2>1. SonOf(plan, x, 2) \in Nodes
    BY <1>1, NodesAndSons DEF ProtocolInv, ValuesOK
  <2>2. Meaning(plan)[SonOf(plan, x, 2)] \in [Attributes -> Seq(Values)]
    BY <1>8, <2>1, MeaningIs DEF Streams, Nodes
  <2> QED
    BY <1>3, <2>2
<1>12. message = "OPEN" => info.next = 1 /\ (at # "buffer" => info.buffer = << >>)
  BY <1>1, <1>3 DEF Begun
<1>13. first \in Seq(Values) /\ second \in Seq(Values)
  BY <1>3
<1> QED
  BY <1>1, <1>4, <1>5, <1>6, <1>7, <1>9, <1>10, <1>11, <1>12, <1>13 DEF ProductKnows

\* The values that a product reads, after a step that leaves its tuples.
LEMMA ProductSame ==
  ASSUME \A t : Value(t)' = Value(t), NEW info,
         NEW value, value = Value(info.current), NEW rows, rows = Rows(info.buffer)
  PROVE  Shows(info, value, rows)
BY RowsKept DEF Shows

\* A call of a product, by what it owes after it.
LEMMA ProductGoes ==
  ASSUME plan' = plan, NEW x, Op(x) = "product", NEW owed, NEW outer,
         NEW message \in {"OPEN", "REQUEST"}, NEW at, NEW next, next # "start",
         NEW info, info = local'[x],
         NEW value, NEW rows, Shows(info, value, rows), NEW first, first = owed[SonOf(plan, x, 1)], NEW second, second = owed[SonOf(plan, x, 2)],
         NEW found, found = Meaning(plan)[SonOf(plan, x, 2)][outer[x]],
         ProductOwing(owed[x], message, next, info, value, rows, first, second, found, << >>),
         message = "OPEN" => info.next = 1 /\ (next # "buffer" => info.buffer = << >>)
  PROVE  GoesOn(x, message, at, next, owed, outer)
<1>1. PICK left : left = owed[x]
  OBVIOUS
<1>2. ProductOwing(left, message, next, info, value, rows, first, second, found, << >>)
  BY <1>1
<1>3. left = Left(x, message, next, owed, outer, << >>)'
  <2>1. ~(message = "OPEN" /\ next = "start")
    OBVIOUS
  <2> HIDE DEF ProductOwing
  <2> QED
    BY <1>2, <2>1, ProductLeftNext, ZenonT(60)
<1>4. Begun(x, message, next)'
  BY DEF Begun, Op
<1> QED
  BY <1>1, <1>3, <1>4 DEF GoesOn

\* What a product has between two requests.
LEMMA ProductRest ==
  ASSUME plan' = plan, NEW x, Op(x) = "product", NEW owed, NEW outer,
         NEW info, info = local'[x], NEW value, NEW rows, Shows(info, value, rows),
         NEW first, first = owed[SonOf(plan, x, 1)], NEW second, second = owed[SonOf(plan, x, 2)],
         NEW found, found = Meaning(plan)[SonOf(plan, x, 2)][outer[x]],
         ProductOwing(owed[x], "REQUEST", "start", info, value, rows, first, second, found, << >>)
  PROVE  owed[x] = Left(x, "REQUEST", "start", owed, outer, << >>)'
<1>1. PICK left : left = owed[x]
  OBVIOUS
<1>2. ProductOwing(left, "REQUEST", "start", info, value, rows, first, second, found, << >>)
  BY <1>1
<1>3. left = Left(x, "REQUEST", "start", owed, outer, << >>)'
  BY <1>2, ProductLeftNext
<1> QED
  BY <1>1, <1>3

\* Each step of a product to OPEN keeps the invariant.
LEMMA ProductOpenAnswers ==
  ASSUME ProtocolInv, TupleInv, ProtocolInv', Known, ProductOpen
  PROVE  Known'
<1>0. PICK x : x = n
  OBVIOUS
<1>k. PICK owed, outer : Exact(owed, outer)
  BY DEF Known
<1>f. PICK first : first = owed[SonOf(plan, x, 1)]
  OBVIOUS
<1>g. PICK second : second = owed[SonOf(plan, x, 2)]
  OBVIOUS
<1>h. PICK found : found = Meaning(plan)[SonOf(plan, x, 2)][outer[x]]
  OBVIOUS
<1>i. PICK info : info = local[x]
  OBVIOUS
<1>v. PICK value : value = Value(info.current)
  OBVIOUS
<1>r. PICK rows : rows = Rows(info.buffer)
  OBVIOUS
<1>o. ASSUME NEW at, at # "start", In("product", "OPEN", at), NEW came, Coming(at, came)
      PROVE  ProductKnows(x, "OPEN", at, info, owed, outer, value, rows, first, second, found, came)
  BY <1>0, <1>k, <1>f, <1>g, <1>h, <1>i, <1>v, <1>r, <1>o, ProductOwes
<1>1. CASE /\ In("product", "OPEN", "start") /\ Call(Son(1), "OPEN", "opened")
           /\ DeleteAll(HeldByProduct) /\ Set([current |-> None, buffer |-> << >>, next |-> 1])
  <2>1. /\ DOMAIN plan[x].sons = {1, 2} /\ Waits("product", "OPEN", "opened", 1, "OPEN")
        /\ plan' = plan /\ argument' = argument /\ x \in Nodes
        /\ local'[x] = [current |-> None, buffer |-> << >>, next |-> 1]
        /\ Push(Son(1), "OPEN", "opened") /\ UNCHANGED <<streams, result, endVars>>
    BY <1>0, <1>1, Begins, Moves DEF Waits
  <2>2. /\ owed[x] = Promised(plan, Meaning(plan), x, outer[x]) /\ Op(x) = "product"
    BY <1>0, <1>k, <1>1, ToOpen
  <2>s. PICK s : s = SonOf(plan, x, 1)
    OBVIOUS
  <2>3. owed[x] = Products(Meaning(plan)[s][outer[x]], found)
    BY <1>h, <2>s, <2>2 DEF Promised, Op, Products
  <2>4. PICK owed2, outer2 : Opens(s, owed, owed2, outer, outer2)
    BY OpensExist
  <2>5. Stays(x) /\ HeapTyped(heap')
    BY <1>0, <1>k, <1>1, <2>1, <2>2, WithoutHeld DEF Exact
  <2>6. Alone(x)
    BY <1>0, <1>1, <2>1, StaysAlone
  <2>7. SonOpened(x, 1, s, owed, owed2, outer, outer2)
    BY <1>0, <1>k, <1>1, <2>s, <2>1, <2>4, <2>5, <2>6, OpenedSon
  <2>8. /\ owed2[x] = owed[x] /\ outer2[x] = outer[x] /\ owed2[s] = Meaning(plan)[s][outer[x]]
        /\ owed2[s] \in Seq(Values)
    BY <2>2, <2>7 DEF SonOpened
  <2>9. PICK mine : mine = owed2[s]
    OBVIOUS
  <2>10. PICK other : other = owed2[SonOf(plan, x, 2)]
    OBVIOUS
  <2>11. PICK after, value2, rows2 :
           after = local'[x] /\ Shows(after, value2, rows2)
    BY DEF Shows
  <2>12. << >> \o mine = mine
    BY <2>8, <2>9, NothingBefore
  <2>13. ProductOwing(owed2[x], "OPEN", "opened", after, value2, rows2, mine, other, found, << >>)
    BY <2>3, <2>8, <2>9, <2>12 DEF ProductOwing
  <2>14. GoesOn(x, "OPEN", "start", "opened", owed2, outer2)
    <3>1. mine = owed2[SonOf(plan, x, 1)]
      BY <2>s, <2>9
    <3>2. found = Meaning(plan)[SonOf(plan, x, 2)][outer2[x]]
      BY <1>h, <2>8
    <3>3. after.next = 1 /\ after.buffer = << >>
      BY <2>1, <2>11
    <3>4. after = local'[x] /\ plan' = plan
      BY <2>1, <2>11
    <3>5. Shows(after, value2, rows2)
      BY <2>11
    <3> QED
      BY <2>2, <2>10, <2>13, <3>1, <3>2, <3>3, <3>4, <3>5, ProductGoes
  <2>15. Exact(owed2, outer2)'
    BY <1>0, <1>k, <1>1, <2>s, <2>1, <2>4, <2>5, <2>6, <2>14, CallOpen
  <2> QED
    BY <2>15, KnownNext
<1>2. CASE /\ In("product", "OPEN", "opened") /\ Call(Son(1), "REQUEST", "current")
           /\ KeepLocal /\ KeepTuples
  <2>1. PICK came : came = << >> /\ Coming("opened", came)
    <3>1. ~Yielded
      BY <1>2, NoneCame DEF Waits
    <3> QED
      BY <3>1 DEF Coming
  <2>2. ProductKnows(x, "OPEN", "opened", info, owed, outer, value, rows, first, second, found, came)
    BY <1>o, <1>2, <2>1
  <2>3. /\ x \in Nodes /\ Op(x) = "product" /\ DOMAIN plan[x].sons = {1, 2}
        /\ first \in Seq(Values) /\ info.next = 1 /\ info.buffer = << >>
    BY <2>2 DEF ProductKnows
  <2>4. ProductOwing(owed[x], "OPEN", "current", info, value, rows, first, second, found, << >>)
    BY <2>1, <2>2 DEF ProductKnows, ProductOwing
  <2>5. plan' = plan /\ info = local'[x] /\ UNCHANGED heap
    BY <1>0, <1>i, <1>2, <2>3, Moves DEF KeepTuples
  <2>6. Shows(info, value, rows)
    BY <1>v, <1>r, <2>5, UnchangedHeap, ProductSame
  <2>7. GoesOn(x, "OPEN", "opened", "current", owed, outer)
    BY <1>f, <1>g, <1>h, <2>3, <2>4, <2>5, <2>6, ProductGoes
  <2>8. Waits("product", "OPEN", "current", 1, "REQUEST")
    BY DEF Waits
  <2>9. 1 \in DOMAIN plan[x].sons /\ UNCHANGED heap
    BY <2>3, <2>5
  <2> QED
    BY <1>0, <1>k, <1>2, <2>7, <2>8, <2>9, GoOn
<1>3. CASE /\ In("product", "OPEN", "current") /\ Set([local[n] EXCEPT !.current = answer.tuple])
           /\ KeepTuples /\ Call(Son(2), "OPEN", "second")
  <2>1. PICK came : Coming("current", came)
    BY DEF Coming
  <2>2. ProductKnows(x, "OPEN", "current", info, owed, outer, value, rows, first, second, found, came)
    BY <1>o, <1>3, <2>1
  <2>3. /\ x \in Nodes /\ Op(x) = "product" /\ DOMAIN plan[x].sons = {1, 2}
        /\ first \in Seq(Values) /\ found \in Seq(Values) /\ info.next = 1 /\ info.buffer = << >>
        /\ info \in LocalOf["product"] /\ rows = << >>
        /\ owed[x] = Products(came \o first, found)
    BY <2>2 DEF ProductKnows, ProductOwing
  <2>4. PICK t : t = answer.tuple
    OBVIOUS
  <2>5. PICK after : after = [info EXCEPT !.current = t]
    OBVIOUS
  <2>6. after.current = t /\ after.next = 1 /\ after.buffer = info.buffer /\ t \in Tuples \cup {None}
    <3>1. info \in [current : Tuples \cup {None}, buffer : Seq(Tuples), next : Tuples]
      BY <2>3, Locals
    <3>2. t \in Tuples \cup {None}
      BY <2>4 DEF ProtocolInv, ValuesOK
    <3> QED
      BY <2>3, <2>5, <3>1, <3>2
  <2>7. plan' = plan /\ argument' = argument /\ after = local'[x] /\ UNCHANGED heap
    BY <1>0, <1>i, <1>3, <2>3, <2>4, <2>5, Moves DEF KeepTuples
  <2>8. Alone(x) /\ Stays(x) /\ HeapTyped(heap') /\ (\A u : Value(u)' = Value(u))
    BY <1>0, <1>k, <1>3, <2>7, Quietly
  <2>s. PICK s : s = SonOf(plan, x, 2)
    OBVIOUS
  <2>9. PICK owed2, outer2 : Opens(s, owed, owed2, outer, outer2)
    BY OpensExist
  <2>10. SonOpened(x, 2, s, owed, owed2, outer, outer2)
    BY <1>0, <1>k, <1>3, <2>s, <2>3, <2>8, <2>9, OpenedSon
  <2>11. owed2[x] = owed[x] /\ outer2[x] = outer[x] /\ owed2[s] = Meaning(plan)[s][outer[x]]
    BY <2>3, <2>10 DEF SonOpened
  <2>12. owed2[SonOf(plan, x, 1)] = owed[SonOf(plan, x, 1)]
    BY <2>3, <2>10 DEF SonOpened
  <2>13. PICK value2 : value2 = Value(t)
    OBVIOUS
  <2>14. Shows(after, value2, rows)
    <3>1. value2 = Value(after.current) /\ rows = Rows(after.buffer)
      BY <1>r, <2>6, <2>13
    <3> QED
      BY <2>8, <3>1, ProductSame
  <2>15. ProductOwing(owed2[x], "OPEN", "second", after, value2, rows, first, found, found, << >>)
    <3>1. CASE Yielded
      <4>1. t # None
        BY <2>4, <3>1 DEF Yielded, ProtocolInv, ValuesOK
      <4>2. came = <<value2>>
        BY <2>1, <2>4, <2>13, <3>1 DEF Coming
      <4> QED
        BY <2>3, <2>6, <2>11, <4>1, <4>2 DEF ProductOwing
    <3>2. CASE ~Yielded
      <4>1. t = None
        BY <2>4, <3>2 DEF Yielded, ProtocolInv, ValuesOK
      <4>2. came = << >>
        BY <2>1, <3>2 DEF Coming
      <4>3. first = << >>
        BY <1>0, <1>k, <1>f, <1>3, <3>2, EndedOwes DEF Waits
      <4>4. owed[x] = << >>
        BY <2>3, <4>2, <4>3, ProductsMore, NothingBefore
      <4> QED
        BY <2>6, <2>11, <4>1, <4>4 DEF ProductOwing
    <3> QED
      BY <3>1, <3>2
  <2>16. GoesOn(x, "OPEN", "current", "second", owed2, outer2)
    <3>1. first = owed2[SonOf(plan, x, 1)]
      BY <1>f, <2>12
    <3>2. found = owed2[SonOf(plan, x, 2)]
      BY <1>h, <2>s, <2>11
    <3>3. found = Meaning(plan)[SonOf(plan, x, 2)][outer2[x]]
      BY <1>h, <2>11
    <3>4. after.next = 1 /\ after.buffer = << >>
      BY <2>3, <2>6
    <3>5. after = local'[x] /\ plan' = plan
      BY <2>7
    <3>6. Op(x) = "product"
      BY <2>3
    <3> QED
      BY <2>14, <2>15, <3>1, <3>2, <3>3, <3>4, <3>5, <3>6, ProductGoes
  <2>17. 2 \in DOMAIN plan[x].sons /\ UNCHANGED heap /\ Waits("product", "OPEN", "second", 2, "OPEN")
    BY <2>3, <2>7 DEF Waits
  <2> QED
    BY <1>0, <1>k, <1>3, <2>s, <2>9, <2>16, <2>17, GoOpen
<1>4. CASE /\ In("product", "OPEN", "second") /\ Call(Son(2), "REQUEST", "buffer")
           /\ KeepLocal /\ KeepTuples
  <2>1. PICK came : Coming("second", came)
    BY DEF Coming
  <2>2. ProductKnows(x, "OPEN", "second", info, owed, outer, value, rows, first, second, found, came)
    BY <1>o, <1>4, <2>1
  <2>3. /\ x \in Nodes /\ Op(x) = "product" /\ DOMAIN plan[x].sons = {1, 2}
        /\ second \in Seq(Values) /\ info.next = 1 /\ rows = << >>
    BY <2>2 DEF ProductKnows
  <2>4. ProductOwing(owed[x], "OPEN", "buffer", info, value, rows, first, second, found, << >>)
    <3>1. rows \o (<< >> \o second) = second
      BY <2>3, NothingBefore
    <3> QED
      BY <2>2, <3>1 DEF ProductKnows, ProductOwing
  <2>5. plan' = plan /\ info = local'[x] /\ UNCHANGED heap
    BY <1>0, <1>i, <1>4, <2>3, Moves DEF KeepTuples
  <2>6. Shows(info, value, rows)
    BY <1>v, <1>r, <2>5, UnchangedHeap, ProductSame
  <2>7. GoesOn(x, "OPEN", "second", "buffer", owed, outer)
    BY <1>f, <1>g, <1>h, <2>3, <2>4, <2>5, <2>6, ProductGoes
  <2>8. Waits("product", "OPEN", "buffer", 2, "REQUEST")
    BY DEF Waits
  <2>9. 2 \in DOMAIN plan[x].sons /\ UNCHANGED heap
    BY <2>3, <2>5
  <2> QED
    BY <1>0, <1>k, <1>4, <2>7, <2>8, <2>9, GoOn
<1>5. CASE /\ In("product", "OPEN", "buffer") /\ KeepTuples /\ Yielded
           /\ Set([local[n] EXCEPT !.buffer = Append(@, answer.tuple)])
           /\ Call(Son(2), "REQUEST", "buffer")
  <2>1. PICK u : u = Value(answer.tuple)
    OBVIOUS
  <2>2. PICK came : came = <<u>> /\ Coming("buffer", came)
    BY <1>5, <2>1 DEF Coming
  <2>3. ProductKnows(x, "OPEN", "buffer", info, owed, outer, value, rows, first, second, found, came)
    BY <1>o, <1>5, <2>2
  <2>4. /\ x \in Nodes /\ Op(x) = "product" /\ DOMAIN plan[x].sons = {1, 2}
        /\ second \in Seq(Values) /\ rows \in Seq(Values) /\ info.next = 1
        /\ info \in LocalOf["product"] /\ info.buffer \in Seq(Tuples)
    BY <2>3 DEF ProductKnows
  <2>5. u \in Values /\ answer.tuple \in Tuples
    BY <1>k, <1>5, <2>1, CameValue DEF Yielded, ProtocolInv, ValuesOK
  <2>6. PICK after : after = [info EXCEPT !.buffer = Append(@, answer.tuple)]
    OBVIOUS
  <2>7. /\ after.current = info.current /\ after.buffer = Append(info.buffer, answer.tuple)
        /\ after.next = 1
    <3>1. info \in [current : Tuples \cup {None}, buffer : Seq(Tuples), next : Tuples]
      BY <2>4, Locals
    <3> QED
      BY <2>4, <2>6, <3>1
  <2>8. plan' = plan /\ argument' = argument /\ after = local'[x] /\ UNCHANGED heap
    BY <1>0, <1>i, <1>5, <2>4, <2>6, Moves DEF KeepTuples
  <2>9. \A t : Value(t)' = Value(t)
    BY <2>8, UnchangedHeap
  <2>10. PICK rows2 : rows2 = Append(rows, u)
    OBVIOUS
  <2>11. Shows(after, value, rows2)
    <3>1. value = Value(after.current) /\ rows2 = Rows(after.buffer)
      BY <1>v, <1>r, <2>1, <2>4, <2>7, <2>10, RowsMore
    <3> QED
      BY <2>9, <3>1, ProductSame
  <2>12. rows \o (came \o second) = rows2 \o (<< >> \o second)
    BY <2>2, <2>4, <2>5, <2>10, RowAfterRow, NothingBefore
  <2>13. ProductOwing(owed[x], "OPEN", "buffer", after, value, rows2, first, second, found, << >>)
    BY <2>3, <2>7, <2>12 DEF ProductKnows, ProductOwing
  <2>14. GoesOn(x, "OPEN", "buffer", "buffer", owed, outer)
    <3>1. Op(x) = "product" /\ plan' = plan /\ after = local'[x] /\ after.next = 1
      BY <2>4, <2>7, <2>8
    <3> QED
      BY <1>f, <1>g, <1>h, <2>11, <2>13, <3>1, ProductGoes
  <2>15. 2 \in DOMAIN plan[x].sons /\ UNCHANGED heap /\ Waits("product", "OPEN", "buffer", 2, "REQUEST")
    BY <2>4, <2>8 DEF Waits
  <2> QED
    BY <1>0, <1>k, <1>5, <2>14, <2>15, GoOn
<1>6. CASE /\ In("product", "OPEN", "buffer") /\ KeepTuples /\ ~Yielded /\ KeepLocal
           /\ Return("OK", None)
  <2>1. PICK came : came = << >> /\ Coming("buffer", came)
    BY <1>6 DEF Coming
  <2>2. ProductKnows(x, "OPEN", "buffer", info, owed, outer, value, rows, first, second, found, came)
    BY <1>o, <1>6, <2>1
  <2>3. /\ x \in Nodes /\ Op(x) = "product" /\ first \in Seq(Values) /\ second \in Seq(Values)
        /\ rows \in Seq(Values) /\ value \in Values /\ info.next = 1
        /\ owed[x] = IF info.current = None THEN << >>
                     ELSE Products(<<value>> \o first, rows \o (came \o second))
    BY <2>2 DEF ProductKnows, ProductOwing
  <2>4. second = << >>
    BY <1>0, <1>k, <1>g, <1>6, EndedOwes DEF Waits
  <2>5. rows \o (came \o second) = rows
    BY <2>1, <2>3, <2>4, NothingBefore
  <2>6. ProductOwing(owed[x], "REQUEST", "start", info, value, rows, first, second, found, << >>)
    <3>1. Products(<<value>> \o first, rows)
            = Prefixed(value, SubSeq(rows, 1, Len(rows))) \o Products(first, rows)
      BY <2>3, AllProducts
    <3>2. info.current # None =>
            owed[x] = Prefixed(value, SubSeq(rows, info.next, Len(rows))) \o Products(first, rows)
      BY <2>3, <2>5, <3>1
    <3> QED
      BY <2>3, <3>2 DEF ProductOwing
  <2>7. plan' = plan /\ info = local'[x] /\ UNCHANGED heap
    BY <1>0, <1>i, <1>6, <2>3, Moves DEF KeepTuples
  <2>8. Shows(info, value, rows)
    BY <1>v, <1>r, <2>7, UnchangedHeap, ProductSame
  <2>9. owed[x] = Left(x, "REQUEST", "start", owed, outer, << >>)'
    BY <1>f, <1>g, <1>h, <2>3, <2>6, <2>7, <2>8, ProductRest
  <2>10. Ready(x, "buffer") /\ UNCHANGED heap
    BY <2>3, <2>7 DEF Ready
  <2> QED
    BY <1>0, <1>k, <1>6, <2>9, <2>10, EndsQuietly
<1> QED
  BY <1>1, <1>2, <1>3, <1>4, <1>5, <1>6 DEF ProductOpen

\* Each step of a product to CLOSE keeps the invariant.
LEMMA ProductCloseAnswers ==
  ASSUME ProtocolInv, TupleInv, ProtocolInv', Known, ProductClose
  PROVE  Known'
<1>1. CASE In("product", "CLOSE", "start") /\ Call(Son(1), "CLOSE", "first") /\ KeepLocal /\ KeepTuples
  <2>1. 1 \in DOMAIN plan[n].sons /\ Waits("product", "CLOSE", "first", 1, "CLOSE")
    BY <1>1, Begins DEF Waits
  <2> QED
    BY <1>1, <2>1, ClosesQuietly DEF KeepTuples
<1>2. CASE In("product", "CLOSE", "first") /\ Call(Son(2), "CLOSE", "second") /\ KeepLocal /\ KeepTuples
  <2>1. 2 \in DOMAIN plan[n].sons /\ Waits("product", "CLOSE", "second", 2, "CLOSE")
    BY <1>2, Begins DEF Waits
  <2> QED
    BY <1>2, <2>1, ClosesQuietly DEF KeepTuples
<1>3. CASE /\ In("product", "CLOSE", "second") /\ DeleteAll(HeldByProduct) /\ Set(None)
           /\ Return("OK", None)
  <2>0. PICK x : x = n
    OBVIOUS
  <2>k. PICK owed, outer : Exact(owed, outer)
    BY DEF Known
  <2>1. /\ x \in Nodes /\ Op(x) = "product" /\ plan' = plan /\ argument' = argument
    BY <1>3, <2>0, Begins, Moves
  <2>2. Stays(x) /\ HeapTyped(heap')
    BY <1>3, <2>0, <2>k, <2>1, WithoutHeld DEF Exact
  <2>3. Alone(x)
    BY <1>3, <2>0, <2>1, StaysAlone
  <2> QED
    BY <1>3, <2>0, <2>k, <2>2, <2>3, Closing
<1> QED
  BY <1>1, <1>2, <1>3 DEF ProductClose

\* x owes only the rest.
Takes(x, rest, owed, owed2) == owed2 = [owed EXCEPT ![x] = rest]

\* Its sons owe what they owed.
LEMMA SonOwes ==
  ASSUME ProtocolInv, NEW owed, NEW outer, Exact(owed, outer), NEW x \in Nodes,
         NEW rest, NEW owed2, Takes(x, rest, owed, owed2), NEW k \in DOMAIN plan[x].sons
  PROVE  owed2[SonOf(plan, x, k)] = owed[SonOf(plan, x, k)]
<1>1. SonOf(plan, x, k) \in Nodes /\ SonOf(plan, x, k) > x /\ x \in Nat
  BY NodesAndSons DEF ProtocolInv, ValuesOK
<1>2. PICK s : s = SonOf(plan, x, k)
  OBVIOUS
<1>3. s \in Nodes /\ s # x
  BY <1>1, <1>2
<1>4. owed2[s] = owed[s]
  BY <1>3 DEF Takes, Exact, Ghosts
<1> QED
  BY <1>2, <1>4

\* What a product has when it yields.
Pairs(x, info, after, t, k, value, rows, first, owed) ==
  /\ info \in LocalOf["product"] /\ after \in LocalOf["product"] /\ after.buffer = info.buffer
  /\ t = after.current /\ t # None /\ t \in Given \cup Has(x)
  /\ k \in Nat \ {0} /\ k <= Len(info.buffer) /\ after.next = k + 1
  /\ value = Value(t) /\ rows = Rows(info.buffer) /\ first \in Seq(Values)
  /\ owed[x] = Prefixed(value, SubSeq(rows, k, Len(rows))) \o Products(first, rows)

\* A product yields what its tuple gives with the next one of the buffer.
LEMMA ProductYields ==
  ASSUME ProtocolInv, TupleInv, NEW owed, NEW outer, Exact(owed, outer),
         NEW at, In("product", "REQUEST", at), NEW x, x = n,
         NEW info, info = local[x], NEW after, Set(after), NEW t, NEW k,
         YieldNew(Joined(t, info.buffer[k]), None), NEW value, NEW rows,
         NEW first, first = owed[SonOf(plan, x, 1)],
         Pairs(x, info, after, t, k, value, rows, first, owed)
  PROVE  Known'
<1>a. info \in LocalOf["product"] /\ after \in LocalOf["product"] /\ after.buffer = info.buffer
  BY DEF Pairs
<1>b. t = after.current /\ t # None /\ t \in Given \cup Has(x)
  BY DEF Pairs
<1>c. k \in Nat \ {0} /\ k <= Len(info.buffer) /\ after.next = k + 1
  BY DEF Pairs
<1>d. value = Value(t) /\ rows = Rows(info.buffer) /\ first \in Seq(Values)
  BY DEF Pairs
<1>e. owed[x] = Prefixed(value, SubSeq(rows, k, Len(rows))) \o Products(first, rows)
  BY DEF Pairs
<1>1. /\ x \in Nodes /\ Op(x) = "product" /\ DOMAIN plan[x].sons = {1, 2} /\ info # None
  BY <1>a, Begins, ProductTyped
<1>2. HeapTyped(heap) /\ info.buffer \in Seq(Tuples)
  BY <1>a, ProductTyped DEF Exact
<1>3. rows \in Seq(Values) /\ Len(rows) = Len(info.buffer) /\ value \in Values
      /\ rows[k] = Value(info.buffer[k])
  BY <1>2, <1>c, <1>d, RowsMore, RowsTyped, OuterTyped
<1>4. PICK more \in Seq(Values) : more = Products(first, rows)
  BY <1>3, <1>d, ProductsMore
<1>5. PICK rest : rest = Prefixed(value, SubSeq(rows, after.next, Len(rows))) \o more
  OBVIOUS
<1>6. PICK joined : joined = value \o rows[k]
  OBVIOUS
<1>7. owed[x] = <<joined>> \o rest /\ rest \in Seq(Values) /\ joined \in Values
  <2>2. PICK place : place = after.next /\ place = k + 1
    BY <1>c
  <2>3. rest = Prefixed(value, SubSeq(rows, place, Len(rows))) \o more
    BY <1>5, <2>2
  <2>4. /\ Prefixed(value, SubSeq(rows, k, Len(rows))) \o more = <<value \o rows[k]>> \o rest
        /\ rest \in Seq(Values) /\ value \o rows[k] \in Values
    <3>1. k <= Len(rows) /\ rows \in Seq(Values) /\ value \in Values
      BY <1>3, <1>c
    <3>2. Splits(value, rows, k, more, rest)
      BY <1>4, <1>c, <2>2, <2>3, <3>1, OneProduct
    <3> QED
      BY <3>2 DEF Splits
  <2> QED
    BY <1>4, <1>6, <1>e, <2>4
<1>8. Joined(t, info.buffer[k]) = joined
  BY <1>3, <1>6, <1>d DEF Joined
<1>9. PICK w \in Tuples :
        /\ Return("YIELD", w) /\ Value(w)' = joined
        /\ \A u \in DOMAIN heap \ {None} : Value(u)' = Value(u)
        /\ HeapTyped(heap) /\ joined \in Values => HeapTyped(heap')
  BY <1>8, WithNew
<1>10. plan' = plan /\ argument' = argument /\ after = local'[x]
  BY <1>1, <1>9, Moves
<1>11. Alone(x)
  BY <1>10, StaysAlone
<1>12. Has(x) = KeptBy(info) /\ Has(x) \subseteq DOMAIN heap
  BY <1>1, <1>10, ProductHas
<1>13. None \notin DOMAIN heap /\ Given \subseteq DOMAIN heap
  BY NoneAssumption DEF TupleInv, OneHolder, HeapFine
<1>14. Stays(x) /\ HeapTyped(heap')
  BY <1>2, <1>7, <1>9, <1>13 DEF Stays
<1>15. Value(t)' = value
  BY <1>9, <1>12, <1>13, <1>b, <1>d
<1>16. rows = Rows(info.buffer)'
  <2>1. \A j \in DOMAIN info.buffer : info.buffer[j] \in DOMAIN heap
    <3>1. \A j \in DOMAIN info.buffer : info.buffer[j] \in Range(info.buffer) /\ info.buffer[j] # None
      BY <1>2, NoneAssumption DEF Range
    <3> QED
      BY <1>1, <1>12, <3>1 DEF KeptBy
  <2>2. \A j \in DOMAIN info.buffer : Value(info.buffer[j])' = Value(info.buffer[j])
    BY <1>9, <1>13, <2>1
  <2> QED
    BY <2>2, <1>d, RowsKept
<1>17. Shows(after, value, rows)
  BY <1>15, <1>16, <1>a, <1>b DEF Shows
<1>18. PICK owed2 : owed2 = [owed EXCEPT ![x] = rest]
  OBVIOUS
<1>19. owed2[x] = rest
  BY <1>1, <1>18 DEF Exact, Ghosts
<1>20. first = owed2[SonOf(plan, x, 1)]
  <2>1. x \in Nodes /\ 1 \in DOMAIN plan[x].sons
    BY <1>1
  <2>2. Takes(x, rest, owed, owed2)
    BY <1>18 DEF Takes
  <2>3. owed2[SonOf(plan, x, 1)] = owed[SonOf(plan, x, 1)]
    BY <2>1, <2>2, SonOwes
  <2> QED
    BY <2>3
<1>21. PICK second : second = owed2[SonOf(plan, x, 2)]
  OBVIOUS
<1>22. PICK found : found = Meaning(plan)[SonOf(plan, x, 2)][outer[x]]
  OBVIOUS
<1>23. ProductOwing(owed2[x], "REQUEST", "start", after, value, rows, first, second, found, << >>)
  BY <1>4, <1>5, <1>19, <1>b DEF ProductOwing
<1>24. rest = Left(x, "REQUEST", "start", owed2, outer, << >>)'
  <2>1. owed2[x] = Left(x, "REQUEST", "start", owed2, outer, << >>)'
    BY <1>1, <1>10, <1>17, <1>20, <1>21, <1>22, <1>23, ProductRest
  <2> QED
    BY <1>19, <2>1
<1>25. Ready(x, at)
  BY <1>1 DEF Ready
<1>26. Exact(owed2, outer)'
  BY <1>7, <1>9, <1>11, <1>14, <1>18, <1>24, <1>25, ReturnYield
<1> QED
  BY <1>26, KnownNext

\* The next information of a product that yields.
LEMMA NextPlace ==
  ASSUME NEW info \in LocalOf["product"], NEW after,
         \/ after = [info EXCEPT !.next = @ + 1]
         \/ \E t \in Tuples : after = [info EXCEPT !.current = t, !.next = 2]
  PROVE  after \in LocalOf["product"] /\ after.buffer = info.buffer
<1>1. LocalOf["product"] = [current : Tuples \cup {None}, buffer : Seq(Tuples), next : Tuples]
  BY Locals
<1>2. CASE after = [info EXCEPT !.next = @ + 1]
  BY <1>1, <1>2 DEF Tuples
<1>3. ASSUME NEW t \in Tuples, after = [info EXCEPT !.current = t, !.next = 2]
      PROVE  after \in LocalOf["product"] /\ after.buffer = info.buffer
  <2>1. info \in [current : Tuples \cup {None}, buffer : Seq(Tuples), next : Tuples]
    BY <1>1
  <2>2. 2 \in Tuples
    BY Two
  <2>3. after \in [current : Tuples \cup {None}, buffer : Seq(Tuples), next : Tuples]
    BY <1>3, <2>1, <2>2
  <2>4. after.buffer = info.buffer
    BY <1>3, <2>1
  <2> QED
    BY <1>1, <2>3, <2>4
<1> QED
  BY <1>2, <1>3

\* Each step of a product to REQUEST keeps the invariant.
LEMMA ProductRequestAnswers ==
  ASSUME ProtocolInv, TupleInv, ProtocolInv', Known, ProductRequest
  PROVE  Known'
<1>0. PICK x : x = n
  OBVIOUS
<1>k. PICK owed, outer : Exact(owed, outer)
  BY DEF Known
<1>f. PICK first : first = owed[SonOf(plan, x, 1)]
  OBVIOUS
<1>g. PICK second : second = owed[SonOf(plan, x, 2)]
  OBVIOUS
<1>h. PICK found : found = Meaning(plan)[SonOf(plan, x, 2)][outer[x]]
  OBVIOUS
<1>i. PICK info : info = local[x]
  OBVIOUS
<1>v. PICK value : value = Value(info.current)
  OBVIOUS
<1>r. PICK rows : rows = Rows(info.buffer)
  OBVIOUS
<1>o. ASSUME NEW at, In("product", "REQUEST", at), NEW came, Coming(at, came)
      PROVE  ProductKnows(x, "REQUEST", at, info, owed, outer, value, rows, first, second, found, came)
  BY <1>0, <1>k, <1>f, <1>g, <1>h, <1>i, <1>v, <1>r, <1>o, ProductOwes
<1>1. ASSUME In("product", "REQUEST", "start")
      PROVE  /\ ProductKnows(x, "REQUEST", "start", info, owed, outer, value, rows, first, second, found, << >>)
             /\ x \in Nodes /\ Op(x) = "product" /\ DOMAIN plan[x].sons = {1, 2}
             /\ first \in Seq(Values) /\ info \in LocalOf["product"] /\ info.next \in Nat \ {0}
             /\ rows \in Seq(Values) /\ value \in Values /\ Len(rows) = Len(info.buffer)
             /\ owed[x] = IF info.current = None THEN << >>
                   ELSE Prefixed(value, SubSeq(rows, info.next, Len(rows))) \o Products(first, rows)
  <2>1. PICK came : came = << >> /\ Coming("start", came)
    BY DEF Coming
  <2>2. ProductKnows(x, "REQUEST", "start", info, owed, outer, value, rows, first, second, found, << >>)
    BY <1>o, <1>1, <2>1
  <2> QED
    BY <2>2 DEF ProductKnows, ProductOwing
<1>2. CASE /\ In("product", "REQUEST", "start") /\ (local[n].current = None \/ local[n].buffer = << >>)
           /\ KeepLocal /\ KeepTuples /\ Return("CANCEL", None)
  <2>1. info.current = None \/ info.buffer = << >>
    BY <1>0, <1>i, <1>2
  <2>2. owed[x] = << >>
    <3>1. CASE info.current = None
      BY <1>1, <1>2, <3>1
    <3>2. CASE info.buffer = << >>
      <4>1. rows = << >>
        BY <1>1, <1>2, <3>2 DEF ProductKnows
      <4>2. PICK k \in Nat \ {0} : k = info.next /\ k > Len(rows)
        BY <1>1, <1>2, <4>1
      <4>3. first \in Seq(Values) /\ rows \in Seq(Values) /\ value \in Values
        BY <1>1, <1>2
      <4>4. Prefixed(value, SubSeq(rows, k, Len(rows))) \o Products(first, rows) = Products(first, rows)
        BY <4>2, <4>3, NoProduct
      <4>5. Products(first, rows) = << >>
        BY <4>1, <4>3, AllProducts
      <4> QED
        BY <1>1, <1>2, <4>2, <4>4, <4>5
    <3> QED
      BY <2>1, <3>1, <3>2
  <2> QED
    BY <1>0, <1>k, <1>2, <2>2, EndsQuietly DEF KeepTuples
<1>3. CASE /\ In("product", "REQUEST", "start") /\ local[n].current # None
           /\ local[n].next <= Len(local[n].buffer) /\ Set([local[n] EXCEPT !.next = @ + 1])
           /\ YieldNew(Joined(local[n].current, local[n].buffer[local[n].next]), None)
  <2>1. PICK k \in Nat \ {0} : k = info.next
    BY <1>1, <1>3
  <2>2. PICK t : t = info.current
    OBVIOUS
  <2>3. PICK after : after = [info EXCEPT !.next = @ + 1]
    OBVIOUS
  <2>4. info \in LocalOf["product"] /\ first \in Seq(Values) /\ x \in Nodes /\ Op(x) = "product"
    BY <1>1, <1>3
  <2>5. after \in LocalOf["product"] /\ after.buffer = info.buffer
    BY <2>3, <2>4, NextPlace
  <2>6. t = after.current /\ after.next = k + 1
    <3>1. info \in [current : Tuples \cup {None}, buffer : Seq(Tuples), next : Tuples]
      BY <2>4, Locals
    <3> QED
      BY <2>1, <2>2, <2>3, <3>1
  <2>7. Set(after) /\ YieldNew(Joined(t, info.buffer[k]), None) /\ k <= Len(info.buffer) /\ t # None
    BY <1>0, <1>i, <1>3, <2>1, <2>2, <2>3
  <2>8. t \in Given \cup Has(x)
    <3>1. plan' = plan /\ local[x] # None
      <4>1. plan' = plan
        BY <2>7 DEF YieldNew, Return, treeVars
      <4> QED
        BY <1>i, <2>4, <4>1, ProductTyped
    <3>2. Has(x) = KeptBy(info)
      BY <1>0, <1>i, <2>4, <2>7, <3>1, ProductHas
    <3> QED
      BY <1>i, <2>2, <2>7, <3>1, <3>2 DEF KeptBy
  <2>9. value = Value(t)
    BY <1>v, <2>2
  <2>10. owed[x] = Prefixed(value, SubSeq(rows, k, Len(rows))) \o Products(first, rows)
    BY <1>1, <1>3, <2>1, <2>2, <2>7
  <2>11. Pairs(x, info, after, t, k, value, rows, first, owed)
    BY <1>r, <2>1, <2>4, <2>5, <2>6, <2>7, <2>8, <2>9, <2>10 DEF Pairs
  <2> QED
    BY <1>0, <1>k, <1>f, <1>i, <1>3, <2>7, <2>11, ProductYields
<1>4. CASE /\ In("product", "REQUEST", "start") /\ local[n].current # None
           /\ ~(local[n].next <= Len(local[n].buffer)) /\ Set([local[n] EXCEPT !.current = None])
           /\ Delete(local[n].current) /\ Call(Son(1), "REQUEST", "current")
  <2>1. PICK k \in Nat \ {0} : k = info.next /\ k > Len(rows)
    BY <1>0, <1>i, <1>1, <1>4
  <2>2. PICK t : t = info.current
    OBVIOUS
  <2>3. PICK after : after = [info EXCEPT !.current = None]
    OBVIOUS
  <2>4. /\ info \in LocalOf["product"] /\ first \in Seq(Values) /\ x \in Nodes /\ Op(x) = "product"
        /\ rows \in Seq(Values) /\ value \in Values /\ DOMAIN plan[x].sons = {1, 2}
    BY <1>1, <1>4
  <2>5. after.buffer = info.buffer
    BY <2>3, <2>4, NewPlace
  <2>6. plan' = plan /\ argument' = argument /\ after = local'[x] /\ heap' = Without(heap, t)
    BY <1>0, <1>i, <1>4, <2>2, <2>3, <2>4, Moves DEF Delete
  <2>7. Has(x) = KeptBy(info) /\ KeptOnce(info) /\ Has(x) \subseteq DOMAIN heap
    BY <1>0, <1>i, <1>4, <2>4, <2>6, ProductHas
  <2>8. t # None /\ info # None /\ info.buffer \in Seq(Tuples)
    BY <1>0, <1>i, <1>4, <2>2, <2>4, ProductTyped
  <2>9. t \in Has(x) /\ t \notin Range(info.buffer)
    BY <2>2, <2>7, <2>8 DEF KeptBy, KeptOnce
  <2>10. (\A u : u # t => Value(u)' = Value(u)) /\ HeapTyped(heap')
    BY <1>k, <2>6, WithoutOne DEF Exact
  <2>11. Stays(x) /\ Alone(x)
    BY <1>0, <1>4, <2>6, <2>9, <2>10, StaysAlone DEF Stays
  <2>12. rows = Rows(info.buffer)'
    <3>1. \A j \in DOMAIN info.buffer : info.buffer[j] \in Range(info.buffer)
      BY DEF Range
    <3>2. \A j \in DOMAIN info.buffer : Value(info.buffer[j])' = Value(info.buffer[j])
      BY <2>9, <2>10, <3>1
    <3> QED
      BY <1>r, <3>2, RowsKept
  <2>13. PICK value2 : Shows(after, value2, rows)
    BY <2>5, <2>12 DEF Shows
  <2>14. owed[x] = Products(first, rows)
    <3>1. owed[x] = Prefixed(value, SubSeq(rows, k, Len(rows))) \o Products(first, rows)
      BY <1>1, <1>4, <2>1, <2>2, <2>8
    <3> QED
      BY <2>1, <2>4, <3>1, NoProduct
  <2>15. << >> \o first = first
    BY <2>4, NothingBefore
  <2>16. ProductOwing(owed[x], "REQUEST", "current", after, value2, rows, first, second, found, << >>)
    BY <2>14, <2>15 DEF ProductOwing
  <2>17. GoesOn(x, "REQUEST", "start", "current", owed, outer)
    <3>1. Op(x) = "product" /\ plan' = plan /\ after = local'[x]
      BY <2>4, <2>6
    <3> QED
      BY <1>f, <1>g, <1>h, <2>13, <2>16, <3>1, ProductGoes
  <2>18. 1 \in DOMAIN plan[x].sons /\ Waits("product", "REQUEST", "current", 1, "REQUEST")
    BY <2>4 DEF Waits
  <2>19. Exact(owed, outer)'
    BY <1>0, <1>k, <1>4, <2>10, <2>11, <2>17, <2>18, CallOn
  <2> QED
    BY <2>19, KnownNext
<1>5. ASSUME In("product", "REQUEST", "current"), NEW came, Coming("current", came)
      PROVE  /\ x \in Nodes /\ Op(x) = "product"
             /\ first \in Seq(Values) /\ info \in LocalOf["product"]
             /\ rows \in Seq(Values) /\ Len(rows) = Len(info.buffer)
             /\ owed[x] = Products(came \o first, rows) /\ info.buffer # << >>
  <2>1. ProductKnows(x, "REQUEST", "current", info, owed, outer, value, rows, first, second, found, came)
    BY <1>o, <1>5
  <2>2. Running(x, "REQUEST", "current")
    BY <1>0, <1>5, Begins
  <2>3. info.buffer # << >>
    BY <1>i, <2>1, <2>2 DEF Running, ProductKnows
  <2> QED
    BY <2>1, <2>3 DEF ProductKnows, ProductOwing
<1>6. CASE /\ In("product", "REQUEST", "current") /\ Yielded
           /\ Set([local[n] EXCEPT !.current = answer.tuple, !.next = 2])
           /\ YieldNew(Joined(answer.tuple, local[n].buffer[1]), None)
  <2>1. PICK t : t = answer.tuple
    OBVIOUS
  <2>2. PICK new : new = Value(t)
    OBVIOUS
  <2>3. PICK came : came = <<new>> /\ Coming("current", came)
    BY <1>6, <2>1, <2>2 DEF Coming
  <2>4. /\ x \in Nodes /\ Op(x) = "product"
        /\ first \in Seq(Values) /\ info \in LocalOf["product"]
        /\ rows \in Seq(Values) /\ Len(rows) = Len(info.buffer)
        /\ owed[x] = Products(came \o first, rows) /\ info.buffer # << >>
    BY <1>5, <1>6, <2>3
  <2>5. t \in Tuples /\ t # None /\ t \in Given
    BY <1>6, <2>1, TakesAnswer, NoneAssumption
  <2>6. new \in Values
    BY <1>k, <2>2, CameValue
  <2>7. PICK after : after = [info EXCEPT !.current = t, !.next = 2]
    OBVIOUS
  <2>8. after \in LocalOf["product"] /\ after.buffer = info.buffer
    BY <2>4, <2>5, <2>7, NextPlace
  <2>9. t = after.current /\ after.next = 1 + 1 /\ 1 <= Len(info.buffer)
    <3>1. info \in [current : Tuples \cup {None}, buffer : Seq(Tuples), next : Tuples]
      BY <2>4, Locals
    <3> QED
      BY <2>4, <2>7, <3>1
  <2>10. Set(after) /\ YieldNew(Joined(t, info.buffer[1]), None)
    BY <1>0, <1>i, <1>6, <2>1, <2>7
  <2>11. owed[x] = Prefixed(new, SubSeq(rows, 1, Len(rows))) \o Products(first, rows)
    BY <2>3, <2>4, <2>6, AllProducts
  <2>12. PICK k \in Nat \ {0} : k = 1
    OBVIOUS
  <2>13. owed[x] = Prefixed(new, SubSeq(rows, k, Len(rows))) \o Products(first, rows)
    BY <2>11, <2>12
  <2>14. /\ k <= Len(info.buffer) /\ after.next = k + 1 /\ t = after.current
         /\ YieldNew(Joined(t, info.buffer[k]), None) /\ Set(after)
    BY <2>9, <2>10, <2>12
  <2>15. Pairs(x, info, after, t, k, new, rows, first, owed)
    BY <1>r, <2>2, <2>4, <2>5, <2>8, <2>12, <2>13, <2>14 DEF Pairs
  <2> QED
    BY <1>0, <1>k, <1>f, <1>i, <1>6, <2>14, <2>15, ProductYields
<1>7. CASE /\ In("product", "REQUEST", "current") /\ ~Yielded /\ KeepLocal /\ KeepTuples
           /\ Return("CANCEL", None)
  <2>1. PICK came : came = << >> /\ Coming("current", came)
    BY <1>7 DEF Coming
  <2>2. first \in Seq(Values) /\ rows \in Seq(Values) /\ owed[x] = Products(came \o first, rows)
    BY <1>5, <1>7, <2>1
  <2>3. first = << >>
    BY <1>0, <1>k, <1>f, <1>7, EndedOwes DEF Waits
  <2>4. owed[x] = << >>
    BY <2>1, <2>2, <2>3, ProductsMore, NothingBefore
  <2> QED
    BY <1>0, <1>k, <1>7, <2>4, EndsQuietly DEF KeepTuples
<1> QED
  BY <1>2, <1>3, <1>4, <1>6, <1>7 DEF ProductRequest

-----------------------------------------------------------------------------
(* loopjoin.                                                               *)

\* What a loopjoin has yet to yield, by its tuple, the one that it passes to
\* its function, and what its sons have.
LoopjoinOwing(left, at, info, value, given, first, second, found, came) ==
  left = IF at \in {"opened", "first", "closed", "outer"} THEN Loops(came \o first, found)
         ELSE IF at = "function" THEN Prefixed(given, second) \o Loops(first, found)
         ELSE IF info.x = None THEN << >>
         ELSE Prefixed(value, came \o second) \o Loops(first, found)

\* It is what the invariant says.
LEMMA LoopjoinLeft ==
  ASSUME NEW x, Op(x) = "loopjoin", NEW owed, NEW outer, NEW came, NEW message, NEW at,
         ~(message = "OPEN" /\ at = "start"),
         NEW left, left = Left(x, message, at, owed, outer, came)
  PROVE  LoopjoinOwing(left, at, local[x], Value(local[x].x), Value(argument[x]),
                       owed[SonOf(plan, x, 1)], owed[SonOf(plan, x, 2)],
                       Meaning(plan)[SonOf(plan, x, 2)], came)
<1>1. left = LeftOfLoopjoin(x, message, at, owed[SonOf(plan, x, 1)], owed[SonOf(plan, x, 2)],
                            Found(x, outer[x]), came)
  BY DEF Left, LeftOf
<1>2. Found(x, outer[x])[2] = Meaning(plan)[SonOf(plan, x, 2)]
  BY DEF Found
<1> QED
  BY <1>1, <1>2 DEF LeftOfLoopjoin, LoopjoinOwing

\* value and given are those of the outer tuple and of the one passed, after the step.
Sees(info, passed, value, given) == value = Value(info.x)' /\ given = Value(passed)'

\* The same after the step.
LEMMA LoopjoinLeftNext ==
  ASSUME plan' = plan, NEW x, Op(x) = "loopjoin", NEW owed, NEW outer, NEW message, NEW at,
         ~(message = "OPEN" /\ at = "start"), NEW info, info = local'[x],
         NEW passed, passed = argument'[x],
         NEW value, NEW given, Sees(info, passed, value, given),
         NEW first, first = owed[SonOf(plan, x, 1)],
         NEW second, second = owed[SonOf(plan, x, 2)],
         NEW found, found = Meaning(plan)[SonOf(plan, x, 2)],
         NEW left, LoopjoinOwing(left, at, info, value, given, first, second, found, << >>)
  PROVE  left = Left(x, message, at, owed, outer, << >>)'
<1>1. Op(x)' = "loopjoin"
  BY DEF Op
<1>2. Left(x, message, at, owed, outer, << >>)'
        = LeftOfLoopjoin(x, message, at, first, second, Found(x, outer[x]), << >>)'
  BY <1>1 DEF Left, LeftOf
<1>3. Found(x, outer[x])[2]' = found
  BY DEF Found
<1>4. value = Value(local[x].x)' /\ given = Value(argument[x])'
  BY DEF Sees
<1> QED
  BY <1>2, <1>3, <1>4 DEF LeftOfLoopjoin, LoopjoinOwing

\* What a loopjoin knows at its places.
LoopjoinKnows(x, at, info, owed, outer, value, given, first, second, found, came) ==
  /\ x \in Nodes /\ Op(x) = "loopjoin" /\ DOMAIN plan[x].sons = {1, 2}
  /\ first \in Seq(Values) /\ second \in Seq(Values) /\ found \in [Attributes -> Seq(Values)]
  /\ info # None /\ info \in LocalOf["loopjoin"] /\ info.x \in Tuples \cup {None}
  /\ value \in Values /\ given \in Values
  /\ LoopjoinOwing(owed[x], at, info, value, given, first, second, found, came)

\* The local information of a loopjoin.
LEMMA LoopjoinTyped ==
  ASSUME NEW info \in LocalOf["loopjoin"]
  PROVE  info.x \in Tuples \cup {None} /\ info # None
<1>1. LocalOf["loopjoin"] = [x : Tuples \cup {None}] /\ None \notin LocalOf["loopjoin"]
  BY Locals
<1> QED
  BY <1>1

\* What a loopjoin owes, at each of its places.
LEMMA LoopjoinOwes ==
  ASSUME ProtocolInv, TupleInv, NEW owed, NEW outer, Exact(owed, outer),
         NEW message \in {"OPEN", "REQUEST"}, NEW at, In("loopjoin", message, at), NEW x, x = n,
         ~(message = "OPEN" /\ at = "start"), NEW info, info = local[x],
         NEW value, value = Value(info.x), NEW given, given = Value(argument[x]),
         NEW first, first = owed[SonOf(plan, x, 1)], NEW second, second = owed[SonOf(plan, x, 2)],
         NEW found, found = Meaning(plan)[SonOf(plan, x, 2)], NEW came, Coming(at, came)
  PROVE  LoopjoinKnows(x, at, info, owed, outer, value, given, first, second, found, came)
<1>1. /\ x \in Nodes /\ Op(x) = "loopjoin" /\ DOMAIN plan[x].sons = {1, 2}
      /\ local[x] \in LocalOf["loopjoin"] \cup {None}
  BY Begins
<1>2. TopKnows(x, message, at, owed, outer)
  BY AtTop
<1>3. /\ owed[SonOf(plan, x, 1)] \in Seq(Values) /\ owed[SonOf(plan, x, 2)] \in Seq(Values)
      /\ came = Came /\ owed[x] = Left(x, message, at, owed, outer, Came)
  BY <1>1, <1>2 DEF TopKnows, Coming
<1>4. LoopjoinOwing(owed[x], at, info, value, given, first, second, found, came)
  <2>1. PICK left : left = owed[x]
    OBVIOUS
  <2>2. left = Left(x, message, at, owed, outer, came)
    BY <1>3, <2>1
  <2>3. LoopjoinOwing(left, at, local[x], Value(local[x].x), Value(argument[x]),
                      owed[SonOf(plan, x, 1)], owed[SonOf(plan, x, 2)],
                      Meaning(plan)[SonOf(plan, x, 2)], came)
    BY <1>1, <2>2, LoopjoinLeft
  <2> QED
    BY <2>1, <2>3
<1>5. info # None
  <2>1. CASE at = "start"
    <3>1. message = "REQUEST"
      BY <2>1
    <3> QED
      BY <1>1, <2>1, <3>1, Begins DEF Idle, IdleOpened, Asked
  <2>2. CASE at # "start"
    <3>1. Running(x, message, at)
      BY <2>2, Begins
    <3> QED
      BY <1>1, <3>1 DEF Running
  <2> QED
    BY <2>1, <2>2
<1>6. info \in LocalOf["loopjoin"]
  BY <1>1, <1>5
<1>7. info.x \in Tuples \cup {None}
  BY <1>6, LoopjoinTyped
<1>8. HeapTyped(heap) /\ plan \in Plans
  BY DEF Exact
<1>9. value \in Values /\ given \in Values
  BY <1>8, OuterTyped
<1>10. found \in [Attributes -> Seq(Values)]
  <2>1. SonOf(plan, x, 2) \in Nodes
    BY <1>1, NodesAndSons DEF ProtocolInv, ValuesOK
  <2> QED
    BY <1>8, <2>1, MeaningIs DEF Streams, Nodes
<1>11. first \in Seq(Values) /\ second \in Seq(Values)
  BY <1>3
<1> QED
  BY <1>1, <1>4, <1>5, <1>6, <1>7, <1>9, <1>10, <1>11 DEF LoopjoinKnows

\* A call of a loopjoin, by what it owes after it.
LEMMA LoopjoinGoes ==
  ASSUME plan' = plan, NEW x, Op(x) = "loopjoin", NEW owed, NEW outer,
         NEW message \in {"OPEN", "REQUEST"}, NEW at, NEW next, next # "start",
         NEW info, info = local'[x], NEW passed, passed = argument'[x],
         NEW value, NEW given, Sees(info, passed, value, given),
         NEW first, first = owed[SonOf(plan, x, 1)], NEW second, second = owed[SonOf(plan, x, 2)],
         NEW found, found = Meaning(plan)[SonOf(plan, x, 2)],
         LoopjoinOwing(owed[x], next, info, value, given, first, second, found, << >>),
         next = "inner" => at \in {"start", "function"} /\ Passed(x)' = Passed(x)
  PROVE  GoesOn(x, message, at, next, owed, outer)
<1>1. PICK left : left = owed[x]
  OBVIOUS
<1>2. LoopjoinOwing(left, next, info, value, given, first, second, found, << >>)
  BY <1>1
<1>3. left = Left(x, message, next, owed, outer, << >>)'
  <2>1. ~(message = "OPEN" /\ next = "start")
    OBVIOUS
  <2>2. Op(x)' = "loopjoin"
    BY DEF Op
  <2>3. Left(x, message, next, owed, outer, << >>)'
          = LeftOfLoopjoin(x, message, next, first, second, Found(x, outer[x]), << >>)'
    BY <2>1, <2>2 DEF Left, LeftOf
  <2>4. Found(x, outer[x])[2]' = found
    BY DEF Found
  <2>5. value = Value(local[x].x)' /\ given = Value(argument[x])'
    BY DEF Sees
  <2> QED
    BY <1>2, <2>3, <2>4, <2>5 DEF LeftOfLoopjoin, LoopjoinOwing
<1>4. Begun(x, message, next)'
  BY DEF Begun, Op
<1> QED
  BY <1>1, <1>3, <1>4 DEF GoesOn

\* What a loopjoin has between two requests.
LEMMA LoopjoinRest ==
  ASSUME plan' = plan, NEW x, Op(x) = "loopjoin", NEW owed, NEW outer,
         NEW info, info = local'[x], NEW passed, passed = argument'[x],
         NEW value, NEW given, Sees(info, passed, value, given),
         NEW first, first = owed[SonOf(plan, x, 1)], NEW second, second = owed[SonOf(plan, x, 2)],
         NEW found, found = Meaning(plan)[SonOf(plan, x, 2)],
         LoopjoinOwing(owed[x], "start", info, value, given, first, second, found, << >>)
  PROVE  owed[x] = Left(x, "REQUEST", "start", owed, outer, << >>)'
<1>1. PICK left : left = owed[x]
  OBVIOUS
<1>2. LoopjoinOwing(left, "start", info, value, given, first, second, found, << >>)
  BY <1>1
<1>3. left = Left(x, "REQUEST", "start", owed, outer, << >>)'
  BY <1>2, LoopjoinLeftNext
<1> QED
  BY <1>1, <1>3

\* The tuples that a loopjoin reads stay if the heap does.
LEMMA LoopjoinSame ==
  ASSUME \A t : Value(t)' = Value(t), NEW info, NEW passed,
         NEW value, value = Value(info.x), NEW given, given = Value(passed)
  PROVE  Sees(info, passed, value, given)
BY DEF Sees

\* The function of a loopjoin gets a tuple.
LEMMA LoopjoinGives ==
  ASSUME ProtocolInv, TupleInv, ProtocolInv', Known,
         NEW message \in {"OPEN", "REQUEST"}, NEW at \in {"first", "outer"},
         In("loopjoin", message, at), Yielded, KeepLocal, KeepTuples,
         CallWith(answer.tuple, "function")
  PROVE  Known'
<1>0. PICK x : x = n
  OBVIOUS
<1>k. PICK owed, outer : Exact(owed, outer)
  BY DEF Known
<1>f. PICK first : first = owed[SonOf(plan, x, 1)]
  OBVIOUS
<1>g. PICK second : second = owed[SonOf(plan, x, 2)]
  OBVIOUS
<1>h. PICK found : found = Meaning(plan)[SonOf(plan, x, 2)]
  OBVIOUS
<1>i. PICK info : info = local[x]
  OBVIOUS
<1>v. PICK value : value = Value(info.x)
  OBVIOUS
<1>w. PICK given : given = Value(argument[x])
  OBVIOUS
<1>1. PICK t : t = answer.tuple
  OBVIOUS
<1>2. PICK new : new = Value(t)
  OBVIOUS
<1>3. PICK came : came = <<new>> /\ Coming(at, came)
  BY <1>1, <1>2 DEF Coming
<1>4. LoopjoinKnows(x, at, info, owed, outer, value, given, first, second, found, came)
  BY <1>0, <1>k, <1>f, <1>g, <1>h, <1>i, <1>v, <1>w, <1>3, LoopjoinOwes
<1>5. /\ x \in Nodes /\ Op(x) = "loopjoin" /\ DOMAIN plan[x].sons = {1, 2}
      /\ first \in Seq(Values) /\ found \in [Attributes -> Seq(Values)]
      /\ owed[x] = Loops(came \o first, found)
  BY <1>4 DEF LoopjoinKnows, LoopjoinOwing
<1>6. t \in Tuples /\ t # None
  BY <1>1, NoneAssumption DEF Yielded, ProtocolInv, ValuesOK
<1>7. new \in Values
  BY <1>k, <1>2, CameValue
<1>8. UNCHANGED heap /\ plan' = plan /\ UNCHANGED <<streams, result, endVars>>
  BY DEF KeepTuples, CallWith
<1>9. AtWork(x) /\ argument'[x] = t /\ Push(Son(2), "OPEN", "function")
  <2>1. misused' \in BOOLEAN /\ IsFiniteSet(DOMAIN heap')
    BY Misuses
  <2> QED
    BY <1>0, <1>1, <1>5, <1>6, <2>1, CallsWith
<1>10. Alone(x)
  BY <1>8, <1>9 DEF AtWork, Alone
<1>11. Stays(x) /\ HeapTyped(heap') /\ (\A u : Value(u)' = Value(u))
  BY <1>k, <1>8, UnchangedHeap DEF Exact
<1>12. Passed(x)' = Attribute(new)
  <2>1. Value(t)' = new
    BY <1>2, <1>11
  <2> QED
    BY <1>6, <1>9, <2>1 DEF Passed
<1>s. PICK s : s = SonOf(plan, x, 2)
  OBVIOUS
<1>13. PICK owed2, outer2 : Opens(s, owed, owed2, outer, outer2)
  BY OpensExist
<1>14. SonOpened(x, 2, s, owed, owed2, outer, outer2)
  BY <1>0, <1>k, <1>s, <1>5, <1>10, <1>11, <1>13, OpenedSon
<1>15. owed2[x] = owed[x] /\ owed2[s] = found[Attribute(new)]
  BY <1>h, <1>s, <1>5, <1>12, <1>14 DEF SonOpened
<1>16. first = owed2[SonOf(plan, x, 1)]
  BY <1>f, <1>5, <1>14 DEF SonOpened
<1>17. PICK mine : mine = owed2[s] /\ mine = found[Attribute(new)]
  BY <1>15
<1>18. PICK after : after = local'[x]
  OBVIOUS
<1>19. PICK value2 : Sees(after, t, value2, new)
  BY <1>2, <1>11 DEF Sees
<1>20. owed[x] = Prefixed(new, mine) \o Loops(first, found)
  BY <1>3, <1>5, <1>7, <1>17, LoopsMore
<1>21. LoopjoinOwing(owed2[x], "function", after, value2, new, first, mine, found, << >>)
  BY <1>15, <1>20 DEF LoopjoinOwing
<1>22. GoesOn(x, message, at, "function", owed2, outer2)
  <2>1. Op(x) = "loopjoin" /\ plan' = plan
    BY <1>5, <1>8
  <2>2. mine = owed2[SonOf(plan, x, 2)]
    BY <1>s, <1>17
  <2>3. t = argument'[x]
    BY <1>9
  <2> QED
    BY <1>h, <1>16, <1>18, <1>19, <1>21, <2>1, <2>2, <2>3, LoopjoinGoes
<1>23. 2 \in DOMAIN plan[x].sons /\ Waits("loopjoin", message, "function", 2, "OPEN")
  BY <1>5 DEF Waits
<1>24. Push(Son(2), "OPEN", "function")
  BY <1>9
<1>25. Exact(owed2, outer2)'
  BY <1>0, <1>k, <1>s, <1>8, <1>10, <1>11, <1>13, <1>22, <1>23, <1>24, CallOpen
<1> QED
  BY <1>25, KnownNext

\* Each step of a loopjoin to OPEN keeps the invariant.
LEMMA LoopjoinOpenAnswers ==
  ASSUME ProtocolInv, TupleInv, ProtocolInv', Known, LoopjoinOpen
  PROVE  Known'
<1>0. PICK x : x = n
  OBVIOUS
<1>k. PICK owed, outer : Exact(owed, outer)
  BY DEF Known
<1>f. PICK first : first = owed[SonOf(plan, x, 1)]
  OBVIOUS
<1>g. PICK second : second = owed[SonOf(plan, x, 2)]
  OBVIOUS
<1>h. PICK found : found = Meaning(plan)[SonOf(plan, x, 2)]
  OBVIOUS
<1>i. PICK info : info = local[x]
  OBVIOUS
<1>v. PICK value : value = Value(info.x)
  OBVIOUS
<1>a. PICK passed : passed = argument[x]
  OBVIOUS
<1>w. PICK given : given = Value(passed)
  OBVIOUS
<1>o. ASSUME NEW at, at # "start", In("loopjoin", "OPEN", at), NEW came, Coming(at, came)
      PROVE  LoopjoinKnows(x, at, info, owed, outer, value, given, first, second, found, came)
  <2>1. given = Value(argument[x])
    BY <1>a, <1>w
  <2> QED
    BY <1>0, <1>k, <1>f, <1>g, <1>h, <1>i, <1>v, <1>o, <2>1, LoopjoinOwes
<1>1. CASE /\ In("loopjoin", "OPEN", "start") /\ Set([x |-> None])
           /\ Call(Son(1), "OPEN", "opened") /\ KeepTuples
  <2>1. /\ DOMAIN plan[x].sons = {1, 2} /\ Waits("loopjoin", "OPEN", "opened", 1, "OPEN")
        /\ plan' = plan /\ argument' = argument /\ x \in Nodes /\ UNCHANGED heap
    BY <1>0, <1>1, Begins, Moves DEF Waits, KeepTuples
  <2>2. /\ owed[x] = Promised(plan, Meaning(plan), x, outer[x]) /\ Op(x) = "loopjoin"
    BY <1>0, <1>k, <1>1, ToOpen
  <2>s. PICK s : s = SonOf(plan, x, 1)
    OBVIOUS
  <2>3. owed[x] = Loops(Meaning(plan)[s][outer[x]], found)
    BY <1>h, <2>s, <2>2 DEF Promised, Op, Loops
  <2>4. PICK owed2, outer2 : Opens(s, owed, owed2, outer, outer2)
    BY OpensExist
  <2>5. Alone(x) /\ Stays(x) /\ HeapTyped(heap')
    BY <1>0, <1>k, <1>1, <2>1, Quietly
  <2>6. SonOpened(x, 1, s, owed, owed2, outer, outer2)
    BY <1>0, <1>k, <1>1, <2>s, <2>1, <2>4, <2>5, OpenedSon
  <2>7. owed2[x] = owed[x] /\ owed2[s] = Meaning(plan)[s][outer[x]] /\ owed2[s] \in Seq(Values)
    BY <2>2, <2>6 DEF SonOpened
  <2>8. PICK mine : mine = owed2[s]
    OBVIOUS
  <2>9. PICK other : other = owed2[SonOf(plan, x, 2)]
    OBVIOUS
  <2>10. PICK after, passed2, value2, given2 :
           after = local'[x] /\ passed2 = argument'[x] /\ Sees(after, passed2, value2, given2)
    BY DEF Sees
  <2>11. << >> \o mine = mine
    BY <2>7, <2>8, NothingBefore
  <2>12. LoopjoinOwing(owed2[x], "opened", after, value2, given2, mine, other, found, << >>)
    BY <2>3, <2>7, <2>8, <2>11 DEF LoopjoinOwing
  <2>13. GoesOn(x, "OPEN", "start", "opened", owed2, outer2)
    <3>1. mine = owed2[SonOf(plan, x, 1)]
      BY <2>s, <2>8
    <3>2. after = local'[x] /\ passed2 = argument'[x] /\ plan' = plan
      BY <2>1, <2>10
    <3>3. Sees(after, passed2, value2, given2)
      BY <2>10
    <3> QED
      BY <1>h, <2>2, <2>9, <2>12, <3>1, <3>2, <3>3, LoopjoinGoes
  <2>14. 1 \in DOMAIN plan[x].sons /\ UNCHANGED heap /\ Waits("loopjoin", "OPEN", "opened", 1, "OPEN")
    BY <2>1
  <2> QED
    BY <1>0, <1>k, <1>1, <2>s, <2>4, <2>13, <2>14, GoOpen
<1>2. CASE /\ In("loopjoin", "OPEN", "opened") /\ Call(Son(1), "REQUEST", "first")
           /\ KeepLocal /\ KeepTuples
  <2>1. PICK came : came = << >> /\ Coming("opened", came)
    <3>1. ~Yielded
      BY <1>2, NoneCame DEF Waits
    <3> QED
      BY <3>1 DEF Coming
  <2>2. LoopjoinKnows(x, "opened", info, owed, outer, value, given, first, second, found, came)
    BY <1>o, <1>2, <2>1
  <2>3. x \in Nodes /\ Op(x) = "loopjoin" /\ DOMAIN plan[x].sons = {1, 2}
    BY <2>2 DEF LoopjoinKnows
  <2>4. LoopjoinOwing(owed[x], "first", info, value, given, first, second, found, << >>)
    BY <2>1, <2>2 DEF LoopjoinKnows, LoopjoinOwing
  <2>5. plan' = plan /\ info = local'[x] /\ passed = argument'[x] /\ UNCHANGED heap
    BY <1>0, <1>i, <1>a, <1>2, <2>3, Moves DEF KeepTuples
  <2>6. Sees(info, passed, value, given)
    BY <1>v, <1>w, <2>5, UnchangedHeap, LoopjoinSame
  <2>7. GoesOn(x, "OPEN", "opened", "first", owed, outer)
    BY <1>f, <1>g, <1>h, <2>3, <2>4, <2>5, <2>6, LoopjoinGoes
  <2>8. Waits("loopjoin", "OPEN", "first", 1, "REQUEST") /\ 1 \in DOMAIN plan[x].sons /\ UNCHANGED heap
    BY <2>3, <2>5 DEF Waits
  <2> QED
    BY <1>0, <1>k, <1>2, <2>7, <2>8, GoOn
<1>3. CASE /\ In("loopjoin", "OPEN", "first") /\ KeepTuples /\ KeepLocal /\ Yielded
           /\ CallWith(answer.tuple, "function")
  BY <1>3, LoopjoinGives
<1>4. CASE /\ In("loopjoin", "OPEN", "first") /\ KeepTuples /\ KeepLocal /\ ~Yielded
           /\ Return("OK", None)
  <2>1. PICK came : came = << >> /\ Coming("first", came)
    BY <1>4 DEF Coming
  <2>2. LoopjoinKnows(x, "first", info, owed, outer, value, given, first, second, found, came)
    BY <1>o, <1>4, <2>1
  <2>3. /\ x \in Nodes /\ Op(x) = "loopjoin" /\ found \in [Attributes -> Seq(Values)]
        /\ owed[x] = Loops(came \o first, found) /\ first \in Seq(Values)
    BY <2>2 DEF LoopjoinKnows, LoopjoinOwing
  <2>4. first = << >>
    BY <1>0, <1>k, <1>f, <1>4, EndedOwes DEF Waits
  <2>5. owed[x] = << >>
    BY <2>1, <2>3, <2>4, LoopsMore, NothingBefore
  <2>6. info.x = None /\ SonState(x, 2) = "closed"
    <3>1. Running(x, "OPEN", "first")
      BY <1>0, <1>4, Begins
    <3> QED
      BY <1>i, <2>3, <3>1 DEF Running
  <2>7. LoopjoinOwing(owed[x], "start", info, value, given, first, second, found, << >>)
    BY <2>5, <2>6 DEF LoopjoinOwing
  <2>8. plan' = plan /\ info = local'[x] /\ passed = argument'[x] /\ UNCHANGED heap
    BY <1>0, <1>i, <1>a, <1>4, <2>3, Moves DEF KeepTuples
  <2>9. Sees(info, passed, value, given)
    BY <1>v, <1>w, <2>8, UnchangedHeap, LoopjoinSame
  <2>10. owed[x] = Left(x, "REQUEST", "start", owed, outer, << >>)'
    BY <1>f, <1>g, <1>h, <2>3, <2>7, <2>8, <2>9, LoopjoinRest
  <2>11. Ready(x, "first") /\ UNCHANGED heap
    BY <2>6, <2>8 DEF Ready
  <2> QED
    BY <1>0, <1>k, <1>4, <2>10, <2>11, EndsQuietly
<1>5. CASE /\ In("loopjoin", "OPEN", "function") /\ Set([x |-> argument[n]]) /\ KeepTuples
           /\ Return("OK", None)
  <2>1. PICK came : came = << >> /\ Coming("function", came)
    <3>1. ~Yielded
      BY <1>5, NoneCame DEF Waits
    <3> QED
      BY <3>1 DEF Coming
  <2>2. LoopjoinKnows(x, "function", info, owed, outer, value, given, first, second, found, came)
    BY <1>o, <1>5, <2>1
  <2>3. /\ x \in Nodes /\ Op(x) = "loopjoin" /\ second \in Seq(Values)
        /\ owed[x] = Prefixed(given, second) \o Loops(first, found)
    BY <2>2 DEF LoopjoinKnows, LoopjoinOwing
  <2>4. passed # None
    <3>1. Running(x, "OPEN", "function")
      BY <1>0, <1>5, Begins
    <3> QED
      BY <1>a, <2>3, <3>1 DEF Running
  <2>5. PICK after : after = [x |-> passed]
    OBVIOUS
  <2>6. plan' = plan /\ argument' = argument /\ after = local'[x] /\ UNCHANGED heap
    BY <1>0, <1>a, <1>5, <2>3, <2>5, Moves DEF KeepTuples
  <2>7. after.x = passed
    BY <2>5
  <2>8. (\A u : Value(u)' = Value(u)) /\ Passed(x)' = Passed(x)
    BY <1>0, <1>k, <1>5, <2>6, Quietly
  <2>9. Sees(after, passed, given, given)
    BY <1>w, <2>7, <2>8 DEF Sees
  <2>10. << >> \o second = second
    BY <2>3, NothingBefore
  <2>11. LoopjoinOwing(owed[x], "start", after, given, given, first, second, found, << >>)
    BY <2>3, <2>4, <2>7, <2>10 DEF LoopjoinOwing
  <2>12. owed[x] = Left(x, "REQUEST", "start", owed, outer, << >>)'
    <3>1. passed = argument'[x] /\ after = local'[x] /\ plan' = plan /\ Op(x) = "loopjoin"
      BY <1>a, <2>3, <2>6
    <3> QED
      BY <1>f, <1>g, <1>h, <2>9, <2>11, <3>1, LoopjoinRest
  <2>13. Ready(x, "function") /\ UNCHANGED heap
    BY <2>6, <2>8 DEF Ready
  <2> QED
    BY <1>0, <1>k, <1>5, <2>12, <2>13, EndsQuietly
<1> QED
  BY <1>1, <1>2, <1>3, <1>4, <1>5 DEF LoopjoinOpen

\* The products of value with what its function finds are one more and the rest.
OneMore(value, new, second, more, rest) ==
  /\ Prefixed(value, <<new>> \o second) \o more = <<value \o new>> \o rest
  /\ rest \in Seq(Values) /\ value \o new \in Values

\* The next one is that with what has come.
LEMMA OneJoin ==
  ASSUME NEW value \in Values, NEW new \in Values, NEW second \in Seq(Values),
         NEW more \in Seq(Values), NEW rest, rest = Prefixed(value, second) \o more
  PROVE  OneMore(value, new, second, more, rest)
<1>1. PICK mine \in Seq(Values) : mine = Prefixed(value, second)
  BY PrefixedMore
<1>2. PICK one \in Values : one = value \o new
  BY ValuesAre
<1>3. Prefixed(value, <<new>> \o second) = <<one>> \o mine
  BY <1>1, <1>2, PrefixedMore
<1>4. <<one>> \in Seq(Values)
  BY <1>2
<1>5. (<<one>> \o mine) \o more = <<one>> \o (mine \o more)
  BY <1>1, <1>4, Associates
<1>6. rest \in Seq(Values)
  BY <1>1
<1> QED
  BY <1>1, <1>2, <1>3, <1>5, <1>6 DEF OneMore

\* A loopjoin yields what its tuple gives with the one that the function found.
LEMMA LoopjoinYields ==
  ASSUME ProtocolInv, TupleInv, Known, In("loopjoin", "REQUEST", "inner"), KeepLocal, Yielded,
         YieldNew(Joined(local[n].x, answer.tuple), answer.tuple)
  PROVE  Known'
<1>0. PICK x : x = n
  OBVIOUS
<1>k. PICK owed, outer : Exact(owed, outer)
  BY DEF Known
<1>f. PICK first : first = owed[SonOf(plan, x, 1)]
  OBVIOUS
<1>g. PICK second : second = owed[SonOf(plan, x, 2)]
  OBVIOUS
<1>h. PICK found : found = Meaning(plan)[SonOf(plan, x, 2)]
  OBVIOUS
<1>i. PICK info : info = local[x]
  OBVIOUS
<1>v. PICK value : value = Value(info.x)
  OBVIOUS
<1>w. PICK given : given = Value(argument[x])
  OBVIOUS
<1>t. PICK t : t = answer.tuple
  OBVIOUS
<1>u. PICK new : new = Value(t)
  OBVIOUS
<1>1. PICK came : came = <<new>> /\ Coming("inner", came)
  BY <1>t, <1>u DEF Coming
<1>2. LoopjoinKnows(x, "inner", info, owed, outer, value, given, first, second, found, came)
  BY <1>0, <1>k, <1>f, <1>g, <1>h, <1>i, <1>v, <1>w, <1>1, LoopjoinOwes
<1>3. /\ x \in Nodes /\ Op(x) = "loopjoin" /\ first \in Seq(Values) /\ second \in Seq(Values)
      /\ found \in [Attributes -> Seq(Values)] /\ value \in Values /\ info # None
  BY <1>2 DEF LoopjoinKnows
<1>4. info.x # None /\ info.x = argument[x]
  <2>1. Running(x, "REQUEST", "inner")
    BY <1>0, Begins
  <2> QED
    BY <1>i, <1>3, <2>1 DEF Running
<1>5. owed[x] = Prefixed(value, came \o second) \o Loops(first, found)
  BY <1>2, <1>4 DEF LoopjoinKnows, LoopjoinOwing
<1>6. PICK more \in Seq(Values) : more = Loops(first, found)
  BY <1>3, LoopsMore
<1>7. new \in Values
  BY <1>k, <1>u, CameValue
<1>8. PICK rest : rest = Prefixed(value, second) \o more
  OBVIOUS
<1>9. PICK joined : joined = value \o new
  OBVIOUS
<1>10. OneMore(value, new, second, more, rest)
  BY <1>3, <1>6, <1>7, <1>8, OneJoin
<1>11. owed[x] = <<joined>> \o rest /\ rest \in Seq(Values) /\ joined \in Values
  BY <1>1, <1>5, <1>6, <1>9, <1>10 DEF OneMore
<1>12. Joined(info.x, t) = joined
  BY <1>9, <1>u, <1>v DEF Joined
<1>13. YieldNew(joined, t)
  BY <1>0, <1>i, <1>t, <1>12
<1>14. PICK fresh \in Tuples :
         /\ Return("YIELD", fresh) /\ Value(fresh)' = joined
         /\ \A u \in DOMAIN heap \ {t} : Value(u)' = Value(u)
         /\ HeapTyped(heap) /\ joined \in Values => HeapTyped(heap')
  BY <1>13, WithNew
<1>15. plan' = plan /\ argument' = argument /\ info = local'[x]
  BY <1>0, <1>i, <1>3, <1>14, Moves
<1>16. Alone(x)
  BY <1>0, <1>15, StaysAlone
<1>17. /\ Has(x) = KeptAs(local[x]) /\ Has(x) \subseteq DOMAIN heap /\ Given \cap Has(x) = {}
  BY <1>0, LoopjoinHas
<1>18. Given = {t}
  BY <1>t, TakesAnswer
<1>19. info.x \in DOMAIN heap \ {t}
  <2>1. info.x \in Has(x)
    BY <1>i, <1>3, <1>4, <1>17 DEF KeptAs
  <2> QED
    BY <1>17, <1>18, <2>1
<1>20. Value(info.x)' = value
  BY <1>14, <1>19, <1>v
<1>21. Stays(x) /\ HeapTyped(heap')
  BY <1>k, <1>11, <1>14, <1>18 DEF Stays, Exact
<1>22. PICK passed : passed = argument'[x] /\ passed = info.x
  BY <1>4, <1>15
<1>23. Sees(info, passed, value, value)
  BY <1>20, <1>22 DEF Sees
<1>24. PICK owed2 : owed2 = [owed EXCEPT ![x] = rest]
  OBVIOUS
<1>25. owed2[x] = rest
  BY <1>3, <1>k, <1>24 DEF Exact, Ghosts
<1>26. first = owed2[SonOf(plan, x, 1)] /\ second = owed2[SonOf(plan, x, 2)]
  <2>1. DOMAIN plan[x].sons = {1, 2}
    BY <1>2 DEF LoopjoinKnows
  <2>2. Takes(x, rest, owed, owed2)
    BY <1>24 DEF Takes
  <2>3. Exact(owed, outer) /\ x \in Nodes
    BY <1>k, <1>3
  <2>4. \A k \in DOMAIN plan[x].sons : owed2[SonOf(plan, x, k)] = owed[SonOf(plan, x, k)]
    BY <2>2, <2>3, SonOwes
  <2>5. owed2[SonOf(plan, x, 1)] = owed[SonOf(plan, x, 1)]
    BY <2>1, <2>4
  <2>6. owed2[SonOf(plan, x, 2)] = owed[SonOf(plan, x, 2)]
    BY <2>1, <2>4
  <2> QED
    BY <1>f, <1>g, <2>5, <2>6
<1>27. << >> \o second = second
  BY <1>3, NothingBefore
<1>28. LoopjoinOwing(owed2[x], "start", info, value, value, first, second, found, << >>)
  BY <1>4, <1>6, <1>8, <1>25, <1>27 DEF LoopjoinOwing
<1>29. owed2[x] = Left(x, "REQUEST", "start", owed2, outer, << >>)'
  <2>1. first = owed2[SonOf(plan, x, 1)]
    BY <1>26
  <2>2. second = owed2[SonOf(plan, x, 2)]
    BY <1>26
  <2>3. plan' = plan /\ info = local'[x] /\ passed = argument'[x] /\ Op(x) = "loopjoin"
    BY <1>3, <1>15, <1>22
  <2> QED
    BY <1>h, <1>23, <1>28, <2>1, <2>2, <2>3, LoopjoinRest
<1>30. rest = Left(x, "REQUEST", "start", owed2, outer, << >>)'
  BY <1>25, <1>29
<1>31. Ready(x, "inner")
  <2>1. Passed(x)' = Passed(x)
    <3>1. Value(passed)' = Value(passed) /\ passed = argument[x]
      BY <1>15, <1>20, <1>22, <1>v
    <3> QED
      BY <1>15, <1>22, <3>1 DEF Passed
  <2> QED
    BY <2>1 DEF Ready
<1>32. Exact(owed2, outer)'
  BY <1>0, <1>k, <1>11, <1>14, <1>16, <1>21, <1>24, <1>30, <1>31, ReturnYield
<1> QED
  BY <1>32, KnownNext

\* Each step of a loopjoin to CLOSE keeps the invariant.
LEMMA LoopjoinCloseAnswers ==
  ASSUME ProtocolInv, TupleInv, ProtocolInv', Known, LoopjoinClose
  PROVE  Known'
<1>1. CASE In("loopjoin", "CLOSE", "start") /\ Call(Son(1), "CLOSE", "outer") /\ KeepLocal /\ KeepTuples
  <2>1. 1 \in DOMAIN plan[n].sons /\ Waits("loopjoin", "CLOSE", "outer", 1, "CLOSE")
    BY <1>1, Begins DEF Waits
  <2> QED
    BY <1>1, <2>1, ClosesQuietly DEF KeepTuples
<1>2. CASE In("loopjoin", "CLOSE", "outer") /\ KeepTuples /\ KeepLocal /\ Call(Son(2), "CLOSE", "inner")
  <2>1. 2 \in DOMAIN plan[n].sons /\ Waits("loopjoin", "CLOSE", "inner", 2, "CLOSE")
    BY <1>2, Begins DEF Waits
  <2> QED
    BY <1>2, <2>1, ClosesQuietly DEF KeepTuples
<1>3. CASE In("loopjoin", "CLOSE", "outer") /\ KeepTuples /\ Set(None) /\ Return("OK", None)
  BY <1>3, ClosesQuietly DEF KeepTuples
<1>4. CASE /\ In("loopjoin", "CLOSE", "inner") /\ Delete(local[n].x) /\ Set(None)
           /\ Return("OK", None)
  <2>0. PICK x : x = n
    OBVIOUS
  <2>k. PICK owed, outer : Exact(owed, outer)
    BY DEF Known
  <2>1. x \in Nodes /\ plan' = plan /\ argument' = argument
    BY <1>4, <2>0, Begins, Moves
  <2>2. Running(x, "CLOSE", "inner") /\ Op(x) = "loopjoin"
    BY <1>4, <2>0, Begins
  <2>3. Has(x) = KeptAs(local[x])
    BY <1>4, <2>0, LoopjoinHas
  <2>4. local[x].x \in Has(x)
    BY <2>2, <2>3 DEF Running, KeptAs
  <2>5. Stays(x) /\ HeapTyped(heap')
    <3>1. heap' = Without(heap, local[x].x)
      BY <1>4, <2>0 DEF Delete
    <3> QED
      BY <2>k, <2>4, <3>1, WithoutOne DEF Stays, Exact
  <2>6. Alone(x)
    BY <1>4, <2>0, <2>1, StaysAlone
  <2> QED
    BY <1>4, <2>0, <2>k, <2>5, <2>6, Closing
<1> QED
  BY <1>1, <1>2, <1>3, <1>4 DEF LoopjoinClose

\* Each step of a loopjoin to REQUEST keeps the invariant.
LEMMA LoopjoinRequestAnswers ==
  ASSUME ProtocolInv, TupleInv, ProtocolInv', Known, LoopjoinRequest
  PROVE  Known'
<1>0. PICK x : x = n
  OBVIOUS
<1>k. PICK owed, outer : Exact(owed, outer)
  BY DEF Known
<1>f. PICK first : first = owed[SonOf(plan, x, 1)]
  OBVIOUS
<1>g. PICK second : second = owed[SonOf(plan, x, 2)]
  OBVIOUS
<1>h. PICK found : found = Meaning(plan)[SonOf(plan, x, 2)]
  OBVIOUS
<1>i. PICK info : info = local[x]
  OBVIOUS
<1>v. PICK value : value = Value(info.x)
  OBVIOUS
<1>a. PICK passed : passed = argument[x]
  OBVIOUS
<1>w. PICK given : given = Value(passed)
  OBVIOUS
<1>o. ASSUME NEW at, In("loopjoin", "REQUEST", at), NEW came, Coming(at, came)
      PROVE  LoopjoinKnows(x, at, info, owed, outer, value, given, first, second, found, came)
  <2>1. given = Value(argument[x])
    BY <1>a, <1>w
  <2> QED
    BY <1>0, <1>k, <1>f, <1>g, <1>h, <1>i, <1>v, <1>o, <2>1, LoopjoinOwes
<1>1. ASSUME In("loopjoin", "REQUEST", "start")
      PROVE  /\ LoopjoinKnows(x, "start", info, owed, outer, value, given, first, second, found, << >>)
             /\ x \in Nodes /\ Op(x) = "loopjoin" /\ DOMAIN plan[x].sons = {1, 2} /\ info # None
  <2>1. PICK came : came = << >> /\ Coming("start", came)
    BY DEF Coming
  <2>2. LoopjoinKnows(x, "start", info, owed, outer, value, given, first, second, found, << >>)
    BY <1>o, <1>1, <2>1
  <2> QED
    BY <2>2 DEF LoopjoinKnows
<1>2. CASE /\ In("loopjoin", "REQUEST", "start") /\ (local[n] = None \/ local[n].x = None)
           /\ KeepLocal /\ KeepTuples /\ Return("CANCEL", None)
  <2>1. info.x = None
    BY <1>0, <1>1, <1>2, <1>i
  <2>2. owed[x] = << >>
    BY <1>1, <1>2, <2>1 DEF LoopjoinKnows, LoopjoinOwing
  <2> QED
    BY <1>0, <1>k, <1>2, <2>2, EndsQuietly DEF KeepTuples
<1>3. CASE /\ In("loopjoin", "REQUEST", "start") /\ ~(local[n] = None \/ local[n].x = None)
           /\ KeepLocal /\ KeepTuples /\ Call(Son(2), "REQUEST", "inner")
  <2>1. x \in Nodes /\ Op(x) = "loopjoin" /\ DOMAIN plan[x].sons = {1, 2}
    BY <1>1, <1>3
  <2>2. LoopjoinOwing(owed[x], "inner", info, value, given, first, second, found, << >>)
    BY <1>1, <1>3 DEF LoopjoinKnows, LoopjoinOwing
  <2>3. /\ plan' = plan /\ argument' = argument /\ info = local'[x] /\ passed = argument'[x]
        /\ UNCHANGED heap
    BY <1>0, <1>i, <1>a, <1>3, <2>1, Moves DEF KeepTuples
  <2>4. Passed(x)' = Passed(x)
    BY <1>0, <1>k, <1>3, <2>3, Quietly
  <2>5. Sees(info, passed, value, given)
    BY <1>v, <1>w, <2>3, UnchangedHeap, LoopjoinSame
  <2>6. GoesOn(x, "REQUEST", "start", "inner", owed, outer)
    BY <1>f, <1>g, <1>h, <2>1, <2>2, <2>3, <2>4, <2>5, LoopjoinGoes
  <2>7. Waits("loopjoin", "REQUEST", "inner", 2, "REQUEST") /\ 2 \in DOMAIN plan[x].sons /\ UNCHANGED heap
    BY <2>1, <2>3 DEF Waits
  <2> QED
    BY <1>0, <1>k, <1>3, <2>6, <2>7, GoOn
<1>4. CASE /\ In("loopjoin", "REQUEST", "inner") /\ KeepLocal /\ Yielded
           /\ YieldNew(Joined(local[n].x, answer.tuple), answer.tuple)
  BY <1>4, LoopjoinYields
<1>5. CASE /\ In("loopjoin", "REQUEST", "inner") /\ KeepLocal /\ ~Yielded
           /\ KeepTuples /\ Call(Son(2), "CLOSE", "closed")
  <2>1. PICK came : came = << >> /\ Coming("inner", came)
    BY <1>5 DEF Coming
  <2>2. LoopjoinKnows(x, "inner", info, owed, outer, value, given, first, second, found, came)
    BY <1>o, <1>5, <2>1
  <2>3. /\ x \in Nodes /\ Op(x) = "loopjoin" /\ DOMAIN plan[x].sons = {1, 2}
        /\ first \in Seq(Values) /\ found \in [Attributes -> Seq(Values)] /\ value \in Values
    BY <2>2 DEF LoopjoinKnows
  <2>4. info.x # None
    <3>1. Running(x, "REQUEST", "inner")
      BY <1>0, <1>5, Begins
    <3> QED
      BY <1>i, <2>3, <3>1 DEF Running
  <2>5. second = << >>
    BY <1>0, <1>k, <1>g, <1>5, EndedOwes DEF Waits
  <2>6. owed[x] = Prefixed(value, came \o second) \o Loops(first, found)
    BY <2>2, <2>4 DEF LoopjoinKnows, LoopjoinOwing
  <2>7. owed[x] = Loops(first, found)
    <3>1. came \o second = << >>
      BY <2>1, <2>5
    <3>2. Prefixed(value, << >>) = << >>
      BY <2>3, PrefixedMore
    <3>3. Loops(first, found) \in Seq(Values)
      BY <2>3, LoopsMore
    <3> QED
      BY <2>6, <3>1, <3>2, <3>3, NothingBefore
  <2>8. << >> \o first = first
    BY <2>3, NothingBefore
  <2>9. LoopjoinOwing(owed[x], "closed", info, value, given, first, second, found, << >>)
    BY <2>7, <2>8 DEF LoopjoinOwing
  <2>10. plan' = plan /\ info = local'[x] /\ passed = argument'[x] /\ UNCHANGED heap
    BY <1>0, <1>i, <1>a, <1>5, <2>3, Moves DEF KeepTuples
  <2>11. Sees(info, passed, value, given)
    BY <1>v, <1>w, <2>10, UnchangedHeap, LoopjoinSame
  <2>12. GoesOn(x, "REQUEST", "inner", "closed", owed, outer)
    <3>1. Op(x) = "loopjoin" /\ plan' = plan /\ info = local'[x] /\ passed = argument'[x]
      BY <2>3, <2>10
    <3> QED
      BY <1>f, <1>g, <1>h, <2>9, <2>11, <3>1, LoopjoinGoes
  <2>13. Waits("loopjoin", "REQUEST", "closed", 2, "CLOSE") /\ 2 \in DOMAIN plan[x].sons /\ UNCHANGED heap
    BY <2>3, <2>10 DEF Waits
  <2> QED
    BY <1>0, <1>k, <1>5, <2>12, <2>13, GoOn
<1>6. CASE /\ In("loopjoin", "REQUEST", "closed") /\ Delete(local[n].x) /\ KeepLocal
           /\ Call(Son(1), "REQUEST", "outer")
  <2>1. PICK came : came = << >> /\ Coming("closed", came)
    <3>1. ~Yielded
      BY <1>6, NoneCame DEF Waits
    <3> QED
      BY <3>1 DEF Coming
  <2>2. LoopjoinKnows(x, "closed", info, owed, outer, value, given, first, second, found, came)
    BY <1>o, <1>6, <2>1
  <2>3. x \in Nodes /\ Op(x) = "loopjoin" /\ DOMAIN plan[x].sons = {1, 2} /\ info # None
    BY <2>2 DEF LoopjoinKnows
  <2>4. PICK value2, given2 : Sees(info, passed, value2, given2)
    BY DEF Sees
  <2>5. LoopjoinOwing(owed[x], "outer", info, value2, given2, first, second, found, << >>)
    BY <2>1, <2>2 DEF LoopjoinKnows, LoopjoinOwing
  <2>6. plan' = plan /\ argument' = argument /\ info = local'[x] /\ passed = argument'[x]
    BY <1>0, <1>i, <1>a, <1>6, <2>3, Moves
  <2>7. GoesOn(x, "REQUEST", "closed", "outer", owed, outer)
    <3>1. Op(x) = "loopjoin" /\ plan' = plan /\ info = local'[x] /\ passed = argument'[x]
      BY <2>3, <2>6
    <3> QED
      BY <1>f, <1>g, <1>h, <2>4, <2>5, <3>1, LoopjoinGoes
  <2>8. info.x \in Has(x)
    <3>1. Running(x, "REQUEST", "closed")
      BY <1>0, <1>6, Begins
    <3>2. info.x # None
      BY <1>i, <2>3, <3>1 DEF Running
    <3>3. Has(x) = KeptAs(local[x])
      BY <1>0, <1>6, LoopjoinHas
    <3> QED
      BY <1>i, <2>3, <3>2, <3>3 DEF KeptAs
  <2>9. Stays(x) /\ HeapTyped(heap')
    <3>1. heap' = Without(heap, info.x)
      BY <1>0, <1>i, <1>6 DEF Delete
    <3> QED
      BY <1>k, <2>8, <3>1, WithoutOne DEF Stays, Exact
  <2>10. Alone(x)
    BY <1>0, <1>6, <2>6, StaysAlone
  <2>11. Waits("loopjoin", "REQUEST", "outer", 1, "REQUEST") /\ 1 \in DOMAIN plan[x].sons
    BY <2>3 DEF Waits
  <2>12. Exact(owed, outer)'
    BY <1>0, <1>k, <1>6, <2>7, <2>9, <2>10, <2>11, CallOn
  <2> QED
    BY <2>12, KnownNext
<1>7. CASE /\ In("loopjoin", "REQUEST", "outer") /\ KeepTuples /\ Yielded /\ KeepLocal
           /\ CallWith(answer.tuple, "function")
  BY <1>7, LoopjoinGives
<1>8. CASE /\ In("loopjoin", "REQUEST", "outer") /\ KeepTuples /\ ~Yielded /\ Set([x |-> None])
           /\ Return("CANCEL", None)
  <2>1. PICK came : came = << >> /\ Coming("outer", came)
    BY <1>8 DEF Coming
  <2>2. LoopjoinKnows(x, "outer", info, owed, outer, value, given, first, second, found, came)
    BY <1>o, <1>8, <2>1
  <2>3. /\ found \in [Attributes -> Seq(Values)] /\ first \in Seq(Values)
        /\ owed[x] = Loops(came \o first, found)
    BY <2>2 DEF LoopjoinKnows, LoopjoinOwing
  <2>4. first = << >>
    BY <1>0, <1>k, <1>f, <1>8, EndedOwes DEF Waits
  <2>5. owed[x] = << >>
    BY <2>1, <2>3, <2>4, LoopsMore, NothingBefore
  <2> QED
    BY <1>0, <1>k, <1>8, <2>5, EndsQuietly DEF KeepTuples
<1>9. CASE /\ In("loopjoin", "REQUEST", "function") /\ Set([x |-> argument[n]])
           /\ Call(Son(2), "REQUEST", "inner") /\ KeepTuples
  <2>1. PICK came : came = << >> /\ Coming("function", came)
    <3>1. ~Yielded
      BY <1>9, NoneCame DEF Waits
    <3> QED
      BY <3>1 DEF Coming
  <2>2. LoopjoinKnows(x, "function", info, owed, outer, value, given, first, second, found, came)
    BY <1>o, <1>9, <2>1
  <2>3. /\ x \in Nodes /\ Op(x) = "loopjoin" /\ DOMAIN plan[x].sons = {1, 2}
        /\ second \in Seq(Values) /\ owed[x] = Prefixed(given, second) \o Loops(first, found)
    BY <2>2 DEF LoopjoinKnows, LoopjoinOwing
  <2>4. passed # None
    <3>1. Running(x, "REQUEST", "function")
      BY <1>0, <1>9, Begins
    <3> QED
      BY <1>a, <2>3, <3>1 DEF Running
  <2>5. PICK after : after = [x |-> passed]
    OBVIOUS
  <2>6. plan' = plan /\ argument' = argument /\ after = local'[x] /\ UNCHANGED heap
    BY <1>0, <1>a, <1>9, <2>3, <2>5, Moves DEF KeepTuples
  <2>7. after.x = passed
    BY <2>5
  <2>8. (\A u : Value(u)' = Value(u)) /\ Passed(x)' = Passed(x)
    BY <1>0, <1>k, <1>9, <2>6, Quietly
  <2>9. Sees(after, passed, given, given)
    BY <1>w, <2>7, <2>8 DEF Sees
  <2>10. << >> \o second = second
    BY <2>3, NothingBefore
  <2>11. LoopjoinOwing(owed[x], "inner", after, given, given, first, second, found, << >>)
    BY <2>3, <2>4, <2>7, <2>10 DEF LoopjoinOwing
  <2>12. GoesOn(x, "REQUEST", "function", "inner", owed, outer)
    <3>1. passed = argument'[x] /\ after = local'[x] /\ plan' = plan /\ Op(x) = "loopjoin"
      BY <1>a, <2>3, <2>6
    <3>2. Passed(x)' = Passed(x)
      BY <2>8
    <3> QED
      BY <1>f, <1>g, <1>h, <2>9, <2>11, <3>1, <3>2, LoopjoinGoes
  <2>13. Waits("loopjoin", "REQUEST", "inner", 2, "REQUEST") /\ 2 \in DOMAIN plan[x].sons /\ UNCHANGED heap
    BY <2>3, <2>6 DEF Waits
  <2> QED
    BY <1>0, <1>k, <1>9, <2>12, <2>13, GoOn
<1> QED
  BY <1>2, <1>3, <1>4, <1>5, <1>6, <1>7, <1>8, <1>9 DEF LoopjoinRequest, InnerEnded

-----------------------------------------------------------------------------
(* consume.                                                                *)

\* What consume has yet to take.
ConsumeOwing(left, at, first, came) == left = IF at = "closed" THEN << >> ELSE came \o first

\* It is what the invariant says.
LEMMA ConsumeOwes ==
  ASSUME ProtocolInv, NEW owed, NEW outer, Exact(owed, outer),
         NEW at, at # "start", In("consume", "OPEN", at), NEW x, x = n,
         NEW first, first = owed[SonOf(plan, x, 1)], NEW came, Coming(at, came)
  PROVE  /\ x \in Nodes /\ Op(x) = "consume" /\ x = 1 /\ DOMAIN plan[x].sons = {1}
         /\ first \in Seq(Values) /\ ConsumeOwing(owed[x], at, first, came)
<1>1. x \in Nodes /\ Op(x) = "consume" /\ DOMAIN plan[x].sons = {1}
  BY Begins
<1>2. x = 1
  BY <1>1, ConsumeFirst
<1>3. TopKnows(x, "OPEN", at, owed, outer)
  BY AtTop
<1>4. first \in Seq(Values) /\ came = Came /\ owed[x] = Left(x, "OPEN", at, owed, outer, Came)
  BY <1>1, <1>3 DEF TopKnows, Coming
<1>5. PICK left : left = owed[x]
  OBVIOUS
<1>6. left = Left(x, "OPEN", at, owed, outer, came)
  BY <1>4, <1>5
<1>7. ConsumeOwing(left, at, first, came)
  BY <1>1, <1>6 DEF Left, LeftOf, ConsumeOwing
<1> QED
  BY <1>1, <1>2, <1>4, <1>5, <1>7

\* A call of consume, by what it owes after it.
LEMMA ConsumeGoes ==
  ASSUME plan' = plan, NEW x, Op(x) = "consume", NEW owed, NEW outer, NEW at,
         NEW next, next # "start", NEW first, first = owed[SonOf(plan, x, 1)],
         ConsumeOwing(owed[x], next, first, << >>)
  PROVE  GoesOn(x, "OPEN", at, next, owed, outer)
<1>1. PICK left : left = owed[x]
  OBVIOUS
<1>2. ConsumeOwing(left, next, first, << >>)
  BY <1>1
<1>3. Op(x)' = "consume"
  BY DEF Op
<1>4. left = Left(x, "OPEN", next, owed, outer, << >>)'
  BY <1>2, <1>3 DEF Left, LeftOf, ConsumeOwing
<1>5. Begun(x, "OPEN", next)'
  BY <1>3 DEF Begun
<1> QED
  BY <1>1, <1>3, <1>4, <1>5 DEF GoesOn, Op

\* What is taken, with the rest, is all.
Whole(taken, rest, all) == taken \in Seq(Values) /\ taken \o rest = all

\* The relation takes the value that has come.
LEMMA ConsumeTakes ==
  ASSUME NEW taken \in Seq(Values), NEW new \in Values, NEW first \in Seq(Values),
         NEW all, taken \o (<<new>> \o first) = all, NEW after, after = Append(taken, new)
  PROVE  Whole(after, first, all)
<1>0. after \in Seq(Values)
  OBVIOUS
<1>1. after = taken \o <<new>>
  BY AppendIsConcat
<1>2. PICK one \in Seq(Values) : one = <<new>>
  <2>1. <<new>> \in Seq(Values)
    OBVIOUS
  <2> QED
    BY <2>1
<1>3. (taken \o one) \o first = taken \o (one \o first)
  BY <1>2, Associates
<1> QED
  BY <1>0, <1>1, <1>2, <1>3 DEF Whole

\* Each step of consume keeps the invariant.
LEMMA ConsumeAnswers ==
  ASSUME ProtocolInv, TupleInv, ProtocolInv', Known, Consume
  PROVE  Known'
<1>0. PICK x : x = n
  OBVIOUS
<1>k. PICK owed, outer : Exact(owed, outer)
  BY DEF Known
<1>f. PICK first : first = owed[SonOf(plan, x, 1)]
  OBVIOUS
<1>l. KeepLocal
  BY DEF Consume
<1>1. CASE In("consume", "OPEN", "start") /\ KeepTuples /\ Call(Son(1), "OPEN", "opened")
  <2>1. /\ DOMAIN plan[x].sons = {1} /\ Waits("consume", "OPEN", "opened", 1, "OPEN")
        /\ plan' = plan /\ argument' = argument /\ x \in Nodes /\ UNCHANGED heap
    BY <1>0, <1>1, Begins, Moves DEF Waits, KeepTuples
  <2>2. /\ owed[x] = Promised(plan, Meaning(plan), x, outer[x]) /\ Op(x) = "consume"
    BY <1>0, <1>k, <1>1, ToOpen
  <2>s. PICK s : s = SonOf(plan, x, 1)
    OBVIOUS
  <2>3. owed[x] = Meaning(plan)[s][outer[x]]
    BY <2>s, <2>2 DEF Promised, Op
  <2>4. PICK owed2, outer2 : Opens(s, owed, owed2, outer, outer2)
    BY OpensExist
  <2>5. Alone(x) /\ Stays(x) /\ HeapTyped(heap')
    BY <1>0, <1>k, <1>l, <1>1, <2>1, Quietly
  <2>6. SonOpened(x, 1, s, owed, owed2, outer, outer2)
    BY <1>0, <1>k, <1>1, <2>s, <2>1, <2>4, <2>5, OpenedSon
  <2>7. owed2[x] = owed[x] /\ owed2[s] = Meaning(plan)[s][outer[x]] /\ owed2[s] \in Seq(Values)
    BY <2>2, <2>6 DEF SonOpened
  <2>8. PICK mine : mine = owed2[s]
    OBVIOUS
  <2>9. << >> \o mine = mine
    BY <2>7, <2>8, NothingBefore
  <2>10. ConsumeOwing(owed2[x], "opened", mine, << >>)
    BY <2>3, <2>7, <2>8, <2>9 DEF ConsumeOwing
  <2>11. GoesOn(x, "OPEN", "start", "opened", owed2, outer2)
    BY <2>s, <2>1, <2>2, <2>8, <2>10, ConsumeGoes
  <2> QED
    BY <1>0, <1>k, <1>l, <1>1, <2>s, <2>1, <2>4, <2>11, GoOpen
<1>2. CASE In("consume", "OPEN", "opened") /\ KeepTuples /\ Call(Son(1), "REQUEST", "next")
  <2>1. PICK came : came = << >> /\ Coming("opened", came)
    <3>1. ~Yielded
      BY <1>2, NoneCame DEF Waits
    <3> QED
      BY <3>1 DEF Coming
  <2>2. /\ x \in Nodes /\ Op(x) = "consume" /\ DOMAIN plan[x].sons = {1}
        /\ ConsumeOwing(owed[x], "opened", first, came)
    BY <1>0, <1>k, <1>f, <1>2, <2>1, ConsumeOwes
  <2>3. ConsumeOwing(owed[x], "next", first, << >>)
    BY <2>1, <2>2 DEF ConsumeOwing
  <2>4. plan' = plan /\ UNCHANGED heap
    BY <1>0, <1>2, <2>2, Moves DEF KeepTuples
  <2>5. GoesOn(x, "OPEN", "opened", "next", owed, outer)
    BY <1>f, <2>2, <2>3, <2>4, ConsumeGoes
  <2>6. Waits("consume", "OPEN", "next", 1, "REQUEST") /\ 1 \in DOMAIN plan[x].sons
    BY <2>2 DEF Waits
  <2> QED
    BY <1>0, <1>k, <1>l, <1>2, <2>4, <2>5, <2>6, GoOn
<1>3. CASE /\ In("consume", "OPEN", "next") /\ Yielded
           /\ result' = Append(result, Value(answer.tuple)) /\ Delete(answer.tuple)
           /\ Push(Son(1), "REQUEST", "next") /\ UNCHANGED <<answer, streams, treeVars, endVars>>
  <2>1. PICK new : new = Value(answer.tuple)
    OBVIOUS
  <2>2. PICK came : came = <<new>> /\ Coming("next", came)
    BY <1>3, <2>1 DEF Coming
  <2>3. /\ x \in Nodes /\ Op(x) = "consume" /\ x = 1 /\ DOMAIN plan[x].sons = {1}
        /\ first \in Seq(Values) /\ ConsumeOwing(owed[x], "next", first, came)
    BY <1>0, <1>k, <1>f, <1>3, <2>2, ConsumeOwes
  <2>4. new \in Values
    BY <1>k, <2>1, CameValue
  <2>5. owed[1] = <<new>> \o first
    BY <2>2, <2>3 DEF ConsumeOwing
  <2>6. result \in Seq(Values) /\ result \o owed[1] = Meaning(plan)[1][0]
    BY <1>k DEF Exact, ResultExact
  <2>7. PICK owed2 : owed2 = [owed EXCEPT ![x] = first]
    OBVIOUS
  <2>8. owed2[x] = first /\ Ghosts(owed2, outer)
    BY <1>k, <2>3, <2>7 DEF Exact, Ghosts
  <2>9. result' \in Seq(Values) /\ result' \o owed2[1] = Meaning(plan)[1][0]
    <3>1. result' \in Seq(Values) /\ result' \o first = Meaning(plan)[1][0]
      <4>1. PICK after : after = result' /\ after = Append(result, new)
        BY <1>3, <2>1
      <4>2. PICK all : all = Meaning(plan)[1][0]
        OBVIOUS
      <4>3. PICK taken \in Seq(Values) : taken = result
        BY <2>6
      <4>4. taken \o (<<new>> \o first) = all
        BY <2>5, <2>6, <4>2, <4>3
      <4>5. after = Append(taken, new)
        BY <4>1, <4>3
      <4>6. first \in Seq(Values) /\ new \in Values
        BY <2>3, <2>4
      <4>7. after \in Seq(Values) /\ after \o first = all
        <5>1. Whole(after, first, all)
          BY <4>4, <4>5, <4>6, ConsumeTakes
        <5> QED
          BY <5>1 DEF Whole
      <4> QED
        BY <4>1, <4>2, <4>7
    <3> QED
      BY <2>3, <2>8, <3>1
  <2>10. plan' = plan /\ argument' = argument /\ UNCHANGED <<streams, endVars>>
    BY <1>3 DEF treeVars
  <2>11. Alone(x) /\ Stays(x) /\ HeapTyped(heap')
    BY <1>0, <1>k, <1>l, <1>3, <2>10, TakesAway DEF Delete
  <2>12. first = owed2[SonOf(plan, x, 1)]
    <3>1. Takes(x, first, owed, owed2)
      BY <2>7 DEF Takes
    <3>2. owed2[SonOf(plan, x, 1)] = owed[SonOf(plan, x, 1)]
      BY <1>k, <2>3, <3>1, SonOwes
    <3> QED
      BY <1>f, <3>2
  <2>13. << >> \o first = first
    BY <2>3, NothingBefore
  <2>14. ConsumeOwing(owed2[x], "next", first, << >>)
    BY <2>8, <2>13 DEF ConsumeOwing
  <2>15. GoesOn(x, "OPEN", "next", "next", owed2, outer)
    <3>1. Op(x) = "consume" /\ plan' = plan
      BY <2>3, <2>10
    <3> QED
      BY <2>12, <2>14, <3>1, ConsumeGoes
  <2>16. PICK z : z = SonOf(plan, x, 1)
    OBVIOUS
  <2>17. stack # << >> /\ "OPEN" = Top.message /\ "next" = Top.at
    BY <1>0, <1>3, Begins
  <2>18. Asked(z, "REQUEST")
    BY <1>0, <1>3, <2>3, <2>10, <2>16, <2>17, CallAsked DEF Places
  <2>19. Handing(x, z, "REQUEST", owed, owed2, outer, outer)
    <3>1. owed2[z] = owed[z]
      BY <1>f, <2>12, <2>16
    <3>2. \A y \in Nodes \ {z} : owed2[y] = owed[y] \/ (y = x /\ x = 1)
      BY <1>k, <2>3, <2>7 DEF Exact, Ghosts
    <3> QED
      BY <3>1, <3>2 DEF Handing
  <2>20. Waits(Op(x), "OPEN", "next", 1, "REQUEST") /\ 1 \in DOMAIN plan[x].sons
    BY <2>3 DEF Waits
  <2>21. Push(Son(1), "REQUEST", "next") /\ UNCHANGED <<streams, endVars>>
    BY <1>3, <2>10
  <2>22. Exact(owed2, outer)'
    BY <1>0, <1>k, <2>8, <2>9, <2>11, <2>15, <2>16, <2>17, <2>18, <2>19, <2>20, <2>21, CallExact
  <2> QED
    BY <2>22, KnownNext
<1>4. CASE In("consume", "OPEN", "next") /\ ~Yielded /\ KeepTuples /\ Call(Son(1), "CLOSE", "closed")
  <2>1. PICK came : came = << >> /\ Coming("next", came)
    BY <1>4 DEF Coming
  <2>2. /\ x \in Nodes /\ Op(x) = "consume" /\ DOMAIN plan[x].sons = {1}
        /\ ConsumeOwing(owed[x], "next", first, came)
    BY <1>0, <1>k, <1>f, <1>4, <2>1, ConsumeOwes
  <2>3. first = << >>
    BY <1>0, <1>k, <1>f, <1>4, EndedOwes DEF Waits
  <2>4. ConsumeOwing(owed[x], "closed", first, << >>)
    BY <2>1, <2>2, <2>3 DEF ConsumeOwing
  <2>5. plan' = plan /\ UNCHANGED heap
    BY <1>0, <1>4, <2>2, Moves DEF KeepTuples
  <2>6. GoesOn(x, "OPEN", "next", "closed", owed, outer)
    BY <1>f, <2>2, <2>4, <2>5, ConsumeGoes
  <2>7. Waits("consume", "OPEN", "closed", 1, "CLOSE") /\ 1 \in DOMAIN plan[x].sons
    BY <2>2 DEF Waits
  <2> QED
    BY <1>0, <1>k, <1>l, <1>4, <2>5, <2>6, <2>7, GoOn
<1>5. CASE In("consume", "OPEN", "closed") /\ KeepTuples /\ Return("OK", None)
  <2>1. PICK came : Coming("closed", came)
    BY DEF Coming
  <2>2. ConsumeOwing(owed[x], "closed", first, came)
    BY <1>0, <1>k, <1>f, <1>5, <2>1, ConsumeOwes
  <2>3. owed[x] = << >>
    BY <2>2 DEF ConsumeOwing
  <2> QED
    BY <1>0, <1>k, <1>l, <1>5, <2>3, EndsQuietly DEF KeepTuples
<1> QED
  BY <1>1, <1>2, <1>3, <1>4, <1>5 DEF Consume

-----------------------------------------------------------------------------
(* The steps of nobody, of the user and of Destroy, and the beginning.     *)

\* If no tuple changes, nobody has more or less to yield.
LEMMA LeftSame ==
  ASSUME UNCHANGED <<plan, stack, answer, local, argument, heap, streams>>, NEW x, NEW message,
         NEW at, NEW owed, NEW outer, NEW came
  PROVE  /\ Left(x, message, at, owed, outer, came)' = Left(x, message, at, owed, outer, came)
         /\ Linked(x, at, outer)' <=> Linked(x, at, outer)
         /\ Begun(x, message, at)' <=> Begun(x, message, at)
         /\ CurrentOuter(x)' = CurrentOuter(x) /\ Came' = Came
<1>1. \A t : Value(t)' = Value(t)
  BY UnchangedHeap
<1>2. Op(x)' = Op(x) /\ (\A a : Found(x, a)' = Found(x, a))
  BY DEF Op, Found
<1>3. \A tuples : Rows(tuples)' = Rows(tuples)
  BY <1>1 DEF Rows
<1>4. \A y : Passed(y)' = Passed(y)
  BY DEF Passed, Value, Live
<1>5. \A first, second, found : 
         /\ LeftOfConcat(x, message, at, first, second, found, came)'
              = LeftOfConcat(x, message, at, first, second, found, came)
         /\ LeftOfProduct(x, message, at, first, second, found, came)'
              = LeftOfProduct(x, message, at, first, second, found, came)
         /\ LeftOfLoopjoin(x, message, at, first, second, found, came)'
              = LeftOfLoopjoin(x, message, at, first, second, found, came)
  <2>1. TAKE first, second, found
  <2>2. local'[x] = local[x] /\ argument'[x] = argument[x]
    OBVIOUS
  <2>3. LeftOfConcat(x, message, at, first, second, found, came)'
          = LeftOfConcat(x, message, at, first, second, found, came)
    BY DEF LeftOfConcat
  <2>4. LeftOfProduct(x, message, at, first, second, found, came)'
          = LeftOfProduct(x, message, at, first, second, found, came)
    BY DEF LeftOfProduct, Rows, Value, Live
  <2>5. LeftOfLoopjoin(x, message, at, first, second, found, came)'
          = LeftOfLoopjoin(x, message, at, first, second, found, came)
    BY DEF LeftOfLoopjoin, Value, Live
  <2> QED
    BY <2>3, <2>4, <2>5
<1>6. Left(x, message, at, owed, outer, came)' = Left(x, message, at, owed, outer, came)
  BY <1>2, <1>5 DEF Left, LeftOf
<1>7. Linked(x, at, outer)' <=> Linked(x, at, outer)
  BY <1>2, <1>4 DEF Linked, Link, SonState
<1>8. Begun(x, message, at)' <=> Begun(x, message, at)
  BY <1>2 DEF Begun
<1>9. CurrentOuter(x)' = CurrentOuter(x)
  BY <1>4 DEF CurrentOuter
<1>10. Came' = Came
  BY DEF Came, Top, Yielded, Value, Live
<1> QED
  BY <1>6, <1>7, <1>8, <1>9, <1>10

\* A step that leaves the tree and the tuples keeps the invariant.
LEMMA KnownStill ==
  ASSUME Known, UNCHANGED <<treeVars, stack, answer, local, heap, streams, result, destroyed>>
  PROVE  Known'
<1>k. PICK owed, outer : Exact(owed, outer)
  BY DEF Known
<1>1. UNCHANGED <<plan, stack, answer, local, argument, heap, streams, result, destroyed>>
  BY DEF treeVars
<1>2. \A x, message, at, came : /\ Fits(x, message, at, owed, outer, came)'
                                     <=> Fits(x, message, at, owed, outer, came)
                                /\ CurrentOuter(x)' = CurrentOuter(x) /\ Came' = Came
  BY <1>1, LeftSame DEF Fits
<1>3. \A x : OnStack(x)' <=> OnStack(x)
  BY <1>1 DEF OnStack
<1>4. IdleExact(owed, outer)'
  BY <1>k, <1>1, <1>2, <1>3 DEF Exact, IdleExact, Nodes
<1>5. AtWorkExact(owed, outer)'
  BY <1>k, <1>1, <1>2 DEF Exact, AtWorkExact
<1>6. ResultExact(owed)'
  BY <1>k, <1>1 DEF Exact, ResultExact
<1>7. Exact(owed, outer)'
  BY <1>k, <1>1, <1>4, <1>5, <1>6 DEF Exact, Ghosts, HeapTyped, Nodes
<1> QED
  BY <1>7, KnownNext

\* Destroy keeps the invariant.
LEMMA DestroyAnswers ==
  ASSUME ProtocolInv, Known, Destroy
  PROVE  Known'
<1>k. PICK owed, outer : Exact(owed, outer)
  BY DEF Known
<1>1. UNCHANGED <<plan, heap, streams, result>> /\ stack = << >>
  BY DEF Destroy, treeVars
<1>2. \A x \in Nodes : streams[x] = "closed"
  BY <1>1 DEF ProtocolInv, EndOK
<1>3. IdleExact(owed, outer)'
  BY <1>1, <1>2 DEF IdleExact, Nodes
<1>4. \A i \in DOMAIN stack' : stack'[i].message \notin {"OPEN", "REQUEST"}
  BY DEF Destroy, LastMessages, Frame
<1>5. AtWorkExact(owed, outer)'
  BY <1>4 DEF AtWorkExact
<1>6. ResultExact(owed)'
  BY <1>k, <1>1 DEF Exact, ResultExact
<1>7. \A x \in Nodes' : streams'[x] = "ended" => owed[x] = << >>
  BY <1>1, <1>2 DEF Nodes
<1>8. Exact(owed, outer)'
  BY <1>k, <1>1, <1>3, <1>5, <1>6, <1>7 DEF Exact, Ghosts, HeapTyped, Nodes
<1> QED
  BY <1>8, KnownNext

\* At the beginning the root owes the meaning of the tree.
LEMMA KnownInit ==
  ASSUME Init
  PROVE  Known
<1>1. plan \in Plans /\ IsTree(plan)
  BY TreeAssumption DEF Init
<1>2. PICK owed : owed = [x \in Nodes |-> IF x = 1 THEN Meaning(plan)[1][0] ELSE << >>]
  OBVIOUS
<1>3. PICK outer : outer = [x \in Nodes |-> 0]
  OBVIOUS
<1>4. 1 \in Nodes /\ 0 \in Attributes
  BY <1>1, NodesAndSons, AttributeAssumption
<1>5. Meaning(plan)[1][0] \in Seq(Values)
  BY <1>1, <1>4, MeaningIs DEF Streams, Nodes
<1>6. Ghosts(owed, outer)
  BY <1>2, <1>3, <1>4, <1>5 DEF Ghosts
<1>7. ResultExact(owed)
  <2>1. << >> \o Meaning(plan)[1][0] = Meaning(plan)[1][0]
    BY <1>5, NothingBefore
  <2>2. owed[1] = Meaning(plan)[1][0]
    BY <1>2, <1>4
  <2> QED
    BY <2>1, <2>2 DEF ResultExact, Init
<1>8. \A x \in Nodes : streams[x] = "closed"
  BY DEF Init
<1>9. DOMAIN stack = {1} /\ stack[1] = Frame(1, "OPEN")
  BY DEF Init
<1>10. AtWorkExact(owed, outer)
  <2>1. outer[1] = CurrentOuter(1)
    BY <1>1, <1>3, <1>4 DEF CurrentOuter, IsTree
  <2>2. owed[1] = Left(1, "OPEN", "start", owed, outer, Came)
    BY <1>2, <1>3, <1>4 DEF Left, LeftOf
  <2>3. Linked(1, "start", outer)
    <3>1. \A k \in DOMAIN plan[1].sons : SonState(1, k) = "closed"
      BY <1>1, <1>4, <1>8, NodesAndSons DEF SonState
    <3> QED
      BY <3>1 DEF Linked, Link
  <2>4. Begun(1, "OPEN", "start")
    BY DEF Begun
  <2> QED
    BY <1>9, <2>1, <2>2, <2>3, <2>4 DEF AtWorkExact, Fits, Frame
<1>11. HeapTyped(heap)
  BY DEF HeapTyped, Init
<1>12. IdleExact(owed, outer)
  BY <1>8 DEF IdleExact
<1>13. Exact(owed, outer)
  BY <1>1, <1>6, <1>7, <1>8, <1>10, <1>11, <1>12 DEF Exact
<1> QED
  BY <1>13 DEF Known

-----------------------------------------------------------------------------
(* Once the user has cancelled, only a tuple on its way is what it was     *)
(* meant to be.                                                            *)

\* A tuple is on its way to the operator at the top.
Heeding == stack # << >> /\ Top.at # "start" /\ Yielded

\* A call brings no tuple to the son.
LEMMA PushHeeds ==
  ASSUME ProtocolInv, NEW z, NEW m, NEW at, Push(z, m, at)
  PROVE  ~Heeding'
<1>1. PICK f, g : stack' = <<f, g>> \o Tail(stack) /\ f = Frame(z, m)
  BY DEF Push
<1>2. Head(stack') = f
  BY <1>1
<1>3. f.at = "start"
  BY <1>1 DEF Frame
<1> QED
  BY <1>2, <1>3 DEF Heeding, Top

\* Nor does it as an action.
LEMMA CallHeeds ==
  ASSUME ProtocolInv, NEW z, NEW m, NEW at, Call(z, m, at)
  PROVE  ~Heeding' /\ result' = result
BY PushHeeds DEF Call

\* Only YIELD brings a tuple.
LEMMA ReturnHeeds ==
  ASSUME NEW status, NEW tuple, Return(status, tuple), status # "YIELD"
  PROVE  ~Heeding' /\ result' = result
BY DEF Return, Heeding, Yielded

\* Nor does a call that passes a tuple to a function.
LEMMA CallWithHeeds ==
  ASSUME ProtocolInv, NEW t, NEW at, CallWith(t, at)
  PROVE  ~Heeding' /\ result' = result
BY PushHeeds DEF CallWith

\* The user has cancelled, and no tuple is on its way.
Deaf == userCancel /\ ~Heeding

\* Then only operators that wait for an answer go on, and it has no tuple.
LEMMA DeafIs ==
  ASSUME Deaf
  PROVE  /\ \A op, message, at : In(op, message, at) =>
              /\ at # "start" => ~Yielded
              /\ message = "REQUEST" => at # "start"
BY DEF Deaf, Heeding, In

\* A call leaves it so.
LEMMA DeafCalls ==
  ASSUME ProtocolInv, Deaf,
         \/ \E z, m, at : Call(z, m, at)
         \/ \E t, at : CallWith(t, at)
         \/ \E status, tuple : Return(status, tuple) /\ status # "YIELD"
  PROVE  ~Heeding' /\ result' = result
BY CallHeeds, CallWithHeeds, ReturnHeeds

\* Operators with simple value mappings leave it so.
LEMMA DeafSimple ==
  ASSUME ProtocolInv, Deaf, Feed \/ Filter \/ HeadOf \/ Cancel \/ Concat \/ Cancelled
  PROVE  ~Heeding' /\ result' = result
<1>1. CASE Feed
  BY <1>1, DeafIs, DeafCalls DEF Feed
<1>2. CASE Filter
  BY <1>2, DeafIs, DeafCalls DEF Filter, FilterNext
<1>3. CASE HeadOf
  BY <1>3, DeafIs, DeafCalls DEF HeadOf
<1>4. CASE Cancel
  BY <1>4, DeafIs, DeafCalls DEF Cancel
<1>5. CASE Concat
  <2>1. CASE \E message \in {"OPEN", "CLOSE"} : In("concat", message, "second") /\ Return("OK", None)
    BY <2>1, DeafCalls
  <2>2. CASE In("concat", "REQUEST", "second") /\ Return(answer.status, answer.tuple)
    <3>1. answer.status # "YIELD"
      BY <2>2, DeafIs DEF Yielded
    <3> QED
      BY <2>2, <3>1, DeafCalls
  <2>3. CASE \E z, m, at : Call(z, m, at)
    BY <2>3, DeafCalls
  <2> QED
    BY <1>5, <2>1, <2>2, <2>3, DeafIs DEF Concat
<1>6. CASE Cancelled
  BY <1>6, DeafCalls DEF Cancelled
<1> QED
  BY <1>1, <1>2, <1>3, <1>4, <1>5, <1>6

\* Product and loopjoin leave it so.
LEMMA DeafJoins ==
  ASSUME ProtocolInv, Deaf,
         \/ ProductOpen \/ ProductRequest \/ ProductClose
         \/ LoopjoinOpen \/ LoopjoinRequest \/ LoopjoinClose
  PROVE  ~Heeding' /\ result' = result
<1>1. CASE ProductOpen
  BY <1>1, DeafIs, DeafCalls DEF ProductOpen
<1>2. CASE ProductRequest
  BY <1>2, DeafIs, DeafCalls DEF ProductRequest
<1>3. CASE ProductClose
  BY <1>3, DeafIs, DeafCalls DEF ProductClose
<1>4. CASE LoopjoinOpen
  BY <1>4, DeafIs, DeafCalls DEF LoopjoinOpen
<1>5. CASE LoopjoinRequest
  BY <1>5, DeafIs, DeafCalls DEF LoopjoinRequest, InnerEnded
<1>6. CASE LoopjoinClose
  BY <1>6, DeafIs, DeafCalls DEF LoopjoinClose
<1> QED
  BY <1>1, <1>2, <1>3, <1>4, <1>5, <1>6

\* consume and Destroy leave it so, and the result.
LEMMA DeafEnds ==
  ASSUME ProtocolInv, Deaf, Consume \/ Destroy \/ UserCancels \/ UNCHANGED vars
  PROVE  ~Heeding' /\ result' = result
<1>1. CASE Consume
  BY <1>1, DeafIs, DeafCalls DEF Consume
<1>2. CASE Destroy
  <2>1. stack' # << >> => Head(stack').at = "start"
    BY <1>2 DEF Destroy, LastMessages, Frame
  <2> QED
    BY <1>2, <2>1 DEF Destroy, Heeding, Top
<1>3. CASE UserCancels \/ UNCHANGED vars
  BY <1>3 DEF Deaf, Heeding, UserCancels, vars, Top, Yielded
<1> QED
  BY <1>1, <1>2, <1>3

\* No step brings a tuple on its way any more.
LEMMA DeafStep ==
  ASSUME ProtocolInv, Deaf, [Next]_vars
  PROVE  ~Heeding' /\ result' = result
BY DeafSimple, DeafJoins, DeafEnds DEF Next, Step

\* Each step keeps what is known, but for the end of a stream after a cancel.
LEMMA KnownStep ==
  ASSUME ProtocolInv, TupleInv, ProtocolInv', Known, [Next]_vars
  PROVE  Known' \/ Cancelled
<1>1. CASE Step
  BY <1>1, FeedAnswers, FilterAnswers, HeadAnswers, CancelAnswers, ConcatAnswers,
     ProductOpenAnswers, ProductRequestAnswers, ProductCloseAnswers, LoopjoinOpenAnswers,
     LoopjoinRequestAnswers, LoopjoinCloseAnswers, ConsumeAnswers, DestroyAnswers DEF Step
<1>2. CASE UserCancels
  BY <1>2, KnownStill DEF UserCancels
<1>3. CASE UNCHANGED vars
  BY <1>3, KnownStill DEF vars, treeVars, endVars
<1> QED
  BY <1>1, <1>2, <1>3 DEF Next

-----------------------------------------------------------------------------
(* The answer.                                                             *)

\* consume has the beginning of the answer; and what is still to come is known,
\* unless the user has cancelled and no tuple is on its way: then the streams
\* end early, and owe what nobody will ask for.
AnswerInv ==
  /\ IsPrefix(result, Meaning(plan)[1][0])
  /\ ~userCancel \/ Heeding => Known

\* What consume has is the beginning of the answer.
LEMMA KnownPrefix ==
  ASSUME Known
  PROVE  IsPrefix(result, Meaning(plan)[1][0])
<1>k. PICK owed, outer : Exact(owed, outer)
  BY DEF Known
<1>1. result \in Seq(Values) /\ result \o owed[1] = Meaning(plan)[1][0]
  BY <1>k DEF Exact, ResultExact
<1>2. owed[1] \in Seq(Values)
  <2>1. 1 \in Nodes
    BY <1>k, TreeAssumption, NodesAndSons DEF Exact
  <2> QED
    BY <1>k, <2>1 DEF Exact, Ghosts
<1>3. \A s, t \in Seq(Values) : IsPrefix(s, s \o t)
  BY DEF IsPrefix
<1> QED
  BY <1>1, <1>2, <1>3

\* The invariant holds at the beginning.
LEMMA AnswerInit ==
  ASSUME Init
  PROVE  AnswerInv
BY KnownInit, KnownPrefix DEF AnswerInv

\* The tree stays, and a cancel is not taken back.
LEMMA PlanStays ==
  ASSUME [Next]_vars
  PROVE  plan' = plan /\ (userCancel => userCancel')
<1>1. ASSUME \/ \E z, m, at : Call(z, m, at)
             \/ \E t, at : CallWith(t, at)
             \/ \E status, tuple : Return(status, tuple)
             \/ UNCHANGED <<treeVars, endVars>>
      PROVE  plan' = plan /\ userCancel' = userCancel
  BY <1>1 DEF Call, CallWith, Return, treeVars, endVars
<1>2. CASE Feed \/ Filter \/ HeadOf \/ Cancel \/ Concat
  BY <1>1, <1>2 DEF Feed, Filter, FilterNext, HeadOf, Cancel, Concat, YieldNew
<1>3. CASE ProductOpen \/ ProductRequest \/ ProductClose
  BY <1>1, <1>3 DEF ProductOpen, ProductRequest, ProductClose, YieldNew
<1>4. CASE LoopjoinOpen \/ LoopjoinRequest \/ LoopjoinClose
  BY <1>1, <1>4 DEF LoopjoinOpen, LoopjoinRequest, LoopjoinClose, InnerEnded, YieldNew
<1>5. CASE Consume \/ Cancelled
  BY <1>1, <1>5 DEF Consume, Cancelled
<1>6. CASE Destroy \/ UserCancels \/ UNCHANGED vars
  BY <1>6 DEF Destroy, UserCancels, vars, treeVars, endVars
<1> QED
  BY <1>2, <1>3, <1>4, <1>5, <1>6 DEF Next, Step

\* Each step keeps the invariant.
LEMMA AnswerStep ==
  ASSUME ProtocolInv, TupleInv, ProtocolInv', AnswerInv, [Next]_vars
  PROVE  AnswerInv'
<1>1. CASE Known
  <2>1. CASE Known'
    <3>1. IsPrefix(result, Meaning(plan)[1][0])'
      BY <2>1, KnownPrefix, PTL
    <3> QED
      BY <2>1, <3>1 DEF AnswerInv
  <2>2. CASE Cancelled
    <3>1. result' = result /\ plan' = plan /\ ~Heeding' /\ userCancel'
      <4>1. result' = result /\ plan' = plan /\ userCancel' = userCancel /\ userCancel
        BY <2>2 DEF Cancelled, Return, treeVars, endVars
      <4>2. ~Heeding'
        BY <2>2, ReturnHeeds DEF Cancelled
      <4> QED
        BY <4>1, <4>2
    <3> QED
      BY <3>1 DEF AnswerInv
  <2> QED
    BY <1>1, <2>1, <2>2, KnownStep
<1>2. CASE ~Known
  <2>1. Deaf
    BY <1>2 DEF AnswerInv, Deaf
  <2>2. ~Heeding' /\ result' = result
    BY <2>1, DeafStep
  <2>3. userCancel' /\ plan' = plan
    BY <2>1, PlanStays DEF Deaf
  <2> QED
    BY <2>1, <2>2, <2>3 DEF AnswerInv, Deaf
<1> QED
  BY <1>1, <1>2

\* In every state of a query, whatever its tree: consume has the beginning of the
\* answer, and what the open streams and the calls on the stack have yet to yield,
\* by their local information and the tuples in memory, is the rest of it, until the
\* user has cancelled and no tuple is on its way.
THEOREM AnswerAlways == Spec => []AnswerInv
<1>1. Init => AnswerInv
  BY AnswerInit
<1>2. ProtocolInv /\ TupleInv /\ ProtocolInv' /\ AnswerInv /\ [Next]_vars => AnswerInv'
  BY AnswerStep
<1> QED
  BY <1>1, <1>2, ProtocolAlways, TuplesAlways, PTL DEF Spec

\* With the invariant, consume has the answer when the query ends.
LEMMA AnswerIsGiven ==
  ASSUME AnswerInv
  PROVE  AnswerOrPrefix
<1>1. ASSUME Ended, ~userCancel
      PROVE  result = Meaning(plan)[1][0]
  <2>k. PICK owed, outer : Exact(owed, outer)
    BY <1>1 DEF AnswerInv, Known
  <2>1. result \in Seq(Values) /\ result \o owed[1] = Meaning(plan)[1][0] /\ owed[1] = << >>
    BY <1>1, <2>k DEF Exact, ResultExact, Ended
  <2> QED
    BY <2>1, NothingBefore
<1> QED
  BY <1>1 DEF AnswerInv, AnswerOrPrefix

\* consume never has a tuple that the tree does not mean, nor in another order, and
\* when nobody cancels the query ends with all of them (the value mappings of feed,
\* filter, head, cancel, concat, product, loopjoin and consume, and Eval, Request,
\* Close and Destroy).
THEOREM AnswerCorrect == Spec => []AnswerOrPrefix
<1>1. AnswerInv => AnswerOrPrefix
  BY AnswerIsGiven
<1> QED
  BY <1>1, AnswerAlways, PTL

=============================================================================
