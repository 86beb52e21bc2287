----------------------------- MODULE StreamAnswer -----------------------------
(***************************************************************************)
(* What the operator tree of a query means, as a reference for the result  *)
(* that StreamQuery computes by passing tuples along streams.              *)
(***************************************************************************)
EXTENDS StreamQuery

CONSTANT Attributes  \* what an attribute may be, 0 among it

Values == Seq(Attributes)

ASSUME AttributeAssumption ==
  /\ 0 \in Attributes
  /\ \A tree \in Plans : \A i \in DOMAIN tree :
       tree[i].op = "feed" => tree[i].relation \in Seq(Values)

(***************************************************************************)
(* What the operators promise, by the values of their streams.             *)
(***************************************************************************)
Accepted(it, outer, value) == <<outer, Attribute(value)>> \in it.accepted

Filtered(it, outer, values) ==
  FlattenSeq([i \in DOMAIN values |->
    IF Accepted(it, outer, values[i]) THEN <<values[i]>> ELSE << >>])

Until(it, outer, values) ==
  FlattenSeq([i \in DOMAIN values |->
    IF \E j \in 1 .. i : Accepted(it, outer, values[j]) THEN << >> ELSE <<values[i]>>])

FirstOf(values, k) == SubSeq(values, 1, IF k < Len(values) THEN k ELSE Len(values))

Most(it, outer) == IF outer \in DOMAIN it.most THEN it.most[outer] ELSE 0

\* right has the values that are found for each value of left.
Prefixed(x, values) == [i \in DOMAIN values |-> x \o values[i]]
Joins(left, right) ==
  FlattenSeq([i \in DOMAIN left |-> Prefixed(left[i], right[i])])

(***************************************************************************)
(* What a tree means: for each node and each attribute of the tuple of its *)
(* scope the values of the stream.                                         *)
(***************************************************************************)
Promised(tree, meaning, node, outer) ==
  LET it == tree[node]
      OfSon(k, attribute) == meaning[SonOf(tree, node, k)][attribute]
      first == OfSon(1, outer)
  IN CASE it.op = "feed" -> it.relation
       [] it.op = "filter" -> Filtered(it, outer, first)
       [] it.op = "head" -> FirstOf(first, Most(it, outer))
       [] it.op = "cancel" -> Until(it, outer, first)
       [] it.op = "concat" -> first \o OfSon(2, outer)
       [] it.op = "product" -> Joins(first, [i \in DOMAIN first |-> OfSon(2, outer)])
       [] it.op = "loopjoin" ->
            Joins(first, [i \in DOMAIN first |-> OfSon(2, Attribute(first[i]))])
       [] it.op = "consume" -> first

Meaning(tree) ==
  LET meaning[node \in DOMAIN tree] ==
        [outer \in Attributes |-> Promised(tree, meaning, node, outer)]
  IN meaning

(***************************************************************************)
(* Property.                                                               *)
(***************************************************************************)
(* consume never holds a tuple that the query does not have, in the order
   of the query, and when nobody cancels it ends with all of them. *)
AnswerOrPrefix ==
  LET all == Meaning(plan)[1][0]
  IN /\ IsPrefix(result, all)
     /\ Ended /\ ~userCancel => result = all
=============================================================================
