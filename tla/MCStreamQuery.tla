---------------------------- MODULE MCStreamQuery ----------------------------
(* Instances of StreamQuery: all trees of two levels of operators over two  *)
(* relations, with functions that depend on the outer tuple.                *)
EXTENDS StreamAnswer

CONSTANTS MCRelations, MCDepth

Leaf(relation) ==
  <<[op |-> "feed", sons |-> << >>, scope |-> 0, relation |-> relation]>>

Outers == 0 .. 2
Twos == {<<o, 2>> : o \in Outers}
Others == {<<o, a>> \in Outers \X {1, 2} : o # a}
MostOf(k) == [o \in Outers |-> IF o = 0 THEN k ELSE o]

Unary ==
  {[op |-> "filter", sons |-> <<1>>, scope |-> 0, accepted |-> Others],
   [op |-> "head", sons |-> <<1>>, scope |-> 0, most |-> MostOf(1)],
   [op |-> "cancel", sons |-> <<1>>, scope |-> 0, accepted |-> Twos]}

Over(node, tree) == <<node>> \o tree

Scoped(tree, distance) ==
  [i \in DOMAIN tree |->
     IF tree[i].scope = 0 THEN [tree[i] EXCEPT !.scope = distance + i]
     ELSE tree[i]]

Joining(op, left, right) ==
  <<[op |-> op, sons |-> <<1, 1 + Len(left)>>, scope |-> 0]>> \o left
    \o (IF op = "loopjoin" THEN Scoped(right, Len(left)) ELSE right)

Larger(trees) ==
  {Over(node, tree) : node \in Unary, tree \in trees}
    \cup {Joining(op, left, right) : op \in {"concat", "product", "loopjoin"},
                                     left \in trees, right \in trees}

Trees[depth \in Nat] ==
  IF depth = 0 THEN {Leaf(relation) : relation \in MCRelations}
  ELSE Trees[depth - 1] \cup Larger(Trees[depth - 1])

MCPlans ==
  {Over([op |-> "consume", sons |-> <<1>>, scope |-> 0], tree) :
     tree \in Trees[MCDepth]}

MCRelationsOf == {<< >>, <<<<1>>, <<2>>>>}
==============================================================================
