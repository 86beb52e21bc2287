------------------------------ MODULE StreamQuery ------------------------------
(***************************************************************************)
(* The query processor evaluates the operator tree of a query               *)
(* (QueryProcessor::Eval, Destroy) and the value mapping functions of its   *)
(* operators pass streams of tuples by the messages OPEN, REQUEST and CLOSE *)
(* (Algebras/Relation-C++, Algebras/ExtRelation-C++, in the variant that    *)
(* supports progress).  A tuple counts its references; who receives it has  *)
(* to delete it or to pass it on.  The user may cancel the query whenever   *)
(* it runs: from then on Eval answers every REQUEST of a stream itself.     *)
(*                                                                         *)
(* One action is what a value mapping does between two calls of the query   *)
(* processor.  The calls are on a stack; the top is its head.              *)
(***************************************************************************)
EXTENDS Naturals, SequencesExt

CONSTANTS
  Plans, \* operator trees, each a sequence of the nodes in preorder
  None

(* A node has the fields op, sons and scope, and those of its operator.  A
   son and the scope are given by their distance in preorder; the scope is
   the loopjoin whose function the node belongs to, 0 when there is none.
   The value of a tuple is the sequence of its attributes.  The functions of
   filter, cancel and head look at the last attribute of a tuple: accepted
   holds pairs of an attribute of the tuple of the scope (0 when there is no
   scope) and one of the tuple itself, most is a function of the former and
   stands for 0 where it is not defined. *)

Arity ==
  [feed |-> 0, filter |-> 1, head |-> 1, cancel |-> 1, concat |-> 2,
   product |-> 2, loopjoin |-> 2, consume |-> 1]

\* What a son has for its scope.
ScopeOfSon(node, k) ==
  IF node.op = "loopjoin" /\ k = 2 THEN node.sons[2]
  ELSE IF node.scope = 0 THEN 0
  ELSE node.scope + node.sons[k]

SonOf(tree, i, k) == i + tree[i].sons[k]

IsTree(tree) ==
  /\ Len(tree) \in Nat \ {0} /\ DOMAIN tree = 1 .. Len(tree)
  /\ \A i \in DOMAIN tree :
       /\ tree[i].op \in DOMAIN Arity
       /\ tree[i].op = "consume" <=> i = 1
       /\ tree[i].scope \in Nat
       /\ tree[i].op = "head" => \A a \in DOMAIN tree[i].most : tree[i].most[a] \in Nat
       /\ DOMAIN tree[i].sons = 1 .. Arity[tree[i].op]
       /\ \A k \in DOMAIN tree[i].sons :
            /\ tree[i].sons[k] \in Nat \ {0}
            /\ SonOf(tree, i, k) \in DOMAIN tree
            /\ tree[SonOf(tree, i, k)].scope = ScopeOfSon(tree[i], k)
            /\ \A j \in DOMAIN tree : \A l \in DOMAIN tree[j].sons :
                 SonOf(tree, j, l) = SonOf(tree, i, k) => j = i /\ l = k
  /\ tree[1].scope = 0
  /\ \A i \in DOMAIN tree \ {1} : \E j \in DOMAIN tree :
       \E k \in DOMAIN tree[j].sons : SonOf(tree, j, k) = i

(* Local information of the operators.  A tuple is known by its address. *)
Tuples == Nat \ {0}
LocalOf ==
  [feed |-> [next : Tuples],
   filter |-> [opened : {TRUE}],
   head |-> [taken : Nat, most : Nat],
   cancel |-> {},
   concat |-> [second : BOOLEAN],
   product |-> [current : Tuples \cup {None}, buffer : Seq(Tuples), next : Tuples],
   loopjoin |-> [x : Tuples \cup {None}],
   consume |-> {}]

ASSUME TreeAssumption == \A tree \in Plans : IsTree(tree)

ASSUME NoneAssumption ==
  None \notin Tuples /\ \A op \in DOMAIN LocalOf : None \notin LocalOf[op]

VARIABLES
  plan,       \* the tree of the query
  stack,      \* calls of Eval: the node, the message and where it goes on
  answer,     \* the status and the tuple of the last call
  local,      \* the local information of the nodes
  argument,   \* the argument vectors of functions, at their loopjoin
  heap,       \* the tuples in memory, with their values and references
  misused,    \* a deleted tuple was read, or deleted once more
  streams,    \* what the messages say of a stream (history)
  result,     \* the relation of consume, as the values of its tuples
  userCancel, \* the flag that the signal of the user sets
  destroyed   \* number of nodes, in preorder, that Destroy has come to

treeVars == <<plan, argument>>
endVars == <<userCancel, destroyed>>
vars == <<treeVars, stack, answer, local, heap, misused, streams, result,
          endVars>>

Nodes == DOMAIN plan
Top == Head(stack)
n == Top.node
Son(i) == SonOf(plan, n, i)
Frame(node, message) == [node |-> node, message |-> message, at |-> "start"]

Init ==
  /\ plan \in Plans
  /\ stack = <<Frame(1, "OPEN")>>
  /\ answer = [status |-> "OK", tuple |-> None]
  /\ local = [node \in Nodes |-> None]
  /\ argument = [node \in Nodes |-> None]
  /\ heap = << >>
  /\ misused = FALSE
  /\ streams = [node \in Nodes |-> "closed"]
  /\ result = << >>
  /\ userCancel = FALSE
  /\ destroyed = 0

(***************************************************************************)
(* Calls.                                                                  *)
(***************************************************************************)
IsStream(node) == plan[node].op # "consume"

(* The step of the value mapping of op at a place of the code.  Eval does
   not call it for a REQUEST when the query has been cancelled. *)
In(op, message, at) ==
  /\ stack # << >>
  /\ plan[n].op = op
  /\ Top.message = message
  /\ Top.at = at
  /\ message = "REQUEST" /\ at = "start" => ~userCancel

Yielded == answer.status = "YIELD"

(* qp->Open, qp->Request, qp->Close *)
Push(node, message, at) ==
  stack' = <<Frame(node, message), [Top EXCEPT !.at = at]>> \o Tail(stack)

Call(node, message, at) ==
  /\ Push(node, message, at)
  /\ UNCHANGED <<answer, streams, treeVars, result, endVars>>

After(message, status) ==
  CASE message = "OPEN" -> "open"
    [] message = "REQUEST" -> IF status = "YIELD" THEN "open" ELSE "ended"
    [] OTHER -> "closed"

Return(status, tuple) ==
  /\ stack' = Tail(stack)
  /\ answer' = [status |-> status, tuple |-> tuple]
  /\ streams' = IF IsStream(n)
                   THEN [streams EXCEPT ![n] = After(Top.message, status)]
                   ELSE streams
  /\ UNCHANGED <<treeVars, result, endVars>>

Cancelled ==
  /\ stack # << >>
  /\ IsStream(n)
  /\ Top.message = "REQUEST"
  /\ Top.at = "start"
  /\ userCancel
  /\ Return("CANCEL", None)
  /\ UNCHANGED <<local, heap, misused>>

(***************************************************************************)
(* Tuples.                                                                 *)
(***************************************************************************)
Live(t) == t \in DOMAIN heap
Value(t) == IF Live(t) THEN heap[t].value ELSE << >>

(* Mutant: the last reference goes, the tuple stays. *)
WithoutReference(h, t) ==
  IF t \notin DOMAIN h THEN h ELSE [h EXCEPT ![t].refs = @ - 1]

Without(h, t) ==
  IF t \notin DOMAIN h THEN h
  ELSE IF h[t].refs > 1 THEN [h EXCEPT ![t].refs = @ - 1]
  ELSE [u \in DOMAIN h \ {t} |-> h[u]]

(* The address of a new tuple may be one that was deleted before. *)
Fresh(h) == CHOOSE t \in 1 .. Cardinality(DOMAIN h) + 1 : t \notin DOMAIN h

With(h, value) ==
  [t \in DOMAIN h \cup {Fresh(h)} |->
     IF t = Fresh(h) THEN [value |-> value, refs |-> 1] ELSE h[t]]

Reads(tuples) == misused' = (misused \/ \E t \in tuples : ~Live(t))
KeepTuples == UNCHANGED <<heap, misused>>
KeepLocal == UNCHANGED local
Set(info) == local' = [local EXCEPT ![n] = info]

Delete(t) ==
  /\ heap' = Without(heap, t)
  /\ Reads({t})

\* One reference for each place in the sequence.
DeleteAll(tuples) ==
  LET Places(t) == Cardinality({i \in DOMAIN tuples : tuples[i] = t})
      rest == {t \in DOMAIN heap : heap[t].refs > Places(t)}
  IN /\ heap' = [t \in rest |-> [heap[t] EXCEPT !.refs = @ - Places(t)]]
     /\ misused' = (misused \/ \E t \in Range(tuples) :
                                 ~Live(t) \/ Places(t) > heap[t].refs)

YieldNew(value, deleted) ==
  LET rest == Without(heap, deleted) IN
  /\ heap' = With(rest, value)
  /\ Return("YIELD", Fresh(rest))

(* The functions of the operators read their own tuple and, inside of the
   function of a loopjoin, the tuple that this has stored for it. *)
Outer == IF plan[n].scope = 0 THEN None ELSE argument[n - plan[n].scope]
Attribute(value) == IF value = << >> THEN 0 ELSE Last(value)
OuterAttribute == IF Outer = None THEN 0 ELSE Attribute(Value(Outer))
Accepts(t) == <<OuterAttribute, Attribute(Value(t))>> \in plan[n].accepted
Evaluated(t) == Reads({t} \cup ({Outer} \ {None}))

(***************************************************************************)
(* feed                                                                    *)
(***************************************************************************)
Feed ==
  \/ /\ In("feed", "OPEN", "start")
     /\ Set([next |-> 1])
     /\ KeepTuples
     /\ Return("OK", None)
  \/ /\ In("feed", "REQUEST", "start")
     /\ IF local[n] # None /\ local[n].next <= Len(plan[n].relation)
          THEN /\ Set([next |-> local[n].next + 1])
               /\ YieldNew(plan[n].relation[local[n].next], None)
               /\ UNCHANGED misused
          ELSE /\ KeepLocal
               /\ KeepTuples
               /\ Return("CANCEL", None)
  \/ /\ In("feed", "CLOSE", "start")
     /\ Set(None)
     /\ KeepTuples
     /\ Return("OK", None)

(***************************************************************************)
(* filter: the local information opens and closes the stream.  OPEN would  *)
(* delete what is left of it, but an operator is closed before it is       *)
(* opened again.                                                           *)
(***************************************************************************)
(* Mutant: a tuple that is missing is taken for one that is not accepted. *)
FilterNextAgain ==
  \/ /\ ~Yielded
     /\ KeepTuples
     /\ Call(Son(1), "REQUEST", "next")
  \/ /\ Yielded
     /\ Evaluated(answer.tuple)
     /\ IF Accepts(answer.tuple)
          THEN /\ UNCHANGED heap
               /\ Return("YIELD", answer.tuple)
          ELSE /\ heap' = Without(heap, answer.tuple)
               /\ Call(Son(1), "REQUEST", "next")

FilterNext ==
  \/ /\ ~Yielded
     /\ KeepTuples
     /\ Return("CANCEL", None)
  \/ /\ Yielded
     /\ Evaluated(answer.tuple)
     /\ IF Accepts(answer.tuple)
          THEN /\ UNCHANGED heap
               /\ Return("YIELD", answer.tuple)
          ELSE /\ heap' = Without(heap, answer.tuple)
               /\ Call(Son(1), "REQUEST", "next")

Filter ==
  \/ /\ In("filter", "OPEN", "start")
     /\ Call(Son(1), "OPEN", "opened")
     /\ KeepLocal
     /\ KeepTuples
  \/ /\ In("filter", "OPEN", "opened")
     /\ Set([opened |-> TRUE])
     /\ KeepTuples
     /\ Return("OK", None)
  \/ /\ In("filter", "REQUEST", "start")
     /\ IF local[n] = None
          THEN Return("CANCEL", None)
          ELSE Call(Son(1), "REQUEST", "next")
     /\ KeepLocal
     /\ KeepTuples
  \/ /\ In("filter", "REQUEST", "next")
     /\ KeepLocal
     /\ FilterNext
  \/ /\ In("filter", "CLOSE", "start")
     /\ IF local[n] = None
          THEN Return("OK", None)
          ELSE Call(Son(1), "CLOSE", "closed")
     /\ KeepLocal
     /\ KeepTuples
  \/ /\ In("filter", "CLOSE", "closed")
     /\ Set(None)
     /\ KeepTuples
     /\ Return("OK", None)

(***************************************************************************)
(* head: its number is an argument that Eval evaluates for OPEN only.  The *)
(* local information outlives CLOSE.                                       *)
(***************************************************************************)
NewHead ==
  [taken |-> 0,
   most |-> IF OuterAttribute \in DOMAIN plan[n].most
              THEN plan[n].most[OuterAttribute] ELSE 0]

(* Mutant: what is left from the last time is used again. *)
HeadInfoKept == IF local[n] = None THEN NewHead ELSE local[n]

HeadInfo == NewHead

HeadOf ==
  \/ /\ In("head", "OPEN", "start")
     /\ Set(HeadInfo)
     /\ Reads({Outer} \ {None})
     /\ UNCHANGED heap
     /\ Call(Son(1), "OPEN", "opened")
  \/ /\ In("head", "OPEN", "opened")
     /\ KeepLocal
     /\ KeepTuples
     /\ Return("OK", None)
  \/ /\ In("head", "REQUEST", "start")
     /\ IF local[n].taken >= local[n].most
          THEN Return("CANCEL", None)
          ELSE Call(Son(1), "REQUEST", "next")
     /\ KeepLocal
     /\ KeepTuples
  \/ /\ In("head", "REQUEST", "next")
     /\ KeepTuples
     /\ \/ ~Yielded /\ KeepLocal /\ Return("CANCEL", None)
        \/ /\ Yielded
           /\ Set([local[n] EXCEPT !.taken = @ + 1])
           /\ Return("YIELD", answer.tuple)
  \/ /\ In("head", "CLOSE", "start")
     /\ Call(Son(1), "CLOSE", "closed")
     /\ KeepLocal
     /\ KeepTuples
  \/ /\ In("head", "CLOSE", "closed")
     /\ KeepLocal
     /\ KeepTuples
     /\ Return("OK", None)
  \/ /\ In("head", "CLOSEPROGRESS", "start")
     /\ Set(None)
     /\ KeepTuples
     /\ Return("OK", None)

(***************************************************************************)
(* cancel: no local information                                            *)
(***************************************************************************)
Cancel ==
  \/ \E message \in {"OPEN", "REQUEST", "CLOSE"} :
       /\ In("cancel", message, "start")
       /\ Call(Son(1), message, "done")
       /\ KeepLocal
       /\ KeepTuples
  \/ \E message \in {"OPEN", "CLOSE"} :
       /\ In("cancel", message, "done")
       /\ KeepLocal
       /\ KeepTuples
       /\ Return("OK", None)
  \/ /\ In("cancel", "REQUEST", "done")
     /\ KeepLocal
     /\ \/ ~Yielded /\ KeepTuples /\ Return("CANCEL", None)
        \/ /\ Yielded
           /\ Evaluated(answer.tuple)
           /\ IF Accepts(answer.tuple)
                THEN /\ heap' = Without(heap, answer.tuple)
                     /\ Return("CANCEL", None)
                ELSE /\ UNCHANGED heap
                     /\ Return("YIELD", answer.tuple)

(***************************************************************************)
(* concat                                                                  *)
(***************************************************************************)
Concat ==
  \/ \E message \in {"OPEN", "CLOSE"} :
       \/ /\ In("concat", message, "start")
          /\ Call(Son(1), message, "first")
          /\ KeepLocal
          /\ KeepTuples
       \/ /\ In("concat", message, "first")
          /\ Call(Son(2), message, "second")
          /\ KeepLocal
          /\ KeepTuples
       \/ /\ In("concat", message, "second")
          /\ Set(IF message = "OPEN" THEN [second |-> FALSE] ELSE None)
          /\ KeepTuples
          /\ Return("OK", None)
  \/ /\ In("concat", "REQUEST", "start")
     /\ IF local[n].second
          THEN Call(Son(2), "REQUEST", "second")
          ELSE Call(Son(1), "REQUEST", "first")
     /\ KeepLocal
     /\ KeepTuples
  \/ /\ In("concat", "REQUEST", "first")
     /\ KeepTuples
     /\ IF Yielded
          THEN KeepLocal /\ Return("YIELD", answer.tuple)
          ELSE /\ Set([second |-> TRUE])
               /\ Call(Son(2), "REQUEST", "second")
  \/ /\ In("concat", "REQUEST", "second")
     /\ KeepLocal
     /\ KeepTuples
     /\ Return(answer.status, answer.tuple)

(***************************************************************************)
(* product: the second stream is read into a buffer for OPEN.  The buffer  *)
(* holds one reference to each of its tuples, another one lasts only while *)
(* a tuple is added or read.                                               *)
(***************************************************************************)
Joined(x, y) == Value(x) \o Value(y)

(* Mutant: only the buffer is deleted with the local information. *)
HeldInBuffer == IF local[n] = None THEN << >> ELSE local[n].buffer

HeldByProduct ==
  IF local[n] = None THEN << >>
  ELSE local[n].buffer
       \o (IF local[n].current = None THEN << >> ELSE <<local[n].current>>)

ProductOpen ==
  \/ /\ In("product", "OPEN", "start")
     /\ Call(Son(1), "OPEN", "opened")
     /\ DeleteAll(HeldByProduct)
     /\ Set([current |-> None, buffer |-> << >>, next |-> 1])
  \/ /\ In("product", "OPEN", "opened")
     /\ Call(Son(1), "REQUEST", "current")
     /\ KeepLocal
     /\ KeepTuples
  \/ /\ In("product", "OPEN", "current")
     /\ Set([local[n] EXCEPT !.current = answer.tuple])
     /\ KeepTuples
     /\ Call(Son(2), "OPEN", "second")
  \/ /\ In("product", "OPEN", "second")
     /\ Call(Son(2), "REQUEST", "buffer")
     /\ KeepLocal
     /\ KeepTuples
  \/ /\ In("product", "OPEN", "buffer")
     /\ KeepTuples
     /\ IF Yielded
          THEN /\ Set([local[n] EXCEPT !.buffer = Append(@, answer.tuple)])
               /\ Call(Son(2), "REQUEST", "buffer")
          ELSE KeepLocal /\ Return("OK", None)

ProductRequest ==
  \/ /\ In("product", "REQUEST", "start")
     /\ LET x == local[n].current
            buffer == local[n].buffer
            next == local[n].next
        IN IF x = None \/ buffer = << >>
             THEN KeepLocal /\ KeepTuples /\ Return("CANCEL", None)
           ELSE IF next <= Len(buffer)
             THEN /\ Set([local[n] EXCEPT !.next = @ + 1])
                  /\ Reads({x, buffer[next]})
                  /\ YieldNew(Joined(x, buffer[next]), None)
           ELSE /\ Set([local[n] EXCEPT !.current = None])
                /\ Delete(x)
                /\ Call(Son(1), "REQUEST", "current")
  \/ /\ In("product", "REQUEST", "current")
     /\ LET x == answer.tuple
            y == local[n].buffer[1]
        IN IF Yielded
             THEN /\ Set([local[n] EXCEPT !.current = x, !.next = 2])
                  /\ Reads({x, y})
                  /\ YieldNew(Joined(x, y), None)
             ELSE KeepLocal /\ KeepTuples /\ Return("CANCEL", None)

ProductClose ==
  \/ /\ In("product", "CLOSE", "start")
     /\ Call(Son(1), "CLOSE", "first")
     /\ KeepLocal
     /\ KeepTuples
  \/ /\ In("product", "CLOSE", "first")
     /\ Call(Son(2), "CLOSE", "second")
     /\ KeepLocal
     /\ KeepTuples
  \/ /\ In("product", "CLOSE", "second")
     /\ DeleteAll(HeldByProduct)
     /\ Set(None)
     /\ Return("OK", None)

(***************************************************************************)
(* loopjoin: the second son is a function whose result is a stream.  Its   *)
(* argument is the current tuple of the first stream.                      *)
(***************************************************************************)
CallWith(t, at) ==
  /\ argument' = [argument EXCEPT ![n] = t]
  /\ Push(Son(2), "OPEN", at)
  /\ UNCHANGED <<plan, answer, streams, result, endVars>>

LoopjoinOpen ==
  \/ /\ In("loopjoin", "OPEN", "start")
     /\ Set([x |-> None])
     /\ Call(Son(1), "OPEN", "opened")
     /\ KeepTuples
  \/ /\ In("loopjoin", "OPEN", "opened")
     /\ Call(Son(1), "REQUEST", "first")
     /\ KeepLocal
     /\ KeepTuples
  \/ /\ In("loopjoin", "OPEN", "first")
     /\ KeepTuples
     /\ KeepLocal
     /\ IF Yielded THEN CallWith(answer.tuple, "function")
                   ELSE Return("OK", None)
  \/ /\ In("loopjoin", "OPEN", "function")
     /\ Set([x |-> argument[n]])
     /\ KeepTuples
     /\ Return("OK", None)

(* Mutant: the stream of the function is not closed. *)
InnerEndedUnclosed ==
  /\ stack' = <<[Top EXCEPT !.at = "closed"]>> \o Tail(stack)
  /\ UNCHANGED <<answer, streams, treeVars, result, endVars>>

InnerEnded == Call(Son(2), "CLOSE", "closed")

LoopjoinRequest ==
  \/ /\ In("loopjoin", "REQUEST", "start")
     /\ IF local[n] = None \/ local[n].x = None
          THEN Return("CANCEL", None)
          ELSE Call(Son(2), "REQUEST", "inner")
     /\ KeepLocal
     /\ KeepTuples
  \/ /\ In("loopjoin", "REQUEST", "inner")
     /\ KeepLocal
     /\ IF Yielded
          THEN /\ Reads({local[n].x, answer.tuple})
               /\ YieldNew(Joined(local[n].x, answer.tuple), answer.tuple)
          ELSE KeepTuples /\ InnerEnded
  \/ /\ In("loopjoin", "REQUEST", "closed")
     /\ Delete(local[n].x)
     /\ KeepLocal
     /\ Call(Son(1), "REQUEST", "outer")
  \/ /\ In("loopjoin", "REQUEST", "outer")
     /\ KeepTuples
     /\ IF Yielded
          THEN KeepLocal /\ CallWith(answer.tuple, "function")
          ELSE Set([x |-> None]) /\ Return("CANCEL", None)
  \/ /\ In("loopjoin", "REQUEST", "function")
     /\ Set([x |-> argument[n]])
     /\ Call(Son(2), "REQUEST", "inner")
     /\ KeepTuples

LoopjoinClose ==
  \/ /\ In("loopjoin", "CLOSE", "start")
     /\ Call(Son(1), "CLOSE", "outer")
     /\ KeepLocal
     /\ KeepTuples
  \/ /\ In("loopjoin", "CLOSE", "outer")
     /\ KeepTuples
     /\ IF local[n] # None /\ local[n].x # None
          THEN KeepLocal /\ Call(Son(2), "CLOSE", "inner")
          ELSE Set(None) /\ Return("OK", None)
  \/ /\ In("loopjoin", "CLOSE", "inner")
     /\ Delete(local[n].x)
     /\ Set(None)
     /\ Return("OK", None)

(***************************************************************************)
(* consume: reads its stream within one evaluation                         *)
(***************************************************************************)
Consume ==
  /\ KeepLocal
  /\ \/ /\ In("consume", "OPEN", "start")
        /\ KeepTuples
        /\ Call(Son(1), "OPEN", "opened")
     \/ /\ In("consume", "OPEN", "opened")
        /\ KeepTuples
        /\ Call(Son(1), "REQUEST", "next")
     \/ /\ In("consume", "OPEN", "next")
        /\ Yielded
        /\ result' = Append(result, Value(answer.tuple))
        /\ Delete(answer.tuple)
        /\ Push(Son(1), "REQUEST", "next")
        /\ UNCHANGED <<answer, streams, treeVars, endVars>>
     \/ /\ In("consume", "OPEN", "next")
        /\ ~Yielded
        /\ KeepTuples
        /\ Call(Son(1), "CLOSE", "closed")
     \/ /\ In("consume", "OPEN", "closed")
        /\ KeepTuples
        /\ Return("OK", None)

(***************************************************************************)
(* The signal of the user may come at any time.  Destroy walks through the *)
(* tree in preorder.  Head is the one operator here that supports progress *)
(* without an estimation of its costs, so it gets CLOSEPROGRESS; the others *)
(* get CLOSE if they still have local information.                         *)
(***************************************************************************)
UserCancels ==
  /\ stack # << >>
  /\ destroyed = 0
  /\ ~userCancel
  /\ userCancel' = TRUE
  /\ UNCHANGED <<treeVars, stack, answer, local, heap, misused, streams,
                 result, destroyed>>

LastMessages(node) ==
  IF plan[node].op = "head" THEN <<Frame(node, "CLOSEPROGRESS")>>
  ELSE IF local[node] # None THEN <<Frame(node, "CLOSE")>>
  ELSE << >>

Destroy ==
  /\ stack = << >>
  /\ destroyed < Len(plan)
  /\ destroyed' = destroyed + 1
  /\ stack' = LastMessages(destroyed + 1)
  /\ UNCHANGED <<treeVars, answer, local, heap, misused, streams, result,
                 userCancel>>

Step ==
  \/ Feed \/ Filter \/ HeadOf \/ Cancel \/ Concat
  \/ ProductOpen \/ ProductRequest \/ ProductClose
  \/ LoopjoinOpen \/ LoopjoinRequest \/ LoopjoinClose
  \/ Consume \/ Cancelled \/ Destroy

Next == Step \/ UserCancels

Spec == Init /\ [][Next]_vars

(* The evaluation goes on by itself; the user never has to cancel. *)
FairSpec == Spec /\ WF_vars(Step)

(***************************************************************************)
(* Properties.                                                             *)
(***************************************************************************)
Ended == stack = << >> /\ destroyed = Len(plan)

(* Frames belong to nodes of the tree and carry the messages of the query
   processor, every tuple in memory has at least one reference, and an
   answer YIELD comes with a tuple. *)
StreamQueryTypeOK ==
  /\ \A i \in DOMAIN stack :
       /\ stack[i].node \in Nodes
       /\ stack[i].message \in {"OPEN", "REQUEST", "CLOSE", "CLOSEPROGRESS"}
       /\ i > 1 => stack[i].at # "start"
  /\ answer.status \in {"OK", "YIELD", "CANCEL"}
  /\ answer.tuple \in Tuples \cup {None}
  /\ answer.status = "YIELD" <=> answer.tuple # None
  /\ DOMAIN local = Nodes
  /\ \A node \in Nodes : local[node] \in LocalOf[plan[node].op] \cup {None}
  /\ argument \in [Nodes -> Tuples \cup {None}]
  /\ \A t \in DOMAIN heap : t \in Tuples /\ heap[t].refs \in Nat \ {0}
  /\ misused \in BOOLEAN
  /\ streams \in [Nodes -> {"closed", "open", "ended"}]
  /\ userCancel \in BOOLEAN
  /\ destroyed \in 0 .. Len(plan)

(* The protocol of streams: whatever the operators above and the user do,
   a stream is opened when it is closed, asked for a tuple when it is open
   and has not answered CANCEL, and closed once after it was opened.  The
   operators rely on it: head dereferences its local information, cancel
   would read on after the tuple that ended it. *)
RequestsOpened ==
  stack # << >> /\ Top.at = "start" /\ IsStream(n) =>
    CASE Top.message = "OPEN" -> streams[n] = "closed"
      [] Top.message = "REQUEST" -> streams[n] = "open"
      [] Top.message = "CLOSE" -> streams[n] # "closed"
      [] OTHER -> streams[n] = "closed"

(* No operator reads or deletes a tuple that is deleted already; at the end
   every tuple and all local information is gone, also when head stopped
   early or the user cancelled the query. *)
NothingLeft ==
  /\ ~misused
  /\ stack = << >> => heap = << >>
  /\ Ended => /\ local = [node \in Nodes |-> None]
              /\ streams = [node \in Nodes |-> "closed"]

(* Every query ends, cancelled or not. *)
QueryEnds == <>Ended
=============================================================================
