-------------------------- MODULE StreamQueryProofs --------------------------
(***************************************************************************)
(* Theorems about StreamQuery, for every operator tree: the protocol of    *)
(* streams is kept, and every tuple has one owner until it is deleted.     *)
(***************************************************************************)
EXTENDS StreamQuery, SequenceTheorems, FiniteSetTheorems, TLAPS

-----------------------------------------------------------------------------
(* The invariant of the protocol.                                          *)

Op(x) == plan[x].op
SonState(x, k) == streams[SonOf(plan, x, k)]

\* What holds of a stream when a message comes.
Asked(x, message) ==
  CASE message = "OPEN" -> streams[x] = "closed"
    [] message = "REQUEST" -> streams[x] = "open"
    [] message = "CLOSE" -> streams[x] # "closed"
    [] OTHER -> streams[x] = "closed"

\* At this place of its value mapping the operator op, which was called with
\* message, has sent m to its son k.
Waits(op, message, at, k, m) ==
  \/ /\ op \in {"filter", "head"} /\ k = 1 /\ m = message
     /\ \/ message = "OPEN" /\ at = "opened"
        \/ message = "REQUEST" /\ at = "next"
        \/ message = "CLOSE" /\ at = "closed"
  \/ /\ op = "cancel" /\ k = 1 /\ m = message
     /\ message \in {"OPEN", "REQUEST", "CLOSE"} /\ at = "done"
  \/ /\ op = "concat" /\ m = message
     /\ message \in {"OPEN", "REQUEST", "CLOSE"}
     /\ (at = "first" /\ k = 1) \/ (at = "second" /\ k = 2)
  \/ /\ op = "product" /\ message = "OPEN"
     /\ \/ at = "opened" /\ k = 1 /\ m = "OPEN"
        \/ at = "current" /\ k = 1 /\ m = "REQUEST"
        \/ at = "second" /\ k = 2 /\ m = "OPEN"
        \/ at = "buffer" /\ k = 2 /\ m = "REQUEST"
  \/ /\ op = "product" /\ message = "REQUEST"
     /\ at = "current" /\ k = 1 /\ m = "REQUEST"
  \/ /\ op = "product" /\ message = "CLOSE" /\ m = "CLOSE"
     /\ (at = "first" /\ k = 1) \/ (at = "second" /\ k = 2)
  \/ /\ op = "loopjoin" /\ message = "OPEN"
     /\ \/ at = "opened" /\ k = 1 /\ m = "OPEN"
        \/ at = "first" /\ k = 1 /\ m = "REQUEST"
        \/ at = "function" /\ k = 2 /\ m = "OPEN"
  \/ /\ op = "loopjoin" /\ message = "REQUEST"
     /\ \/ at = "inner" /\ k = 2 /\ m = "REQUEST"
        \/ at = "closed" /\ k = 2 /\ m = "CLOSE"
        \/ at = "outer" /\ k = 1 /\ m = "REQUEST"
        \/ at = "function" /\ k = 2 /\ m = "OPEN"
  \/ /\ op = "loopjoin" /\ message = "CLOSE" /\ m = "CLOSE"
     /\ (at = "outer" /\ k = 1) \/ (at = "inner" /\ k = 2)
  \/ /\ op = "consume" /\ message = "OPEN" /\ k = 1
     /\ \/ at = "opened" /\ m = "OPEN"
        \/ at = "next" /\ m = "REQUEST"
        \/ at = "closed" /\ m = "CLOSE"

\* An operator that is not at work, by its local information, its stream and
\* those of its sons.
IdleClosed(x) ==
  /\ \A k \in DOMAIN plan[x].sons : SonState(x, k) = "closed"
  /\ Op(x) # "head" => local[x] = None

IdleOpened(x) ==
  LET open == streams[x] = "open"
      info == local[x] IN
  /\ Op(x) \in {"filter", "head", "concat", "product", "loopjoin"} => info # None
  /\ Op(x) \in {"filter", "head", "cancel"} =>
       SonState(x, 1) # "closed" /\ (open => SonState(x, 1) = "open")
  /\ Op(x) = "concat" =>
       /\ SonState(x, 1) # "closed" /\ SonState(x, 2) # "closed"
       /\ open => /\ SonState(x, 2) = "open"
                  /\ SonState(x, 1) = IF info.second THEN "ended" ELSE "open"
  /\ Op(x) = "product" =>
       /\ SonState(x, 1) # "closed" /\ SonState(x, 2) # "closed"
       /\ open /\ info.current # None => SonState(x, 1) = "open"
  /\ Op(x) = "loopjoin" =>
       /\ SonState(x, 1) # "closed"
       /\ info.x = None <=> SonState(x, 2) = "closed"
       /\ open /\ info.x # None => /\ SonState(x, 1) = "open"
                                   /\ SonState(x, 2) = "open"
                                   /\ info.x = argument[x]

Idle(x) == IF streams[x] = "closed" THEN IdleClosed(x) ELSE IdleOpened(x)

\* An operator at work: what does not depend on the call it has made.
Running(x, message, at) ==
  LET info == local[x] IN
  /\ Op(x) = "filter" /\ message # "OPEN" => info # None
  /\ Op(x) = "head" => info # None
  /\ Op(x) = "concat" =>
       /\ at = "first" =>
            CASE message = "OPEN" -> SonState(x, 2) = "closed"
              [] message = "REQUEST" -> /\ info # None /\ ~info.second
                                        /\ SonState(x, 2) = "open"
              [] OTHER -> SonState(x, 2) # "closed"
       /\ at = "second" =>
            CASE message = "OPEN" -> SonState(x, 1) = "open"
              [] message = "REQUEST" -> /\ info # None /\ info.second
                                        /\ SonState(x, 1) = "ended"
              [] OTHER -> SonState(x, 1) = "closed"
  /\ Op(x) = "product" =>
       /\ info # None
       /\ message = "OPEN" =>
            IF at \in {"opened", "current"}
              THEN info.current = None /\ SonState(x, 2) = "closed"
              ELSE /\ SonState(x, 1) # "closed"
                   /\ info.current # None => SonState(x, 1) = "open"
       /\ message = "REQUEST" =>
            /\ info.current = None /\ info.buffer # << >>
            /\ SonState(x, 2) # "closed"
       /\ message = "CLOSE" =>
            IF at = "first" THEN SonState(x, 2) # "closed"
                            ELSE SonState(x, 1) = "closed"
  /\ Op(x) = "loopjoin" =>
       /\ info # None
       /\ message = "OPEN" => info.x = None
       /\ at = "function" => SonState(x, 1) = "open" /\ argument[x] # None
       /\ message = "OPEN" /\ at # "function" => SonState(x, 2) = "closed"
       /\ message = "REQUEST" /\ at \in {"inner", "closed"} =>
            info.x # None /\ SonState(x, 1) = "open"
       /\ message = "REQUEST" /\ at = "inner" => info.x = argument[x]
       /\ message = "REQUEST" /\ at = "outer" => SonState(x, 2) = "closed"
       /\ message = "CLOSE" /\ at = "outer" =>
            (info.x = None <=> SonState(x, 2) = "closed")
       /\ message = "CLOSE" /\ at = "inner" =>
            info.x # None /\ SonState(x, 1) = "closed"

Places == {"start", "opened", "next", "closed", "done", "first", "second", "current",
           "buffer", "function", "inner", "outer"}
Frames == [node : Nodes, message : {"OPEN", "REQUEST", "CLOSE", "CLOSEPROGRESS"},
           at : Places]

\* A frame waits for the one above it; both come from the same query, or
\* Destroy has called a head.
PathOK ==
  /\ \A i, j \in DOMAIN stack : i < j => stack[i].node > stack[j].node
  /\ \A i \in DOMAIN stack \ {1} :
       LET f == stack[i] g == stack[i - 1] IN
       \E k \in DOMAIN plan[f.node].sons :
         g.node = SonOf(plan, f.node, k) /\ Waits(Op(f.node), f.message, f.at, k, g.message)
  /\ stack # << >> =>
       LET f == stack[Len(stack)] IN
       IF destroyed = 0
         THEN f.node = 1 /\ f.message = "OPEN"
         ELSE /\ Len(stack) = 1 /\ f = Frame(destroyed, "CLOSEPROGRESS")
              /\ Op(destroyed) = "head"

Answers(m) ==
  IF m = "REQUEST" THEN answer.status \in {"YIELD", "CANCEL"} ELSE answer.status = "OK"

\* The call that a frame has made has returned.
Answered(f) ==
  \E k \in DOMAIN plan[f.node].sons : \E m \in {"OPEN", "REQUEST", "CLOSE"} :
    /\ Waits(Op(f.node), f.message, f.at, k, m)
    /\ SonState(f.node, k) = After(m, answer.status)
    /\ Answers(m)

FramesOK ==
  /\ \A i \in DOMAIN stack :
       /\ Asked(stack[i].node, stack[i].message)
       /\ stack[i].at # "start" => Running(stack[i].node, stack[i].message, stack[i].at)
  /\ stack # << >> => IF Top.at = "start" THEN Idle(n) ELSE Answered(Top)

OnStack(x) == \E i \in DOMAIN stack : stack[i].node = x

QuietOK == \A x \in Nodes : ~OnStack(x) => Idle(x)

EndOK ==
  /\ destroyed \in 0 .. Len(plan)
  /\ destroyed > 0 => stack = << >> \/ Len(stack) = 1
  /\ stack = << >> \/ destroyed > 0 => \A x \in Nodes : streams[x] = "closed"
  /\ \A x \in 1 .. destroyed : local[x] = None \/ (stack # << >> /\ x = destroyed)

ValuesOK ==
  /\ IsTree(plan)
  /\ stack \in Seq(Frames)
  /\ answer \in [status : {"OK", "YIELD", "CANCEL"}, tuple : Tuples \cup {None}]
  /\ answer.status = "YIELD" <=> answer.tuple # None
  /\ DOMAIN local = Nodes /\ local = [x \in Nodes |-> local[x]]
  /\ \A x \in Nodes : local[x] \in LocalOf[Op(x)] \cup {None}
  /\ argument \in [Nodes -> Tuples \cup {None}]
  /\ streams \in [Nodes -> {"closed", "open", "ended"}]
  /\ misused \in BOOLEAN /\ userCancel \in BOOLEAN
  /\ IsFiniteSet(DOMAIN heap)

ProtocolInv == ValuesOK /\ PathOK /\ FramesOK /\ QuietOK /\ EndOK

-----------------------------------------------------------------------------
(* The invariant of the tuples.                                            *)

\* A loopjoin passes its tuple to the function; it has deleted its last one.
Passing(x) == \E i \in DOMAIN stack : stack[i].node = x /\ stack[i].at = "function"
Stale(x) ==
  \E i \in DOMAIN stack : /\ stack[i].node = x /\ stack[i].message = "REQUEST"
                          /\ stack[i].at = "outer"

\* The tuples that are kept at the node x.
Has(x) ==
  IF Op(x) = "product" /\ local[x] # None
    THEN ({local[x].current} \cup Range(local[x].buffer)) \ {None}
  ELSE IF Op(x) = "loopjoin" /\ Passing(x) THEN {argument[x]}
  ELSE IF Op(x) = "loopjoin" /\ ~Stale(x) /\ local[x] # None THEN {local[x].x} \ {None}
  ELSE {}

\* A product keeps a tuple once.
Distinct(x) ==
  Op(x) = "product" /\ local[x] # None =>
    /\ \A i, j \in DOMAIN local[x].buffer :
         local[x].buffer[i] = local[x].buffer[j] => i = j
    /\ local[x].current \notin Range(local[x].buffer)

\* The tuple of an answer that the operator at the top has not taken yet.
Given == IF stack # << >> /\ Top.at # "start" /\ Yielded THEN {answer.tuple} ELSE {}

HeapFine(h) ==
  /\ IsFiniteSet(DOMAIN h) /\ DOMAIN h \subseteq Tuples
  /\ h = [t \in DOMAIN h |-> h[t]]
  /\ \A t \in DOMAIN h : h[t] = [value |-> h[t].value, refs |-> 1]

OneHolder ==
  /\ HeapFine(heap)
  /\ DOMAIN heap = Given \cup UNION {Has(x) : x \in Nodes}
  /\ \A x \in Nodes : Distinct(x) /\ Given \cap Has(x) = {}
  /\ \A x, y \in Nodes : x # y => Has(x) \cap Has(y) = {}

\* The argument of a function that is at work is there.
ScopeOK ==
  \A i \in DOMAIN stack :
    LET f == stack[i] scope == plan[f.node].scope IN
    scope # 0 /\ f.message \in {"OPEN", "REQUEST"} =>
      \E j \in DOMAIN stack :
        /\ j > i /\ stack[j].node = f.node - scope
        /\ stack[j].message \in {"OPEN", "REQUEST"}
        /\ stack[j].at \in {"function", "inner"}

TupleInv == OneHolder /\ ScopeOK /\ ~misused

-----------------------------------------------------------------------------
(* Facts about trees, stacks and natural numbers.                          *)

LEMMA LeastNode ==
  ASSUME NEW T \in SUBSET Nat, T # {}
  PROVE  \E m \in T : \A k \in T : m <= k
<1> DEFINE R == OpToRel(<, Nat)
<1>1. PICK m \in T : \A y \in T : <<y, m>> \notin R
  BY NatLessThanWellFounded, WFMin
<1>2. \A k \in T : k < m => <<k, m>> \in R
  BY DEF OpToRel
<1>3. \A k \in T : ~(k < m)
  <2> HIDE DEF R
  <2> QED
    BY <1>1, <1>2
<1>4. \A k \in T : k \in Nat /\ m \in Nat
  OBVIOUS
<1> QED
  BY <1>3, <1>4

LEMMA NodesAndSons ==
  ASSUME IsTree(plan)
  PROVE  /\ Nodes = 1 .. Len(plan) /\ Len(plan) \in Nat \ {0} /\ 1 \in Nodes
         /\ \A x \in Nodes : \A k \in DOMAIN plan[x].sons :
              /\ k \in {1, 2}
              /\ SonOf(plan, x, k) \in Nodes /\ SonOf(plan, x, k) > x
              /\ \A y \in Nodes : \A l \in DOMAIN plan[y].sons :
                   SonOf(plan, y, l) = SonOf(plan, x, k) => y = x /\ l = k
<1>1. Nodes = 1 .. Len(plan) /\ Len(plan) \in Nat \ {0}
  BY DEF IsTree, Nodes
<1>2. \A x \in Nodes : \A k \in DOMAIN plan[x].sons :
        /\ k \in {1, 2} /\ plan[x].sons[k] \in Nat \ {0}
        /\ SonOf(plan, x, k) \in Nodes
        /\ \A y \in Nodes : \A l \in DOMAIN plan[y].sons :
             SonOf(plan, y, l) = SonOf(plan, x, k) => y = x /\ l = k
  BY SMTT(40) DEF IsTree, Nodes, Arity
<1> QED
  BY <1>1, <1>2 DEF SonOf

LEMMA SonsOf ==
  ASSUME IsTree(plan), NEW x \in Nodes
  PROVE  /\ Op(x) \in DOMAIN Arity
         /\ DOMAIN plan[x].sons =
              CASE Op(x) = "feed" -> {}
                [] Op(x) \in {"filter", "head", "cancel", "consume"} -> {1}
                [] OTHER -> {1, 2}
         /\ Op(x) = "consume" <=> x = 1
<1>1. Op(x) \in DOMAIN Arity /\ DOMAIN plan[x].sons = 1 .. Arity[Op(x)]
      /\ (Op(x) = "consume" <=> x = 1)
  BY DEF IsTree, Nodes, Op
<1>2. \A op \in DOMAIN Arity :
        Arity[op] = CASE op = "feed" -> 0
                      [] op \in {"filter", "head", "cancel", "consume"} -> 1
                      [] OTHER -> 2
  BY DEF Arity
<1>3. 1 .. 0 = {} /\ 1 .. 1 = {1} /\ 1 .. 2 = {1, 2}
  OBVIOUS
<1> QED
  BY <1>1, <1>2, <1>3

LEMMA Pushed ==
  ASSUME NEW s \in Seq(Frames), s # << >>, NEW f \in Frames, NEW g \in Frames,
         NEW t, t = <<f, g>> \o Tail(s)
  PROVE  /\ t \in Seq(Frames) /\ Len(t) = Len(s) + 1
         /\ t[1] = f /\ t[2] = g /\ Head(t) = f
         /\ \A i \in 2 .. Len(s) : t[i + 1] = s[i]
<1>1. /\ <<f, g>> \in Seq(Frames) /\ Len(<<f, g>>) = 2
      /\ <<f, g>>[1] = f /\ <<f, g>>[2] = g
  OBVIOUS
<1>2. /\ Tail(s) \in Seq(Frames) /\ Len(Tail(s)) = Len(s) - 1 /\ Len(s) \in Nat \ {0}
      /\ \A i \in 1 .. Len(s) - 1 : Tail(s)[i] = s[i + 1]
  BY HeadTailProperties, LenProperties
<1>3. /\ t \in Seq(Frames) /\ Len(t) = Len(s) + 1
      /\ t[1] = f /\ t[2] = g
      /\ \A i \in 1 .. Len(s) - 1 : t[i + 2] = Tail(s)[i]
  BY <1>1, <1>2, ConcatProperties
<1>4. \A i \in 2 .. Len(s) : i - 1 \in 1 .. Len(s) - 1 /\ (i - 1) + 2 = i + 1
                              /\ (i - 1) + 1 = i
  BY <1>2
<1>5. \A i \in 2 .. Len(s) : t[i + 1] = s[i]
  BY <1>2, <1>3, <1>4
<1>6. Head(t) = t[1]
  BY <1>2, <1>3
<1> QED
  BY <1>3, <1>5, <1>6

LEMMA Popped ==
  ASSUME NEW s \in Seq(Frames), s # << >>
  PROVE  /\ Tail(s) \in Seq(Frames) /\ Len(Tail(s)) = Len(s) - 1
         /\ \A i \in 1 .. Len(s) - 1 : Tail(s)[i] = s[i + 1]
         /\ Head(s) = s[1] /\ Len(s) \in Nat \ {0}
         /\ Tail(s) # << >> => Head(Tail(s)) = s[2] /\ Len(s) > 1
         /\ Tail(s) = << >> <=> Len(s) = 1
<1>1. /\ Tail(s) \in Seq(Frames) /\ Len(Tail(s)) = Len(s) - 1 /\ Len(s) \in Nat \ {0}
      /\ \A i \in 1 .. Len(s) - 1 : Tail(s)[i] = s[i + 1]
      /\ Head(s) = s[1]
  BY HeadTailProperties, LenProperties
<1>2. Tail(s) = << >> <=> Len(s) = 1
  BY <1>1, EmptySeq
<1>3. Tail(s) # << >> => Head(Tail(s)) = s[2] /\ Len(s) > 1
  BY <1>1, <1>2
<1> QED
  BY <1>1, <1>2, <1>3
-----------------------------------------------------------------------------
(* One step of the operator x, in general.  Only its own information and   *)
(* its own argument vector change.                                         *)

AtWork(x) ==
  /\ UNCHANGED <<plan, endVars>>
  /\ misused' \in BOOLEAN /\ IsFiniteSet(DOMAIN heap')
  /\ DOMAIN local' = Nodes /\ local' = [y \in Nodes |-> local'[y]]
  /\ local'[x] \in LocalOf[Op(x)] \cup {None}
  /\ argument' \in [Nodes -> Tuples \cup {None}]
  /\ \A y \in Nodes \ {x} : local'[y] = local[y] /\ argument'[y] = argument[y]

Calls(x, message, k, m, at) ==
  /\ Push(SonOf(plan, x, k), m, at)
  /\ UNCHANGED <<answer, streams>>
  /\ Waits(Op(x), message, at, k, m)
  /\ Asked(SonOf(plan, x, k), m)
  /\ Running(x, message, at)'

Returns(x, message, status, tuple) ==
  /\ stack' = Tail(stack)
  /\ answer' = [status |-> status, tuple |-> tuple]
  /\ streams' = IF Op(x) = "consume" THEN streams
                ELSE [streams EXCEPT ![x] = After(message, status)]
  /\ tuple \in Tuples \cup {None} /\ (status = "YIELD" <=> tuple # None)
  /\ IF message = "REQUEST" THEN status \in {"YIELD", "CANCEL"} ELSE status = "OK"
  /\ message = "CLOSEPROGRESS" => local'[x] = None
  /\ Idle(x)'

\* What is known when x is on top.
LEMMA TopOf ==
  ASSUME ProtocolInv, stack # << >>, NEW x, x = n, NEW message, message = Top.message
  PROVE  /\ x \in Nodes /\ Top = stack[1] /\ Top \in Frames /\ 1 \in DOMAIN stack
         /\ message \in {"OPEN", "REQUEST", "CLOSE", "CLOSEPROGRESS"}
         /\ Asked(x, message)
         /\ Top.at = "start" => Idle(x)
         /\ Top.at # "start" => Running(x, message, Top.at) /\ Answered(Top)
         /\ message # "CLOSEPROGRESS" => destroyed = 0
         /\ message = "CLOSEPROGRESS" => Len(stack) = 1
<1>1. /\ stack \in Seq(Frames) /\ Len(stack) \in Nat \ {0} /\ Top = stack[1]
      /\ DOMAIN stack = 1 .. Len(stack)
  BY LenProperties, Popped DEF ProtocolInv, ValuesOK, Top
<1>2. /\ Top \in Frames /\ 1 \in DOMAIN stack /\ x \in Nodes
      /\ message \in {"OPEN", "REQUEST", "CLOSE", "CLOSEPROGRESS"}
  <2>1. Top \in Frames /\ 1 \in DOMAIN stack
    BY <1>1, ElementOfSeq
  <2> QED
    BY <2>1 DEF n, Frames
<1>3. /\ Asked(x, message)
      /\ Top.at = "start" => Idle(x)
      /\ Top.at # "start" => Running(x, message, Top.at) /\ Answered(Top)
  BY <1>1, <1>2 DEF ProtocolInv, FramesOK, n
<1>4. destroyed # 0 => Len(stack) = 1 /\ message = "CLOSEPROGRESS"
  BY <1>1 DEF ProtocolInv, PathOK, Frame
<1>5. message = "CLOSEPROGRESS" => Len(stack) = 1
  <2> SUFFICES ASSUME message = "CLOSEPROGRESS", Len(stack) # 1 PROVE FALSE
    OBVIOUS
  <2>1. 2 \in DOMAIN stack \ {1} /\ 2 - 1 = 1
    BY <1>1
  <2>2. \E k \in DOMAIN plan[stack[2].node].sons :
          Waits(Op(stack[2].node), stack[2].message, stack[2].at, k, message)
    BY <1>1, <2>1 DEF ProtocolInv, PathOK
  <2> QED
    BY <2>2 DEF Waits
<1> QED
  BY <1>1, <1>2, <1>3, <1>4, <1>5

\* The others do not see it.
LEMMA IdleKept ==
  ASSUME IsTree(plan), NEW x \in Nodes, NEW y \in Nodes, y # x, AtWork(x),
         streams'[y] = streams[y],
         \A k \in DOMAIN plan[y].sons : SonState(y, k)' = SonState(y, k),
         Idle(y)
  PROVE  Idle(y)'
<1>1. plan' = plan /\ local'[y] = local[y] /\ argument'[y] = argument[y] /\ Op(y)' = Op(y)
  BY DEF AtWork, Op
<1>2. CASE streams[y] = "closed"
  BY <1>1, <1>2 DEF Idle, IdleClosed
<1>3. CASE streams[y] # "closed"
  <2>1. DOMAIN plan[y].sons = CASE Op(y) = "feed" -> {}
                [] Op(y) \in {"filter", "head", "cancel", "consume"} -> {1}
                [] OTHER -> {1, 2}
    BY SonsOf
  <2>2. /\ Op(y) # "feed" => SonState(y, 1)' = SonState(y, 1)
        /\ Op(y) \in {"concat", "product", "loopjoin"} => SonState(y, 2)' = SonState(y, 2)
    BY <2>1, SonsOf DEF Arity
  <2> QED
    BY <1>1, <1>3, <2>2 DEF Idle, IdleOpened
<1> QED
  BY <1>2, <1>3

LEMMA RunningKept ==
  ASSUME IsTree(plan), NEW x \in Nodes, NEW y \in Nodes, y # x, AtWork(x),
         NEW message, NEW at, NEW k, NEW m,
         Waits(Op(y), message, at, k, m),
         \A l \in DOMAIN plan[y].sons \ {k} : SonState(y, l)' = SonState(y, l),
         Running(y, message, at)
  PROVE  Running(y, message, at)'
<1>1. plan' = plan /\ local'[y] = local[y] /\ argument'[y] = argument[y] /\ Op(y)' = Op(y)
  BY DEF AtWork, Op
<1>2. Op(y) \in {"concat", "product", "loopjoin"} =>
        /\ k # 1 => SonState(y, 1)' = SonState(y, 1)
        /\ k # 2 => SonState(y, 2)' = SonState(y, 2)
  BY SonsOf
<1>3. CASE Op(y) = "concat"
  BY <1>1, <1>2, <1>3 DEF Running, Waits
<1>4. CASE Op(y) = "product"
  BY <1>1, <1>2, <1>4 DEF Running, Waits
<1>5. CASE Op(y) = "loopjoin"
  BY <1>1, <1>2, <1>5 DEF Running, Waits
<1>6. CASE Op(y) \notin {"concat", "product", "loopjoin"}
  BY <1>1, <1>6 DEF Running
<1> QED
  BY <1>3, <1>4, <1>5, <1>6

LEMMA WaitsAt ==
  ASSUME NEW op, NEW message, NEW at, NEW k, NEW m, Waits(op, message, at, k, m)
  PROVE  /\ at # "start" /\ m \in {"OPEN", "REQUEST", "CLOSE"}
         /\ message \in {"OPEN", "REQUEST", "CLOSE"}
  BY DEF Waits

\* What the stack says of its frames.
LEMMA StackShape ==
  ASSUME ValuesOK, PathOK, stack # << >>
  PROVE  /\ Len(stack) \in Nat \ {0} /\ DOMAIN stack = 1 .. Len(stack) /\ Top = stack[1]
         /\ \A i \in 1 .. Len(stack) : stack[i] \in Frames /\ stack[i].node \in Nodes
         /\ \A i \in 2 .. Len(stack) : stack[i].node < n
         /\ \A i \in 2 .. Len(stack) : \E k \in DOMAIN plan[stack[i].node].sons :
              /\ stack[i - 1].node = SonOf(plan, stack[i].node, k)
              /\ Waits(Op(stack[i].node), stack[i].message, stack[i].at, k,
                       stack[i - 1].message)
<1>1. /\ Len(stack) \in Nat \ {0} /\ DOMAIN stack = 1 .. Len(stack) /\ Top = stack[1]
      /\ stack \in Seq(Frames)
  BY LenProperties, Popped DEF ValuesOK, Top
<1>2. \A i \in 1 .. Len(stack) : stack[i] \in Frames /\ stack[i].node \in Nodes
  <2>1. \A i \in 1 .. Len(stack) : stack[i] \in Frames
    BY <1>1, ElementOfSeq
  <2> QED
    BY <2>1 DEF Frames
<1>3. \A i \in 2 .. Len(stack) : i \in DOMAIN stack \ {1} /\ 1 \in DOMAIN stack /\ 1 < i
  BY <1>1
<1>4. \A i \in 2 .. Len(stack) : stack[1].node > stack[i].node
  BY <1>1, <1>3 DEF PathOK
<1>5. \A i \in 2 .. Len(stack) : stack[i].node < n
  <2>1. Nodes \subseteq Nat
    BY NodesAndSons DEF ValuesOK
  <2> QED
    BY <1>1, <1>2, <1>3, <1>4, <2>1 DEF n
<1>6. \A i \in 2 .. Len(stack) : \E k \in DOMAIN plan[stack[i].node].sons :
              /\ stack[i - 1].node = SonOf(plan, stack[i].node, k)
              /\ Waits(Op(stack[i].node), stack[i].message, stack[i].at, k,
                       stack[i - 1].message)
  BY <1>3 DEF PathOK
<1> QED
  BY <1>1, <1>2, <1>5, <1>6

LEMMA CallKeeps ==
  ASSUME ProtocolInv, stack # << >>, NEW x, x = n, NEW message, message = Top.message,
         AtWork(x), NEW k \in DOMAIN plan[x].sons,
         NEW m \in {"OPEN", "REQUEST", "CLOSE"}, NEW at \in Places \ {"start"},
         Calls(x, message, k, m, at)
  PROVE  ProtocolInv'
<1> PICK z : z = SonOf(plan, x, k)
  OBVIOUS
<1> DEFINE F == Frame(z, m)
           G == [Top EXCEPT !.at = at]
<1>1. /\ x \in Nodes /\ Top = stack[1] /\ Top \in Frames /\ destroyed = 0
      /\ message \in {"OPEN", "REQUEST", "CLOSE"}
  BY TopOf, WaitsAt DEF Calls
<1>2. IsTree(plan) /\ plan' = plan /\ streams' = streams /\ answer' = answer
      /\ userCancel' = userCancel /\ destroyed' = destroyed
  BY DEF ProtocolInv, ValuesOK, AtWork, Calls, endVars
<1>3. z \in Nodes /\ z > x /\ Nodes = 1 .. Len(plan) /\ Len(plan) \in Nat
  BY <1>1, <1>2, NodesAndSons
<1>4. /\ F \in Frames /\ F.node = z /\ F.message = m /\ F.at = "start"
      /\ G \in Frames /\ G.node = x /\ G.message = message /\ G.at = at
  BY <1>1, <1>3 DEF Frame, Frames, Places, n
<1>5. /\ Len(stack) \in Nat \ {0} /\ DOMAIN stack = 1 .. Len(stack)
      /\ \A i \in 1 .. Len(stack) : stack[i] \in Frames /\ stack[i].node \in Nodes
      /\ \A i \in 2 .. Len(stack) : stack[i].node < x
      /\ \A i \in 2 .. Len(stack) : \E l \in DOMAIN plan[stack[i].node].sons :
              /\ stack[i - 1].node = SonOf(plan, stack[i].node, l)
              /\ Waits(Op(stack[i].node), stack[i].message, stack[i].at, l,
                       stack[i - 1].message)
  BY StackShape DEF ProtocolInv
<1>6. /\ stack' \in Seq(Frames) /\ Len(stack') = Len(stack) + 1
      /\ stack'[1] = F /\ stack'[2] = G /\ Head(stack') = F
      /\ \A i \in 2 .. Len(stack) : stack'[i + 1] = stack[i]
  <2>1. stack' = <<F, G>> \o Tail(stack)
    BY DEF Calls, Push
  <2>2. stack \in Seq(Frames)
    BY DEF ProtocolInv, ValuesOK
  <2> HIDE DEF F, G
  <2> QED
    BY <2>1, <2>2, <1>4, Pushed
<1>7. /\ DOMAIN stack' = 1 .. Len(stack) + 1 /\ Top' = F /\ n' = z /\ stack' # << >>
      /\ \A i \in 3 .. Len(stack) + 1 : stack'[i] = stack[i - 1] /\ i - 1 \in 2 .. Len(stack)
      /\ \A i \in 2 .. Len(stack) + 1 : /\ i - 1 \in 1 .. Len(stack)
                                       /\ stack'[i].node = stack[i - 1].node
                                       /\ stack'[i].message = stack[i - 1].message
  <2>1. \A i \in 3 .. Len(stack) + 1 : i - 1 \in 2 .. Len(stack) /\ (i - 1) + 1 = i
    BY <1>5
  <2>2. \A i \in 3 .. Len(stack) + 1 : stack'[i] = stack[i - 1] /\ i - 1 \in 2 .. Len(stack)
    BY <2>1, <1>6
  <2>3. DOMAIN stack' = 1 .. Len(stack) + 1 /\ stack' # << >>
    BY <1>5, <1>6, LenProperties, EmptySeq
  <2>4. Top' = F /\ n' = z
    BY <1>4, <1>6 DEF Top, n
  <2>5. \A i \in 2 .. Len(stack) + 1 :
          /\ i - 1 \in 1 .. Len(stack) /\ (i = 2 => i - 1 = 1)
          /\ i = 2 \/ i \in 3 .. Len(stack) + 1
    BY <1>5
  <2>6. stack'[2].node = stack[1].node /\ stack'[2].message = stack[1].message
    BY <1>1, <1>4, <1>6 DEF n
  <2> HIDE DEF F, G
  <2> QED
    BY <2>2, <2>3, <2>4, <2>5, <2>6
<1> HIDE DEF F, G
<1>8. ValuesOK'
  <2>1. Frames' = Frames /\ Nodes' = Nodes /\ \A y : Op(y)' = Op(y)
    BY <1>2 DEF Frames, Nodes, Op
  <2>2. stack' \in Seq(Frames)'
    BY <1>6, <2>1
  <2>3. \A y \in Nodes : local'[y] \in LocalOf[Op(y)] \cup {None}
    BY DEF AtWork, ProtocolInv, ValuesOK
  <2> QED
    BY <1>2, <2>1, <2>2, <2>3 DEF ProtocolInv, ValuesOK, AtWork
<1>9. PathOK'
  <2>1. \A i, j \in DOMAIN stack' : i < j => stack'[i].node > stack'[j].node
    <3> TAKE i, j \in DOMAIN stack'
    <3> HAVE i < j
    <3>1. j \in 2 .. Len(stack) + 1 /\ j - 1 \in 1 .. Len(stack) /\ i \in 1 .. Len(stack) + 1
      BY <1>5, <1>7
    <3>2. stack'[j].node = stack[j - 1].node
      BY <3>1, <1>7
    <3>3. CASE i = 1
      <4>1. stack'[i].node = z
        BY <3>3, <1>4, <1>6
      <4>2. stack[j - 1].node <= x
        <5>1. CASE j - 1 = 1
          <6>1. x \in Nat
            BY <1>1, <1>3
          <6> QED
          BY <5>1, <6>1, <1>1 DEF n
        <5>2. CASE j - 1 \in 2 .. Len(stack)
          <6>1. stack[j - 1].node < x /\ stack[j - 1].node \in Nat /\ x \in Nat
            BY <5>2, <1>1, <1>3, <1>5
          <6> QED
            BY <6>1
        <5> QED
          BY <3>1, <5>1, <5>2
      <4>3. x \in Nat /\ z \in Nat /\ stack[j - 1].node \in Nat
        BY <3>1, <1>1, <1>3, <1>5
      <4> QED
        BY <3>2, <4>1, <4>2, <4>3, <1>3
    <3>4. CASE i # 1
      <4>1. i \in 2 .. Len(stack) + 1 /\ i - 1 \in 1 .. Len(stack) /\ i - 1 < j - 1
        BY <3>1, <3>4, <1>5
      <4>2. stack[i - 1].node > stack[j - 1].node
        BY <3>1, <4>1, <1>5 DEF ProtocolInv, PathOK
      <4> QED
        BY <3>1, <3>2, <4>1, <4>2, <1>7
    <3> QED
      BY <3>3, <3>4
  <2>2. ASSUME NEW i \in DOMAIN stack' \ {1}
        PROVE  \E l \in DOMAIN plan[stack'[i].node].sons :
                 /\ stack'[i - 1].node = SonOf(plan, stack'[i].node, l)
                 /\ Waits(Op(stack'[i].node), stack'[i].message, stack'[i].at, l,
                          stack'[i - 1].message)
    <3>1. i = 2 \/ i \in 3 .. Len(stack) + 1
      BY <1>5, <1>7
    <3>2. CASE i = 2
      <4>1. stack'[i - 1] = F /\ stack'[i] = G
        BY <3>2, <1>6
      <4>2. Waits(Op(x), message, at, k, m)
        BY DEF Calls
      <4> QED
        BY <4>1, <4>2, <1>4
    <3>3. CASE i \in 3 .. Len(stack) + 1
      <4>1. /\ stack'[i] = stack[i - 1] /\ i - 1 \in 2 .. Len(stack) /\ i - 1 \in 2 .. Len(stack) + 1
            /\ stack'[i - 1].node = stack[(i - 1) - 1].node
            /\ stack'[i - 1].message = stack[(i - 1) - 1].message
        BY <3>3, <1>5, <1>7
      <4> QED
        BY <4>1, <1>5
    <3> QED
      BY <3>1, <3>2, <3>3
  <2>3. stack'[Len(stack')].node = 1 /\ stack'[Len(stack')].message = "OPEN"
    <3>1. stack[Len(stack)].node = 1 /\ stack[Len(stack)].message = "OPEN"
      BY <1>1 DEF ProtocolInv, PathOK
    <3>2. Len(stack') \in 2 .. Len(stack) + 1 /\ Len(stack') - 1 = Len(stack)
      BY <1>5, <1>6
    <3> QED
      BY <3>1, <3>2, <1>7
  <2>4. \A y : Op(y)' = Op(y)
    BY <1>2 DEF Op
  <2> QED
    BY <2>1, <2>2, <2>3, <2>4, <1>1, <1>2 DEF PathOK
<1>10. ASSUME NEW y \in Nodes, y # x, Idle(y) PROVE Idle(y)'
  <2>1. streams'[y] = streams[y]
        /\ \A l \in DOMAIN plan[y].sons : SonState(y, l)' = SonState(y, l)
    BY <1>2 DEF SonState
  <2> QED
    BY <1>1, <1>2, <1>10, <2>1, IdleKept
<1>11. FramesOK'
  <2>1. ASSUME NEW i \in DOMAIN stack', NEW f, f = stack'[i]
        PROVE  /\ Asked(f.node, f.message)
               /\ f.at # "start" => Running(f.node, f.message, f.at)'
    <3>1. i = 1 \/ i = 2 \/ i \in 3 .. Len(stack) + 1
      BY <1>5, <1>7
    <3>2. CASE i = 1
      BY <2>1, <3>2, <1>4, <1>6 DEF Calls
    <3>3. CASE i = 2
      <4>1. Asked(x, message) /\ Running(x, message, at)'
        BY TopOf DEF Calls
      <4> QED
        BY <2>1, <3>3, <4>1, <1>4, <1>6
    <3>4. CASE i \in 3 .. Len(stack) + 1
      <4>1. f = stack[i - 1] /\ i - 1 \in 2 .. Len(stack) /\ i - 1 \in DOMAIN stack
        BY <2>1, <3>4, <1>5, <1>7
      <4>2. PICK l \in DOMAIN plan[f.node].sons :
              Waits(Op(f.node), f.message, f.at, l, stack[(i - 1) - 1].message)
        BY <4>1, <1>5
      <4>3. f.node \in Nodes /\ f.node # x
        <5>1. f.node \in Nodes /\ f.node < x
          BY <4>1, <1>5
        <5> QED
          BY <5>1, <1>1, <1>3
      <4>4. Asked(f.node, f.message) /\ Running(f.node, f.message, f.at)
        BY <4>1, <4>2, WaitsAt DEF ProtocolInv, FramesOK
      <4>5. \A j \in DOMAIN plan[f.node].sons \ {l} :
              SonState(f.node, j)' = SonState(f.node, j)
        BY <1>2 DEF SonState
      <4>6. Running(f.node, f.message, f.at)'
        BY <4>2, <4>3, <4>4, <4>5, <1>1, <1>2, RunningKept
      <4> QED
        BY <4>4, <4>6
    <3> QED
      BY <3>1, <3>2, <3>3, <3>4
  <2>2. Idle(z)'
    <3>1. ~OnStack(z)
      <4> SUFFICES ASSUME NEW i \in 1 .. Len(stack), stack[i].node = z PROVE FALSE
        BY <1>5 DEF OnStack
      <4>1. i = 1 \/ i \in 2 .. Len(stack)
        BY <1>5
      <4>2. stack[i].node = x \/ stack[i].node < x
        BY <4>1, <1>1, <1>5 DEF n
      <4> QED
        BY <4>2, <1>1, <1>3
    <3>2. Idle(z)
      BY <3>1, <1>3 DEF ProtocolInv, QuietOK
    <3> QED
      BY <3>2, <1>1, <1>3, <1>10
  <2>3. \A y, mm : Asked(y, mm)' <=> Asked(y, mm)
    BY <1>2 DEF Asked
  <2> QED
    BY <2>1, <2>2, <2>3, <1>4, <1>7 DEF FramesOK
<1>12. QuietOK'
  <2> SUFFICES ASSUME NEW y \in Nodes, ~OnStack(y)' PROVE Idle(y)'
    BY <1>2 DEF QuietOK, Nodes
  <2>1. y # x /\ ~OnStack(y)
    <3>1. \A i \in 1 .. Len(stack) : i + 1 \in DOMAIN stack' /\ stack'[i + 1].node = stack[i].node
      <4>1. \A i \in 1 .. Len(stack) : i + 1 \in 2 .. Len(stack) + 1 /\ (i + 1) - 1 = i
        BY <1>5
      <4> QED
        BY <4>1, <1>5, <1>7
    <3>2. \A i \in 1 .. Len(stack) : stack[i].node # y
      BY <3>1 DEF OnStack
    <3>3. 1 \in 1 .. Len(stack)
      BY <1>5
    <3> QED
      BY <3>2, <3>3, <1>1, <1>5 DEF OnStack, n
  <2>2. Idle(y)
    BY <2>1 DEF ProtocolInv, QuietOK
  <2> QED
    BY <2>1, <2>2, <1>10
<1>13. EndOK'
  BY <1>1, <1>2, <1>3, <1>7 DEF ProtocolInv, EndOK
<1> QED
  BY <1>8, <1>9, <1>11, <1>12, <1>13 DEF ProtocolInv

LEMMA ReturnKeeps ==
  ASSUME ProtocolInv, stack # << >>, NEW x, x = n, NEW message, message = Top.message,
         AtWork(x), NEW status \in {"OK", "YIELD", "CANCEL"},
         NEW tuple \in Tuples \cup {None}, Returns(x, message, status, tuple)
  PROVE  ProtocolInv'
<1>1. /\ x \in Nodes /\ Top = stack[1] /\ Asked(x, message)
      /\ message \in {"OPEN", "REQUEST", "CLOSE", "CLOSEPROGRESS"}
      /\ message # "CLOSEPROGRESS" => destroyed = 0
      /\ message = "CLOSEPROGRESS" => Len(stack) = 1
  BY TopOf
<1>2. IsTree(plan) /\ plan' = plan /\ userCancel' = userCancel /\ destroyed' = destroyed
  BY DEF ProtocolInv, ValuesOK, AtWork, endVars
<1>3. Nodes = 1 .. Len(plan) /\ Len(plan) \in Nat /\ 1 \in Nodes
      /\ (Op(x) = "consume" <=> x = 1)
  BY <1>1, <1>2, NodesAndSons, SonsOf
<1>4. /\ Len(stack) \in Nat \ {0} /\ DOMAIN stack = 1 .. Len(stack)
      /\ \A i \in 1 .. Len(stack) : stack[i] \in Frames /\ stack[i].node \in Nodes
      /\ \A i \in 2 .. Len(stack) : stack[i].node < x
      /\ \A i \in 2 .. Len(stack) : \E l \in DOMAIN plan[stack[i].node].sons :
              /\ stack[i - 1].node = SonOf(plan, stack[i].node, l)
              /\ Waits(Op(stack[i].node), stack[i].message, stack[i].at, l,
                       stack[i - 1].message)
  BY StackShape DEF ProtocolInv
<1>5. /\ stack' = Tail(stack) /\ stack' \in Seq(Frames) /\ Len(stack') = Len(stack) - 1
      /\ DOMAIN stack' = 1 .. Len(stack) - 1
      /\ \A i \in 1 .. Len(stack) - 1 : /\ stack'[i] = stack[i + 1]
                                      /\ i + 1 \in 2 .. Len(stack)
      /\ stack' # << >> => Top' = stack[2] /\ Len(stack) > 1
      /\ stack' = << >> <=> Len(stack) = 1
  <2>1. stack \in Seq(Frames)
    BY DEF ProtocolInv, ValuesOK
  <2>2. stack' = Tail(stack)
    BY DEF Returns
  <2>3. /\ Tail(stack) \in Seq(Frames) /\ Len(Tail(stack)) = Len(stack) - 1
        /\ \A i \in 1 .. Len(stack) - 1 : Tail(stack)[i] = stack[i + 1]
        /\ Tail(stack) # << >> => Head(Tail(stack)) = stack[2] /\ Len(stack) > 1
        /\ Tail(stack) = << >> <=> Len(stack) = 1
    BY <2>1, Popped
  <2>4. DOMAIN stack' = 1 .. Len(stack) - 1
    BY <2>2, <2>3, LenProperties
  <2>5. \A i \in 1 .. Len(stack) - 1 : i + 1 \in 2 .. Len(stack)
    BY <1>4
  <2> QED
    BY <2>2, <2>3, <2>4, <2>5 DEF Top
<1>6. /\ \A y \in Nodes \ {x} : streams'[y] = streams[y]
      /\ streams' \in [Nodes -> {"closed", "open", "ended"}]
      /\ x # 1 => streams'[x] = After(message, status)
      /\ message = "CLOSEPROGRESS" => streams' = streams
      /\ x = 1 => streams' = streams
  <2>1. streams \in [Nodes -> {"closed", "open", "ended"}]
    BY DEF ProtocolInv, ValuesOK
  <2>2. After(message, status) \in {"closed", "open", "ended"}
    BY DEF After
  <2>3. message = "CLOSEPROGRESS" => streams[x] = "closed" /\ After(message, status) = "closed"
    BY <1>1 DEF Asked, After
  <2> QED
    BY <1>1, <1>3, <2>1, <2>2, <2>3 DEF Returns
<1>7. ValuesOK'
  <2>1. Frames' = Frames /\ Nodes' = Nodes /\ \A y : Op(y)' = Op(y)
    BY <1>2 DEF Frames, Nodes, Op
  <2>2. \A y \in Nodes : local'[y] \in LocalOf[Op(y)] \cup {None}
    BY DEF AtWork, ProtocolInv, ValuesOK
  <2> QED
    BY <1>2, <1>5, <1>6, <2>1, <2>2 DEF ProtocolInv, ValuesOK, AtWork, Returns
<1>8. PathOK'
  <2>1. \A i, j \in DOMAIN stack' : i < j => stack'[i].node > stack'[j].node
    <3>1. \A i, j \in 1 .. Len(stack) - 1 : i < j =>
            i + 1 \in DOMAIN stack /\ j + 1 \in DOMAIN stack /\ i + 1 < j + 1
      BY <1>4
    <3> QED
      BY <3>1, <1>5 DEF ProtocolInv, PathOK
  <2>2. ASSUME NEW i \in DOMAIN stack' \ {1}
        PROVE  \E l \in DOMAIN plan[stack'[i].node].sons :
                 /\ stack'[i - 1].node = SonOf(plan, stack'[i].node, l)
                 /\ Waits(Op(stack'[i].node), stack'[i].message, stack'[i].at, l,
                          stack'[i - 1].message)
    <3>1. i + 1 \in 2 .. Len(stack) /\ i - 1 \in 1 .. Len(stack) - 1 /\ (i - 1) + 1 = i
          /\ (i + 1) - 1 = i /\ i \in 1 .. Len(stack) - 1
      BY SMTT(40), <1>4, <1>5
    <3>2. stack'[i] = stack[i + 1] /\ stack'[i - 1] = stack[i]
      BY <3>1, <1>5
    <3> QED
      BY <3>1, <3>2, <1>4
  <2>3. stack' # << >> =>
          stack'[Len(stack')].node = 1 /\ stack'[Len(stack')].message = "OPEN"
          /\ destroyed = 0
    <3> HAVE stack' # << >>
    <3>1. Len(stack') \in 1 .. Len(stack) - 1 /\ Len(stack') + 1 = Len(stack)
      BY <1>4, <1>5
    <3>2. destroyed = 0
      BY <1>1, <1>5
    <3>3. stack[Len(stack)].node = 1 /\ stack[Len(stack)].message = "OPEN"
      BY <3>2 DEF ProtocolInv, PathOK
    <3> QED
      BY <3>1, <3>2, <3>3, <1>5
  <2>4. \A y : Op(y)' = Op(y)
    BY <1>2 DEF Op
  <2> QED
    BY <2>1, <2>2, <2>3, <2>4, <1>2 DEF PathOK
<1>9. ASSUME NEW i \in 2 .. Len(stack), NEW y, y = stack[i].node,
             NEW l \in DOMAIN plan[y].sons, NEW k \in DOMAIN plan[y].sons,
             stack[i - 1].node = SonOf(plan, y, k), l # k
      PROVE  SonOf(plan, y, l) # x
  <2> SUFFICES ASSUME SonOf(plan, y, l) = x PROVE FALSE
    OBVIOUS
  <2>1. y \in Nodes /\ y < x /\ x \in Nat
    BY <1>9, <1>1, <1>3, <1>4
  <2>2. CASE i = 2
    <3>1. SonOf(plan, y, k) = x
      BY <1>1, <1>9, <2>2 DEF n
    <3> QED
      BY <3>1, <2>1, <1>2, <1>9, NodesAndSons
  <2>3. CASE i # 2
    <3>1. 2 \in 2 .. Len(stack) /\ 2 < i /\ i \in DOMAIN stack /\ 2 \in DOMAIN stack
          /\ 2 - 1 = 1
      BY <1>4, <2>3
    <3>2. PICK j \in DOMAIN plan[stack[2].node].sons : x = SonOf(plan, stack[2].node, j)
      BY <1>1, <1>4, <3>1 DEF n
    <3>3. stack[2].node \in Nodes /\ stack[2].node = y
      BY SMTT(40), <1>2, <1>4, <1>9, <2>1, <3>1, <3>2, NodesAndSons
    <3>4. stack[2].node > y
      BY <3>1, <1>9 DEF ProtocolInv, PathOK
    <3> QED
      BY <3>3, <3>4, <1>3
  <2> QED
    BY <2>2, <2>3
<1>10. FramesOK'
  <2>1. ASSUME NEW i \in DOMAIN stack', NEW f, f = stack'[i]
        PROVE  /\ Asked(f.node, f.message)' /\ f.at # "start"
               /\ Running(f.node, f.message, f.at)'
    <3>1. f = stack[i + 1] /\ i + 1 \in 2 .. Len(stack) /\ i + 1 \in DOMAIN stack
          /\ (i + 1) - 1 = i
      BY <2>1, <1>4, <1>5
    <3>2. PICK l \in DOMAIN plan[f.node].sons :
            /\ stack[(i + 1) - 1].node = SonOf(plan, f.node, l)
            /\ Waits(Op(f.node), f.message, f.at, l, stack[(i + 1) - 1].message)
      BY <3>1, <1>4
    <3>3. f.node \in Nodes /\ f.node # x
      <4>1. f.node \in Nodes /\ f.node < x
        BY <3>1, <1>4
      <4> QED
        BY <4>1, <1>1, <1>3
    <3>4. f.at # "start"
      BY <3>2, WaitsAt
    <3>5. Asked(f.node, f.message) /\ Running(f.node, f.message, f.at)
      BY <3>1, <3>4 DEF ProtocolInv, FramesOK
    <3>6. Asked(f.node, f.message)'
      BY <3>3, <3>5, <1>6 DEF Asked
    <3>7. \A j \in DOMAIN plan[f.node].sons \ {l} :
            SonState(f.node, j)' = SonState(f.node, j)
      <4> TAKE j \in DOMAIN plan[f.node].sons \ {l}
      <4>1. SonOf(plan, f.node, j) # x
        BY <3>1, <3>2, <1>9
      <4>2. SonOf(plan, f.node, j) \in Nodes
        BY <3>3, <1>2, NodesAndSons
      <4> QED
        BY <4>1, <4>2, <1>2, <1>6 DEF SonState
    <3>8. Running(f.node, f.message, f.at)'
      BY <3>2, <3>3, <3>5, <3>7, <1>1, <1>2, RunningKept
    <3> QED
      BY <3>4, <3>6, <3>8
  <2>2. stack' # << >> => Top'.at # "start" /\ Answered(Top)'
    <3> HAVE stack' # << >>
    <3>1. 2 \in 2 .. Len(stack) /\ Top' = stack[2] /\ 2 - 1 = 1
      BY <1>4, <1>5
    <3> PICK f : f = stack[2]
      OBVIOUS
    <3>2. PICK k \in DOMAIN plan[f.node].sons :
            x = SonOf(plan, f.node, k) /\ Waits(Op(f.node), f.message, f.at, k, message)
      BY <1>1, <1>4, <3>1 DEF n
    <3>3. f.at # "start" /\ message \in {"OPEN", "REQUEST", "CLOSE"}
      BY <3>2, WaitsAt
    <3>4. f.node \in Nodes /\ x # 1
      <4>1. f.node \in Nodes /\ f.node < x
        BY <3>1, <1>4
      <4> QED
        BY <4>1, <1>1, <1>3
    <3>5. SonState(f.node, k)' = After(message, status)
      BY <3>2, <3>4, <1>2, <1>6 DEF SonState
    <3>6. Answers(message)' /\ answer'.status = status
      BY DEF Returns, Answers
    <3>7. Op(f.node)' = Op(f.node)
      BY <1>2 DEF Op
    <3>8. Answered(f)'
      BY <3>2, <3>3, <3>5, <3>6, <3>7, <1>2 DEF Answered
    <3> QED
      BY <3>1, <3>3, <3>8
  <2> QED
    BY <2>1, <2>2 DEF FramesOK
<1>11. QuietOK'
  <2> SUFFICES ASSUME NEW y \in Nodes, ~OnStack(y)' PROVE Idle(y)'
    BY <1>2 DEF QuietOK, Nodes
  <2>1. CASE y = x
    BY <2>1 DEF Returns
  <2>2. CASE y # x
    <3>1. \A i \in 2 .. Len(stack) : stack[i].node # y
      <4>1. \A i \in 2 .. Len(stack) : i - 1 \in 1 .. Len(stack) - 1 /\ (i - 1) + 1 = i
        BY <1>4
      <4>2. \A j \in 1 .. Len(stack) - 1 : stack'[j].node # y
        BY <1>5 DEF OnStack
      <4>3. \A i \in 2 .. Len(stack) : stack'[i - 1] = stack[i]
        BY <4>1, <1>5
      <4> QED
        BY <4>1, <4>2, <4>3
    <3>2. Idle(y)
      <4>1. \A i \in 1 .. Len(stack) : i = 1 \/ i \in 2 .. Len(stack)
        BY <1>4
      <4>2. ~OnStack(y)
        BY <4>1, <3>1, <2>2, <1>1, <1>4 DEF OnStack, n
      <4> QED
        BY <4>2 DEF ProtocolInv, QuietOK
    <3>3. \A l \in DOMAIN plan[y].sons : SonState(y, l)' = SonState(y, l)
      <4> TAKE l \in DOMAIN plan[y].sons
      <4>1. SonOf(plan, y, l) \in Nodes /\ SonOf(plan, y, l) > y
        BY <1>2, NodesAndSons
      <4>2. CASE SonOf(plan, y, l) # x
        BY <4>1, <4>2, <1>2, <1>6 DEF SonState
      <4>3. CASE SonOf(plan, y, l) = x
        <5>1. CASE Len(stack) = 1
          <6>1. x # 1
            BY <4>1, <4>3, <1>3
          <6>2. message = "CLOSEPROGRESS"
            BY <5>1, <6>1, <1>1 DEF ProtocolInv, PathOK, n
          <6> QED
            BY <6>2, <1>2, <1>6 DEF SonState
        <5>2. CASE Len(stack) # 1
          <6>1. 2 \in 2 .. Len(stack) /\ 2 - 1 = 1
            BY <5>2, <1>4
          <6>2. PICK j \in DOMAIN plan[stack[2].node].sons : x = SonOf(plan, stack[2].node, j)
            BY <6>1, <1>1, <1>4 DEF n
          <6>3. stack[2].node \in Nodes
            BY <6>1, <1>4
          <6>4. stack[2].node = y
            BY <6>2, <6>3, <4>3, <1>2, NodesAndSons
          <6> QED
            BY <6>1, <6>4, <3>1
        <5> QED
          BY <5>1, <5>2
      <4> QED
        BY <4>2, <4>3
    <3> QED
      BY <2>2, <3>2, <3>3, <1>1, <1>2, <1>6, IdleKept
  <2> QED
    BY <2>1, <2>2
<1>12. EndOK'
  <2>1. stack' = << >> \/ destroyed > 0 => \A y \in Nodes : streams'[y] = "closed"
    <3>1. CASE destroyed > 0
      BY <3>1, <1>1, <1>3, <1>6 DEF ProtocolInv, EndOK
    <3>2. CASE ~(destroyed > 0) /\ stack' = << >>
      <4>1. destroyed = 0 /\ Len(stack) = 1
        BY <3>2, <1>3, <1>5 DEF ProtocolInv, EndOK
      <4>2. x = 1 /\ message = "OPEN"
        BY <4>1, <1>1 DEF ProtocolInv, PathOK, n
      <4>3. streams' = streams /\ streams[1] = "closed"
        BY <4>2, <1>1, <1>6 DEF Asked
      <4>4. \A y \in Nodes : Idle(y)'
        <5>1. \A y \in Nodes : ~OnStack(y)'
          BY <3>2 DEF OnStack
        <5> QED
          BY <5>1, <1>2, <1>11 DEF QuietOK, Nodes
      <4> DEFINE T == {y \in Nodes : streams'[y] # "closed"}
      <4> SUFFICES ASSUME T # {} PROVE FALSE
        OBVIOUS
      <4>5. T \in SUBSET Nat
        BY <1>3
      <4> HIDE DEF T
      <4>6. PICK y \in T : \A u \in T : y <= u
        BY <4>5, LeastNode
      <4>7. y \in Nodes /\ streams'[y] # "closed" /\ y # 1
        BY <4>3, <4>6 DEF T
      <4>8. PICK p \in Nodes : \E k \in DOMAIN plan[p].sons : SonOf(plan, p, k) = y
        BY <4>7, <1>2 DEF IsTree, Nodes
      <4>9. PICK k \in DOMAIN plan[p].sons : SonOf(plan, p, k) = y
        BY <4>8
      <4>10. p < y /\ p \in Nat /\ y \in Nat
        BY <4>7, <4>9, <1>2, <1>3, NodesAndSons
      <4>11. streams'[p] = "closed"
        BY <4>6, <4>10 DEF T
      <4>12. SonState(p, k)' = "closed"
        BY <4>4, <4>11, <1>2 DEF Idle, IdleClosed
      <4> QED
        BY <4>7, <4>9, <4>12, <1>2 DEF SonState
    <3> QED
      BY <3>1, <3>2
  <2>2. \A y \in 1 .. destroyed : local'[y] = None \/ (stack' # << >> /\ y = destroyed)
    <3> TAKE y \in 1 .. destroyed
    <3>1. destroyed \in 0 .. Len(plan) /\ y \in Nodes /\ destroyed # 0
      BY <1>3 DEF ProtocolInv, EndOK
    <3>2. message = "CLOSEPROGRESS" /\ x = destroyed
      <4>1. Len(stack) = 1 /\ stack[Len(stack)] = Frame(destroyed, "CLOSEPROGRESS")
        BY <3>1 DEF ProtocolInv, PathOK
      <4> QED
        BY <4>1, <1>1 DEF Frame, n
    <3>3. CASE y = x
      BY <3>2, <3>3 DEF Returns
    <3>4. CASE y # x
      <4>1. local'[y] = local[y]
        BY <3>1, <3>4 DEF AtWork
      <4> QED
        BY <4>1, <3>2, <3>4 DEF ProtocolInv, EndOK
    <3> QED
      BY <3>3, <3>4
  <2>3. destroyed > 0 => stack' = << >>
    BY <1>1, <1>5
  <2> QED
    BY <2>1, <2>2, <2>3, <1>2 DEF ProtocolInv, EndOK, Nodes
<1> QED
  BY <1>7, <1>8, <1>10, <1>11, <1>12 DEF ProtocolInv

-----------------------------------------------------------------------------
(* The operators, one by one: each of their steps calls a son or returns.  *)

LEMMA Kept ==
  ASSUME ProtocolInv, NEW x \in Nodes, KeepLocal,
         misused' \in BOOLEAN, IsFiniteSet(DOMAIN heap'),
         UNCHANGED <<treeVars, endVars>>
  PROVE  AtWork(x) /\ local'[x] = local[x] /\ argument'[x] = argument[x] /\ plan' = plan
  BY DEF ProtocolInv, ValuesOK, AtWork, KeepLocal, treeVars, endVars

LEMMA Changed ==
  ASSUME ProtocolInv, NEW x \in Nodes, x = n, NEW info \in LocalOf[Op(x)] \cup {None},
         Set(info), misused' \in BOOLEAN, IsFiniteSet(DOMAIN heap'), UNCHANGED <<treeVars, endVars>>
  PROVE  AtWork(x) /\ local'[x] = info /\ argument'[x] = argument[x] /\ plan' = plan
  BY DEF ProtocolInv, ValuesOK, AtWork, Set, treeVars, endVars

LEMMA Counted ==
  ASSUME IsFiniteSet(DOMAIN heap),
         \/ UNCHANGED heap
         \/ \E t : heap' = Without(heap, t)
         \/ \E value, t : YieldNew(value, t)
         \/ \E s : DeleteAll(s)
  PROVE  IsFiniteSet(DOMAIN heap')
<1>1. \A t : DOMAIN Without(heap, t) \subseteq DOMAIN heap
  BY DEF Without
<1>2. CASE \E t : heap' = Without(heap, t)
  BY <1>1, <1>2, FS_Subset
<1>3. CASE \E value, t : YieldNew(value, t)
  <2>1. PICK value, t : heap' = With(Without(heap, t), value)
    BY <1>3 DEF YieldNew
  <2>2. DOMAIN heap' = DOMAIN Without(heap, t) \cup {Fresh(Without(heap, t))}
    BY <2>1 DEF With
  <2>3. IsFiniteSet(DOMAIN Without(heap, t))
    BY <1>1, FS_Subset
  <2> QED
    BY <2>2, <2>3, FS_AddElement
<1>4. CASE \E s : DeleteAll(s)
  <2>1. DOMAIN heap' \subseteq DOMAIN heap
    BY <1>4 DEF DeleteAll
  <2> QED
    BY <2>1, FS_Subset
<1> QED
  BY <1>2, <1>3, <1>4

LEMMA FreshAddress ==
  ASSUME NEW h, IsFiniteSet(DOMAIN h)
  PROVE  Fresh(h) \in Tuples /\ Fresh(h) \notin DOMAIN h /\ Fresh(h) # None
<1> DEFINE N == Cardinality(DOMAIN h)
<1>1. N \in Nat
  BY FS_CardinalityType
<1>2. \E t \in 1 .. N + 1 : t \notin DOMAIN h
  <2> SUFFICES ASSUME 1 .. N + 1 \subseteq DOMAIN h PROVE FALSE
    OBVIOUS
  <2>1. Cardinality(1 .. N + 1) = N + 1
    BY <1>1, FS_Interval
  <2>2. Cardinality(1 .. N + 1) <= N
    BY FS_Subset
  <2> QED
    BY <1>1, <2>1, <2>2
<1>3. Fresh(h) \in 1 .. N + 1 /\ Fresh(h) \notin DOMAIN h
  BY <1>2 DEF Fresh
<1> QED
  BY <1>1, <1>3, NoneAssumption DEF Tuples

LEMMA Yields ==
  ASSUME IsFiniteSet(DOMAIN heap), NEW value, NEW t, YieldNew(value, t)
  PROVE  \E u \in Tuples : u # None /\ Return("YIELD", u)
<1>1. DOMAIN Without(heap, t) \subseteq DOMAIN heap
  BY DEF Without
<1>2. IsFiniteSet(DOMAIN Without(heap, t))
  BY <1>1, FS_Subset
<1> QED
  BY <1>2, FreshAddress DEF YieldNew

\* What the steps do to the tuples, as far as it concerns the protocol.
LEMMA Misuses ==
  ASSUME ProtocolInv,
         \/ KeepTuples
         \/ \E t : Delete(t)
         \/ \E s : DeleteAll(s)
         \/ /\ UNCHANGED misused \/ (\E S : Reads(S))
            /\ \/ UNCHANGED heap
               \/ \E t : heap' = Without(heap, t)
               \/ \E value, t : YieldNew(value, t)
  PROVE  misused' \in BOOLEAN /\ IsFiniteSet(DOMAIN heap')
<1>1. misused \in BOOLEAN /\ IsFiniteSet(DOMAIN heap)
  BY DEF ProtocolInv, ValuesOK
<1>2. misused' \in BOOLEAN
  BY <1>1 DEF KeepTuples, Reads, DeleteAll, Delete
<1>3. IsFiniteSet(DOMAIN heap')
  BY <1>1, Counted DEF KeepTuples, Delete
<1> QED
  BY <1>2, <1>3

\* How a step of the operator at the top begins.
LEMMA Begins ==
  ASSUME ProtocolInv, NEW op, NEW message, NEW at, In(op, message, at), NEW x, x = n
  PROVE  /\ stack # << >> /\ message = Top.message /\ Top.at = at
         /\ x \in Nodes /\ Op(x) = op
         /\ message \in {"OPEN", "REQUEST", "CLOSE", "CLOSEPROGRESS"}
         /\ Asked(x, message)
         /\ at = "start" => Idle(x)
         /\ at # "start" =>
              /\ Running(x, message, at)
              /\ \E k \in DOMAIN plan[x].sons : \E m \in {"OPEN", "REQUEST", "CLOSE"} :
                   /\ Waits(op, message, at, k, m)
                   /\ SonState(x, k) = After(m, answer.status)
                   /\ Answers(m)
         /\ local[x] \in LocalOf[op] \cup {None}
         /\ streams[x] \in {"closed", "open", "ended"}
         /\ \A k \in DOMAIN plan[x].sons : SonState(x, k) \in {"closed", "open", "ended"}
         /\ DOMAIN plan[x].sons =
              CASE op = "feed" -> {}
                [] op \in {"filter", "head", "cancel", "consume"} -> {1}
                [] OTHER -> {1, 2}
<1>1. stack # << >> /\ message = Top.message /\ Top.at = at /\ Op(x) = op
  BY DEF In, Op
<1>2. /\ x \in Nodes /\ Asked(x, message)
      /\ message \in {"OPEN", "REQUEST", "CLOSE", "CLOSEPROGRESS"}
      /\ at = "start" => Idle(x)
      /\ at # "start" => Running(x, message, at) /\ Answered(Top)
  BY <1>1, TopOf
<1>3. at # "start" =>
         \E k \in DOMAIN plan[x].sons : \E m \in {"OPEN", "REQUEST", "CLOSE"} :
                   /\ Waits(op, message, at, k, m)
                   /\ SonState(x, k) = After(m, answer.status)
                   /\ Answers(m)
  BY <1>1, <1>2 DEF Answered, n
<1>4. IsTree(plan) /\ local[x] \in LocalOf[op] \cup {None}
      /\ streams \in [Nodes -> {"closed", "open", "ended"}]
  BY <1>1, <1>2 DEF ProtocolInv, ValuesOK
<1>5. \A k \in DOMAIN plan[x].sons : SonState(x, k) \in {"closed", "open", "ended"}
  BY <1>2, <1>4, NodesAndSons DEF SonState
<1>6. DOMAIN plan[x].sons =
              CASE op = "feed" -> {}
                [] op \in {"filter", "head", "cancel", "consume"} -> {1}
                [] OTHER -> {1, 2}
  BY <1>1, <1>2, <1>4, SonsOf
<1> QED
  BY <1>1, <1>2, <1>3, <1>4, <1>5, <1>6

LEMMA CallStep ==
  ASSUME ProtocolInv, stack # << >>, NEW x, x = n, NEW message, message = Top.message,
         AtWork(x), NEW k \in DOMAIN plan[x].sons, NEW m, NEW at,
         Push(Son(k), m, at), UNCHANGED <<answer, streams>>,
         Waits(Op(x), message, at, k, m), Asked(SonOf(plan, x, k), m),
         Running(x, message, at)'
  PROVE  ProtocolInv'
<1>1. m \in {"OPEN", "REQUEST", "CLOSE"} /\ at \in Places \ {"start"}
  BY DEF Waits, Places
<1>2. Calls(x, message, k, m, at)
  BY DEF Calls, Son
<1> QED
  BY <1>1, <1>2, CallKeeps

LEMMA ReturnStep ==
  ASSUME ProtocolInv, stack # << >>, NEW x, x = n, NEW message, message = Top.message,
         AtWork(x), NEW status \in {"OK", "YIELD", "CANCEL"},
         NEW tuple \in Tuples \cup {None}, Return(status, tuple),
         status = "YIELD" <=> tuple # None,
         IF message = "REQUEST" THEN status \in {"YIELD", "CANCEL"} ELSE status = "OK",
         message = "CLOSEPROGRESS" => local'[x] = None,
         Idle(x)'
  PROVE  ProtocolInv'
<1>1. IsStream(n) <=> Op(x) # "consume"
  BY DEF IsStream, Op
<1>2. Returns(x, message, status, tuple)
  BY <1>1 DEF Returns, Return
<1> QED
  BY <1>2, ReturnKeeps

\* The stream of a node that returns.
LEMMA Returned ==
  ASSUME ProtocolInv, NEW x \in Nodes, x = n, Op(x) # "consume", NEW message, message = Top.message,
         NEW status, NEW tuple, Return(status, tuple)
  PROVE  /\ plan' = plan /\ Op(x)' = Op(x)
         /\ streams'[x] = After(message, status)
         /\ \A k \in DOMAIN plan[x].sons : SonState(x, k)' = SonState(x, k)
         /\ UNCHANGED <<treeVars, endVars>>
<1>1. plan' = plan /\ streams' = [streams EXCEPT ![x] = After(message, status)]
      /\ UNCHANGED <<treeVars, endVars>>
  BY DEF Return, treeVars, IsStream, Op
<1>2. IsTree(plan) /\ DOMAIN streams = Nodes
  BY DEF ProtocolInv, ValuesOK
<1>3. \A k \in DOMAIN plan[x].sons : SonOf(plan, x, k) # x
  BY <1>2, NodesAndSons
<1> QED
  BY <1>1, <1>2, <1>3 DEF SonState, Op

LEMMA Called ==
  ASSUME NEW x, NEW z, NEW m, NEW at, Call(z, m, at)
  PROVE  /\ plan' = plan /\ Op(x)' = Op(x) /\ streams'[x] = streams[x]
         /\ \A k : SonState(x, k)' = SonState(x, k)
         /\ UNCHANGED <<treeVars, endVars>> /\ UNCHANGED <<answer, streams>>
         /\ Push(z, m, at)
  BY DEF Call, treeVars, SonState, Op

LEMMA Locals ==
  /\ None \notin Tuples
  /\ \A op \in DOMAIN Arity : None \notin LocalOf[op]
  /\ LocalOf["feed"] = [next : Tuples] /\ LocalOf["filter"] = [opened : {TRUE}]
  /\ LocalOf["head"] = [taken : Nat, most : Nat] /\ LocalOf["cancel"] = {}
  /\ LocalOf["concat"] = [second : BOOLEAN]
  /\ LocalOf["product"] =
       [current : Tuples \cup {None}, buffer : Seq(Tuples), next : Tuples]
  /\ LocalOf["loopjoin"] = [x : Tuples \cup {None}] /\ LocalOf["consume"] = {}
  /\ \A op \in {"feed", "filter", "head", "cancel", "concat", "product", "loopjoin",
                "consume"} : None \notin LocalOf[op]
<1>1. DOMAIN LocalOf = {"feed", "filter", "head", "cancel", "concat", "product", "loopjoin",
                        "consume"} /\ DOMAIN Arity = DOMAIN LocalOf
  BY DEF LocalOf, Arity
<1>2. None \notin Tuples /\ \A op \in DOMAIN LocalOf : None \notin LocalOf[op]
  BY NoneAssumption
<1>3. /\ LocalOf["feed"] = [next : Tuples] /\ LocalOf["filter"] = [opened : {TRUE}]
      /\ LocalOf["head"] = [taken : Nat, most : Nat] /\ LocalOf["cancel"] = {}
      /\ LocalOf["concat"] = [second : BOOLEAN]
      /\ LocalOf["product"] =
           [current : Tuples \cup {None}, buffer : Seq(Tuples), next : Tuples]
      /\ LocalOf["loopjoin"] = [x : Tuples \cup {None}] /\ LocalOf["consume"] = {}
  BY DEF LocalOf
<1> QED
  BY <1>1, <1>2, <1>3

LEMMA FeedKeeps ==
  ASSUME ProtocolInv, Feed
  PROVE  ProtocolInv'
<1> PICK x : x = n
  OBVIOUS
<1>1. CASE In("feed", "OPEN", "start") /\ Set([next |-> 1]) /\ KeepTuples /\ Return("OK", None)
  <2>1. [next |-> 1] \in LocalOf["feed"]
    BY DEF LocalOf, Tuples
  <2> QED
    BY <1>1, <2>1, Begins, Misuses, Returned, Changed, ReturnStep
       DEF Idle, IdleOpened, After
<1>2. CASE /\ In("feed", "REQUEST", "start") /\ local[n] # None
           /\ Set([next |-> local[n].next + 1])
           /\ YieldNew(plan[n].relation[local[n].next], None)
           /\ UNCHANGED misused
  <2>1. [next |-> local[x].next + 1] \in LocalOf["feed"]
    <3>1. local[x] \in LocalOf["feed"]
      BY <1>2, Begins
    <3> QED
      BY <3>1, Locals DEF Tuples
  <2>2. PICK u \in Tuples : u # None /\ Return("YIELD", u)
    BY <1>2, Yields DEF ProtocolInv, ValuesOK
  <2> QED
    BY <1>2, <2>1, <2>2, Begins, Misuses, Returned, Changed, ReturnStep
       DEF Idle, IdleOpened, After
<1>3. CASE In("feed", "REQUEST", "start") /\ KeepLocal /\ KeepTuples /\ Return("CANCEL", None)
  BY <1>3, Begins, Misuses, Returned, Kept, ReturnStep DEF Idle, IdleOpened, After
<1>4. CASE In("feed", "CLOSE", "start") /\ Set(None) /\ KeepTuples /\ Return("OK", None)
  BY <1>4, Begins, Misuses, Returned, Changed, ReturnStep DEF Idle, IdleClosed, After
<1> QED
  BY <1>1, <1>2, <1>3, <1>4 DEF Feed

LEMMA FilterKeeps ==
  ASSUME ProtocolInv, Filter
  PROVE  ProtocolInv'
<1> PICK x : x = n
  OBVIOUS
<1>1. CASE /\ In("filter", "OPEN", "start") /\ Call(Son(1), "OPEN", "opened")
           /\ KeepLocal /\ KeepTuples
  <2>1. /\ x \in Nodes /\ Op(x) = "filter" /\ 1 \in DOMAIN plan[x].sons
        /\ SonState(x, 1) = "closed"
    BY <1>1, Begins DEF Idle, IdleClosed, Asked
  <2>2. Waits(Op(x), "OPEN", "opened", 1, "OPEN") /\ Asked(SonOf(plan, x, 1), "OPEN")
    BY <2>1 DEF Waits, Asked, SonState
  <2>3. AtWork(x) /\ Running(x, "OPEN", "opened")'
    BY <1>1, <2>1, Misuses, Called, Kept DEF Running
  <2>4. /\ stack # << >> /\ "OPEN" = Top.message /\ UNCHANGED <<answer, streams>>
        /\ Push(Son(1), "OPEN", "opened")
    BY <1>1, <2>1 DEF In, Call
  <2> QED
    BY <2>1, <2>2, <2>3, <2>4, CallStep
<1>2. CASE In("filter", "OPEN", "opened") /\ Set([opened |-> TRUE]) /\ KeepTuples /\ Return("OK", None)
  <2>1. [opened |-> TRUE] \in LocalOf["filter"] /\ [opened |-> TRUE] # None
    BY Locals
  <2>2. SonState(x, 1) = "open"
    BY <1>2, Begins DEF Waits, After
  <2> QED
    BY <1>2, <2>1, <2>2, Begins, Misuses, Returned, Changed, ReturnStep
       DEF Idle, IdleOpened, After
<1>3. CASE /\ In("filter", "REQUEST", "start") /\ KeepLocal /\ KeepTuples
           /\ IF local[n] = None THEN Return("CANCEL", None)
                                ELSE Call(Son(1), "REQUEST", "next")
  <2>1. /\ x \in Nodes /\ Op(x) = "filter" /\ 1 \in DOMAIN plan[x].sons
        /\ local[x] # None /\ SonState(x, 1) = "open"
        /\ Call(Son(1), "REQUEST", "next")
    BY <1>3, Begins DEF Idle, IdleOpened, Asked
  <2>2. Waits(Op(x), "REQUEST", "next", 1, "REQUEST") /\ Asked(SonOf(plan, x, 1), "REQUEST")
    BY <2>1 DEF Waits, Asked, SonState
  <2>3. AtWork(x) /\ Running(x, "REQUEST", "next")'
    BY <1>3, <2>1, Misuses, Called, Kept DEF Running
  <2>4. /\ stack # << >> /\ "REQUEST" = Top.message /\ UNCHANGED <<answer, streams>>
        /\ Push(Son(1), "REQUEST", "next")
    BY <1>3, <2>1 DEF In, Call
  <2> QED
    BY <2>1, <2>2, <2>3, <2>4, CallStep
<1>4. CASE In("filter", "REQUEST", "next") /\ KeepLocal /\ FilterNext
  <2>1. /\ SonState(x, 1) = After("REQUEST", answer.status)
        /\ answer.status \in {"YIELD", "CANCEL"} /\ local[x] # None
        /\ answer.tuple \in Tuples \cup {None} /\ (Yielded => answer.tuple # None)
    <3>1. /\ SonState(x, 1) = After("REQUEST", answer.status)
          /\ answer.status \in {"YIELD", "CANCEL"} /\ local[x] # None
      BY <1>4, Begins DEF Waits, Answers, Running
    <3> QED
      BY <3>1 DEF Yielded, ProtocolInv, ValuesOK
  <2>2. CASE ~Yielded /\ KeepTuples /\ Return("CANCEL", None)
    BY <1>4, <2>1, <2>2, Begins, Misuses, Returned, Kept, ReturnStep
       DEF Idle, IdleOpened, After, Yielded
  <2>3. CASE Yielded /\ Evaluated(answer.tuple) /\ UNCHANGED heap /\ Return("YIELD", answer.tuple)
    <3>1. \E S : Reads(S)
      BY <2>3 DEF Evaluated
    <3> QED
      BY <1>4, <2>1, <2>3, <3>1, Begins, Misuses, Returned, Kept, ReturnStep
         DEF Idle, IdleOpened, After, Yielded
  <2>4. CASE /\ Yielded /\ Evaluated(answer.tuple) /\ heap' = Without(heap, answer.tuple)
             /\ Call(Son(1), "REQUEST", "next")
    <3>1. \E S : Reads(S)
      BY <2>4 DEF Evaluated
    <3>2. x \in Nodes /\ Op(x) = "filter" /\ 1 \in DOMAIN plan[x].sons
          /\ SonState(x, 1) = "open" /\ local[x] # None
      BY <1>4, <2>1, <2>4, Begins DEF After, Yielded
    <3>3. Waits(Op(x), "REQUEST", "next", 1, "REQUEST") /\ Asked(SonOf(plan, x, 1), "REQUEST")
      BY <3>2 DEF Waits, Asked, SonState
    <3>4. AtWork(x) /\ Running(x, "REQUEST", "next")'
      BY <1>4, <2>4, <3>1, <3>2, Misuses, Called, Kept DEF Running
    <3>5. /\ stack # << >> /\ "REQUEST" = Top.message /\ UNCHANGED <<answer, streams>>
          /\ Push(Son(1), "REQUEST", "next")
      BY <1>4, <2>4 DEF In, Call
    <3> QED
      BY <3>2, <3>3, <3>4, <3>5, CallStep
  <2> QED
    BY <1>4, <2>2, <2>3, <2>4 DEF FilterNext
<1>5. CASE /\ In("filter", "CLOSE", "start") /\ KeepLocal /\ KeepTuples
           /\ IF local[n] = None THEN Return("OK", None)
                                ELSE Call(Son(1), "CLOSE", "closed")
  <2>1. /\ x \in Nodes /\ Op(x) = "filter" /\ 1 \in DOMAIN plan[x].sons
        /\ local[x] # None /\ SonState(x, 1) # "closed"
        /\ Call(Son(1), "CLOSE", "closed")
    BY <1>5, Begins DEF Idle, IdleOpened, Asked
  <2>2. Waits(Op(x), "CLOSE", "closed", 1, "CLOSE") /\ Asked(SonOf(plan, x, 1), "CLOSE")
    BY <2>1 DEF Waits, Asked, SonState
  <2>3. AtWork(x) /\ Running(x, "CLOSE", "closed")'
    BY <1>5, <2>1, Misuses, Called, Kept DEF Running
  <2>4. /\ stack # << >> /\ "CLOSE" = Top.message /\ UNCHANGED <<answer, streams>>
        /\ Push(Son(1), "CLOSE", "closed")
    BY <1>5, <2>1 DEF In, Call
  <2> QED
    BY <2>1, <2>2, <2>3, <2>4, CallStep
<1>6. CASE In("filter", "CLOSE", "closed") /\ Set(None) /\ KeepTuples /\ Return("OK", None)
  <2>1. SonState(x, 1) = "closed"
    BY <1>6, Begins DEF Waits, After
  <2> QED
    BY <1>6, <2>1, Begins, Misuses, Returned, Changed, ReturnStep
       DEF Idle, IdleClosed, After
<1> QED
  BY <1>1, <1>2, <1>3, <1>4, <1>5, <1>6 DEF Filter

LEMMA HeadKeeps ==
  ASSUME ProtocolInv, HeadOf
  PROVE  ProtocolInv'
<1> PICK x : x = n
  OBVIOUS
<1>1. CASE /\ In("head", "OPEN", "start") /\ Set(HeadInfo) /\ Reads({Outer} \ {None})
           /\ UNCHANGED heap /\ Call(Son(1), "OPEN", "opened")
  <2>1. HeadInfo \in LocalOf["head"] /\ HeadInfo # None
    <3>1. IsTree(plan) /\ x \in Nodes /\ plan[x].op = "head"
      BY <1>1, Begins DEF ProtocolInv, ValuesOK, Op
    <3>2. \A a \in DOMAIN plan[x].most : plan[x].most[a] \in Nat
      BY <3>1 DEF IsTree, Nodes
    <3>3. HeadInfo \in [taken : Nat, most : Nat]
      BY <3>2 DEF HeadInfo, NewHead
    <3> QED
      BY <3>3, Locals
  <2>2. x \in Nodes /\ Op(x) = "head" /\ 1 \in DOMAIN plan[x].sons /\ SonState(x, 1) = "closed"
    BY <1>1, Begins DEF Idle, IdleClosed, Asked
  <2>3. Waits(Op(x), "OPEN", "opened", 1, "OPEN") /\ Asked(SonOf(plan, x, 1), "OPEN")
    BY <2>2 DEF Waits, Asked, SonState
  <2>4. AtWork(x) /\ Running(x, "OPEN", "opened")'
    BY <1>1, <2>1, <2>2, Misuses, Called, Changed DEF Running
  <2>5. /\ stack # << >> /\ "OPEN" = Top.message /\ UNCHANGED <<answer, streams>>
        /\ Push(Son(1), "OPEN", "opened")
    BY <1>1 DEF In, Call
  <2> QED
    BY <2>2, <2>3, <2>4, <2>5, CallStep
<1>2. CASE In("head", "OPEN", "opened") /\ KeepLocal /\ KeepTuples /\ Return("OK", None)
  <2>1. SonState(x, 1) = "open" /\ local[x] # None
    BY <1>2, Begins DEF Waits, After, Running
  <2> QED
    BY <1>2, <2>1, Begins, Misuses, Returned, Kept, ReturnStep
       DEF Idle, IdleOpened, After
<1>3. CASE In("head", "REQUEST", "start") /\ KeepLocal /\ KeepTuples /\ Return("CANCEL", None)
  BY <1>3, Begins, Misuses, Returned, Kept, ReturnStep
     DEF Idle, IdleOpened, After, Asked
<1>4. CASE /\ In("head", "REQUEST", "start") /\ KeepLocal /\ KeepTuples
           /\ Call(Son(1), "REQUEST", "next")
  <2>1. /\ x \in Nodes /\ Op(x) = "head" /\ 1 \in DOMAIN plan[x].sons
        /\ local[x] # None /\ SonState(x, 1) = "open"
    BY <1>4, Begins DEF Idle, IdleOpened, Asked
  <2>2. Waits(Op(x), "REQUEST", "next", 1, "REQUEST") /\ Asked(SonOf(plan, x, 1), "REQUEST")
    BY <2>1 DEF Waits, Asked, SonState
  <2>3. AtWork(x) /\ Running(x, "REQUEST", "next")'
    BY <1>4, <2>1, Misuses, Called, Kept DEF Running
  <2>4. /\ stack # << >> /\ "REQUEST" = Top.message /\ UNCHANGED <<answer, streams>>
        /\ Push(Son(1), "REQUEST", "next")
    BY <1>4, <2>1 DEF In, Call
  <2> QED
    BY <2>1, <2>2, <2>3, <2>4, CallStep
<1>5. CASE In("head", "REQUEST", "next") /\ KeepTuples
  <2>1. /\ SonState(x, 1) = After("REQUEST", answer.status)
        /\ answer.status \in {"YIELD", "CANCEL"} /\ local[x] # None
        /\ answer.tuple \in Tuples \cup {None} /\ (Yielded => answer.tuple # None)
    <3>1. /\ SonState(x, 1) = After("REQUEST", answer.status)
          /\ answer.status \in {"YIELD", "CANCEL"} /\ local[x] # None
      BY <1>5, Begins DEF Waits, Answers, Running
    <3> QED
      BY <3>1 DEF Yielded, ProtocolInv, ValuesOK
  <2>2. CASE ~Yielded /\ KeepLocal /\ Return("CANCEL", None)
    BY <1>5, <2>1, <2>2, Begins, Misuses, Returned, Kept, ReturnStep
       DEF Idle, IdleOpened, After, Yielded
  <2>3. CASE /\ Yielded /\ Set([local[n] EXCEPT !.taken = @ + 1])
             /\ Return("YIELD", answer.tuple)
    <3> DEFINE info == [local[x] EXCEPT !.taken = @ + 1]
    <3>1. info \in LocalOf["head"] /\ info # None
      <4>1. local[x] \in LocalOf["head"]
        BY <1>5, <2>1, Begins
      <4>2. local[x] \in [taken : Nat, most : Nat]
        BY <4>1, Locals
      <4>3. info \in [taken : Nat, most : Nat]
        BY <4>2
      <4> HIDE DEF info
      <4> QED
        BY <4>3, Locals
    <3> HIDE DEF info
    <3>2. Set(info)
      BY <2>3 DEF info
    <3> QED
      BY <1>5, <2>1, <2>3, <3>1, <3>2, Begins, Misuses, Returned, Changed, ReturnStep
         DEF Idle, IdleOpened, After, Yielded
  <2> QED
    BY <1>5, <2>2, <2>3, Begins DEF HeadOf, In
<1>6. CASE /\ In("head", "CLOSE", "start") /\ KeepLocal /\ KeepTuples
           /\ Call(Son(1), "CLOSE", "closed")
  <2>1. /\ x \in Nodes /\ Op(x) = "head" /\ 1 \in DOMAIN plan[x].sons
        /\ local[x] # None /\ SonState(x, 1) # "closed"
    BY <1>6, Begins DEF Idle, IdleOpened, Asked
  <2>2. Waits(Op(x), "CLOSE", "closed", 1, "CLOSE") /\ Asked(SonOf(plan, x, 1), "CLOSE")
    BY <2>1 DEF Waits, Asked, SonState
  <2>3. AtWork(x) /\ Running(x, "CLOSE", "closed")'
    BY <1>6, <2>1, Misuses, Called, Kept DEF Running
  <2>4. /\ stack # << >> /\ "CLOSE" = Top.message /\ UNCHANGED <<answer, streams>>
        /\ Push(Son(1), "CLOSE", "closed")
    BY <1>6, <2>1 DEF In, Call
  <2> QED
    BY <2>1, <2>2, <2>3, <2>4, CallStep
<1>7. CASE In("head", "CLOSE", "closed") /\ KeepLocal /\ KeepTuples /\ Return("OK", None)
  <2>1. SonState(x, 1) = "closed"
    BY <1>7, Begins DEF Waits, After
  <2> QED
    BY <1>7, <2>1, Begins, Misuses, Returned, Kept, ReturnStep
       DEF Idle, IdleClosed, After
<1>8. CASE In("head", "CLOSEPROGRESS", "start") /\ Set(None) /\ KeepTuples /\ Return("OK", None)
  BY <1>8, Begins, Misuses, Returned, Changed, ReturnStep
     DEF Idle, IdleClosed, After, Asked
<1> QED
  BY <1>1, <1>2, <1>3, <1>4, <1>5, <1>6, <1>7, <1>8 DEF HeadOf

LEMMA CancelKeeps ==
  ASSUME ProtocolInv, Cancel
  PROVE  ProtocolInv'
<1> PICK x : x = n
  OBVIOUS
<1>1. ASSUME NEW message \in {"OPEN", "REQUEST", "CLOSE"}, In("cancel", message, "start"),
             Call(Son(1), message, "done"), KeepLocal, KeepTuples
      PROVE  ProtocolInv'
  <2>1. x \in Nodes /\ Op(x) = "cancel" /\ 1 \in DOMAIN plan[x].sons /\ Idle(x)
        /\ Asked(x, message)
    BY <1>1, Begins
  <2>2. Waits(Op(x), message, "done", 1, message) /\ Asked(SonOf(plan, x, 1), message)
    BY <2>1 DEF Waits, Asked, SonState, Idle, IdleClosed, IdleOpened
  <2>3. AtWork(x) /\ Running(x, message, "done")'
    BY <1>1, <2>1, Misuses, Called, Kept DEF Running
  <2>4. /\ stack # << >> /\ message = Top.message /\ UNCHANGED <<answer, streams>>
        /\ Push(Son(1), message, "done")
    <3>1. stack # << >> /\ message = Top.message
      BY <1>1, Begins
    <3> QED
      BY <1>1, <3>1 DEF Call
  <2> QED
    BY <2>1, <2>2, <2>3, <2>4, CallStep
<1>2. ASSUME NEW message \in {"OPEN", "CLOSE"}, In("cancel", message, "done"),
             KeepLocal, KeepTuples, Return("OK", None)
      PROVE  ProtocolInv'
  <2>1. SonState(x, 1) = After(message, "OK") /\ local[x] = None
    BY <1>2, Begins, Locals DEF Waits, After
  <2> QED
    BY <1>2, <2>1, Begins, Misuses, Returned, Kept, ReturnStep
       DEF Idle, IdleClosed, IdleOpened, After
<1>3. CASE In("cancel", "REQUEST", "done") /\ KeepLocal
  <2>1. /\ SonState(x, 1) = After("REQUEST", answer.status)
        /\ answer.status \in {"YIELD", "CANCEL"}
        /\ answer.tuple \in Tuples \cup {None} /\ (Yielded => answer.tuple # None)
    <3>1. /\ SonState(x, 1) = After("REQUEST", answer.status)
          /\ answer.status \in {"YIELD", "CANCEL"}
      BY <1>3, Begins DEF Waits, Answers
    <3> QED
      BY <3>1 DEF Yielded, ProtocolInv, ValuesOK
  <2>2. CASE ~Yielded /\ KeepTuples /\ Return("CANCEL", None)
    BY <1>3, <2>1, <2>2, Begins, Misuses, Returned, Kept, ReturnStep
       DEF Idle, IdleOpened, After, Yielded
  <2>3. CASE /\ Yielded /\ Evaluated(answer.tuple) /\ heap' = Without(heap, answer.tuple)
             /\ Return("CANCEL", None)
    <3>1. \E S : Reads(S)
      BY <2>3 DEF Evaluated
    <3> QED
      BY <1>3, <2>1, <2>3, <3>1, Begins, Misuses, Returned, Kept, ReturnStep
         DEF Idle, IdleOpened, After, Yielded
  <2>4. CASE Yielded /\ Evaluated(answer.tuple) /\ UNCHANGED heap /\ Return("YIELD", answer.tuple)
    <3>1. \E S : Reads(S)
      BY <2>4 DEF Evaluated
    <3> QED
      BY <1>3, <2>1, <2>4, <3>1, Begins, Misuses, Returned, Kept, ReturnStep
         DEF Idle, IdleOpened, After, Yielded
  <2> QED
    BY <1>3, <2>2, <2>3, <2>4 DEF Cancel, In
<1> QED
  BY <1>1, <1>2, <1>3 DEF Cancel

LEMMA ConcatKeeps ==
  ASSUME ProtocolInv, Concat
  PROVE  ProtocolInv'
<1> PICK x : x = n
  OBVIOUS
<1>1. CASE /\ In("concat", "OPEN", "start") /\ Call(Son(1), "OPEN", "first")
           /\ KeepLocal /\ KeepTuples
  <2>1. /\ x \in Nodes /\ Op(x) = "concat" /\ stack # << >> /\ "OPEN" = Top.message
        /\ DOMAIN plan[x].sons = {1, 2}
        /\ SonState(x, 1) = "closed" /\ SonState(x, 2) = "closed"
    BY <1>1, Begins DEF Idle, IdleClosed, Asked
  <2>2. Waits(Op(x), "OPEN", "first", 1, "OPEN") /\ Asked(SonOf(plan, x, 1), "OPEN")
    BY <2>1 DEF Waits, Asked, SonState
  <2>3. AtWork(x) /\ Running(x, "OPEN", "first")'
    BY <1>1, <2>1, Misuses, Called, Kept DEF Running
  <2>4. UNCHANGED <<answer, streams>> /\ Push(Son(1), "OPEN", "first")
    BY <1>1, <2>1 DEF Call
  <2> QED
    BY <2>1, <2>2, <2>3, <2>4, CallStep
<1>2. CASE /\ In("concat", "OPEN", "first") /\ Call(Son(2), "OPEN", "second")
           /\ KeepLocal /\ KeepTuples
  <2>1. /\ x \in Nodes /\ Op(x) = "concat" /\ stack # << >> /\ "OPEN" = Top.message
        /\ DOMAIN plan[x].sons = {1, 2}
        /\ SonState(x, 1) = "open" /\ SonState(x, 2) = "closed"
    BY <1>2, Begins DEF Waits, After, Running, Answers
  <2>2. Waits(Op(x), "OPEN", "second", 2, "OPEN") /\ Asked(SonOf(plan, x, 2), "OPEN")
    BY <2>1 DEF Waits, Asked, SonState
  <2>3. AtWork(x) /\ Running(x, "OPEN", "second")'
    BY <1>2, <2>1, Misuses, Called, Kept DEF Running
  <2>4. UNCHANGED <<answer, streams>> /\ Push(Son(2), "OPEN", "second")
    BY <1>2, <2>1 DEF Call
  <2> QED
    BY <2>1, <2>2, <2>3, <2>4, CallStep
<1>3. CASE /\ In("concat", "OPEN", "second") /\ Set([second |-> FALSE])
           /\ KeepTuples /\ Return("OK", None)
  <2>1. /\ x \in Nodes /\ Op(x) = "concat" /\ stack # << >> /\ "OPEN" = Top.message
        /\ DOMAIN plan[x].sons = {1, 2}
        /\ SonState(x, 1) = "open" /\ SonState(x, 2) = "open"
    BY <1>3, Begins DEF Waits, After, Running, Answers
  <2>2. [second |-> FALSE] \in LocalOf["concat"] /\ [second |-> FALSE] # None
    <3>1. [second |-> FALSE] \in [second : BOOLEAN]
      OBVIOUS
    <3> QED
      BY <3>1, Locals
  <2>3. AtWork(x) /\ Idle(x)'
    BY <1>3, <2>1, <2>2, Misuses, Returned, Changed DEF Idle, IdleOpened, After
  <2> QED
    BY <1>3, <2>1, <2>3, <2>2, ReturnStep
<1>4. CASE /\ In("concat", "CLOSE", "start") /\ Call(Son(1), "CLOSE", "first")
           /\ KeepLocal /\ KeepTuples
  <2>1. /\ x \in Nodes /\ Op(x) = "concat" /\ stack # << >> /\ "CLOSE" = Top.message
        /\ DOMAIN plan[x].sons = {1, 2}
        /\ SonState(x, 1) # "closed" /\ SonState(x, 2) # "closed"
    BY <1>4, Begins DEF Idle, IdleOpened, Asked
  <2>2. Waits(Op(x), "CLOSE", "first", 1, "CLOSE") /\ Asked(SonOf(plan, x, 1), "CLOSE")
    BY <2>1 DEF Waits, Asked, SonState
  <2>3. AtWork(x) /\ Running(x, "CLOSE", "first")'
    BY <1>4, <2>1, Misuses, Called, Kept DEF Running
  <2>4. UNCHANGED <<answer, streams>> /\ Push(Son(1), "CLOSE", "first")
    BY <1>4, <2>1 DEF Call
  <2> QED
    BY <2>1, <2>2, <2>3, <2>4, CallStep
<1>5. CASE /\ In("concat", "CLOSE", "first") /\ Call(Son(2), "CLOSE", "second")
           /\ KeepLocal /\ KeepTuples
  <2>1. /\ x \in Nodes /\ Op(x) = "concat" /\ stack # << >> /\ "CLOSE" = Top.message
        /\ DOMAIN plan[x].sons = {1, 2}
        /\ SonState(x, 1) = "closed" /\ SonState(x, 2) # "closed"
    BY <1>5, Begins DEF Waits, After, Running, Answers
  <2>2. Waits(Op(x), "CLOSE", "second", 2, "CLOSE") /\ Asked(SonOf(plan, x, 2), "CLOSE")
    BY <2>1 DEF Waits, Asked, SonState
  <2>3. AtWork(x) /\ Running(x, "CLOSE", "second")'
    BY <1>5, <2>1, Misuses, Called, Kept DEF Running
  <2>4. UNCHANGED <<answer, streams>> /\ Push(Son(2), "CLOSE", "second")
    BY <1>5, <2>1 DEF Call
  <2> QED
    BY <2>1, <2>2, <2>3, <2>4, CallStep
<1>6. CASE /\ In("concat", "CLOSE", "second") /\ Set(None)
           /\ KeepTuples /\ Return("OK", None)
  <2>1. /\ x \in Nodes /\ Op(x) = "concat" /\ stack # << >> /\ "CLOSE" = Top.message
        /\ DOMAIN plan[x].sons = {1, 2}
        /\ SonState(x, 1) = "closed" /\ SonState(x, 2) = "closed"
    BY <1>6, Begins DEF Waits, After, Running, Answers
  <2>2. AtWork(x) /\ Idle(x)'
    BY <1>6, <2>1, Misuses, Returned, Changed DEF Idle, IdleClosed, After
  <2> QED
    BY <1>6, <2>1, <2>2, ReturnStep
<1>7. CASE /\ In("concat", "REQUEST", "start") /\ local[n].second
           /\ Call(Son(2), "REQUEST", "second")
           /\ KeepLocal /\ KeepTuples
  <2>1. /\ x \in Nodes /\ Op(x) = "concat" /\ stack # << >> /\ "REQUEST" = Top.message
        /\ DOMAIN plan[x].sons = {1, 2}
        /\ local[x] # None /\ SonState(x, 1) = "ended" /\ SonState(x, 2) = "open"
    BY <1>7, Begins DEF Idle, IdleOpened, Asked
  <2>2. Waits(Op(x), "REQUEST", "second", 2, "REQUEST") /\ Asked(SonOf(plan, x, 2), "REQUEST")
    BY <2>1 DEF Waits, Asked, SonState
  <2>3. AtWork(x) /\ Running(x, "REQUEST", "second")'
    BY <1>7, <2>1, Misuses, Called, Kept DEF Running
  <2>4. UNCHANGED <<answer, streams>> /\ Push(Son(2), "REQUEST", "second")
    BY <1>7, <2>1 DEF Call
  <2> QED
    BY <2>1, <2>2, <2>3, <2>4, CallStep
<1>8. CASE /\ In("concat", "REQUEST", "start") /\ ~local[n].second
           /\ Call(Son(1), "REQUEST", "first")
           /\ KeepLocal /\ KeepTuples
  <2>1. /\ x \in Nodes /\ Op(x) = "concat" /\ stack # << >> /\ "REQUEST" = Top.message
        /\ DOMAIN plan[x].sons = {1, 2}
        /\ local[x] # None /\ SonState(x, 1) = "open" /\ SonState(x, 2) = "open"
    BY <1>8, Begins DEF Idle, IdleOpened, Asked
  <2>2. Waits(Op(x), "REQUEST", "first", 1, "REQUEST") /\ Asked(SonOf(plan, x, 1), "REQUEST")
    BY <2>1 DEF Waits, Asked, SonState
  <2>3. AtWork(x) /\ Running(x, "REQUEST", "first")'
    BY <1>8, <2>1, Misuses, Called, Kept DEF Running
  <2>4. UNCHANGED <<answer, streams>> /\ Push(Son(1), "REQUEST", "first")
    BY <1>8, <2>1 DEF Call
  <2> QED
    BY <2>1, <2>2, <2>3, <2>4, CallStep
<1>9. CASE /\ In("concat", "REQUEST", "first") /\ Yielded /\ KeepTuples
           /\ KeepLocal /\ Return("YIELD", answer.tuple)
  <2>1. /\ x \in Nodes /\ Op(x) = "concat" /\ stack # << >> /\ "REQUEST" = Top.message
        /\ DOMAIN plan[x].sons = {1, 2}
        /\ /\ answer.status \in {"YIELD", "CANCEL"} /\ answer.tuple \in Tuples \cup {None}
        /\ (Yielded <=> answer.tuple # None) /\ (Yielded <=> answer.status = "YIELD")
        /\ local[x] # None /\ ~local[x].second
        /\ SonState(x, 1) = "open" /\ SonState(x, 2) = "open"
    BY <1>9, Begins DEF Waits, After, Running, Answers, Yielded, ProtocolInv, ValuesOK
  <2>2. AtWork(x) /\ Idle(x)'
    BY <1>9, <2>1, Misuses, Returned, Kept DEF Idle, IdleOpened, After
  <2> QED
    BY <1>9, <2>1, <2>2, ReturnStep
<1>10. CASE /\ In("concat", "REQUEST", "first") /\ ~Yielded /\ KeepTuples
           /\ Set([second |-> TRUE]) /\ Call(Son(2), "REQUEST", "second")
  <2>1. /\ x \in Nodes /\ Op(x) = "concat" /\ stack # << >> /\ "REQUEST" = Top.message
        /\ DOMAIN plan[x].sons = {1, 2}
        /\ SonState(x, 1) = "ended" /\ SonState(x, 2) = "open"
    BY <1>10, Begins DEF Waits, After, Running, Answers, Yielded
  <2>2. Waits(Op(x), "REQUEST", "second", 2, "REQUEST") /\ Asked(SonOf(plan, x, 2), "REQUEST")
    BY <2>1 DEF Waits, Asked, SonState
  <2>3. [second |-> TRUE] \in LocalOf["concat"] /\ [second |-> TRUE] # None
    <3>1. [second |-> TRUE] \in [second : BOOLEAN]
      OBVIOUS
    <3> QED
      BY <3>1, Locals
  <2>4. AtWork(x) /\ Running(x, "REQUEST", "second")'
    BY <1>10, <2>1, <2>3, Misuses, Called, Changed DEF Running
  <2>5. UNCHANGED <<answer, streams>> /\ Push(Son(2), "REQUEST", "second")
    BY <1>10, <2>1 DEF Call
  <2> QED
    BY <2>1, <2>2, <2>4, <2>5, CallStep
<1>11. CASE /\ In("concat", "REQUEST", "second") /\ KeepLocal /\ KeepTuples
           /\ Return(answer.status, answer.tuple)
  <2>1. /\ x \in Nodes /\ Op(x) = "concat" /\ stack # << >> /\ "REQUEST" = Top.message
        /\ DOMAIN plan[x].sons = {1, 2}
        /\ /\ answer.status \in {"YIELD", "CANCEL"} /\ answer.tuple \in Tuples \cup {None}
        /\ (Yielded <=> answer.tuple # None) /\ (Yielded <=> answer.status = "YIELD")
        /\ local[x] # None /\ local[x].second
        /\ SonState(x, 1) = "ended"
        /\ SonState(x, 2) = IF Yielded THEN "open" ELSE "ended"
    BY <1>11, Begins DEF Waits, After, Running, Answers, Yielded, ProtocolInv, ValuesOK
  <2>2. AtWork(x) /\ Idle(x)'
    BY <1>11, <2>1, Misuses, Returned, Kept DEF Idle, IdleOpened, After
  <2> QED
    BY <1>11, <2>1, <2>2, ReturnStep
<1> QED
  BY <1>1, <1>2, <1>3, <1>4, <1>5, <1>6, <1>7, <1>8, <1>9, <1>10, <1>11 DEF Concat

LEMMA ProductOpenKeeps ==
  ASSUME ProtocolInv, ProductOpen
  PROVE  ProtocolInv'
<1> PICK x : x = n
  OBVIOUS
<1>1. CASE /\ In("product", "OPEN", "start") /\ Call(Son(1), "OPEN", "opened")
           /\ DeleteAll(HeldByProduct) /\ Set([current |-> None, buffer |-> << >>, next |-> 1])
  <2>1. /\ x \in Nodes /\ Op(x) = "product" /\ stack # << >> /\ "OPEN" = Top.message
        /\ DOMAIN plan[x].sons = {1, 2}
        /\ SonState(x, 1) = "closed" /\ SonState(x, 2) = "closed"
    BY <1>1, Begins DEF Idle, IdleClosed, Asked
  <2>2. Waits(Op(x), "OPEN", "opened", 1, "OPEN") /\ Asked(SonOf(plan, x, 1), "OPEN")
    BY <2>1 DEF Waits, Asked, SonState
  <2>3. [current |-> None, buffer |-> << >>, next |-> 1] \in LocalOf["product"] /\ [current |-> None, buffer |-> << >>, next |-> 1] # None
    <3>1. [current |-> None, buffer |-> << >>, next |-> 1] \in [current : Tuples \cup {None}, buffer : Seq(Tuples), next : Tuples]
      BY DEF Tuples
    <3> QED
      BY <3>1, Locals
  <2>4. AtWork(x) /\ Running(x, "OPEN", "opened")'
    BY <1>1, <2>1, <2>3, Misuses, Called, Changed DEF Running
  <2>5. UNCHANGED <<answer, streams>> /\ Push(Son(1), "OPEN", "opened")
    BY <1>1, <2>1 DEF Call
  <2> QED
    BY <2>1, <2>2, <2>4, <2>5, CallStep
<1>2. CASE /\ In("product", "OPEN", "opened") /\ Call(Son(1), "REQUEST", "current")
           /\ KeepLocal /\ KeepTuples
  <2>1. /\ x \in Nodes /\ Op(x) = "product" /\ stack # << >> /\ "OPEN" = Top.message
        /\ DOMAIN plan[x].sons = {1, 2}
        /\ local[x] # None /\ local[x].current = None
        /\ SonState(x, 1) = "open" /\ SonState(x, 2) = "closed"
    BY <1>2, Begins DEF Waits, After, Running, Answers
  <2>2. Waits(Op(x), "OPEN", "current", 1, "REQUEST") /\ Asked(SonOf(plan, x, 1), "REQUEST")
    BY <2>1 DEF Waits, Asked, SonState
  <2>3. AtWork(x) /\ Running(x, "OPEN", "current")'
    BY <1>2, <2>1, Misuses, Called, Kept DEF Running
  <2>4. UNCHANGED <<answer, streams>> /\ Push(Son(1), "REQUEST", "current")
    BY <1>2, <2>1 DEF Call
  <2> QED
    BY <2>1, <2>2, <2>3, <2>4, CallStep
<1>3. CASE /\ In("product", "OPEN", "current") /\ Set([local[n] EXCEPT !.current = answer.tuple])
           /\ KeepTuples /\ Call(Son(2), "OPEN", "second")
  <2>1. /\ x \in Nodes /\ Op(x) = "product" /\ stack # << >> /\ "OPEN" = Top.message
        /\ DOMAIN plan[x].sons = {1, 2}
        /\ /\ answer.status \in {"YIELD", "CANCEL"} /\ answer.tuple \in Tuples \cup {None}
        /\ (Yielded <=> answer.tuple # None) /\ (Yielded <=> answer.status = "YIELD")
        /\ local[x] \in LocalOf["product"]
        /\ SonState(x, 1) = (IF Yielded THEN "open" ELSE "ended") /\ SonState(x, 2) = "closed"
    BY <1>3, Begins DEF Waits, After, Running, Answers, Yielded, ProtocolInv, ValuesOK
  <2>2. Waits(Op(x), "OPEN", "second", 2, "OPEN") /\ Asked(SonOf(plan, x, 2), "OPEN")
    BY <2>1 DEF Waits, Asked, SonState
  <2> DEFINE info == [local[x] EXCEPT !.current = answer.tuple]
  <2>3. info \in LocalOf["product"] /\ info # None
    <3>1. local[x] \in [current : Tuples \cup {None}, buffer : Seq(Tuples), next : Tuples]
      BY <2>1, Locals
    <3>2. info \in [current : Tuples \cup {None}, buffer : Seq(Tuples), next : Tuples]
      BY <1>3, <2>1, <3>1 DEF Tuples
    <3> HIDE DEF info
    <3> QED
      BY <3>2, Locals
  <2>4. Set(info) /\ info.current = answer.tuple
    BY <1>3, <2>1
  <2> HIDE DEF info
  <2>5. AtWork(x) /\ Running(x, "OPEN", "second")'
    BY <1>3, <2>1, <2>3, <2>4, Misuses, Called, Changed DEF Running
  <2>6. UNCHANGED <<answer, streams>> /\ Push(Son(2), "OPEN", "second")
    BY <1>3, <2>1 DEF Call
  <2> QED
    BY <2>1, <2>2, <2>5, <2>6, CallStep
<1>4. CASE /\ In("product", "OPEN", "second") /\ Call(Son(2), "REQUEST", "buffer")
           /\ KeepLocal /\ KeepTuples
  <2>1. /\ x \in Nodes /\ Op(x) = "product" /\ stack # << >> /\ "OPEN" = Top.message
        /\ DOMAIN plan[x].sons = {1, 2}
        /\ local[x] # None /\ SonState(x, 1) # "closed" /\ SonState(x, 2) = "open"
        /\ (local[x].current # None => SonState(x, 1) = "open")
    BY <1>4, Begins DEF Waits, After, Running, Answers
  <2>2. Waits(Op(x), "OPEN", "buffer", 2, "REQUEST") /\ Asked(SonOf(plan, x, 2), "REQUEST")
    BY <2>1 DEF Waits, Asked, SonState
  <2>3. AtWork(x) /\ Running(x, "OPEN", "buffer")'
    BY <1>4, <2>1, Misuses, Called, Kept DEF Running
  <2>4. UNCHANGED <<answer, streams>> /\ Push(Son(2), "REQUEST", "buffer")
    BY <1>4, <2>1 DEF Call
  <2> QED
    BY <2>1, <2>2, <2>3, <2>4, CallStep
<1>5. CASE /\ In("product", "OPEN", "buffer") /\ KeepTuples /\ Yielded
           /\ Set([local[n] EXCEPT !.buffer = Append(@, answer.tuple)])
           /\ Call(Son(2), "REQUEST", "buffer")
  <2>1. /\ x \in Nodes /\ Op(x) = "product" /\ stack # << >> /\ "OPEN" = Top.message
        /\ DOMAIN plan[x].sons = {1, 2}
        /\ /\ answer.status \in {"YIELD", "CANCEL"} /\ answer.tuple \in Tuples \cup {None}
        /\ (Yielded <=> answer.tuple # None) /\ (Yielded <=> answer.status = "YIELD")
        /\ local[x] \in LocalOf["product"] /\ SonState(x, 1) # "closed"
        /\ SonState(x, 2) = "open" /\ (local[x].current # None => SonState(x, 1) = "open")
    BY <1>5, Begins DEF Waits, After, Running, Answers, Yielded, ProtocolInv, ValuesOK
  <2>2. Waits(Op(x), "OPEN", "buffer", 2, "REQUEST") /\ Asked(SonOf(plan, x, 2), "REQUEST")
    BY <2>1 DEF Waits, Asked, SonState
  <2> DEFINE info == [local[x] EXCEPT !.buffer = Append(@, answer.tuple)]
  <2>3. info \in LocalOf["product"] /\ info # None
    <3>1. local[x] \in [current : Tuples \cup {None}, buffer : Seq(Tuples), next : Tuples]
      BY <2>1, Locals
    <3>2. answer.tuple \in Tuples
      BY <1>5, <2>1
    <3>3. Append(local[x].buffer, answer.tuple) \in Seq(Tuples)
      BY <3>1, <3>2, AppendProperties
    <3>4. info.buffer \in Seq(Tuples) /\ info.current = local[x].current /\ info.next = local[x].next
      BY <3>1, <3>3
    <3>5. info \in [current : Tuples \cup {None}, buffer : Seq(Tuples), next : Tuples]
      BY <3>1, <3>3
    <3> HIDE DEF info
    <3> QED
      BY <3>5, Locals
  <2>4. Set(info) /\ info.current = local[x].current
    BY <1>5, <2>1
  <2> HIDE DEF info
  <2>5. AtWork(x) /\ Running(x, "OPEN", "buffer")'
    BY <1>5, <2>1, <2>3, <2>4, Misuses, Called, Changed DEF Running
  <2>6. UNCHANGED <<answer, streams>> /\ Push(Son(2), "REQUEST", "buffer")
    BY <1>5, <2>1 DEF Call
  <2> QED
    BY <2>1, <2>2, <2>5, <2>6, CallStep
<1>6. CASE /\ In("product", "OPEN", "buffer") /\ KeepTuples /\ ~Yielded
           /\ KeepLocal /\ Return("OK", None)
  <2>1. /\ x \in Nodes /\ Op(x) = "product" /\ stack # << >> /\ "OPEN" = Top.message
        /\ DOMAIN plan[x].sons = {1, 2}
        /\ local[x] # None /\ SonState(x, 1) # "closed" /\ SonState(x, 2) = "ended"
        /\ (local[x].current # None => SonState(x, 1) = "open")
    BY <1>6, Begins DEF Waits, After, Running, Answers, Yielded
  <2>2. AtWork(x) /\ Idle(x)'
    BY <1>6, <2>1, Misuses, Returned, Kept DEF Idle, IdleOpened, After
  <2> QED
    BY <1>6, <2>1, <2>2, ReturnStep
<1> QED
  BY <1>1, <1>2, <1>3, <1>4, <1>5, <1>6 DEF ProductOpen

LEMMA ProductRequestKeeps ==
  ASSUME ProtocolInv, ProductRequest
  PROVE  ProtocolInv'
<1> PICK x : x = n
  OBVIOUS
<1>1. CASE /\ In("product", "REQUEST", "start") /\ KeepLocal /\ KeepTuples
           /\ Return("CANCEL", None)
  <2>1. /\ x \in Nodes /\ Op(x) = "product" /\ stack # << >> /\ "REQUEST" = Top.message
        /\ DOMAIN plan[x].sons = {1, 2}
        /\ local[x] # None /\ SonState(x, 1) # "closed" /\ SonState(x, 2) # "closed"
    BY <1>1, Begins DEF Idle, IdleOpened, Asked
  <2>2. AtWork(x) /\ Idle(x)'
    BY <1>1, <2>1, Misuses, Returned, Kept DEF Idle, IdleOpened, After
  <2> QED
    BY <1>1, <2>1, <2>2, ReturnStep
<1>2. CASE /\ In("product", "REQUEST", "start") /\ Set([local[n] EXCEPT !.next = @ + 1])
           /\ \E S : Reads(S)
           /\ \E value : YieldNew(value, None)
  <2>1. /\ x \in Nodes /\ Op(x) = "product" /\ stack # << >> /\ "REQUEST" = Top.message
        /\ DOMAIN plan[x].sons = {1, 2}
        /\ local[x] \in LocalOf["product"] /\ local[x] # None
        /\ SonState(x, 1) # "closed" /\ SonState(x, 2) # "closed"
        /\ (local[x].current # None => SonState(x, 1) = "open")
    BY <1>2, Begins DEF Idle, IdleOpened, Asked
  <2> DEFINE info == [local[x] EXCEPT !.next = @ + 1]
  <2>2. info \in LocalOf["product"] /\ info # None
    <3>1. local[x] \in [current : Tuples \cup {None}, buffer : Seq(Tuples), next : Tuples]
      BY <2>1, Locals
    <3>2. info \in [current : Tuples \cup {None}, buffer : Seq(Tuples), next : Tuples]
      BY SMTT(40), <1>2, <2>1, <3>1 DEF Tuples
    <3> HIDE DEF info
    <3> QED
      BY <3>2, Locals
  <2>3. Set(info) /\ info.current = local[x].current
    BY <1>2, <2>1
  <2> HIDE DEF info
  <2>4. PICK u \in Tuples : u # None /\ Return("YIELD", u)
    BY <1>2, Yields DEF ProtocolInv, ValuesOK
  <2>5. AtWork(x) /\ Idle(x)'
    BY <1>2, <2>1, <2>2, <2>3, <2>4, Misuses, Returned, Changed DEF Idle, IdleOpened, After
  <2> QED
    BY <1>2, <2>1, <2>5, <2>2, <2>3, <2>4, ReturnStep
<1>3. CASE /\ In("product", "REQUEST", "start") /\ local[n].current # None
           /\ local[n].buffer # << >> /\ Set([local[n] EXCEPT !.current = None])
           /\ Delete(local[n].current) /\ Call(Son(1), "REQUEST", "current")
  <2>1. /\ x \in Nodes /\ Op(x) = "product" /\ stack # << >> /\ "REQUEST" = Top.message
        /\ DOMAIN plan[x].sons = {1, 2}
        /\ local[x] \in LocalOf["product"] /\ local[x] # None
        /\ SonState(x, 1) = "open" /\ SonState(x, 2) # "closed"
    BY <1>3, Begins DEF Idle, IdleOpened, Asked
  <2>2. Waits(Op(x), "REQUEST", "current", 1, "REQUEST") /\ Asked(SonOf(plan, x, 1), "REQUEST")
    BY <2>1 DEF Waits, Asked, SonState
  <2> DEFINE info == [local[x] EXCEPT !.current = None]
  <2>3. info \in LocalOf["product"] /\ info # None
    <3>1. local[x] \in [current : Tuples \cup {None}, buffer : Seq(Tuples), next : Tuples]
      BY <2>1, Locals
    <3>2. info \in [current : Tuples \cup {None}, buffer : Seq(Tuples), next : Tuples]
      BY <1>3, <2>1, <3>1 DEF Tuples
    <3> HIDE DEF info
    <3> QED
      BY <3>2, Locals
  <2>4. Set(info) /\ info.current = None /\ info.buffer = local[x].buffer
    BY <1>3, <2>1
  <2> HIDE DEF info
  <2>5. AtWork(x) /\ Running(x, "REQUEST", "current")'
    BY <1>3, <2>1, <2>3, <2>4, Misuses, Called, Changed DEF Running
  <2>6. UNCHANGED <<answer, streams>> /\ Push(Son(1), "REQUEST", "current")
    BY <1>3, <2>1 DEF Call
  <2> QED
    BY <2>1, <2>2, <2>5, <2>6, CallStep
<1>4. CASE /\ In("product", "REQUEST", "current") /\ Yielded
           /\ Set([local[n] EXCEPT !.current = answer.tuple, !.next = 2])
           /\ \E S : Reads(S)
           /\ \E value : YieldNew(value, None)
  <2>1. /\ x \in Nodes /\ Op(x) = "product" /\ stack # << >> /\ "REQUEST" = Top.message
        /\ DOMAIN plan[x].sons = {1, 2}
        /\ /\ answer.status \in {"YIELD", "CANCEL"} /\ answer.tuple \in Tuples \cup {None}
        /\ (Yielded <=> answer.tuple # None) /\ (Yielded <=> answer.status = "YIELD")
        /\ local[x] \in LocalOf["product"]
        /\ SonState(x, 1) = "open" /\ SonState(x, 2) # "closed"
    BY <1>4, Begins DEF Waits, After, Running, Answers, Yielded, ProtocolInv, ValuesOK
  <2> DEFINE info == [local[x] EXCEPT !.current = answer.tuple, !.next = 2]
  <2>2. info \in LocalOf["product"] /\ info # None
    <3>1. local[x] \in [current : Tuples \cup {None}, buffer : Seq(Tuples), next : Tuples]
      BY <2>1, Locals
    <3>2. 2 \in Tuples
      BY DEF Tuples
    <3>3. info \in [current : Tuples \cup {None}, buffer : Seq(Tuples), next : Tuples]
      BY <2>1, <3>1, <3>2
    <3> HIDE DEF info
    <3> QED
      BY <3>3, Locals
  <2>3. Set(info) /\ info.current = answer.tuple
    BY <1>4, <2>1
  <2> HIDE DEF info
  <2>4. PICK u \in Tuples : u # None /\ Return("YIELD", u)
    BY <1>4, Yields DEF ProtocolInv, ValuesOK
  <2>5. AtWork(x) /\ Idle(x)'
    BY <1>4, <2>1, <2>2, <2>3, <2>4, Misuses, Returned, Changed DEF Idle, IdleOpened, After
  <2> QED
    BY <1>4, <2>1, <2>5, <2>2, <2>3, <2>4, ReturnStep
<1>5. CASE /\ In("product", "REQUEST", "current") /\ ~Yielded /\ KeepLocal /\ KeepTuples
           /\ Return("CANCEL", None)
  <2>1. /\ x \in Nodes /\ Op(x) = "product" /\ stack # << >> /\ "REQUEST" = Top.message
        /\ DOMAIN plan[x].sons = {1, 2}
        /\ local[x] # None /\ SonState(x, 1) = "ended" /\ SonState(x, 2) # "closed"
    BY <1>5, Begins DEF Waits, After, Running, Answers, Yielded
  <2>2. AtWork(x) /\ Idle(x)'
    BY <1>5, <2>1, Misuses, Returned, Kept DEF Idle, IdleOpened, After
  <2> QED
    BY <1>5, <2>1, <2>2, ReturnStep
<1> QED
  BY <1>1, <1>2, <1>3, <1>4, <1>5 DEF ProductRequest

LEMMA ProductCloseKeeps ==
  ASSUME ProtocolInv, ProductClose
  PROVE  ProtocolInv'
<1> PICK x : x = n
  OBVIOUS
<1>1. CASE /\ In("product", "CLOSE", "start") /\ Call(Son(1), "CLOSE", "first")
           /\ KeepLocal /\ KeepTuples
  <2>1. /\ x \in Nodes /\ Op(x) = "product" /\ stack # << >> /\ "CLOSE" = Top.message
        /\ DOMAIN plan[x].sons = {1, 2}
        /\ local[x] # None /\ SonState(x, 1) # "closed" /\ SonState(x, 2) # "closed"
    BY <1>1, Begins DEF Idle, IdleOpened, Asked
  <2>2. Waits(Op(x), "CLOSE", "first", 1, "CLOSE") /\ Asked(SonOf(plan, x, 1), "CLOSE")
    BY <2>1 DEF Waits, Asked, SonState
  <2>3. AtWork(x) /\ Running(x, "CLOSE", "first")'
    BY <1>1, <2>1, Misuses, Called, Kept DEF Running
  <2>4. UNCHANGED <<answer, streams>> /\ Push(Son(1), "CLOSE", "first")
    BY <1>1, <2>1 DEF Call
  <2> QED
    BY <2>1, <2>2, <2>3, <2>4, CallStep
<1>2. CASE /\ In("product", "CLOSE", "first") /\ Call(Son(2), "CLOSE", "second")
           /\ KeepLocal /\ KeepTuples
  <2>1. /\ x \in Nodes /\ Op(x) = "product" /\ stack # << >> /\ "CLOSE" = Top.message
        /\ DOMAIN plan[x].sons = {1, 2}
        /\ local[x] # None /\ SonState(x, 1) = "closed" /\ SonState(x, 2) # "closed"
    BY <1>2, Begins DEF Waits, After, Running, Answers
  <2>2. Waits(Op(x), "CLOSE", "second", 2, "CLOSE") /\ Asked(SonOf(plan, x, 2), "CLOSE")
    BY <2>1 DEF Waits, Asked, SonState
  <2>3. AtWork(x) /\ Running(x, "CLOSE", "second")'
    BY <1>2, <2>1, Misuses, Called, Kept DEF Running
  <2>4. UNCHANGED <<answer, streams>> /\ Push(Son(2), "CLOSE", "second")
    BY <1>2, <2>1 DEF Call
  <2> QED
    BY <2>1, <2>2, <2>3, <2>4, CallStep
<1>3. CASE /\ In("product", "CLOSE", "second") /\ DeleteAll(HeldByProduct)
           /\ Set(None) /\ Return("OK", None)
  <2>1. /\ x \in Nodes /\ Op(x) = "product" /\ stack # << >> /\ "CLOSE" = Top.message
        /\ DOMAIN plan[x].sons = {1, 2}
        /\ SonState(x, 1) = "closed" /\ SonState(x, 2) = "closed"
    BY <1>3, Begins DEF Waits, After, Running, Answers
  <2>2. AtWork(x) /\ Idle(x)'
    BY <1>3, <2>1, Misuses, Returned, Changed DEF Idle, IdleClosed, After
  <2> QED
    BY <1>3, <2>1, <2>2, ReturnStep
<1> QED
  BY <1>1, <1>2, <1>3 DEF ProductClose

LEMMA CallsWith ==
  ASSUME ProtocolInv, NEW x \in Nodes, x = n, KeepLocal, misused' \in BOOLEAN,
         IsFiniteSet(DOMAIN heap'), NEW t \in Tuples, NEW at, CallWith(t, at)
  PROVE  /\ AtWork(x) /\ local'[x] = local[x] /\ argument'[x] = t /\ Op(x)' = Op(x)
         /\ \A k : SonState(x, k)' = SonState(x, k)
         /\ Push(Son(2), "OPEN", at) /\ UNCHANGED <<answer, streams>>
<1>1. argument \in [Nodes -> Tuples \cup {None}] /\ DOMAIN local = Nodes
      /\ local[x] \in LocalOf[Op(x)] \cup {None} /\ local = [y \in Nodes |-> local[y]]
  BY DEF ProtocolInv, ValuesOK
<1>2. argument' \in [Nodes -> Tuples \cup {None}] /\ argument'[x] = t
      /\ \A y \in Nodes \ {x} : argument'[y] = argument[y]
  BY <1>1 DEF CallWith
<1>3. plan' = plan /\ streams' = streams /\ answer' = answer /\ UNCHANGED endVars
      /\ Push(Son(2), "OPEN", at)
  BY DEF CallWith
<1>4. local' = local /\ DOMAIN local' = Nodes /\ local' = [y \in Nodes |-> local'[y]]
  BY <1>1 DEF KeepLocal
<1> QED
  BY <1>1, <1>2, <1>3, <1>4 DEF AtWork, SonState, Op

LEMMA LoopjoinOpenKeeps ==
  ASSUME ProtocolInv, LoopjoinOpen
  PROVE  ProtocolInv'
<1> PICK x : x = n
  OBVIOUS
<1>1. CASE /\ In("loopjoin", "OPEN", "start") /\ Set([x |-> None])
           /\ Call(Son(1), "OPEN", "opened") /\ KeepTuples
  <2>1. /\ x \in Nodes /\ Op(x) = "loopjoin" /\ stack # << >> /\ "OPEN" = Top.message
        /\ DOMAIN plan[x].sons = {1, 2}
        /\ SonState(x, 1) = "closed" /\ SonState(x, 2) = "closed"
    BY <1>1, Begins DEF Idle, IdleClosed, Asked
  <2>2. Waits(Op(x), "OPEN", "opened", 1, "OPEN") /\ Asked(SonOf(plan, x, 1), "OPEN")
    BY <2>1 DEF Waits, Asked, SonState
  <2>3. [x |-> None] \in LocalOf["loopjoin"] /\ [x |-> None] # None
    <3>1. [x |-> None] \in [x : Tuples \cup {None}]
      OBVIOUS
    <3> QED
      BY <3>1, Locals
  <2>4. /\ AtWork(x) /\ local'[x] = [x |-> None] /\ argument'[x] = argument[x]
        /\ Op(x)' = Op(x) /\ \A k : SonState(x, k)' = SonState(x, k)
    BY <1>1, <2>1, <2>3, Misuses, Called, Changed
  <2>5. Running(x, "OPEN", "opened")'
    BY <2>1, <2>3, <2>4 DEF Running
  <2>6. UNCHANGED <<answer, streams>> /\ Push(Son(1), "OPEN", "opened")
    BY <1>1, <2>1 DEF Call
  <2> QED
    BY <2>1, <2>2, <2>4, <2>5, <2>6, CallStep
<1>2. CASE /\ In("loopjoin", "OPEN", "opened") /\ Call(Son(1), "REQUEST", "first")
           /\ KeepLocal /\ KeepTuples
  <2>1. /\ x \in Nodes /\ Op(x) = "loopjoin" /\ stack # << >> /\ "OPEN" = Top.message
        /\ DOMAIN plan[x].sons = {1, 2}
        /\ local[x] # None /\ local[x].x = None
        /\ SonState(x, 1) = "open" /\ SonState(x, 2) = "closed"
    BY <1>2, Begins DEF Waits, After, Running, Answers
  <2>2. Waits(Op(x), "OPEN", "first", 1, "REQUEST") /\ Asked(SonOf(plan, x, 1), "REQUEST")
    BY <2>1 DEF Waits, Asked, SonState
  <2>3. AtWork(x) /\ Running(x, "OPEN", "first")'
    BY <1>2, <2>1, Misuses, Called, Kept DEF Running
  <2>4. UNCHANGED <<answer, streams>> /\ Push(Son(1), "REQUEST", "first")
    BY <1>2, <2>1 DEF Call
  <2> QED
    BY <2>1, <2>2, <2>3, <2>4, CallStep
<1>3. CASE /\ In("loopjoin", "OPEN", "first") /\ Yielded /\ KeepTuples
           /\ KeepLocal /\ CallWith(answer.tuple, "function")
  <2>1. /\ x \in Nodes /\ Op(x) = "loopjoin" /\ stack # << >> /\ "OPEN" = Top.message
        /\ DOMAIN plan[x].sons = {1, 2}
        /\ /\ answer.status \in {"YIELD", "CANCEL"} /\ answer.tuple \in Tuples \cup {None}
        /\ (Yielded <=> answer.tuple # None) /\ (Yielded <=> answer.status = "YIELD")
        /\ local[x] # None /\ local[x].x = None
        /\ SonState(x, 1) = "open" /\ SonState(x, 2) = "closed"
    BY <1>3, Begins DEF Waits, After, Running, Answers, Yielded, ProtocolInv, ValuesOK
  <2>2. Waits(Op(x), "OPEN", "function", 2, "OPEN") /\ Asked(SonOf(plan, x, 2), "OPEN")
    BY <2>1 DEF Waits, Asked, SonState
  <2>3. answer.tuple \in Tuples /\ answer.tuple # None
    BY <1>3, <2>1, Locals
  <2>4. /\ AtWork(x) /\ local'[x] = local[x] /\ argument'[x] = answer.tuple /\ Op(x)' = Op(x)
        /\ \A k : SonState(x, k)' = SonState(x, k)
        /\ Push(Son(2), "OPEN", "function") /\ UNCHANGED <<answer, streams>>
    BY <1>3, <2>1, <2>3, Misuses, CallsWith
  <2>5. Running(x, "OPEN", "function")'
    BY <2>1, <2>3, <2>4 DEF Running
  <2> QED
    BY <2>1, <2>2, <2>4, <2>5, CallStep
<1>4. CASE /\ In("loopjoin", "OPEN", "first") /\ ~Yielded /\ KeepTuples
           /\ KeepLocal /\ Return("OK", None)
  <2>1. /\ x \in Nodes /\ Op(x) = "loopjoin" /\ stack # << >> /\ "OPEN" = Top.message
        /\ DOMAIN plan[x].sons = {1, 2}
        /\ local[x] # None /\ local[x].x = None
        /\ SonState(x, 1) = "ended" /\ SonState(x, 2) = "closed"
    BY <1>4, Begins DEF Waits, After, Running, Answers, Yielded
  <2>2. AtWork(x) /\ Idle(x)'
    BY <1>4, <2>1, Misuses, Returned, Kept DEF Idle, IdleOpened, After
  <2> QED
    BY <1>4, <2>1, <2>2, ReturnStep
<1>5. CASE /\ In("loopjoin", "OPEN", "function") /\ Set([x |-> argument[n]])
           /\ KeepTuples /\ Return("OK", None)
  <2>1. /\ x \in Nodes /\ Op(x) = "loopjoin" /\ stack # << >> /\ "OPEN" = Top.message
        /\ DOMAIN plan[x].sons = {1, 2}
        /\ SonState(x, 1) = "open" /\ SonState(x, 2) = "open"
        /\ argument[x] \in Tuples \cup {None} /\ argument[x] # None
    BY <1>5, Begins DEF Waits, After, Running, Answers, ProtocolInv, ValuesOK
  <2>2. [x |-> argument[x]] \in LocalOf["loopjoin"] /\ [x |-> argument[x]] # None
    <3>1. [x |-> argument[x]] \in [x : Tuples \cup {None}]
      BY <2>1
    <3> QED
      BY <3>1, Locals
  <2>3. AtWork(x) /\ Idle(x)'
    BY <1>5, <2>1, <2>2, Misuses, Returned, Changed DEF Idle, IdleOpened, After
  <2> QED
    BY <1>5, <2>1, <2>3, <2>2, ReturnStep
<1> QED
  BY <1>1, <1>2, <1>3, <1>4, <1>5 DEF LoopjoinOpen

LEMMA LoopjoinRequestKeeps ==
  ASSUME ProtocolInv, LoopjoinRequest
  PROVE  ProtocolInv'
<1> PICK x : x = n
  OBVIOUS
<1>1. CASE /\ In("loopjoin", "REQUEST", "start") /\ KeepLocal /\ KeepTuples
           /\ (local[n] = None \/ local[n].x = None) /\ Return("CANCEL", None)
  <2>1. /\ x \in Nodes /\ Op(x) = "loopjoin" /\ stack # << >> /\ "REQUEST" = Top.message
        /\ DOMAIN plan[x].sons = {1, 2}
        /\ local[x] # None /\ local[x].x = None
        /\ SonState(x, 1) # "closed" /\ SonState(x, 2) = "closed"
    BY <1>1, Begins DEF Idle, IdleOpened, Asked
  <2>2. AtWork(x) /\ Idle(x)'
    BY <1>1, <2>1, Misuses, Returned, Kept DEF Idle, IdleOpened, After
  <2> QED
    BY <1>1, <2>1, <2>2, ReturnStep
<1>2. CASE /\ In("loopjoin", "REQUEST", "start") /\ KeepLocal /\ KeepTuples
           /\ ~(local[n] = None \/ local[n].x = None) /\ Call(Son(2), "REQUEST", "inner")
  <2>1. /\ x \in Nodes /\ Op(x) = "loopjoin" /\ stack # << >> /\ "REQUEST" = Top.message
        /\ DOMAIN plan[x].sons = {1, 2}
        /\ local[x] # None /\ local[x].x # None /\ local[x].x = argument[x]
        /\ SonState(x, 1) = "open" /\ SonState(x, 2) = "open"
    BY <1>2, Begins DEF Idle, IdleOpened, Asked
  <2>2. Waits(Op(x), "REQUEST", "inner", 2, "REQUEST") /\ Asked(SonOf(plan, x, 2), "REQUEST")
    BY <2>1 DEF Waits, Asked, SonState
  <2>3. AtWork(x) /\ Running(x, "REQUEST", "inner")'
    BY <1>2, <2>1, Misuses, Called, Kept DEF Running
  <2>4. UNCHANGED <<answer, streams>> /\ Push(Son(2), "REQUEST", "inner")
    BY <1>2, <2>1 DEF Call
  <2> QED
    BY <2>1, <2>2, <2>3, <2>4, CallStep
<1>3. CASE /\ In("loopjoin", "REQUEST", "inner") /\ Yielded /\ KeepLocal
           /\ \E S : Reads(S)
           /\ \E value : YieldNew(value, answer.tuple)
  <2>1. /\ x \in Nodes /\ Op(x) = "loopjoin" /\ stack # << >> /\ "REQUEST" = Top.message
        /\ DOMAIN plan[x].sons = {1, 2}
        /\ local[x] # None /\ local[x].x # None /\ local[x].x = argument[x]
        /\ SonState(x, 1) = "open" /\ SonState(x, 2) = "open"
    BY <1>3, Begins DEF Waits, After, Running, Answers, Yielded
  <2>2. PICK u \in Tuples : u # None /\ Return("YIELD", u)
    BY <1>3, Yields DEF ProtocolInv, ValuesOK
  <2>3. AtWork(x) /\ Idle(x)'
    BY <1>3, <2>1, <2>2, Misuses, Returned, Kept DEF Idle, IdleOpened, After
  <2> QED
    BY <1>3, <2>1, <2>3, <2>2, ReturnStep
<1>4. CASE /\ In("loopjoin", "REQUEST", "inner") /\ ~Yielded
           /\ Call(Son(2), "CLOSE", "closed")
           /\ KeepLocal /\ KeepTuples
  <2>1. /\ x \in Nodes /\ Op(x) = "loopjoin" /\ stack # << >> /\ "REQUEST" = Top.message
        /\ DOMAIN plan[x].sons = {1, 2}
        /\ local[x] # None /\ local[x].x # None /\ local[x].x = argument[x]
        /\ SonState(x, 1) = "open" /\ SonState(x, 2) = "ended"
    BY <1>4, Begins DEF Waits, After, Running, Answers, Yielded
  <2>2. Waits(Op(x), "REQUEST", "closed", 2, "CLOSE") /\ Asked(SonOf(plan, x, 2), "CLOSE")
    BY <2>1 DEF Waits, Asked, SonState
  <2>3. AtWork(x) /\ Running(x, "REQUEST", "closed")'
    BY <1>4, <2>1, Misuses, Called, Kept DEF Running
  <2>4. UNCHANGED <<answer, streams>> /\ Push(Son(2), "CLOSE", "closed")
    BY <1>4, <2>1 DEF Call
  <2> QED
    BY <2>1, <2>2, <2>3, <2>4, CallStep
<1>5. CASE /\ In("loopjoin", "REQUEST", "closed") /\ Delete(local[n].x) /\ KeepLocal
           /\ Call(Son(1), "REQUEST", "outer")
  <2>1. /\ x \in Nodes /\ Op(x) = "loopjoin" /\ stack # << >> /\ "REQUEST" = Top.message
        /\ DOMAIN plan[x].sons = {1, 2}
        /\ local[x] # None /\ SonState(x, 1) = "open" /\ SonState(x, 2) = "closed"
    BY <1>5, Begins DEF Waits, After, Running, Answers
  <2>2. Waits(Op(x), "REQUEST", "outer", 1, "REQUEST") /\ Asked(SonOf(plan, x, 1), "REQUEST")
    BY <2>1 DEF Waits, Asked, SonState
  <2>3. AtWork(x) /\ Running(x, "REQUEST", "outer")'
    BY <1>5, <2>1, Misuses, Called, Kept DEF Running
  <2>4. UNCHANGED <<answer, streams>> /\ Push(Son(1), "REQUEST", "outer")
    BY <1>5, <2>1 DEF Call
  <2> QED
    BY <2>1, <2>2, <2>3, <2>4, CallStep
<1>6. CASE /\ In("loopjoin", "REQUEST", "outer") /\ Yielded /\ KeepTuples
           /\ KeepLocal /\ CallWith(answer.tuple, "function")
  <2>1. /\ x \in Nodes /\ Op(x) = "loopjoin" /\ stack # << >> /\ "REQUEST" = Top.message
        /\ DOMAIN plan[x].sons = {1, 2}
        /\ /\ answer.status \in {"YIELD", "CANCEL"} /\ answer.tuple \in Tuples \cup {None}
        /\ (Yielded <=> answer.tuple # None) /\ (Yielded <=> answer.status = "YIELD")
        /\ local[x] # None
        /\ SonState(x, 1) = "open" /\ SonState(x, 2) = "closed"
    BY <1>6, Begins DEF Waits, After, Running, Answers, Yielded, ProtocolInv, ValuesOK
  <2>2. Waits(Op(x), "REQUEST", "function", 2, "OPEN") /\ Asked(SonOf(plan, x, 2), "OPEN")
    BY <2>1 DEF Waits, Asked, SonState
  <2>3. answer.tuple \in Tuples /\ answer.tuple # None
    BY <1>6, <2>1, Locals
  <2>4. /\ AtWork(x) /\ local'[x] = local[x] /\ argument'[x] = answer.tuple /\ Op(x)' = Op(x)
        /\ \A k : SonState(x, k)' = SonState(x, k)
        /\ Push(Son(2), "OPEN", "function") /\ UNCHANGED <<answer, streams>>
    BY <1>6, <2>1, <2>3, Misuses, CallsWith
  <2>5. Running(x, "REQUEST", "function")'
    BY <2>1, <2>3, <2>4 DEF Running
  <2> QED
    BY <2>1, <2>2, <2>4, <2>5, CallStep
<1>7. CASE /\ In("loopjoin", "REQUEST", "outer") /\ ~Yielded /\ KeepTuples
           /\ Set([x |-> None]) /\ Return("CANCEL", None)
  <2>1. /\ x \in Nodes /\ Op(x) = "loopjoin" /\ stack # << >> /\ "REQUEST" = Top.message
        /\ DOMAIN plan[x].sons = {1, 2}
        /\ SonState(x, 1) = "ended" /\ SonState(x, 2) = "closed"
    BY <1>7, Begins DEF Waits, After, Running, Answers, Yielded
  <2>2. [x |-> None] \in LocalOf["loopjoin"] /\ [x |-> None] # None
    <3>1. [x |-> None] \in [x : Tuples \cup {None}]
      OBVIOUS
    <3> QED
      BY <3>1, Locals
  <2>3. AtWork(x) /\ Idle(x)'
    BY <1>7, <2>1, <2>2, Misuses, Returned, Changed DEF Idle, IdleOpened, After
  <2> QED
    BY <1>7, <2>1, <2>3, <2>2, ReturnStep
<1>8. CASE /\ In("loopjoin", "REQUEST", "function") /\ Set([x |-> argument[n]])
           /\ Call(Son(2), "REQUEST", "inner") /\ KeepTuples
  <2>1. /\ x \in Nodes /\ Op(x) = "loopjoin" /\ stack # << >> /\ "REQUEST" = Top.message
        /\ DOMAIN plan[x].sons = {1, 2}
        /\ SonState(x, 1) = "open" /\ SonState(x, 2) = "open"
        /\ argument[x] \in Tuples \cup {None} /\ argument[x] # None
    BY <1>8, Begins DEF Waits, After, Running, Answers, ProtocolInv, ValuesOK
  <2>2. Waits(Op(x), "REQUEST", "inner", 2, "REQUEST") /\ Asked(SonOf(plan, x, 2), "REQUEST")
    BY <2>1 DEF Waits, Asked, SonState
  <2>3. [x |-> argument[x]] \in LocalOf["loopjoin"] /\ [x |-> argument[x]] # None
    <3>1. [x |-> argument[x]] \in [x : Tuples \cup {None}]
      BY <2>1
    <3> QED
      BY <3>1, Locals
  <2>4. /\ AtWork(x) /\ local'[x] = [x |-> argument[x]] /\ argument'[x] = argument[x]
        /\ Op(x)' = Op(x) /\ \A k : SonState(x, k)' = SonState(x, k)
    BY <1>8, <2>1, <2>3, Misuses, Called, Changed
  <2>5. Running(x, "REQUEST", "inner")'
    BY <2>1, <2>3, <2>4 DEF Running
  <2>6. UNCHANGED <<answer, streams>> /\ Push(Son(2), "REQUEST", "inner")
    BY <1>8, <2>1 DEF Call
  <2> QED
    BY <2>1, <2>2, <2>4, <2>5, <2>6, CallStep
<1> QED
  BY <1>1, <1>2, <1>3, <1>4, <1>5, <1>6, <1>7, <1>8 DEF LoopjoinRequest, InnerEnded

LEMMA LoopjoinCloseKeeps ==
  ASSUME ProtocolInv, LoopjoinClose
  PROVE  ProtocolInv'
<1> PICK x : x = n
  OBVIOUS
<1>1. CASE /\ In("loopjoin", "CLOSE", "start") /\ Call(Son(1), "CLOSE", "outer")
           /\ KeepLocal /\ KeepTuples
  <2>1. /\ x \in Nodes /\ Op(x) = "loopjoin" /\ stack # << >> /\ "CLOSE" = Top.message
        /\ DOMAIN plan[x].sons = {1, 2}
        /\ local[x] # None /\ SonState(x, 1) # "closed"
        /\ (local[x].x = None <=> SonState(x, 2) = "closed")
    BY <1>1, Begins DEF Idle, IdleOpened, Asked
  <2>2. Waits(Op(x), "CLOSE", "outer", 1, "CLOSE") /\ Asked(SonOf(plan, x, 1), "CLOSE")
    BY <2>1 DEF Waits, Asked, SonState
  <2>3. AtWork(x) /\ Running(x, "CLOSE", "outer")'
    BY <1>1, <2>1, Misuses, Called, Kept DEF Running
  <2>4. UNCHANGED <<answer, streams>> /\ Push(Son(1), "CLOSE", "outer")
    BY <1>1, <2>1 DEF Call
  <2> QED
    BY <2>1, <2>2, <2>3, <2>4, CallStep
<1>2. CASE /\ In("loopjoin", "CLOSE", "outer") /\ local[n] # None /\ local[n].x # None
           /\ Call(Son(2), "CLOSE", "inner")
           /\ KeepLocal /\ KeepTuples
  <2>1. /\ x \in Nodes /\ Op(x) = "loopjoin" /\ stack # << >> /\ "CLOSE" = Top.message
        /\ DOMAIN plan[x].sons = {1, 2}
        /\ local[x] # None /\ local[x].x # None
        /\ SonState(x, 1) = "closed" /\ SonState(x, 2) # "closed"
    BY <1>2, Begins DEF Waits, After, Running, Answers
  <2>2. Waits(Op(x), "CLOSE", "inner", 2, "CLOSE") /\ Asked(SonOf(plan, x, 2), "CLOSE")
    BY <2>1 DEF Waits, Asked, SonState
  <2>3. AtWork(x) /\ Running(x, "CLOSE", "inner")'
    BY <1>2, <2>1, Misuses, Called, Kept DEF Running
  <2>4. UNCHANGED <<answer, streams>> /\ Push(Son(2), "CLOSE", "inner")
    BY <1>2, <2>1 DEF Call
  <2> QED
    BY <2>1, <2>2, <2>3, <2>4, CallStep
<1>3. CASE /\ In("loopjoin", "CLOSE", "outer") /\ (local[n] = None \/ local[n].x = None)
           /\ KeepTuples /\ Set(None) /\ Return("OK", None)
  <2>1. /\ x \in Nodes /\ Op(x) = "loopjoin" /\ stack # << >> /\ "CLOSE" = Top.message
        /\ DOMAIN plan[x].sons = {1, 2}
        /\ SonState(x, 1) = "closed" /\ SonState(x, 2) = "closed"
    BY <1>3, Begins DEF Waits, After, Running, Answers
  <2>2. AtWork(x) /\ Idle(x)'
    BY <1>3, <2>1, Misuses, Returned, Changed DEF Idle, IdleClosed, After
  <2> QED
    BY <1>3, <2>1, <2>2, ReturnStep
<1>4. CASE /\ In("loopjoin", "CLOSE", "inner") /\ Delete(local[n].x)
           /\ Set(None) /\ Return("OK", None)
  <2>1. /\ x \in Nodes /\ Op(x) = "loopjoin" /\ stack # << >> /\ "CLOSE" = Top.message
        /\ DOMAIN plan[x].sons = {1, 2}
        /\ SonState(x, 1) = "closed" /\ SonState(x, 2) = "closed"
    BY <1>4, Begins DEF Waits, After, Running, Answers
  <2>2. AtWork(x) /\ Idle(x)'
    BY <1>4, <2>1, Misuses, Returned, Changed DEF Idle, IdleClosed, After
  <2> QED
    BY <1>4, <2>1, <2>2, ReturnStep
<1> QED
  BY <1>1, <1>2, <1>3, <1>4 DEF LoopjoinClose

LEMMA ConsumeKeeps ==
  ASSUME ProtocolInv, Consume
  PROVE  ProtocolInv'
<1> PICK x : x = n
  OBVIOUS
<1>1. CASE /\ In("consume", "OPEN", "start") /\ Call(Son(1), "OPEN", "opened")
           /\ KeepLocal /\ KeepTuples
  <2>1. /\ x \in Nodes /\ Op(x) = "consume" /\ stack # << >> /\ "OPEN" = Top.message
        /\ DOMAIN plan[x].sons = {1}
        /\ SonState(x, 1) = "closed"
    BY <1>1, Begins DEF Idle, IdleClosed, Asked
  <2>2. Waits(Op(x), "OPEN", "opened", 1, "OPEN") /\ Asked(SonOf(plan, x, 1), "OPEN")
    BY <2>1 DEF Waits, Asked, SonState
  <2>3. AtWork(x) /\ Running(x, "OPEN", "opened")'
    BY <1>1, <2>1, Misuses, Called, Kept DEF Running
  <2>4. UNCHANGED <<answer, streams>> /\ Push(Son(1), "OPEN", "opened")
    BY <1>1, <2>1 DEF Call
  <2> QED
    BY <2>1, <2>2, <2>3, <2>4, CallStep
<1>2. CASE /\ In("consume", "OPEN", "opened") /\ Call(Son(1), "REQUEST", "next")
           /\ KeepLocal /\ KeepTuples
  <2>1. /\ x \in Nodes /\ Op(x) = "consume" /\ stack # << >> /\ "OPEN" = Top.message
        /\ DOMAIN plan[x].sons = {1}
        /\ SonState(x, 1) = "open"
    BY <1>2, Begins DEF Waits, After, Running, Answers
  <2>2. Waits(Op(x), "OPEN", "next", 1, "REQUEST") /\ Asked(SonOf(plan, x, 1), "REQUEST")
    BY <2>1 DEF Waits, Asked, SonState
  <2>3. AtWork(x) /\ Running(x, "OPEN", "next")'
    BY <1>2, <2>1, Misuses, Called, Kept DEF Running
  <2>4. UNCHANGED <<answer, streams>> /\ Push(Son(1), "REQUEST", "next")
    BY <1>2, <2>1 DEF Call
  <2> QED
    BY <2>1, <2>2, <2>3, <2>4, CallStep
<1>3. CASE /\ In("consume", "OPEN", "next") /\ Yielded /\ Delete(answer.tuple) /\ KeepLocal
           /\ Push(Son(1), "REQUEST", "next") /\ UNCHANGED <<answer, streams, treeVars, endVars>>
  <2>1. /\ x \in Nodes /\ Op(x) = "consume" /\ stack # << >> /\ "OPEN" = Top.message
        /\ DOMAIN plan[x].sons = {1}
        /\ SonState(x, 1) = "open"
    BY <1>3, Begins DEF Waits, After, Running, Answers, Yielded
  <2>2. Waits(Op(x), "OPEN", "next", 1, "REQUEST") /\ Asked(SonOf(plan, x, 1), "REQUEST")
    BY <2>1 DEF Waits, Asked, SonState
  <2>3. AtWork(x) /\ Running(x, "OPEN", "next")'
    BY <1>3, <2>1, Misuses, Kept DEF Running, SonState, Op
  <2>4. UNCHANGED <<answer, streams>> /\ Push(Son(1), "REQUEST", "next")
    BY <1>3, <2>1
  <2> QED
    BY <2>1, <2>2, <2>3, <2>4, CallStep
<1>4. CASE /\ In("consume", "OPEN", "next") /\ ~Yielded /\ Call(Son(1), "CLOSE", "closed")
           /\ KeepLocal /\ KeepTuples
  <2>1. /\ x \in Nodes /\ Op(x) = "consume" /\ stack # << >> /\ "OPEN" = Top.message
        /\ DOMAIN plan[x].sons = {1}
        /\ SonState(x, 1) = "ended"
    BY <1>4, Begins DEF Waits, After, Running, Answers, Yielded
  <2>2. Waits(Op(x), "OPEN", "closed", 1, "CLOSE") /\ Asked(SonOf(plan, x, 1), "CLOSE")
    BY <2>1 DEF Waits, Asked, SonState
  <2>3. AtWork(x) /\ Running(x, "OPEN", "closed")'
    BY <1>4, <2>1, Misuses, Called, Kept DEF Running
  <2>4. UNCHANGED <<answer, streams>> /\ Push(Son(1), "CLOSE", "closed")
    BY <1>4, <2>1 DEF Call
  <2> QED
    BY <2>1, <2>2, <2>3, <2>4, CallStep
<1>5. CASE /\ In("consume", "OPEN", "closed") /\ Return("OK", None)
           /\ KeepLocal /\ KeepTuples
  <2>1. /\ x \in Nodes /\ Op(x) = "consume" /\ stack # << >> /\ "OPEN" = Top.message
        /\ DOMAIN plan[x].sons = {1}
        /\ SonState(x, 1) = "closed" /\ streams[x] = "closed" /\ local[x] = None
    BY <1>5, Begins, Locals DEF Waits, After, Running, Answers, Asked
  <2>2. plan' = plan /\ streams' = streams /\ UNCHANGED <<treeVars, endVars>>
    BY <1>5, <2>1 DEF Return, IsStream, Op, treeVars
  <2>3. AtWork(x) /\ local'[x] = local[x]
    BY <1>5, <2>1, <2>2, Misuses, Kept
  <2>4. Idle(x)'
    BY <2>1, <2>2, <2>3 DEF Idle, IdleClosed, SonState, Op
  <2> QED
    BY <1>5, <2>1, <2>3, <2>4, ReturnStep
<1> QED
  BY <1>1, <1>2, <1>3, <1>4, <1>5 DEF Consume

LEMMA CancelledKeeps ==
  ASSUME ProtocolInv, Cancelled
  PROVE  ProtocolInv'
<1> PICK x : x = n
  OBVIOUS
<1>1. /\ stack # << >> /\ "REQUEST" = Top.message /\ Top.at = "start" /\ Op(x) # "consume"
      /\ Return("CANCEL", None) /\ KeepLocal /\ KeepTuples
  BY DEF Cancelled, IsStream, Op, KeepLocal, KeepTuples
<1>2. x \in Nodes /\ Idle(x) /\ Asked(x, "REQUEST")
  BY <1>1, TopOf
<1>3. IsTree(plan) /\ DOMAIN plan[x].sons =
        CASE Op(x) = "feed" -> {}
          [] Op(x) \in {"filter", "head", "cancel", "consume"} -> {1}
          [] OTHER -> {1, 2}
  BY <1>2, SonsOf DEF ProtocolInv, ValuesOK
<1>4. /\ plan' = plan /\ Op(x)' = Op(x) /\ streams'[x] = "ended"
      /\ \A k \in DOMAIN plan[x].sons : SonState(x, k)' = SonState(x, k)
      /\ UNCHANGED <<treeVars, endVars>>
  BY <1>1, <1>2, Returned DEF After
<1>5. AtWork(x) /\ local'[x] = local[x] /\ argument'[x] = argument[x]
  BY <1>1, <1>2, <1>4, Misuses, Kept
<1>6. IdleOpened(x)
  BY <1>2 DEF Idle, Asked
<1>7. Op(x) \in {"filter", "head", "cancel", "concat", "product", "loopjoin"} =>
        SonState(x, 1)' = SonState(x, 1)
      /\ (Op(x) \in {"concat", "product", "loopjoin"} => SonState(x, 2)' = SonState(x, 2))
  BY <1>3, <1>4
<1>8. Idle(x)'
  BY <1>4, <1>5, <1>6, <1>7 DEF Idle, IdleOpened
<1> QED
  BY <1>1, <1>2, <1>5, <1>8, ReturnStep

LEMMA DestroyKeeps ==
  ASSUME ProtocolInv, Destroy
  PROVE  ProtocolInv'
<1> PICK d : d = destroyed + 1
  OBVIOUS
<1>1. /\ stack = << >> /\ destroyed' = d /\ stack' = LastMessages(d)
      /\ plan' = plan /\ argument' = argument /\ answer' = answer /\ local' = local
      /\ heap' = heap /\ misused' = misused /\ streams' = streams /\ userCancel' = userCancel
  BY DEF Destroy, treeVars
<1>2. /\ IsTree(plan) /\ Nodes = 1 .. Len(plan) /\ Len(plan) \in Nat
      /\ destroyed \in 0 .. Len(plan) /\ destroyed < Len(plan)
  BY NodesAndSons DEF ProtocolInv, ValuesOK, EndOK, Destroy
<1>3. d \in Nodes /\ d \in 1 .. Len(plan) /\ d # 0 /\ 1 .. d = (1 .. destroyed) \cup {d}
  BY <1>2
<1>4. \A x \in Nodes : streams[x] = "closed" /\ Idle(x)
  BY <1>1 DEF ProtocolInv, EndOK, QuietOK, OnStack
<1>5. \A x \in Nodes : Idle(x)' /\ (Op(x) # "head" => local[x] = None)
  BY <1>1, <1>4 DEF Idle, IdleClosed, Op, SonState
<1>6. \/ stack' = << >> /\ local[d] = None
      \/ stack' = <<Frame(d, "CLOSEPROGRESS")>> /\ Op(d) = "head"
  BY <1>1, <1>3, <1>5 DEF LastMessages, Op
<1>7. ValuesOK'
  <2>1. Frame(d, "CLOSEPROGRESS") \in Frames
    BY <1>3 DEF Frame, Frames, Places
  <2> PICK F : F = Frame(d, "CLOSEPROGRESS")
    OBVIOUS
  <2>2. stack' \in Seq(Frames)
    <3>1. F \in Frames /\ (stack' = << >> \/ stack' = <<F>>)
      BY <1>6, <2>1
    <3>2. << >> \in Seq(Frames) /\ <<F>> \in Seq(Frames)
      BY <3>1
    <3> QED
      BY <3>1, <3>2
  <2>3. Frames' = Frames /\ Nodes' = Nodes /\ \A x : Op(x)' = Op(x)
    BY <1>1 DEF Frames, Nodes, Op
  <2> QED
    BY <1>1, <2>2, <2>3 DEF ProtocolInv, ValuesOK
<1>8. Op(d)' = Op(d)
  BY <1>1 DEF Op
<1>9. CASE stack' = << >> /\ local[d] = None
  <2>1. PathOK' /\ FramesOK'
    <3>1. DOMAIN stack' = {}
      BY <1>9
    <3> QED
      BY <1>9, <3>1 DEF PathOK, FramesOK
  <2>2. QuietOK'
    BY <1>1, <1>5 DEF QuietOK, Nodes
  <2>3. EndOK'
    BY <1>1, <1>3, <1>4, <1>9 DEF ProtocolInv, EndOK, Nodes
  <2> QED
    BY <1>7, <2>1, <2>2, <2>3 DEF ProtocolInv
<1>10. CASE stack' = <<Frame(d, "CLOSEPROGRESS")>> /\ Op(d) = "head"
  <2> PICK F : F = Frame(d, "CLOSEPROGRESS")
    OBVIOUS
  <2>1. F.node = d /\ F.message = "CLOSEPROGRESS" /\ F.at = "start"
    BY DEF Frame
  <2>2. Len(stack') = 1 /\ stack'[1] = F /\ DOMAIN stack' = {1} /\ stack' # << >> /\ Top' = F
        /\ n' = d
    BY <1>10, <2>1 DEF Top, n
  <2>3. PathOK'
    BY <1>1, <1>3, <1>8, <1>10, <2>1, <2>2 DEF PathOK, Frame
  <2>4. FramesOK'
    <3>1. Asked(d, "CLOSEPROGRESS")'
      BY <1>1, <1>3, <1>4 DEF Asked
    <3> QED
      BY <1>3, <1>5, <2>1, <2>2, <3>1 DEF FramesOK
  <2>5. QuietOK'
    BY <1>1, <1>5 DEF QuietOK, Nodes
  <2>6. EndOK'
    BY <1>1, <1>3, <1>4, <2>2 DEF ProtocolInv, EndOK, Nodes
  <2> QED
    BY <1>7, <2>3, <2>4, <2>5, <2>6 DEF ProtocolInv
<1> QED
  BY <1>6, <1>9, <1>10

\* The signal of the user, and stuttering.
LEMMA NothingMoves ==
  ASSUME ProtocolInv, userCancel' \in BOOLEAN,
         UNCHANGED <<treeVars, stack, answer, local, heap, misused, streams, destroyed>>
  PROVE  ProtocolInv'
<1>1. /\ plan' = plan /\ argument' = argument /\ stack' = stack /\ answer' = answer
      /\ local' = local /\ heap' = heap /\ misused' = misused /\ streams' = streams
      /\ destroyed' = destroyed
  BY DEF treeVars
<1>2. /\ Nodes' = Nodes /\ Frames' = Frames /\ Top' = Top /\ n' = n
      /\ \A x : Op(x)' = Op(x) /\ (OnStack(x)' <=> OnStack(x)) /\ (Idle(x)' <=> Idle(x))
      /\ \A x, k : SonState(x, k)' = SonState(x, k)
  BY <1>1 DEF Nodes, Frames, Top, n, Op, OnStack, Idle, IdleClosed, IdleOpened, SonState
<1>3. ValuesOK'
  BY <1>1, <1>2 DEF ProtocolInv, ValuesOK
<1>4. PathOK'
  BY <1>1, <1>2 DEF ProtocolInv, PathOK
<1>5. FramesOK'
  <2>1. \A x, m, at : (Running(x, m, at)' <=> Running(x, m, at)) /\ (Asked(x, m)' <=> Asked(x, m))
    BY <1>1 DEF Running, Asked, Op, SonState
  <2>2. Answered(Top)' <=> Answered(Top)
    BY <1>1 DEF Answered, Answers, Op, SonState, Top
  <2> QED
    BY <1>1, <1>2, <2>1, <2>2 DEF ProtocolInv, FramesOK
<1>6. QuietOK'
  BY <1>1, <1>2 DEF ProtocolInv, QuietOK
<1>7. EndOK'
  BY <1>1, <1>2 DEF ProtocolInv, EndOK
<1> QED
  BY <1>3, <1>4, <1>5, <1>6, <1>7 DEF ProtocolInv

LEMMA ProtocolInit ==
  ASSUME Init
  PROVE  ProtocolInv
<1> PICK F : F = Frame(1, "OPEN")
  OBVIOUS
<1>1. /\ plan \in Plans /\ stack = <<F>> /\ destroyed = 0 /\ misused = FALSE
      /\ userCancel = FALSE /\ answer = [status |-> "OK", tuple |-> None]
      /\ local = [node \in Nodes |-> None] /\ argument = [node \in Nodes |-> None]
      /\ heap = << >> /\ streams = [node \in Nodes |-> "closed"]
  BY DEF Init
<1>2. IsTree(plan)
  BY <1>1, TreeAssumption
<1>3. 1 \in Nodes /\ Nodes = 1 .. Len(plan) /\ Len(plan) \in Nat
      /\ \A x \in Nodes : \A k \in DOMAIN plan[x].sons : SonOf(plan, x, k) \in Nodes
  BY <1>2, NodesAndSons
<1>4. /\ F \in Frames /\ F.node = 1 /\ F.message = "OPEN" /\ F.at = "start"
      /\ DOMAIN stack = {1} /\ stack[1] = F /\ Len(stack) = 1 /\ Top = F /\ n = 1
      /\ stack # << >> /\ stack \in Seq(Frames)
  <2>1. F \in Frames /\ F.node = 1 /\ F.message = "OPEN" /\ F.at = "start"
    BY <1>3 DEF Frame, Frames, Places
  <2> QED
    BY <1>1, <2>1 DEF Top, n
<1>5. \A x \in Nodes : Idle(x)
  BY <1>1, <1>3 DEF Idle, IdleClosed, SonState
<1>6. IsFiniteSet(DOMAIN heap)
  <2>1. DOMAIN heap = {}
    BY <1>1
  <2> QED
    BY <2>1, FS_EmptySet
<1>7. ValuesOK
  BY <1>1, <1>2, <1>4, <1>6 DEF ValuesOK
<1>8. PathOK
  BY <1>1, <1>4 DEF PathOK
<1>9. FramesOK
  BY <1>1, <1>3, <1>4, <1>5 DEF FramesOK, Asked
<1>10. QuietOK
  BY <1>5 DEF QuietOK
<1>11. EndOK
  BY <1>1, <1>3, <1>4 DEF EndOK
<1> QED
  BY <1>7, <1>8, <1>9, <1>10, <1>11 DEF ProtocolInv

LEMMA ProtocolStep ==
  ASSUME ProtocolInv, [Next]_vars
  PROVE  ProtocolInv'
<1>1. CASE Step
  BY <1>1, FeedKeeps, FilterKeeps, HeadKeeps, CancelKeeps, ConcatKeeps, ProductOpenKeeps,
     ProductRequestKeeps, ProductCloseKeeps, LoopjoinOpenKeeps, LoopjoinRequestKeeps,
     LoopjoinCloseKeeps, ConsumeKeeps, CancelledKeeps, DestroyKeeps DEF Step
<1>2. CASE UserCancels
  BY <1>2, NothingMoves DEF UserCancels
<1>3. CASE UNCHANGED vars
  <2>1. userCancel' \in BOOLEAN
    BY <1>3 DEF vars, endVars, ProtocolInv, ValuesOK
  <2> QED
    BY <1>3, <2>1, NothingMoves DEF vars, endVars, treeVars
<1> QED
  BY <1>1, <1>2, <1>3 DEF Next

(* The operators, their streams and the calls fit together after every step. *)
THEOREM ProtocolAlways == Spec => []ProtocolInv
<1>1. Init => ProtocolInv
  BY ProtocolInit
<1>2. ProtocolInv /\ [Next]_vars => ProtocolInv'
  BY ProtocolStep
<1> QED
  BY <1>1, <1>2, PTL DEF Spec

(* For every query: a stream is opened when it is closed, asked for a tuple *)
(* when it is open and has not answered CANCEL, and closed once after it    *)
(* was opened, by the operators, the user and Destroy alike.                *)
THEOREM ProtocolCorrect == Spec => []RequestsOpened
<1>1. ProtocolInv => RequestsOpened
  <2> SUFFICES ASSUME ProtocolInv, stack # << >>, Top.at = "start", IsStream(n)
               PROVE  Asked(n, Top.message)
    BY DEF RequestsOpened, Asked
  <2> QED
    BY TopOf
<1> QED
  BY <1>1, ProtocolAlways, PTL

-----------------------------------------------------------------------------
(* The tuples.                                                             *)

LEMMA WithoutFine ==
  ASSUME NEW h, NEW t, HeapFine(h)
  PROVE  HeapFine(Without(h, t)) /\ DOMAIN Without(h, t) = DOMAIN h \ {t}
<1>1. CASE t \notin DOMAIN h
  BY <1>1 DEF Without
<1>2. CASE t \in DOMAIN h
  <2>1. ~(h[t].refs > 1)
    BY <1>2 DEF HeapFine
  <2>2. Without(h, t) = [u \in DOMAIN h \ {t} |-> h[u]]
    BY <1>2, <2>1 DEF Without
  <2>3. IsFiniteSet(DOMAIN h \ {t})
    BY FS_Difference DEF HeapFine
  <2> QED
    BY <2>2, <2>3 DEF HeapFine
<1> QED
  BY <1>1, <1>2

LEMMA WithFine ==
  ASSUME NEW h, NEW value, HeapFine(h)
  PROVE  /\ HeapFine(With(h, value)) /\ DOMAIN With(h, value) = DOMAIN h \cup {Fresh(h)}
         /\ Fresh(h) \in Tuples /\ Fresh(h) \notin DOMAIN h /\ Fresh(h) # None
<1>1. Fresh(h) \in Tuples /\ Fresh(h) \notin DOMAIN h /\ Fresh(h) # None
  BY FreshAddress DEF HeapFine
<1> PICK u : u = Fresh(h)
  OBVIOUS
<1>2. IsFiniteSet(DOMAIN h \cup {u})
  BY FS_AddElement DEF HeapFine
<1>3. With(h, value) = [t \in DOMAIN h \cup {u} |->
                          IF t = u THEN [value |-> value, refs |-> 1] ELSE h[t]]
  BY DEF With
<1> QED
  BY <1>1, <1>2, <1>3 DEF HeapFine

\* A sequence without repetitions has every tuple at one place.
LEMMA AllDeleted ==
  ASSUME NEW s \in Seq(Tuples), \A i, j \in DOMAIN s : s[i] = s[j] => i = j,
         HeapFine(heap), Range(s) \subseteq DOMAIN heap, DeleteAll(s)
  PROVE  /\ HeapFine(heap') /\ DOMAIN heap' = DOMAIN heap \ Range(s)
         /\ ~misused => ~misused'
<1> DEFINE places(t) == {i \in DOMAIN s : s[i] = t}
           rest == {t \in DOMAIN heap : heap[t].refs > Cardinality(places(t))}
<1>1. ASSUME NEW t
      PROVE  /\ t \in Range(s) => Cardinality(places(t)) = 1
             /\ t \notin Range(s) => Cardinality(places(t)) = 0
  <2>1. CASE t \in Range(s)
    <3>1. PICK i \in DOMAIN s : s[i] = t
      BY <2>1 DEF Range
    <3>2. places(t) = {i}
      BY <3>1
    <3> QED
      BY <2>1, <3>2, FS_Singleton
  <2>2. CASE t \notin Range(s)
    <3>1. places(t) = {}
      BY <2>2 DEF Range
    <3> QED
      BY <2>2, <3>1, FS_EmptySet
  <2> QED
    BY <2>1, <2>2
<1>2. /\ heap' = [t \in rest |-> [heap[t] EXCEPT !.refs = @ - Cardinality(places(t))]]
      /\ misused' = (misused \/ \E t \in Range(s) :
                       t \notin DOMAIN heap \/ Cardinality(places(t)) > heap[t].refs)
  BY DEF DeleteAll, Live
<1> HIDE DEF places
<1>3. \A t \in DOMAIN heap : heap[t] = [value |-> heap[t].value, refs |-> 1]
  BY DEF HeapFine
<1>4. rest = DOMAIN heap \ Range(s)
  BY <1>1, <1>3
<1>5. \A t \in rest : [heap[t] EXCEPT !.refs = @ - Cardinality(places(t))] = heap[t]
  <2> TAKE t \in rest
  <2>1. Cardinality(places(t)) = 0
    BY <1>1, <1>4
  <2>2. PICK v : heap[t] = [value |-> v, refs |-> 1]
    BY <1>3
  <2>3. [[value |-> v, refs |-> 1] EXCEPT !.refs = 1 - 0] = [value |-> v, refs |-> 1]
    OBVIOUS
  <2> QED
    BY <2>1, <2>2, <2>3
<1>6. IsFiniteSet(DOMAIN heap \ Range(s))
  BY FS_Difference DEF HeapFine
<1>7. heap' = [t \in DOMAIN heap \ Range(s) |-> heap[t]]
  <2>1. heap' = [t \in rest |-> [heap[t] EXCEPT !.refs = @ - Cardinality(places(t))]]
    BY <1>2
  <2> HIDE DEF rest
  <2> QED
    BY <2>1, <1>4, <1>5
<1>8. ~misused => ~misused'
  <2>1. \A t \in Range(s) : t \in DOMAIN heap /\ ~(Cardinality(places(t)) > heap[t].refs)
    BY <1>1, <1>3
  <2> QED
    BY <1>2, <2>1
<1> QED
  BY <1>3, <1>6, <1>7, <1>8 DEF HeapFine

LEMMA StackNodes ==
  ASSUME ProtocolInv, stack # << >>
  PROVE  /\ Len(stack) \in Nat \ {0} /\ DOMAIN stack = 1 .. Len(stack) /\ Top = stack[1]
         /\ 1 \in DOMAIN stack /\ n \in Nodes /\ Nodes \subseteq Nat
         /\ \A i \in DOMAIN stack : stack[i].node \in Nodes
         /\ \A i \in DOMAIN stack : i # 1 => i \in 2 .. Len(stack) /\ stack[i].node < n
<1>1. ValuesOK /\ PathOK /\ IsTree(plan)
  BY DEF ProtocolInv, ValuesOK
<1>2. /\ Len(stack) \in Nat \ {0} /\ DOMAIN stack = 1 .. Len(stack) /\ Top = stack[1]
      /\ \A i \in 1 .. Len(stack) : stack[i].node \in Nodes
      /\ \A i \in 2 .. Len(stack) : stack[i].node < n
  BY <1>1, StackShape
<1>3. Nodes \subseteq Nat
  BY <1>1, NodesAndSons
<1>4. \A i \in 1 .. Len(stack) : i # 1 => i \in 2 .. Len(stack)
  BY <1>2
<1>5. 1 \in 1 .. Len(stack)
  BY <1>2
<1> QED
  BY <1>2, <1>3, <1>4, <1>5 DEF n

\* Frames other than that of the operator at the top stay in their place.
LEMMA Placed ==
  ASSUME ProtocolInv, stack # << >>, NEW x, x = n
  PROVE  /\ Passing(x) <=> Top.at = "function"
         /\ Stale(x) <=> Top.message = "REQUEST" /\ Top.at = "outer"
<1>1. /\ 1 \in DOMAIN stack /\ Top = stack[1]
      /\ \A i \in DOMAIN stack : i # 1 => stack[i].node < n
      /\ \A i \in DOMAIN stack : stack[i].node \in Nat
  BY StackNodes
<1>2. \A i \in DOMAIN stack : stack[i].node = x <=> i = 1
  BY <1>1 DEF n
<1> QED
  BY <1>1, <1>2 DEF Passing, Stale

LEMMA CallPlaces ==
  ASSUME ProtocolInv, stack # << >>, NEW x, x = n, NEW k \in DOMAIN plan[x].sons,
         NEW m \in {"OPEN", "REQUEST", "CLOSE"}, NEW at \in Places, Push(Son(k), m, at)
  PROVE  /\ \A y \in Nodes \ {x} : (Passing(y)' <=> Passing(y)) /\ (Stale(y)' <=> Stale(y))
         /\ Passing(x)' <=> at = "function"
         /\ Stale(x)' <=> Top.message = "REQUEST" /\ at = "outer"
<1> PICK F : F = Frame(Son(k), m)
  OBVIOUS
<1> PICK G : G = [Top EXCEPT !.at = at]
  OBVIOUS
<1>1. /\ Len(stack) \in Nat \ {0} /\ DOMAIN stack = 1 .. Len(stack) /\ Top = stack[1]
      /\ \A i \in 1 .. Len(stack) : stack[i] \in Frames /\ stack[i].node \in Nodes
      /\ \A i \in 2 .. Len(stack) : stack[i].node < n
      /\ Son(k) \in Nodes /\ Son(k) > n /\ n \in Nodes /\ Nodes \subseteq Nat
  BY StackShape, NodesAndSons, TopOf DEF ProtocolInv, ValuesOK, Son
<1>2. /\ F \in Frames /\ F.node = Son(k) /\ F.message = m /\ F.at = "start"
      /\ G \in Frames /\ G.node = n /\ G.message = Top.message /\ G.at = at
  BY <1>1 DEF Frame, Frames, Places, n
<1>3. /\ stack' \in Seq(Frames) /\ Len(stack') = Len(stack) + 1
      /\ stack'[1] = F /\ stack'[2] = G
      /\ \A i \in 2 .. Len(stack) : stack'[i + 1] = stack[i]
  <2>1. stack' = <<F, G>> \o Tail(stack) /\ stack \in Seq(Frames)
    BY DEF Push, ProtocolInv, ValuesOK
  <2> QED
    BY <1>2, <2>1, Pushed
<1>4. DOMAIN stack' = 1 .. Len(stack) + 1
  BY <1>1, <1>3
<1>5. \A i \in DOMAIN stack' : i = 1 \/ i = 2 \/ (i - 1 \in 2 .. Len(stack) /\ stack'[i] = stack[i - 1])
  BY SMTT(40), <1>1, <1>3, <1>4
<1>6. \A i \in 2 .. Len(stack) : i + 1 \in DOMAIN stack' /\ stack'[i + 1] = stack[i]
  BY <1>1, <1>3, <1>4
<1>7. /\ F.at = "start" /\ F.node \in Nat /\ F.node > x /\ x \in Nat
      /\ G.node = x /\ G.message = Top.message /\ G.at = at
      /\ \A i \in 2 .. Len(stack) : stack[i].node \in Nat /\ stack[i].node < x
  BY <1>1, <1>2
<1>8. ASSUME NEW i \in DOMAIN stack'
      PROVE  \/ i = 1 /\ stack'[i] = F
             \/ i = 2 /\ stack'[i] = G
             \/ i # 2 /\ \E j \in 2 .. Len(stack) : stack'[i] = stack[j]
  BY <1>3, <1>5
<1>9. 2 \in DOMAIN stack'
  BY <1>1, <1>4
<1>10. \A i \in 2 .. Len(stack) : i \in DOMAIN stack
  BY <1>1
<1>11. ASSUME NEW y \in Nodes \ {x}
       PROVE  (Passing(y)' <=> Passing(y)) /\ (Stale(y)' <=> Stale(y))
  <2>1. \A i \in DOMAIN stack' : stack'[i].node = y /\ stack'[i].at # "start" =>
          \E j \in DOMAIN stack : stack[j] = stack'[i]
    BY <1>7, <1>8, <1>10
  <2>2. \A i \in DOMAIN stack : stack[i].node = y =>
          \E j \in DOMAIN stack' : stack[i] = stack'[j]
    BY <1>1, <1>6 DEF n
  <2> QED
    BY <2>1, <2>2 DEF Passing, Stale
<1>12. \A i \in DOMAIN stack' : stack'[i].node = x => stack'[i] = G
  BY <1>7, <1>8
<1>13. stack'[2] = G
  BY <1>3
<1>14. Passing(x)' <=> at = "function"
  BY <1>7, <1>9, <1>12, <1>13 DEF Passing
<1>15. Stale(x)' <=> Top.message = "REQUEST" /\ at = "outer"
  BY <1>7, <1>9, <1>12, <1>13 DEF Stale
<1> QED
  BY <1>11, <1>14, <1>15

LEMMA ReturnPlaces ==
  ASSUME ProtocolInv, stack # << >>, NEW x, x = n, stack' = Tail(stack)
  PROVE  /\ \A y \in Nodes \ {x} : (Passing(y)' <=> Passing(y)) /\ (Stale(y)' <=> Stale(y))
         /\ ~Passing(x)' /\ ~Stale(x)'
<1>1. /\ Len(stack) \in Nat \ {0} /\ DOMAIN stack = 1 .. Len(stack) /\ Top = stack[1]
      /\ \A i \in 2 .. Len(stack) : stack[i].node < n
      /\ \A i \in DOMAIN stack : stack[i].node \in Nat /\ stack[i].node = n <=> i = 1
      /\ \A i \in 1 .. Len(stack) : i = 1 \/ i \in 2 .. Len(stack)
  BY StackNodes DEF n
<1>2. /\ Len(stack') = Len(stack) - 1 /\ DOMAIN stack' = 1 .. Len(stack) - 1
      /\ \A i \in 1 .. Len(stack) - 1 : stack'[i] = stack[i + 1]
  <2>1. stack \in Seq(Frames)
    BY DEF ProtocolInv, ValuesOK
  <2>2. /\ Tail(stack) \in Seq(Frames) /\ Len(Tail(stack)) = Len(stack) - 1
        /\ \A i \in 1 .. Len(stack) - 1 : Tail(stack)[i] = stack[i + 1]
    BY <2>1, Popped
  <2> QED
    BY <2>2
<1>3. \A i \in DOMAIN stack' : i + 1 \in 2 .. Len(stack) /\ stack'[i] = stack[i + 1]
  BY <1>1, <1>2
<1>4. \A i \in 2 .. Len(stack) : i - 1 \in DOMAIN stack' /\ stack'[i - 1] = stack[i]
  <2> TAKE i \in 2 .. Len(stack)
  <2>1. i - 1 \in 1 .. Len(stack) - 1 /\ (i - 1) + 1 = i
    BY <1>1
  <2> QED
    BY <1>2, <2>1
<1>5. ASSUME NEW y \in Nodes \ {x}
      PROVE  (Passing(y)' <=> Passing(y)) /\ (Stale(y)' <=> Stale(y))
  <2>1. \A i \in DOMAIN stack' : \E j \in DOMAIN stack : stack[j] = stack'[i]
    BY <1>1, <1>3
  <2>2. \A i \in DOMAIN stack : stack[i].node = y =>
          \E j \in DOMAIN stack' : stack[i] = stack'[j]
    BY <1>1, <1>4 DEF n
  <2> QED
    BY <2>1, <2>2 DEF Passing, Stale
<1>6. \A i \in DOMAIN stack' : stack'[i].node # x
  BY SMTT(40), <1>1, <1>3
<1> QED
  BY <1>5, <1>6 DEF Passing, Stale

\* After a step of x the others have what they had, and x and the answer have
\* some of what they had and perhaps a new tuple.
LEMMA Shared ==
  ASSUME OneHolder, NEW x \in Nodes, HeapFine(heap'), Nodes' = Nodes,
         \A y \in Nodes \ {x} : Has(y)' = Has(y) /\ (Distinct(y)' <=> Distinct(y)),
         Distinct(x)', Given' \cap Has(x)' = {},
         Given' \cup Has(x)' \subseteq Given \cup Has(x) \cup (Tuples \ DOMAIN heap),
         DOMAIN heap' = (DOMAIN heap \ (Given \cup Has(x))) \cup Given' \cup Has(x)'
  PROVE  OneHolder'
<1> DEFINE has == [y \in Nodes |-> Has(y)]
           hasAfter == [y \in Nodes |-> Has(y)']
           H == DOMAIN heap
           HAfter == DOMAIN heap'
           G == Given
           GAfter == Given'
<1>1. /\ H = G \cup UNION {has[y] : y \in Nodes}
      /\ \A y \in Nodes : G \cap has[y] = {}
      /\ \A y, z \in Nodes : y # z => has[y] \cap has[z] = {}
      /\ \A y \in Nodes \ {x} : hasAfter[y] = has[y]
      /\ GAfter \cap hasAfter[x] = {}
      /\ GAfter \cup hasAfter[x] \subseteq G \cup has[x] \cup (Tuples \ H)
      /\ HAfter = (H \ (G \cup has[x])) \cup GAfter \cup hasAfter[x]
  BY DEF OneHolder
<1>2. \A y \in Nodes : Distinct(y)'
  BY DEF OneHolder
<1>3. hasAfter = [y \in Nodes |-> hasAfter[y]] /\ \A y \in Nodes : hasAfter[y] = Has(y)'
  OBVIOUS
<1> HIDE DEF has, hasAfter, H, HAfter, G, GAfter
<1>4. \A y \in Nodes \ {x} : \A t \in has[y] : t \in H /\ t \notin G \cup has[x]
  BY <1>1
<1>5. \A y \in Nodes : GAfter \cap hasAfter[y] = {}
  BY <1>1, <1>4
<1>6. \A y, z \in Nodes : y # z => hasAfter[y] \cap hasAfter[z] = {}
  BY <1>1, <1>4
<1>7. \A t : t \in HAfter <=> t \in GAfter \/ \E y \in Nodes : t \in hasAfter[y]
  <2> TAKE t
  <2>1. CASE t \in GAfter \/ t \in hasAfter[x]
    BY <1>1, <2>1
  <2>2. CASE t \notin GAfter /\ t \notin hasAfter[x]
    <3>1. t \in HAfter <=> t \in H /\ t \notin G /\ t \notin has[x]
      BY <1>1, <2>2
    <3>2. t \in H /\ t \notin G /\ t \notin has[x] <=> \E y \in Nodes \ {x} : t \in has[y]
      BY <1>1, <1>4
    <3>3. (\E y \in Nodes \ {x} : t \in has[y]) <=> \E y \in Nodes \ {x} : t \in hasAfter[y]
      BY <1>1
    <3> QED
      BY <2>2, <3>1, <3>2, <3>3
  <2> QED
    BY <2>1, <2>2
<1>8. HAfter = GAfter \cup UNION {hasAfter[y] : y \in Nodes}
  BY <1>7
<1>9. \A y \in Nodes : hasAfter[y] = Has(y)'
  BY <1>3
<1>10. HAfter = DOMAIN heap' /\ GAfter = Given'
  BY DEF HAfter, GAfter
<1>11. DOMAIN heap' = Given' \cup UNION {Has(y)' : y \in Nodes}
  BY <1>8, <1>9, <1>10
<1> QED
  BY <1>2, <1>5, <1>6, <1>9, <1>10, <1>11 DEF OneHolder

LEMMA ScopeCalls ==
  ASSUME ProtocolInv, ScopeOK, stack # << >>, NEW x, x = n, plan' = plan,
         NEW k \in DOMAIN plan[x].sons, NEW m, NEW at, Push(Son(k), m, at),
         Waits(Op(x), Top.message, at, k, m)
  PROVE  ScopeOK'
<1> PICK F : F = Frame(Son(k), m)
  OBVIOUS
<1> PICK G : G = [Top EXCEPT !.at = at]
  OBVIOUS
<1>1. /\ Len(stack) \in Nat \ {0} /\ DOMAIN stack = 1 .. Len(stack) /\ Top = stack[1]
      /\ 1 \in DOMAIN stack /\ x \in Nodes /\ Nodes \subseteq Nat /\ Top \in Frames
      /\ IsTree(plan) /\ stack \in Seq(Frames)
  BY StackNodes, TopOf DEF ProtocolInv, ValuesOK
<1>2. m \in {"OPEN", "REQUEST", "CLOSE"} /\ at \in Places
  BY DEF Waits, Places
<1>3. /\ F \in Frames /\ F.node = SonOf(plan, x, k) /\ F.message = m
      /\ G \in Frames /\ G.node = x /\ G.message = Top.message /\ G.at = at
  BY <1>1, <1>2, NodesAndSons DEF Frame, Frames, Places, n, Son
<1>4. /\ stack' \in Seq(Frames) /\ Len(stack') = Len(stack) + 1
      /\ stack'[1] = F /\ stack'[2] = G
      /\ \A i \in 2 .. Len(stack) : stack'[i + 1] = stack[i]
  <2>1. stack' = <<F, G>> \o Tail(stack)
    BY DEF Push
  <2> QED
    BY <1>1, <1>3, <2>1, Pushed
<1>5. /\ DOMAIN stack' = 1 .. Len(stack) + 1 /\ 2 \in DOMAIN stack'
      /\ \A i \in 2 .. Len(stack) : i \in DOMAIN stack /\ i + 1 \in DOMAIN stack' /\ i + 1 > i
      /\ \A i \in DOMAIN stack : i > 1 => i \in 2 .. Len(stack)
      /\ \A i \in DOMAIN stack' : i = 1 \/ i = 2 \/ (i - 1 \in 2 .. Len(stack) /\ (i - 1) + 1 = i)
  BY <1>1, <1>4
<1> DEFINE Serves(s, j, y) == /\ s[j].node = y /\ s[j].message \in {"OPEN", "REQUEST"}
                              /\ s[j].at \in {"function", "inner"}
<1>6. ASSUME NEW i \in 2 .. Len(stack), NEW y, NEW j \in DOMAIN stack, j > i, Serves(stack, j, y)
      PROVE  \E l \in DOMAIN stack' : l > i + 1 /\ Serves(stack', l, y)
  <2>1. j \in 2 .. Len(stack) /\ j + 1 > i + 1
    BY <1>1, <1>6
  <2> QED
    BY <1>4, <1>5, <1>6, <2>1
<1>7. ASSUME NEW y, NEW j \in DOMAIN stack, j > 1, Serves(stack, j, y)
      PROVE  \E l \in DOMAIN stack' : l > 2 /\ Serves(stack', l, y)
  <2>1. j \in 2 .. Len(stack) /\ j + 1 > 2
    BY <1>1, <1>7
  <2> QED
    BY <1>4, <1>5, <1>7, <2>1
<1>8. ASSUME NEW i \in DOMAIN stack, plan[stack[i].node].scope # 0,
             stack[i].message \in {"OPEN", "REQUEST"}
      PROVE  \E j \in DOMAIN stack : j > i /\ Serves(stack, j, stack[i].node - plan[stack[i].node].scope)
  BY <1>8 DEF ScopeOK
<1> SUFFICES ASSUME NEW i \in DOMAIN stack', plan[stack'[i].node].scope # 0,
                    stack'[i].message \in {"OPEN", "REQUEST"}
             PROVE  \E j \in DOMAIN stack' :
                      j > i /\ Serves(stack', j, stack'[i].node - plan[stack'[i].node].scope)
  BY DEF ScopeOK
<1>9. CASE i \notin {1, 2}
  <2>1. i - 1 \in 2 .. Len(stack) /\ (i - 1) + 1 = i /\ stack'[i] = stack[i - 1]
    BY <1>4, <1>5, <1>9
  <2> QED
    BY SMTT(40), <1>5, <1>6, <1>8, <2>1
<1>10. CASE i = 2
  <2>1. stack'[i].node = stack[1].node /\ stack'[i].message = stack[1].message
    BY <1>1, <1>3, <1>4, <1>10 DEF n
  <2> QED
    BY <1>1, <1>7, <1>8, <1>10, <2>1
<1>11. CASE i = 1
  <2>1. stack'[i] = F /\ plan[F.node].scope # 0 /\ m \in {"OPEN", "REQUEST"}
    BY <1>3, <1>4, <1>11
  <2>2. plan[F.node].scope = ScopeOfSon(plan[x], k)
    BY <1>1, <1>3 DEF IsTree, Nodes
  <2>3. CASE Op(x) = "loopjoin" /\ k = 2
    <3>1. plan[F.node].scope = plan[x].sons[2] /\ F.node - plan[F.node].scope = x
      <4>1. plan[x].sons[k] \in Nat
        BY <1>1 DEF IsTree, Nodes
      <4>2. plan[F.node].scope = plan[x].sons[2]
        BY <2>2, <2>3 DEF ScopeOfSon, Op
      <4>3. F.node = x + plan[x].sons[2]
        BY <1>3, <2>3 DEF SonOf
      <4> QED
        BY <1>1, <2>3, <4>1, <4>2, <4>3
    <3>2. at \in {"function", "inner"} /\ Top.message \in {"OPEN", "REQUEST"}
      BY <2>1, <2>3 DEF Waits
    <3>3. Serves(stack', 2, x)
      BY <1>3, <1>4, <3>2
    <3> QED
      BY SMTT(40), <1>5, <1>11, <2>1, <3>1, <3>3
  <2>4. CASE ~(Op(x) = "loopjoin" /\ k = 2)
    <3>1. /\ plan[x].scope # 0 /\ plan[x].scope \in Nat /\ plan[x].sons[k] \in Nat
          /\ plan[F.node].scope = plan[x].scope + plan[x].sons[k]
      BY <1>1, <2>1, <2>2, <2>4 DEF ScopeOfSon, Op, IsTree, Nodes
    <3>2. F.node - plan[F.node].scope = x - plan[x].scope
      BY <1>1, <1>3, <3>1 DEF SonOf
    <3>3. Top.message \in {"OPEN", "REQUEST"}
      BY <2>1 DEF Waits
    <3>4. stack[1].node = x
      BY <1>1 DEF n
    <3>5. PICK j \in DOMAIN stack : j > 1 /\ Serves(stack, j, x - plan[x].scope)
      <4>1. stack[1].message = Top.message
        BY <1>1
      <4> QED
        BY <1>1, <1>8, <3>1, <3>3, <3>4, <4>1
    <3>6. PICK l \in DOMAIN stack' : l > 2 /\ Serves(stack', l, x - plan[x].scope)
      BY <1>7, <3>5
    <3>7. l > 1
      BY <1>5, <3>6
    <3> QED
      BY <1>11, <2>1, <3>2, <3>6, <3>7
  <2> QED
    BY <2>3, <2>4
<1> QED
  BY <1>9, <1>10, <1>11

LEMMA ScopeReturns ==
  ASSUME ProtocolInv, ScopeOK, stack # << >>, plan' = plan, stack' = Tail(stack)
  PROVE  ScopeOK'
<1>1. stack \in Seq(Frames)
  BY DEF ProtocolInv, ValuesOK
<1>2. /\ Len(stack) \in Nat \ {0} /\ DOMAIN stack = 1 .. Len(stack)
      /\ DOMAIN stack' = 1 .. Len(stack) - 1
      /\ \A i \in 1 .. Len(stack) - 1 : stack'[i] = stack[i + 1]
  <2>1. /\ Tail(stack) \in Seq(Frames) /\ Len(Tail(stack)) = Len(stack) - 1
        /\ \A i \in 1 .. Len(stack) - 1 : Tail(stack)[i] = stack[i + 1]
        /\ Len(stack) \in Nat \ {0}
    BY <1>1, Popped
  <2> QED
    BY <1>1, <2>1
<1> DEFINE Serves(s, j, y) == /\ s[j].node = y /\ s[j].message \in {"OPEN", "REQUEST"}
                              /\ s[j].at \in {"function", "inner"}
<1> SUFFICES ASSUME NEW i \in DOMAIN stack', plan[stack'[i].node].scope # 0,
                    stack'[i].message \in {"OPEN", "REQUEST"}
             PROVE  \E j \in DOMAIN stack' :
                      j > i /\ Serves(stack', j, stack'[i].node - plan[stack'[i].node].scope)
  BY DEF ScopeOK
<1>3. i + 1 \in DOMAIN stack /\ stack'[i] = stack[i + 1]
  BY <1>2
<1>4. PICK j \in DOMAIN stack :
        j > i + 1 /\ Serves(stack, j, stack'[i].node - plan[stack'[i].node].scope)
  BY <1>3 DEF ScopeOK
<1>5. j - 1 \in DOMAIN stack' /\ j - 1 > i /\ stack'[j - 1] = stack[j]
  <2>1. j - 1 \in 1 .. Len(stack) - 1 /\ (j - 1) + 1 = j /\ j - 1 > i
    BY <1>2, <1>4
  <2> QED
    BY <1>2, <2>1
<1> QED
  BY <1>4, <1>5

\* When the operator above has answered, the one below is at work on it.
LEMMA GivenReturns ==
  ASSUME ProtocolInv, stack # << >>, stack' = Tail(stack), NEW status, NEW tuple,
         answer' = [status |-> status, tuple |-> tuple],
         status = "YIELD" => Top.message = "REQUEST"
  PROVE  Given' = IF status = "YIELD" THEN {tuple} ELSE {}
<1>1. answer'.status = status /\ answer'.tuple = tuple /\ (Yielded' <=> status = "YIELD")
  BY DEF Yielded
<1>2. stack \in Seq(Frames) /\ ValuesOK /\ PathOK
  BY DEF ProtocolInv, ValuesOK
<1>3. /\ Len(stack) \in Nat \ {0} /\ DOMAIN stack = 1 .. Len(stack) /\ Top = stack[1]
      /\ stack' # << >> => Head(stack') = stack[2] /\ Len(stack) > 1
      /\ stack' = << >> <=> Len(stack) = 1
  BY <1>2, Popped DEF Top
<1>4. CASE stack' = << >>
  <2>1. Len(stack) = 1
    BY <1>3, <1>4
  <2>2. Top.message # "REQUEST"
    <3>1. Top = stack[Len(stack)]
      BY <1>3, <2>1
    <3> QED
      BY <1>2, <3>1 DEF PathOK, Frame
  <2>3. Given' = {}
    BY <1>4 DEF Given
  <2> QED
    BY <2>2, <2>3
<1>5. CASE stack' # << >>
  <2>1. 2 \in 2 .. Len(stack)
    BY <1>3, <1>5
  <2>2. stack[2].at # "start"
    BY <1>2, <2>1, StackShape, WaitsAt
  <2>3. Top' = stack[2]
    BY <1>3, <1>5 DEF Top
  <2> QED
    BY <1>1, <1>5, <2>2, <2>3 DEF Given
<1> QED
  BY <1>4, <1>5

LEMMA GivenCalls ==
  ASSUME ProtocolInv, stack # << >>, NEW k \in DOMAIN plan[n].sons,
         NEW m \in {"OPEN", "REQUEST", "CLOSE"}, NEW at \in Places, Push(Son(k), m, at)
  PROVE  Given' = {}
<1> PICK F : F = Frame(Son(k), m)
  OBVIOUS
<1> PICK G : G = [Top EXCEPT !.at = at]
  OBVIOUS
<1>1. Top \in Frames /\ n \in Nodes /\ IsTree(plan) /\ stack \in Seq(Frames)
  BY TopOf DEF ProtocolInv, ValuesOK
<1>2. F \in Frames /\ F.at = "start" /\ G \in Frames
  BY <1>1, NodesAndSons DEF Frame, Frames, Places, Son
<1>3. stack' = <<F, G>> \o Tail(stack)
  BY DEF Push
<1>4. Head(stack') = F
  BY <1>1, <1>2, <1>3, Pushed
<1> QED
  BY <1>2, <1>4 DEF Given, Top

\* A step of x leaves the other operators alone.
Alone(x) ==
  /\ plan' = plan
  /\ \A y \in Nodes \ {x} : local'[y] = local[y] /\ argument'[y] = argument[y]

LEMMA OthersHave ==
  ASSUME NEW x, Alone(x), NEW y \in Nodes \ {x},
         Passing(y)' <=> Passing(y), Stale(y)' <=> Stale(y)
  PROVE  Has(y)' = Has(y) /\ (Distinct(y)' <=> Distinct(y))
<1>1. Op(y)' = Op(y) /\ local'[y] = local[y] /\ argument'[y] = argument[y]
  BY DEF Alone, Op
<1>2. Has(y)' = Has(y)
  BY <1>1 DEF Has
<1>3. Distinct(y)' <=> Distinct(y)
  BY <1>1 DEF Distinct
<1> QED
  BY <1>2, <1>3

LEMMA CallHolds ==
  ASSUME ProtocolInv, TupleInv, stack # << >>, NEW x, x = n, Alone(x),
         NEW k \in DOMAIN plan[x].sons, NEW m, NEW at, Push(Son(k), m, at),
         Waits(Op(x), Top.message, at, k, m),
         ~misused', HeapFine(heap'), Distinct(x)',
         Has(x)' \subseteq Given \cup Has(x),
         DOMAIN heap' = (DOMAIN heap \ (Given \cup Has(x))) \cup Has(x)'
  PROVE  TupleInv'
<1>1. m \in {"OPEN", "REQUEST", "CLOSE"} /\ at \in Places
  BY DEF Waits, Places
<1>2. x \in Nodes /\ plan' = plan /\ Nodes' = Nodes
  BY StackNodes DEF Alone, Nodes
<1>3. Given' = {}
  BY <1>1, GivenCalls
<1>4. \A y \in Nodes \ {x} : Has(y)' = Has(y) /\ (Distinct(y)' <=> Distinct(y))
  BY <1>1, CallPlaces, OthersHave
<1>5. OneHolder'
  <2>1. /\ Given' \cap Has(x)' = {}
        /\ Given' \cup Has(x)' \subseteq Given \cup Has(x) \cup (Tuples \ DOMAIN heap)
        /\ DOMAIN heap' = (DOMAIN heap \ (Given \cup Has(x))) \cup Given' \cup Has(x)'
    BY <1>3
  <2> QED
    BY <1>2, <1>4, <2>1, Shared DEF TupleInv
<1>6. ScopeOK'
  BY <1>2, ScopeCalls DEF TupleInv
<1> QED
  BY <1>5, <1>6 DEF TupleInv

LEMMA ReturnHolds ==
  ASSUME ProtocolInv, TupleInv, stack # << >>, NEW x, x = n, Alone(x),
         NEW status, NEW tuple, Return(status, tuple),
         status = "YIELD" => Top.message = "REQUEST",
         NEW G, G = IF status = "YIELD" THEN {tuple} ELSE {},
         ~misused', HeapFine(heap'), Distinct(x)', G \cap Has(x)' = {},
         G \cup Has(x)' \subseteq Given \cup Has(x) \cup (Tuples \ DOMAIN heap),
         DOMAIN heap' = (DOMAIN heap \ (Given \cup Has(x))) \cup G \cup Has(x)'
  PROVE  TupleInv'
<1>1. stack' = Tail(stack) /\ answer' = [status |-> status, tuple |-> tuple]
  BY DEF Return
<1>2. x \in Nodes /\ plan' = plan /\ Nodes' = Nodes
  BY StackNodes DEF Alone, Nodes
<1>3. Given' = G
  BY <1>1, GivenReturns
<1>4. \A y \in Nodes \ {x} : Has(y)' = Has(y) /\ (Distinct(y)' <=> Distinct(y))
  BY <1>1, ReturnPlaces, OthersHave
<1>5. OneHolder'
  BY <1>2, <1>3, <1>4, Shared DEF TupleInv
<1>6. ScopeOK'
  BY <1>1, <1>2, ScopeReturns DEF TupleInv
<1> QED
  BY <1>5, <1>6 DEF TupleInv

LEMMA StaysAlone ==
  ASSUME ProtocolInv, NEW x, x = n, KeepLocal \/ (\E info : Set(info)),
         plan' = plan, argument' = argument
  PROVE  Alone(x)
<1>1. DOMAIN local = Nodes
  BY DEF ProtocolInv, ValuesOK
<1> QED
  BY <1>1 DEF Alone, KeepLocal, Set

\* The answer that the operator at the top has got.
LEMMA TakesAnswer ==
  ASSUME ProtocolInv, TupleInv, NEW op, NEW message, NEW at, In(op, message, at)
  PROVE  /\ at = "start" \/ ~Yielded => Given = {}
         /\ at # "start" /\ Yielded =>
              Given = {answer.tuple} /\ answer.tuple \in Tuples /\ Live(answer.tuple)
         /\ (\A k : ~Waits(op, message, at, k, "REQUEST")) => Given = {}
<1>1. stack # << >> /\ Top.at = at
  BY DEF In
<1>2. at = "start" \/ ~Yielded => Given = {}
  BY <1>1 DEF Given
<1>3. ASSUME at # "start", Yielded
      PROVE  Given = {answer.tuple} /\ answer.tuple \in Tuples /\ Live(answer.tuple)
  <2>1. Given = {answer.tuple}
    BY <1>1, <1>3 DEF Given
  <2>2. answer.tuple \in DOMAIN heap /\ DOMAIN heap \subseteq Tuples
    BY <2>1 DEF TupleInv, OneHolder, HeapFine
  <2> QED
    BY <2>1, <2>2 DEF Live
<1>4. ASSUME at # "start", \A k : ~Waits(op, message, at, k, "REQUEST")
      PROVE  ~Yielded
  <2> PICK x : x = n
    OBVIOUS
  <2>1. PICK k, m : Waits(op, message, at, k, m) /\ Answers(m)
    BY <1>4, Begins
  <2>2. m # "REQUEST"
    BY <1>4, <2>1
  <2> QED
    BY <2>1, <2>2 DEF Answers, Yielded
<1> QED
  BY <1>2, <1>3, <1>4

\* Only product and loopjoin keep tuples.
LEMMA NothingKept ==
  ASSUME NEW x, Op(x) \notin {"product", "loopjoin"}, plan' = plan
  PROVE  Has(x) = {} /\ Has(x)' = {} /\ Distinct(x)'
BY DEF Has, Distinct, Op

LEMMA SimpleCall ==
  ASSUME ProtocolInv, TupleInv, NEW op, NEW message, NEW at, In(op, message, at),
         op \notin {"product", "loopjoin"}, KeepLocal \/ (\E info : Set(info)),
         NEW k \in DOMAIN plan[n].sons, NEW m, NEW next, Waits(op, message, next, k, m),
         Push(Son(k), m, next), plan' = plan, argument' = argument,
         ~misused', HeapFine(heap'), DOMAIN heap' = DOMAIN heap \ Given
  PROVE  TupleInv'
<1> PICK x : x = n
  OBVIOUS
<1>1. Alone(x)
  BY StaysAlone
<1>2. stack # << >> /\ Top.message = message /\ Op(x) = op
  BY DEF In, Op
<1>3. Has(x) = {} /\ Has(x)' = {} /\ Distinct(x)'
  BY <1>2, NothingKept
<1>4. /\ Waits(Op(x), Top.message, next, k, m) /\ Has(x)' \subseteq Given \cup Has(x)
      /\ DOMAIN heap' = (DOMAIN heap \ (Given \cup Has(x))) \cup Has(x)'
  BY <1>2, <1>3
<1> QED
  BY <1>1, <1>2, <1>3, <1>4, CallHolds

LEMMA SimpleReturn ==
  ASSUME ProtocolInv, TupleInv, NEW op, NEW message, NEW at, In(op, message, at),
         op \notin {"product", "loopjoin"}, KeepLocal \/ (\E info : Set(info)),
         NEW status, NEW tuple, Return(status, tuple),
         NEW G, G = IF status = "YIELD" THEN {tuple} ELSE {},
         status = "YIELD" => message = "REQUEST",
         ~misused', HeapFine(heap'), DOMAIN heap' = (DOMAIN heap \ Given) \cup G,
         G \subseteq Given \cup (Tuples \ DOMAIN heap)
  PROVE  TupleInv'
<1> PICK x : x = n
  OBVIOUS
<1>1. Alone(x) /\ plan' = plan
  BY StaysAlone DEF Return, treeVars
<1>2. stack # << >> /\ Top.message = message /\ Op(x) = op
  BY DEF In, Op
<1>3. Has(x) = {} /\ Has(x)' = {} /\ Distinct(x)'
  BY <1>1, <1>2, NothingKept
<1>4. /\ G \cap Has(x)' = {}
      /\ G \cup Has(x)' \subseteq Given \cup Has(x) \cup (Tuples \ DOMAIN heap)
      /\ DOMAIN heap' = (DOMAIN heap \ (Given \cup Has(x))) \cup G \cup Has(x)'
  BY <1>3
<1> QED
  BY <1>1, <1>2, <1>3, <1>4, ReturnHolds

\* Steps that leave all tuples where they are.
LEMMA TuplesKept ==
  ASSUME TupleInv, KeepTuples
  PROVE  ~misused' /\ HeapFine(heap') /\ heap' = heap
BY DEF TupleInv, OneHolder, KeepTuples

LEMMA QuietCall ==
  ASSUME ProtocolInv, TupleInv, NEW op, NEW message, NEW at, In(op, message, at),
         op \notin {"product", "loopjoin"}, KeepLocal \/ (\E info : Set(info)), KeepTuples,
         NEW k \in DOMAIN plan[n].sons, NEW m, NEW next, Waits(op, message, next, k, m),
         Call(Son(k), m, next), Given = {}
  PROVE  TupleInv'
<1>1. plan' = plan /\ argument' = argument /\ Push(Son(k), m, next)
  BY DEF Call, treeVars
<1>2. ~misused' /\ HeapFine(heap') /\ DOMAIN heap' = DOMAIN heap \ Given
  BY TuplesKept
<1> QED
  BY <1>1, <1>2, SimpleCall

LEMMA QuietReturn ==
  ASSUME ProtocolInv, TupleInv, NEW op, NEW message, NEW at, In(op, message, at),
         op \notin {"product", "loopjoin"}, KeepLocal \/ (\E info : Set(info)), KeepTuples,
         NEW status, status # "YIELD", NEW tuple, Return(status, tuple), Given = {}
  PROVE  TupleInv'
<1>1. ~misused' /\ HeapFine(heap') /\ heap' = heap
  BY TuplesKept
<1> PICK G : G = {}
  OBVIOUS
<1>2. /\ G = IF status = "YIELD" THEN {tuple} ELSE {}
      /\ DOMAIN heap' = (DOMAIN heap \ Given) \cup G
      /\ G \subseteq Given \cup (Tuples \ DOMAIN heap)
  BY <1>1
<1> QED
  BY <1>1, <1>2, SimpleReturn

\* The tuple that has come is passed on.
LEMMA PassedOn ==
  ASSUME ProtocolInv, TupleInv, NEW op, NEW at, In(op, "REQUEST", at), at # "start",
         op \notin {"product", "loopjoin"}, KeepLocal \/ (\E info : Set(info)),
         UNCHANGED heap, ~misused', Yielded, Return("YIELD", answer.tuple)
  PROVE  TupleInv'
<1> PICK G : G = {answer.tuple}
  OBVIOUS
<1>1. Given = G /\ G \subseteq DOMAIN heap
  BY TakesAnswer DEF Live
<1>2. HeapFine(heap')
  BY DEF TupleInv, OneHolder
<1>3. /\ G = IF "YIELD" = "YIELD" THEN {answer.tuple} ELSE {}
      /\ DOMAIN heap' = (DOMAIN heap \ Given) \cup G
      /\ G \subseteq Given \cup (Tuples \ DOMAIN heap)
  BY <1>1
<1> QED
  BY <1>2, <1>3, SimpleReturn

\* The tuple that has come is deleted.
LEMMA Dropped ==
  ASSUME ProtocolInv, TupleInv, NEW op, NEW message, NEW at, In(op, message, at),
         at # "start", Yielded, heap' = Without(heap, answer.tuple)
  PROVE  HeapFine(heap') /\ DOMAIN heap' = DOMAIN heap \ Given
<1>1. Given = {answer.tuple}
  BY TakesAnswer
<1> QED
  BY <1>1, WithoutFine DEF TupleInv, OneHolder

\* What a function reads is in memory.
LEMMA OuterLive ==
  ASSUME ProtocolInv, TupleInv, stack # << >>, Top.message \in {"OPEN", "REQUEST"}
  PROVE  Outer = None \/ Live(Outer)
<1> PICK x : x = n
  OBVIOUS
<1>1. CASE plan[x].scope = 0
  BY <1>1 DEF Outer
<1>2. CASE plan[x].scope # 0
  <2> PICK y : y = x - plan[x].scope
    OBVIOUS
  <2>1. /\ Len(stack) \in Nat \ {0} /\ DOMAIN stack = 1 .. Len(stack) /\ Top = stack[1]
        /\ 1 \in DOMAIN stack /\ stack[1].node = x
        /\ \A i \in DOMAIN stack : i # 1 => i \in 2 .. Len(stack)
    BY StackNodes DEF n
  <2>2. ScopeOK
    BY DEF TupleInv
  <2>3. PICK j \in DOMAIN stack :
          /\ j > 1 /\ stack[j].node = y
          /\ stack[j].message \in {"OPEN", "REQUEST"} /\ stack[j].at \in {"function", "inner"}
    BY <1>2, <2>1, <2>2 DEF ScopeOK
  <2>4. j \in 2 .. Len(stack)
    BY <2>1, <2>3
  <2>5. ValuesOK /\ PathOK /\ FramesOK
    BY DEF ProtocolInv
  <2>6. y \in Nodes /\ \E k, m : Waits(Op(y), stack[j].message, stack[j].at, k, m)
    BY <2>1, <2>3, <2>4, <2>5, StackShape
  <2>7. Op(y) = "loopjoin" /\ (stack[j].at = "inner" => stack[j].message = "REQUEST")
    BY <2>3, <2>6 DEF Waits
  <2>8. Running(y, stack[j].message, stack[j].at)
    BY <2>3, <2>5 DEF FramesOK
  <2>9. \A i \in DOMAIN stack : stack[i].node = y => i = j
    <3>1. \A i, l \in DOMAIN stack : i < l => stack[i].node > stack[l].node
      BY <2>5 DEF PathOK
    <3>2. \A i \in DOMAIN stack : stack[i].node = y => ~(i < j) /\ ~(j < i)
      <4>1. y \in Nat
        BY <2>6, StackNodes
      <4> QED
        BY <2>3, <3>1, <4>1
    <3> QED
      BY <2>1, <3>2
  <2>10. argument[y] \in Has(y)
    <3>1. CASE stack[j].at = "function"
      <4>1. Passing(y)
        BY <2>3, <3>1 DEF Passing
      <4> QED
        BY <2>7, <4>1 DEF Has
    <3>2. CASE stack[j].at = "inner"
      <4>1. ~Passing(y) /\ ~Stale(y)
        BY <2>9, <3>2 DEF Passing, Stale
      <4>2. local[y] # None /\ local[y].x # None /\ local[y].x = argument[y]
        BY <2>7, <2>8, <3>2 DEF Running
      <4> QED
        BY <2>7, <4>1, <4>2 DEF Has
    <3> QED
      BY <2>3, <3>1, <3>2
  <2>11. argument[y] \in DOMAIN heap
    BY <2>6, <2>10 DEF TupleInv, OneHolder
  <2> QED
    BY <1>2, <2>11 DEF Outer, Live
<1> QED
  BY <1>1, <1>2

LEMMA FunctionReads ==
  ASSUME ProtocolInv, TupleInv, NEW op, NEW message, NEW at, In(op, message, at),
         message \in {"OPEN", "REQUEST"},
         \/ Reads({Outer} \ {None})
         \/ at # "start" /\ Yielded /\ Evaluated(answer.tuple)
  PROVE  ~misused'
<1>1. stack # << >> /\ Top.message = message
  BY DEF In
<1>2. Outer = None \/ Live(Outer)
  BY <1>1, OuterLive
<1>3. at # "start" /\ Yielded => Live(answer.tuple)
  BY TakesAnswer
<1>4. ~misused
  BY DEF TupleInv
<1> QED
  BY <1>2, <1>3, <1>4 DEF Reads, Evaluated

LEMMA NewTuple ==
  ASSUME TupleInv, NEW value, NEW t, YieldNew(value, t)
  PROVE  /\ HeapFine(heap')
         /\ \E u \in Tuples : /\ Return("YIELD", u) /\ u \notin DOMAIN heap \ {t}
                              /\ DOMAIN heap' = (DOMAIN heap \ {t}) \cup {u}
<1> PICK rest : rest = Without(heap, t)
  OBVIOUS
<1>1. HeapFine(rest) /\ DOMAIN rest = DOMAIN heap \ {t}
  BY WithoutFine DEF TupleInv, OneHolder
<1>2. heap' = With(rest, value) /\ Return("YIELD", Fresh(rest))
  BY DEF YieldNew
<1>3. /\ HeapFine(With(rest, value)) /\ DOMAIN With(rest, value) = DOMAIN rest \cup {Fresh(rest)}
      /\ Fresh(rest) \in Tuples /\ Fresh(rest) \notin DOMAIN rest
  BY <1>1, WithFine
<1> QED
  BY <1>1, <1>2, <1>3

LEMMA FeedHolds ==
  ASSUME ProtocolInv, TupleInv, Feed
  PROVE  TupleInv'
<1>1. ASSUME NEW message, In("feed", message, "start"), KeepTuples,
             KeepLocal \/ (\E info : Set(info)), NEW status, status # "YIELD", Return(status, None)
      PROVE  TupleInv'
  BY <1>1, TakesAnswer, QuietReturn
<1>2. CASE /\ In("feed", "REQUEST", "start")
           /\ Set([next |-> local[n].next + 1])
           /\ YieldNew(plan[n].relation[local[n].next], None)
           /\ UNCHANGED misused
  <2>1. PICK u \in Tuples : /\ Return("YIELD", u) /\ u \notin DOMAIN heap \ {None}
                            /\ DOMAIN heap' = (DOMAIN heap \ {None}) \cup {u}
    BY <1>2, NewTuple
  <2>2. HeapFine(heap') /\ ~misused'
    BY <1>2, NewTuple DEF TupleInv
  <2>3. Given = {}
    BY <1>2, TakesAnswer
  <2>4. None \notin DOMAIN heap
    BY Locals DEF TupleInv, OneHolder, HeapFine
  <2> PICK G : G = {u}
    OBVIOUS
  <2>5. /\ G = IF "YIELD" = "YIELD" THEN {u} ELSE {}
        /\ DOMAIN heap' = (DOMAIN heap \ Given) \cup G
        /\ G \subseteq Given \cup (Tuples \ DOMAIN heap)
    BY <2>1, <2>3, <2>4
  <2> QED
    BY <1>2, <2>1, <2>2, <2>5, SimpleReturn
<1> QED
  BY <1>1, <1>2 DEF Feed

LEMMA FilterHolds ==
  ASSUME ProtocolInv, TupleInv, Filter
  PROVE  TupleInv'
<1>1. CASE In("filter", "OPEN", "start") /\ Call(Son(1), "OPEN", "opened") /\ KeepLocal /\ KeepTuples
  <2>1. 1 \in DOMAIN plan[n].sons /\ Waits("filter", "OPEN", "opened", 1, "OPEN")
    BY <1>1, Begins DEF Waits
  <2> QED
    BY <1>1, <2>1, TakesAnswer, QuietCall
<1>2. CASE /\ In("filter", "OPEN", "opened") /\ Set([opened |-> TRUE])
           /\ KeepTuples /\ Return("OK", None)
  <2>1. \A k : ~Waits("filter", "OPEN", "opened", k, "REQUEST")
    BY DEF Waits
  <2> QED
    BY <1>2, <2>1, TakesAnswer, QuietReturn
<1>3. CASE /\ In("filter", "REQUEST", "start") /\ KeepLocal /\ KeepTuples
           /\ Return("CANCEL", None)
  BY <1>3, TakesAnswer, QuietReturn
<1>4. CASE /\ In("filter", "REQUEST", "start") /\ KeepLocal /\ KeepTuples
           /\ Call(Son(1), "REQUEST", "next")
  <2>1. 1 \in DOMAIN plan[n].sons /\ Waits("filter", "REQUEST", "next", 1, "REQUEST")
    BY <1>4, Begins DEF Waits
  <2> QED
    BY <1>4, <2>1, TakesAnswer, QuietCall
<1>5. CASE /\ In("filter", "REQUEST", "next") /\ KeepLocal /\ ~Yielded /\ KeepTuples
           /\ Return("CANCEL", None)
  BY <1>5, TakesAnswer, QuietReturn
<1>6. CASE /\ In("filter", "REQUEST", "next") /\ KeepLocal /\ Yielded /\ Evaluated(answer.tuple)
           /\ UNCHANGED heap /\ Return("YIELD", answer.tuple)
  BY <1>6, FunctionReads, PassedOn
<1>7. CASE /\ In("filter", "REQUEST", "next") /\ KeepLocal /\ Yielded /\ Evaluated(answer.tuple)
           /\ heap' = Without(heap, answer.tuple) /\ Call(Son(1), "REQUEST", "next")
  <2>1. 1 \in DOMAIN plan[n].sons /\ Waits("filter", "REQUEST", "next", 1, "REQUEST")
    BY <1>7, Begins DEF Waits
  <2>2. ~misused' /\ HeapFine(heap') /\ DOMAIN heap' = DOMAIN heap \ Given
    BY <1>7, FunctionReads, Dropped
  <2>3. Push(Son(1), "REQUEST", "next") /\ plan' = plan /\ argument' = argument
    BY <1>7 DEF Call, treeVars
  <2> QED
    BY <1>7, <2>1, <2>2, <2>3, SimpleCall
<1>8. CASE In("filter", "CLOSE", "start") /\ KeepLocal /\ KeepTuples /\ Return("OK", None)
  BY <1>8, TakesAnswer, QuietReturn
<1>9. CASE In("filter", "CLOSE", "start") /\ KeepLocal /\ KeepTuples /\ Call(Son(1), "CLOSE", "closed")
  <2>1. 1 \in DOMAIN plan[n].sons /\ Waits("filter", "CLOSE", "closed", 1, "CLOSE")
    BY <1>9, Begins DEF Waits
  <2> QED
    BY <1>9, <2>1, TakesAnswer, QuietCall
<1>10. CASE In("filter", "CLOSE", "closed") /\ Set(None) /\ KeepTuples /\ Return("OK", None)
  <2>1. \A k : ~Waits("filter", "CLOSE", "closed", k, "REQUEST")
    BY DEF Waits
  <2> QED
    BY <1>10, <2>1, TakesAnswer, QuietReturn
<1> QED
  BY <1>1, <1>2, <1>3, <1>4, <1>5, <1>6, <1>7, <1>8, <1>9, <1>10 DEF Filter, FilterNext

LEMMA HeadHolds ==
  ASSUME ProtocolInv, TupleInv, HeadOf
  PROVE  TupleInv'
<1>1. CASE /\ In("head", "OPEN", "start") /\ Set(HeadInfo) /\ Reads({Outer} \ {None})
           /\ UNCHANGED heap /\ Call(Son(1), "OPEN", "opened")
  <2>1. 1 \in DOMAIN plan[n].sons /\ Waits("head", "OPEN", "opened", 1, "OPEN")
    BY <1>1, Begins DEF Waits
  <2>2. Given = {} /\ ~misused'
    BY <1>1, TakesAnswer, FunctionReads
  <2>3. HeapFine(heap') /\ DOMAIN heap' = DOMAIN heap \ Given
    BY <1>1, <2>2 DEF TupleInv, OneHolder
  <2>4. Push(Son(1), "OPEN", "opened") /\ plan' = plan /\ argument' = argument
    BY <1>1 DEF Call, treeVars
  <2> QED
    BY <1>1, <2>1, <2>2, <2>3, <2>4, SimpleCall
<1>2. CASE In("head", "OPEN", "opened") /\ KeepLocal /\ KeepTuples /\ Return("OK", None)
  <2>1. \A k : ~Waits("head", "OPEN", "opened", k, "REQUEST")
    BY DEF Waits
  <2> QED
    BY <1>2, <2>1, TakesAnswer, QuietReturn
<1>3. CASE In("head", "REQUEST", "start") /\ KeepLocal /\ KeepTuples /\ Return("CANCEL", None)
  BY <1>3, TakesAnswer, QuietReturn
<1>4. CASE /\ In("head", "REQUEST", "start") /\ KeepLocal /\ KeepTuples
           /\ Call(Son(1), "REQUEST", "next")
  <2>1. 1 \in DOMAIN plan[n].sons /\ Waits("head", "REQUEST", "next", 1, "REQUEST")
    BY <1>4, Begins DEF Waits
  <2> QED
    BY <1>4, <2>1, TakesAnswer, QuietCall
<1>5. CASE /\ In("head", "REQUEST", "next") /\ KeepTuples /\ ~Yielded /\ KeepLocal
           /\ Return("CANCEL", None)
  BY <1>5, TakesAnswer, QuietReturn
<1>6. CASE /\ In("head", "REQUEST", "next") /\ KeepTuples /\ Yielded
           /\ Set([local[n] EXCEPT !.taken = @ + 1]) /\ Return("YIELD", answer.tuple)
  BY <1>6, TuplesKept, PassedOn
<1>7. CASE In("head", "CLOSE", "start") /\ Call(Son(1), "CLOSE", "closed") /\ KeepLocal /\ KeepTuples
  <2>1. 1 \in DOMAIN plan[n].sons /\ Waits("head", "CLOSE", "closed", 1, "CLOSE")
    BY <1>7, Begins DEF Waits
  <2> QED
    BY <1>7, <2>1, TakesAnswer, QuietCall
<1>8. CASE In("head", "CLOSE", "closed") /\ KeepLocal /\ KeepTuples /\ Return("OK", None)
  <2>1. \A k : ~Waits("head", "CLOSE", "closed", k, "REQUEST")
    BY DEF Waits
  <2> QED
    BY <1>8, <2>1, TakesAnswer, QuietReturn
<1>9. CASE In("head", "CLOSEPROGRESS", "start") /\ Set(None) /\ KeepTuples /\ Return("OK", None)
  BY <1>9, TakesAnswer, QuietReturn
<1> QED
  BY <1>1, <1>2, <1>3, <1>4, <1>5, <1>6, <1>7, <1>8, <1>9 DEF HeadOf

LEMMA CancelHolds ==
  ASSUME ProtocolInv, TupleInv, Cancel
  PROVE  TupleInv'
<1>1. ASSUME NEW message \in {"OPEN", "REQUEST", "CLOSE"}, In("cancel", message, "start"),
             Call(Son(1), message, "done"), KeepLocal, KeepTuples
      PROVE  TupleInv'
  <2>1. 1 \in DOMAIN plan[n].sons /\ Waits("cancel", message, "done", 1, message)
    BY <1>1, Begins DEF Waits
  <2> QED
    BY <1>1, <2>1, TakesAnswer, QuietCall
<1>2. ASSUME NEW message \in {"OPEN", "CLOSE"}, In("cancel", message, "done"),
             KeepLocal, KeepTuples, Return("OK", None)
      PROVE  TupleInv'
  <2>1. \A k : ~Waits("cancel", message, "done", k, "REQUEST")
    BY DEF Waits
  <2> QED
    BY <1>2, <2>1, TakesAnswer, QuietReturn
<1>3. CASE /\ In("cancel", "REQUEST", "done") /\ KeepLocal /\ ~Yielded /\ KeepTuples
           /\ Return("CANCEL", None)
  BY <1>3, TakesAnswer, QuietReturn
<1>4. CASE /\ In("cancel", "REQUEST", "done") /\ KeepLocal /\ Yielded /\ Evaluated(answer.tuple)
           /\ heap' = Without(heap, answer.tuple) /\ Return("CANCEL", None)
  <2>1. ~misused' /\ HeapFine(heap') /\ DOMAIN heap' = DOMAIN heap \ Given
    BY <1>4, FunctionReads, Dropped
  <2> PICK G : G = {}
    OBVIOUS
  <2>2. /\ G = IF "CANCEL" = "YIELD" THEN {None} ELSE {}
        /\ DOMAIN heap' = (DOMAIN heap \ Given) \cup G
        /\ G \subseteq Given \cup (Tuples \ DOMAIN heap)
    BY <2>1
  <2> QED
    BY <1>4, <2>1, <2>2, SimpleReturn
<1>5. CASE /\ In("cancel", "REQUEST", "done") /\ KeepLocal /\ Yielded /\ Evaluated(answer.tuple)
           /\ UNCHANGED heap /\ Return("YIELD", answer.tuple)
  BY <1>5, FunctionReads, PassedOn
<1> QED
  BY <1>1, <1>2, <1>3, <1>4, <1>5 DEF Cancel

LEMMA ConcatHolds ==
  ASSUME ProtocolInv, TupleInv, Concat
  PROVE  TupleInv'
<1>1. ASSUME NEW message, NEW at, In("concat", message, at), at = "start" \/ ~Yielded \/
               (\A k : ~Waits("concat", message, at, k, "REQUEST")),
             NEW k \in {1, 2}, NEW next, Waits("concat", message, next, k, message),
             Call(Son(k), message, next), KeepLocal \/ (\E info : Set(info)), KeepTuples
      PROVE  TupleInv'
  <2>1. k \in DOMAIN plan[n].sons
    BY <1>1, Begins
  <2> QED
    BY <1>1, <2>1, TakesAnswer, QuietCall
<1>2. ASSUME NEW message \in {"OPEN", "CLOSE"}, In("concat", message, "start"),
             Call(Son(1), message, "first"), KeepLocal, KeepTuples
      PROVE  TupleInv'
  <2>1. Waits("concat", message, "first", 1, message)
    BY DEF Waits
  <2> QED
    BY <1>1, <1>2, <2>1
<1>3. ASSUME NEW message \in {"OPEN", "CLOSE"}, In("concat", message, "first"),
             Call(Son(2), message, "second"), KeepLocal, KeepTuples
      PROVE  TupleInv'
  <2>1. /\ Waits("concat", message, "second", 2, message)
        /\ \A k : ~Waits("concat", message, "first", k, "REQUEST")
    BY DEF Waits
  <2> QED
    BY <1>1, <1>3, <2>1
<1>4. ASSUME NEW message \in {"OPEN", "CLOSE"}, In("concat", message, "second"),
             NEW info, Set(info), KeepTuples, Return("OK", None)
      PROVE  TupleInv'
  <2>1. \A k : ~Waits("concat", message, "second", k, "REQUEST")
    BY DEF Waits
  <2> QED
    BY <1>4, <2>1, TakesAnswer, QuietReturn
<1>5. CASE /\ In("concat", "REQUEST", "start") /\ Call(Son(2), "REQUEST", "second")
           /\ KeepLocal /\ KeepTuples
  <2>1. Waits("concat", "REQUEST", "second", 2, "REQUEST")
    BY DEF Waits
  <2> QED
    BY <1>1, <1>5, <2>1
<1>6. CASE /\ In("concat", "REQUEST", "start") /\ Call(Son(1), "REQUEST", "first")
           /\ KeepLocal /\ KeepTuples
  <2>1. Waits("concat", "REQUEST", "first", 1, "REQUEST")
    BY DEF Waits
  <2> QED
    BY <1>1, <1>6, <2>1
<1>7. CASE /\ In("concat", "REQUEST", "first") /\ KeepTuples /\ Yielded /\ KeepLocal
           /\ Return("YIELD", answer.tuple)
  BY <1>7, TuplesKept, PassedOn
<1>8. CASE /\ In("concat", "REQUEST", "first") /\ KeepTuples /\ ~Yielded
           /\ Set([second |-> TRUE]) /\ Call(Son(2), "REQUEST", "second")
  <2>1. Waits("concat", "REQUEST", "second", 2, "REQUEST")
    BY DEF Waits
  <2> QED
    BY <1>1, <1>8, <2>1
<1>9. CASE /\ In("concat", "REQUEST", "second") /\ KeepLocal /\ KeepTuples
           /\ Return(answer.status, answer.tuple)
  <2>1. CASE Yielded
    BY <1>9, <2>1, TuplesKept, PassedOn DEF Yielded
  <2>2. CASE ~Yielded
    BY <1>9, <2>2, TakesAnswer, QuietReturn DEF Yielded
  <2> QED
    BY <2>1, <2>2
<1> QED
  BY <1>2, <1>3, <1>4, <1>5, <1>6, <1>7, <1>8, <1>9 DEF Concat

LEMMA ConsumeHolds ==
  ASSUME ProtocolInv, TupleInv, Consume
  PROVE  TupleInv'
<1>1. CASE /\ In("consume", "OPEN", "start") /\ KeepLocal /\ KeepTuples
           /\ Call(Son(1), "OPEN", "opened")
  <2>1. 1 \in DOMAIN plan[n].sons /\ Waits("consume", "OPEN", "opened", 1, "OPEN")
    BY <1>1, Begins DEF Waits
  <2> QED
    BY <1>1, <2>1, TakesAnswer, QuietCall
<1>2. CASE /\ In("consume", "OPEN", "opened") /\ KeepLocal /\ KeepTuples
           /\ Call(Son(1), "REQUEST", "next")
  <2>1. /\ 1 \in DOMAIN plan[n].sons /\ Waits("consume", "OPEN", "next", 1, "REQUEST")
        /\ \A k : ~Waits("consume", "OPEN", "opened", k, "REQUEST")
    BY <1>2, Begins DEF Waits
  <2> QED
    BY <1>2, <2>1, TakesAnswer, QuietCall
<1>3. CASE /\ In("consume", "OPEN", "next") /\ KeepLocal /\ Yielded /\ Delete(answer.tuple)
           /\ Push(Son(1), "REQUEST", "next") /\ UNCHANGED treeVars
  <2>1. 1 \in DOMAIN plan[n].sons /\ Waits("consume", "OPEN", "next", 1, "REQUEST")
    BY <1>3, Begins DEF Waits
  <2>2. HeapFine(heap') /\ DOMAIN heap' = DOMAIN heap \ Given
    BY <1>3, Dropped DEF Delete
  <2>3. ~misused'
    <3>1. Live(answer.tuple)
      BY <1>3, TakesAnswer
    <3> QED
      BY <1>3, <3>1 DEF Delete, Reads, TupleInv
  <2>4. plan' = plan /\ argument' = argument
    BY <1>3 DEF treeVars
  <2> QED
    BY <1>3, <2>1, <2>2, <2>3, <2>4, SimpleCall
<1>4. CASE /\ In("consume", "OPEN", "next") /\ KeepLocal /\ ~Yielded /\ KeepTuples
           /\ Call(Son(1), "CLOSE", "closed")
  <2>1. 1 \in DOMAIN plan[n].sons /\ Waits("consume", "OPEN", "closed", 1, "CLOSE")
    BY <1>4, Begins DEF Waits
  <2> QED
    BY <1>4, <2>1, TakesAnswer, QuietCall
<1>5. CASE In("consume", "OPEN", "closed") /\ KeepLocal /\ KeepTuples /\ Return("OK", None)
  <2>1. \A k : ~Waits("consume", "OPEN", "closed", k, "REQUEST")
    BY DEF Waits
  <2> QED
    BY <1>5, <2>1, TakesAnswer, QuietReturn
<1> QED
  BY <1>1, <1>2, <1>3, <1>4, <1>5 DEF Consume

\* An operator keeps what it has as long as it keeps its information.
LEMMA HasKept ==
  ASSUME NEW x, plan' = plan, local'[x] = local[x], argument'[x] = argument[x],
         Passing(x)' <=> Passing(x), Stale(x)' <=> Stale(x)
  PROVE  Has(x)' = Has(x) /\ (Distinct(x)' <=> Distinct(x))
<1>1. Op(x)' = Op(x)
  BY DEF Op
<1>2. Has(x)' = Has(x)
  BY <1>1 DEF Has
<1>3. Distinct(x)' <=> Distinct(x)
  BY <1>1 DEF Distinct
<1> QED
  BY <1>2, <1>3

LEMMA WaitingCall ==
  ASSUME ProtocolInv, TupleInv, NEW op, NEW message, NEW at, In(op, message, at),
         KeepLocal, KeepTuples, NEW k \in DOMAIN plan[n].sons, NEW m, NEW next,
         Waits(op, message, next, k, m), Call(Son(k), m, next), Given = {},
         at = "function" <=> next = "function",
         message = "REQUEST" => (at = "outer" <=> next = "outer")
  PROVE  TupleInv'
<1> PICK x : x = n
  OBVIOUS
<1>1. stack # << >> /\ Top.message = message /\ Top.at = at /\ Op(x) = op /\ x \in Nodes
  BY StackNodes DEF In, Op
<1>2. plan' = plan /\ argument' = argument /\ Push(Son(k), m, next)
  BY DEF Call, treeVars
<1>3. Alone(x) /\ local'[x] = local[x]
  BY <1>2, StaysAlone DEF KeepLocal
<1>4. m \in {"OPEN", "REQUEST", "CLOSE"} /\ next \in Places
  BY DEF Waits, Places
<1>5. (Passing(x)' <=> Passing(x)) /\ (Stale(x)' <=> Stale(x))
  BY <1>1, <1>2, <1>4, Placed, CallPlaces
<1>6. Has(x)' = Has(x) /\ (Distinct(x)' <=> Distinct(x))
  BY <1>2, <1>3, <1>5, HasKept
<1>7. Distinct(x) /\ Has(x) \subseteq DOMAIN heap
  BY <1>1 DEF TupleInv, OneHolder
<1>8. ~misused' /\ HeapFine(heap') /\ heap' = heap
  BY TuplesKept
<1>9. /\ Distinct(x)' /\ Has(x)' \subseteq Given \cup Has(x)
      /\ DOMAIN heap' = (DOMAIN heap \ (Given \cup Has(x))) \cup Has(x)'
  BY <1>6, <1>7, <1>8
<1> QED
  BY <1>1, <1>2, <1>3, <1>8, <1>9, CallHolds

LEMMA EmptyReturn ==
  ASSUME ProtocolInv, TupleInv, stack # << >>, KeepLocal, KeepTuples,
         NEW status, status # "YIELD", NEW tuple, Return(status, tuple), Given = {},
         Top.at # "function", Top.message = "REQUEST" => Top.at # "outer"
  PROVE  TupleInv'
<1> PICK x : x = n
  OBVIOUS
<1>1. plan' = plan /\ argument' = argument /\ stack' = Tail(stack) /\ x \in Nodes
  BY StackNodes DEF Return, treeVars
<1>2. Alone(x) /\ local'[x] = local[x]
  BY <1>1, StaysAlone DEF KeepLocal
<1>3. (Passing(x)' <=> Passing(x)) /\ (Stale(x)' <=> Stale(x))
  BY <1>1, Placed, ReturnPlaces
<1>4. Has(x)' = Has(x) /\ (Distinct(x)' <=> Distinct(x))
  BY <1>1, <1>2, <1>3, HasKept
<1>5. Distinct(x) /\ Has(x) \subseteq DOMAIN heap
  BY <1>1 DEF TupleInv, OneHolder
<1>6. ~misused' /\ HeapFine(heap') /\ heap' = heap
  BY TuplesKept
<1> PICK G : G = {}
  OBVIOUS
<1>7. /\ G = IF status = "YIELD" THEN {tuple} ELSE {}
      /\ Distinct(x)' /\ G \cap Has(x)' = {}
      /\ G \cup Has(x)' \subseteq Given \cup Has(x) \cup (Tuples \ DOMAIN heap)
      /\ DOMAIN heap' = (DOMAIN heap \ (Given \cup Has(x))) \cup G \cup Has(x)'
  BY <1>4, <1>5, <1>6
<1> QED
  BY <1>2, <1>6, <1>7, ReturnHolds

LEMMA CancelledHolds ==
  ASSUME ProtocolInv, TupleInv, Cancelled
  PROVE  TupleInv'
<1>1. /\ stack # << >> /\ Top.at = "start" /\ Return("CANCEL", None)
      /\ KeepLocal /\ KeepTuples
  BY DEF Cancelled, KeepLocal, KeepTuples
<1>2. Given = {}
  BY <1>1 DEF Given
<1> QED
  BY <1>1, <1>2, EmptyReturn

LEMMA TuplesStay ==
  ASSUME TupleInv, UNCHANGED <<plan, local, argument, heap, misused>>, Given' = Given, ScopeOK',
         \A y \in Nodes : (Passing(y)' <=> Passing(y)) /\ (Stale(y)' <=> Stale(y))
  PROVE  TupleInv'
<1>1. Nodes' = Nodes
  BY DEF Nodes
<1>2. \A y \in Nodes : Has(y)' = Has(y) /\ (Distinct(y)' <=> Distinct(y))
  BY HasKept
<1>3. UNION {Has(y)' : y \in Nodes} = UNION {Has(y) : y \in Nodes}
  BY <1>2
<1>4. heap' = heap /\ ~misused'
  BY DEF TupleInv
<1>5. OneHolder'
  BY <1>1, <1>2, <1>3, <1>4 DEF TupleInv, OneHolder
<1> QED
  BY <1>4, <1>5 DEF TupleInv

LEMMA DestroyHolds ==
  ASSUME ProtocolInv, TupleInv, Destroy
  PROVE  TupleInv'
<1> PICK d : d = destroyed + 1
  OBVIOUS
<1>1. /\ UNCHANGED <<plan, local, argument, heap, misused>> /\ answer' = answer
      /\ stack = << >> /\ stack' = LastMessages(d)
  BY DEF Destroy, treeVars
<1>2. /\ stack' = << >> \/ \E message \in {"CLOSE", "CLOSEPROGRESS"} : stack' = <<Frame(d, message)>>
  BY <1>1 DEF LastMessages
<1>3. \A i \in DOMAIN stack' : /\ stack'[i].at = "start"
                               /\ stack'[i].message \in {"CLOSE", "CLOSEPROGRESS"}
  BY <1>2 DEF Frame
<1>4. \A y : ~Passing(y) /\ ~Stale(y) /\ ~Passing(y)' /\ ~Stale(y)'
  BY <1>1, <1>3 DEF Passing, Stale
<1>5. ScopeOK'
  BY <1>3 DEF ScopeOK
<1>6. Given = {}
  BY <1>1 DEF Given
<1>7. Given' = {}
  <2>1. stack' # << >> => Head(stack').at = "start"
    BY <1>2 DEF Frame
  <2> QED
    BY <2>1 DEF Given, Top
<1> QED
  BY <1>1, <1>4, <1>5, <1>6, <1>7, TuplesStay

LEMMA NobodyMoves ==
  ASSUME TupleInv, UNCHANGED <<treeVars, stack, answer, local, heap, misused>>
  PROVE  TupleInv'
<1>1. /\ plan' = plan /\ argument' = argument /\ stack' = stack /\ answer' = answer
      /\ UNCHANGED <<plan, local, argument, heap, misused>>
  BY DEF treeVars
<1>2. \A y : (Passing(y)' <=> Passing(y)) /\ (Stale(y)' <=> Stale(y))
  BY <1>1 DEF Passing, Stale
<1>3. Given' = Given
  BY <1>1 DEF Given, Top, Yielded
<1>4. ScopeOK'
  BY <1>1 DEF TupleInv, ScopeOK
<1> QED
  BY <1>1, <1>2, <1>3, <1>4, TuplesStay

LEMMA TupleInit ==
  ASSUME Init
  PROVE  TupleInv
<1> PICK F : F = Frame(1, "OPEN")
  OBVIOUS
<1>1. /\ plan \in Plans /\ stack = <<F>> /\ misused = FALSE /\ heap = << >>
      /\ local = [node \in Nodes |-> None] /\ F.node = 1 /\ F.at = "start"
  BY DEF Init, Frame
<1>2. IsTree(plan)
  BY <1>1, TreeAssumption
<1>3. DOMAIN stack = {1} /\ stack[1] = F /\ Top = F
  BY <1>1 DEF Top
<1>4. HeapFine(heap)
  <2>1. DOMAIN heap = {} /\ heap = [t \in DOMAIN heap |-> heap[t]]
    BY <1>1
  <2> QED
    BY <2>1, FS_EmptySet DEF HeapFine
<1>5. Given = {}
  BY <1>1, <1>3 DEF Given
<1>6. \A x \in Nodes : Has(x) = {} /\ Distinct(x)
  BY <1>1, <1>3 DEF Has, Distinct, Passing
<1>7. OneHolder
  BY <1>1, <1>4, <1>5, <1>6 DEF OneHolder
<1>8. ScopeOK
  BY <1>1, <1>2, <1>3 DEF ScopeOK, IsTree
<1> QED
  BY <1>1, <1>7, <1>8 DEF TupleInv

\* What a product keeps, by its local information.
KeptBy(info) ==
  IF info = None THEN {} ELSE ({info.current} \cup Range(info.buffer)) \ {None}

KeptOnce(info) ==
  info # None =>
    /\ \A i, j \in DOMAIN info.buffer : info.buffer[i] = info.buffer[j] => i = j
    /\ info.current \notin Range(info.buffer)

LEMMA ProductHas ==
  ASSUME ProtocolInv, TupleInv, NEW x \in Nodes, x = n, Op(x) = "product", plan' = plan,
         KeepLocal \/ (\E info : Set(info))
  PROVE  /\ Has(x) = KeptBy(local[x]) /\ KeptOnce(local[x])
         /\ Has(x)' = KeptBy(local'[x]) /\ (Distinct(x)' <=> KeptOnce(local'[x]))
         /\ Has(x) \subseteq DOMAIN heap /\ Given \cap Has(x) = {}
         /\ \A info : Set(info) => local'[x] = info
         /\ KeepLocal => local'[x] = local[x]
         /\ local[x] # None => /\ local[x].buffer \in Seq(Tuples)
                               /\ local[x].current \in Tuples \cup {None}
                               /\ local[x].next \in Nat \ {0}
                               /\ local[x] = [current |-> local[x].current,
                                              buffer |-> local[x].buffer, next |-> local[x].next]
<1>1. Op(x)' = Op(x)
  BY DEF Op
<1>2. Has(x) = KeptBy(local[x]) /\ Has(x)' = KeptBy(local'[x])
  BY <1>1 DEF Has, KeptBy
<1>3. Distinct(x) /\ Has(x) \subseteq DOMAIN heap /\ Given \cap Has(x) = {}
  BY DEF TupleInv, OneHolder
<1>4. KeptOnce(local[x]) /\ (Distinct(x)' <=> KeptOnce(local'[x]))
  BY <1>1, <1>3 DEF Distinct, KeptOnce
<1>5. DOMAIN local = Nodes /\ local[x] \in LocalOf[Op(x)] \cup {None}
  BY DEF ProtocolInv, ValuesOK
<1>6. (\A info : Set(info) => local'[x] = info) /\ (KeepLocal => local'[x] = local[x])
  BY <1>5 DEF Set, KeepLocal
<1>7. local[x] # None => local[x] \in [current : Tuples \cup {None}, buffer : Seq(Tuples), next : Tuples]
  BY <1>5, Locals
<1> QED
  BY <1>2, <1>3, <1>4, <1>6, <1>7 DEF Tuples

LEMMA HeldWhole ==
  ASSUME ProtocolInv, TupleInv, NEW x \in Nodes, x = n, Op(x) = "product"
  PROVE  /\ HeldByProduct \in Seq(Tuples) /\ Range(HeldByProduct) = Has(x)
         /\ \A i, j \in DOMAIN HeldByProduct : HeldByProduct[i] = HeldByProduct[j] => i = j
<1>1. /\ local[x] # None => /\ local[x].buffer \in Seq(Tuples)
                            /\ local[x].current \in Tuples \cup {None}
      /\ Has(x) = KeptBy(local[x]) /\ KeptOnce(local[x])
  <2>1. local[x] \in LocalOf["product"] \cup {None} /\ Distinct(x)
    BY DEF ProtocolInv, ValuesOK, TupleInv, OneHolder
  <2>2. local[x] # None =>
          local[x] \in [current : Tuples \cup {None}, buffer : Seq(Tuples), next : Tuples]
    BY <2>1, Locals
  <2> QED
    BY <2>1, <2>2 DEF Has, KeptBy, Distinct, KeptOnce
<1>2. CASE local[x] = None
  <2>1. HeldByProduct = << >>
    BY <1>2 DEF HeldByProduct
  <2>2. Has(x) = {}
    BY <1>1, <1>2 DEF KeptBy
  <2> QED
    BY <2>1, <2>2 DEF Range
<1>3. CASE local[x] # None
  <2> PICK b \in Seq(Tuples) : b = local[x].buffer
    BY <1>1, <1>3
  <2> PICK c \in Tuples \cup {None} : c = local[x].current
    BY <1>1, <1>3
  <2> PICK s : s = HeldByProduct
    OBVIOUS
  <2>1. /\ Has(x) = ({c} \cup Range(b)) \ {None} /\ c \notin Range(b)
        /\ \A i, j \in DOMAIN b : b[i] = b[j] => i = j
    BY <1>1, <1>3 DEF KeptBy, KeptOnce
  <2>2. s = b \o (IF c = None THEN << >> ELSE <<c>>)
    BY <1>3 DEF HeldByProduct
  <2>3. Range(b) \subseteq Tuples /\ None \notin Tuples /\ DOMAIN b = 1 .. Len(b) /\ Len(b) \in Nat
    BY Locals DEF Range
  <2>4. CASE c = None
    <3>1. s = b
      BY <2>2, <2>4
    <3>2. Range(s) = Has(x)
      BY <2>1, <2>3, <2>4, <3>1
    <3> QED
      BY <2>1, <3>1, <3>2
  <2>5. CASE c # None
    <3>1. <<c>> \in Seq(Tuples) /\ Len(<<c>>) = 1 /\ <<c>>[1] = c
      BY <2>5
    <3> PICK d \in Seq(Tuples) : d = <<c>> /\ Len(d) = 1 /\ d[1] = c
      BY <3>1
    <3>8. s = b \o d
      BY <2>2, <2>5
    <3>9. b \o d \in Seq(Tuples) /\ Len(b \o d) = Len(b) + 1
      BY ConcatProperties
    <3>10. \A i \in 1 .. Len(b) : (b \o d)[i] = b[i]
      BY <2>3, <3>9, ConcatProperties
    <3>11. (b \o d)[Len(b) + 1] = c
      BY <2>3, <3>9, ConcatProperties
    <3>2. /\ s \in Seq(Tuples) /\ Len(s) = Len(b) + 1
          /\ \A i \in 1 .. Len(b) : s[i] = b[i]
          /\ s[Len(b) + 1] = c
      BY <3>8, <3>9, <3>10, <3>11
    <3>12. DOMAIN s = 1 .. Len(b) + 1
      BY <3>2
    <3>13. \A k \in Nat : 1 .. k + 1 = (1 .. k) \cup {k + 1} /\ k + 1 \notin 1 .. k
      OBVIOUS
    <3>3. DOMAIN s = DOMAIN b \cup {Len(b) + 1} /\ Len(b) + 1 \notin DOMAIN b
      BY <2>3, <3>12, <3>13
    <3>4. \A i \in DOMAIN b : s[i] = b[i] /\ b[i] # c
      BY <2>1, <2>3, <3>2 DEF Range
    <3>5. Range(s) = Range(b) \cup {c}
      BY <3>2, <3>3, <3>4 DEF Range
    <3>6. \A i, j \in DOMAIN s : s[i] = s[j] => i = j
      BY <2>1, <3>2, <3>3, <3>4
    <3>7. Range(s) = Has(x)
      BY <2>1, <2>3, <2>5, <3>5
    <3> QED
      BY <3>2, <3>6, <3>7
  <2> QED
    BY <2>4, <2>5
<1> QED
  BY <1>2, <1>3

\* The local information of a product is deleted.
LEMMA HeldDeleted ==
  ASSUME ProtocolInv, TupleInv, NEW x \in Nodes, x = n, Op(x) = "product",
         DeleteAll(HeldByProduct)
  PROVE  HeapFine(heap') /\ ~misused' /\ DOMAIN heap' = DOMAIN heap \ Has(x)
<1> PICK s : s = HeldByProduct
  OBVIOUS
<1>1. /\ s \in Seq(Tuples) /\ Range(s) = Has(x)
      /\ \A i, j \in DOMAIN s : s[i] = s[j] => i = j
  BY HeldWhole
<1>2. Has(x) \subseteq DOMAIN heap /\ HeapFine(heap) /\ ~misused
  BY DEF TupleInv, OneHolder
<1>3. DeleteAll(s)
  OBVIOUS
<1> QED
  BY <1>1, <1>2, <1>3, AllDeleted

LEMMA ProductInfo ==
  ASSUME NEW c \in Tuples \cup {None}, NEW b \in Seq(Tuples), NEW next \in Tuples
  PROVE  [current |-> c, buffer |-> b, next |-> next] # None
<1>1. [current |-> c, buffer |-> b, next |-> next] \in LocalOf["product"]
  BY Locals
<1> QED
  BY <1>1, Locals

LEMMA NewBuffer ==
  ASSUME NEW info \in LocalOf["product"], NEW t \in Tuples,
         NEW after, after = [info EXCEPT !.buffer = Append(@, t)]
  PROVE  after.current = info.current /\ after.buffer = Append(info.buffer, t) /\ after # None
<1>1. info \in [current : Tuples \cup {None}, buffer : Seq(Tuples), next : Tuples]
  BY Locals
<1>2. Append(info.buffer, t) \in Seq(Tuples)
  BY <1>1, AppendProperties
<1>3. after \in [current : Tuples \cup {None}, buffer : Seq(Tuples), next : Tuples]
  BY <1>1, <1>2
<1>4. after.current = info.current /\ after.buffer = Append(info.buffer, t)
  BY <1>1, <1>2
<1> QED
  BY <1>3, <1>4, Locals

LEMMA ProductOpenHolds ==
  ASSUME ProtocolInv, TupleInv, ProductOpen
  PROVE  TupleInv'
<1> PICK x : x = n
  OBVIOUS
<1>1. CASE /\ In("product", "OPEN", "start") /\ Call(Son(1), "OPEN", "opened")
           /\ DeleteAll(HeldByProduct) /\ Set([current |-> None, buffer |-> << >>, next |-> 1])
  <2>1. /\ x \in Nodes /\ Op(x) = "product" /\ stack # << >> /\ "OPEN" = Top.message
        /\ 1 \in DOMAIN plan[x].sons
    BY <1>1, Begins
  <2>2. /\ plan' = plan /\ argument' = argument /\ Push(Son(1), "OPEN", "opened")
        /\ Given = {}
    BY <1>1, TakesAnswer DEF Call, treeVars
  <2>3. Alone(x)
    BY <1>1, <2>2, StaysAlone
  <2>4. HeapFine(heap') /\ ~misused' /\ DOMAIN heap' = DOMAIN heap \ Has(x)
    BY <1>1, <2>1, HeldDeleted
  <2> PICK info : info = [current |-> None, buffer |-> << >>, next |-> 1]
    OBVIOUS
  <2>5. KeptBy(info) = {} /\ KeptOnce(info)
    BY DEF KeptBy, KeptOnce, Range
  <2>6. Has(x)' = {} /\ Distinct(x)'
    BY <1>1, <2>1, <2>2, <2>5, ProductHas
  <2>7. Waits(Op(x), Top.message, "opened", 1, "OPEN")
    BY <2>1 DEF Waits
  <2>8. /\ Has(x)' \subseteq Given \cup Has(x)
        /\ DOMAIN heap' = (DOMAIN heap \ (Given \cup Has(x))) \cup Has(x)'
    BY <2>2, <2>4, <2>6
  <2> QED
    BY <2>1, <2>2, <2>3, <2>4, <2>6, <2>7, <2>8, CallHolds
<1>2. CASE /\ In("product", "OPEN", "opened") /\ Call(Son(1), "REQUEST", "current")
           /\ KeepLocal /\ KeepTuples
  <2>1. /\ 1 \in DOMAIN plan[n].sons /\ Waits("product", "OPEN", "current", 1, "REQUEST")
        /\ \A k : ~Waits("product", "OPEN", "opened", k, "REQUEST")
    BY <1>2, Begins DEF Waits
  <2> QED
    BY <1>2, <2>1, TakesAnswer, WaitingCall
<1>3. CASE /\ In("product", "OPEN", "current") /\ Set([local[n] EXCEPT !.current = answer.tuple])
           /\ KeepTuples /\ Call(Son(2), "OPEN", "second")
  <2> PICK t : t = answer.tuple
    OBVIOUS
  <2>1. /\ x \in Nodes /\ Op(x) = "product" /\ stack # << >> /\ "OPEN" = Top.message
        /\ 2 \in DOMAIN plan[x].sons /\ local[x] # None /\ local[x].current = None
    BY <1>3, Begins DEF Running
  <2>2. plan' = plan /\ argument' = argument /\ Push(Son(2), "OPEN", "second")
    BY <1>3 DEF Call, treeVars
  <2>3. Alone(x)
    BY <1>3, <2>2, StaysAlone
  <2>4. HeapFine(heap') /\ ~misused' /\ heap' = heap
    BY <1>3, TuplesKept
  <2>5. Given = {t} \ {None} /\ Given \subseteq DOMAIN heap
    <3>1. (Yielded <=> t # None) /\ (Yielded => Given = {t} /\ Live(t)) /\ (~Yielded => Given = {})
      BY <1>3, TakesAnswer DEF ProtocolInv, ValuesOK, Yielded
    <3> QED
      BY <3>1 DEF Live
  <2> PICK b \in Seq(Tuples), next \in Tuples : local[x] = [current |-> None, buffer |-> b, next |-> next]
    BY ZenonT(40), <1>3, <2>1, <2>2, ProductHas DEF Tuples
  <2> PICK info : info = [current |-> t, buffer |-> b, next |-> next]
    OBVIOUS
  <2>6. Set(info)
    BY <1>3
  <2>7. /\ Has(x) = KeptBy(local[x]) /\ KeptOnce(local[x]) /\ Given \cap Has(x) = {}
        /\ Has(x)' = KeptBy(info) /\ (Distinct(x)' <=> KeptOnce(info))
        /\ Has(x) \subseteq DOMAIN heap
    BY <2>1, <2>2, <2>6, ProductHas
  <2>8. None \notin Range(b)
    BY Locals DEF Range
  <2>9. info # None
    <3>1. t \in Tuples \cup {None}
      BY DEF ProtocolInv, ValuesOK
    <3> QED
      BY <3>1, ProductInfo
  <2>10. Has(x) = Range(b) /\ Has(x)' = Range(b) \cup Given
    BY <2>1, <2>5, <2>7, <2>8, <2>9 DEF KeptBy
  <2>11. KeptOnce(info)
    <3>1. \A i, j \in DOMAIN b : b[i] = b[j] => i = j
      BY <2>1, <2>7 DEF KeptOnce
    <3>2. t \notin Range(b)
      BY <2>5, <2>7, <2>8, <2>10
    <3> QED
      BY <3>1, <3>2 DEF KeptOnce
  <2>12. /\ Has(x)' \subseteq Given \cup Has(x)
         /\ DOMAIN heap' = (DOMAIN heap \ (Given \cup Has(x))) \cup Has(x)'
    BY ZenonT(40), <2>4, <2>5, <2>7, <2>10
  <2>13. Waits(Op(x), Top.message, "second", 2, "OPEN")
    BY <2>1 DEF Waits
  <2> QED
    BY <2>1, <2>2, <2>3, <2>4, <2>7, <2>11, <2>12, <2>13, CallHolds
<1>4. CASE /\ In("product", "OPEN", "second") /\ Call(Son(2), "REQUEST", "buffer")
           /\ KeepLocal /\ KeepTuples
  <2>1. /\ 2 \in DOMAIN plan[n].sons /\ Waits("product", "OPEN", "buffer", 2, "REQUEST")
        /\ \A k : ~Waits("product", "OPEN", "second", k, "REQUEST")
    BY <1>4, Begins DEF Waits
  <2> QED
    BY <1>4, <2>1, TakesAnswer, WaitingCall
<1>5. CASE /\ In("product", "OPEN", "buffer") /\ KeepTuples /\ Yielded
           /\ Set([local[n] EXCEPT !.buffer = Append(@, answer.tuple)])
           /\ Call(Son(2), "REQUEST", "buffer")
  <2> PICK t : t = answer.tuple
    OBVIOUS
  <2>1. /\ x \in Nodes /\ Op(x) = "product" /\ stack # << >> /\ "OPEN" = Top.message
        /\ 2 \in DOMAIN plan[x].sons /\ local[x] # None
    BY <1>5, Begins DEF Running
  <2>2. plan' = plan /\ argument' = argument /\ Push(Son(2), "REQUEST", "buffer")
    BY <1>5 DEF Call, treeVars
  <2>3. Alone(x)
    BY <1>5, <2>2, StaysAlone
  <2>4. HeapFine(heap') /\ ~misused' /\ heap' = heap
    BY <1>5, TuplesKept
  <2>5. Given = {t} /\ t \in Tuples /\ t # None /\ Given \subseteq DOMAIN heap
    BY <1>5, TakesAnswer, Locals DEF Live
  <2>20. /\ local[x].buffer \in Seq(Tuples) /\ local[x].current \in Tuples \cup {None}
         /\ local[x].next \in Nat \ {0}
         /\ local[x] = [current |-> local[x].current, buffer |-> local[x].buffer,
                        next |-> local[x].next]
    BY <1>5, <2>1, <2>2, ProductHas
  <2> PICK c \in Tuples \cup {None}, b \in Seq(Tuples), next \in Tuples :
             local[x] = [current |-> c, buffer |-> b, next |-> next]
    BY <2>20 DEF Tuples
  <2> PICK a : a = Append(b, t)
    OBVIOUS
  <2> PICK info : info = [local[n] EXCEPT !.buffer = Append(@, answer.tuple)]
    OBVIOUS
  <2>6. Set(info) /\ info.current = c /\ info.buffer = a /\ info # None
    <3>1. local[x] \in LocalOf["product"] /\ local[x].current = c /\ local[x].buffer = b
      BY <1>5, <2>1, Begins
    <3>2. info.current = local[x].current /\ info.buffer = Append(local[x].buffer, t)
          /\ info # None
      BY <2>5, <3>1, NewBuffer
    <3>3. Set(info)
      BY <1>5
    <3> QED
      BY <3>1, <3>2, <3>3
  <2>7. /\ Has(x) = KeptBy(local[x]) /\ KeptOnce(local[x]) /\ Given \cap Has(x) = {}
        /\ Has(x)' = KeptBy(info) /\ (Distinct(x)' <=> KeptOnce(info))
        /\ Has(x) \subseteq DOMAIN heap
    BY <2>1, <2>2, <2>6, ProductHas
  <2>8. /\ a \in Seq(Tuples) /\ DOMAIN a = DOMAIN b \cup {Len(b) + 1} /\ Len(b) + 1 \notin DOMAIN b
        /\ \A i \in DOMAIN b : a[i] = b[i]
        /\ a[Len(b) + 1] = t
    BY <2>5
  <2>9. Range(a) = Range(b) \cup {t}
    BY <2>8 DEF Range
  <2>10. Has(x) = ({c} \cup Range(b)) \ {None} /\ t \notin Range(b) /\ t # c
         /\ c \notin Range(b) /\ \A i, j \in DOMAIN b : b[i] = b[j] => i = j
    BY <2>1, <2>5, <2>7 DEF KeptBy, KeptOnce
  <2>12. Has(x)' = Given \cup Has(x)
    BY <2>5, <2>6, <2>7, <2>9, <2>10 DEF KeptBy
  <2>13. \A i \in DOMAIN b : b[i] # t
    BY <2>10 DEF Range
  <2>14. KeptOnce(info)
    <3>1. \A i, j \in DOMAIN a : a[i] = a[j] => i = j
      BY <2>8, <2>10, <2>13
    <3>2. c \notin Range(a)
      BY <2>9, <2>10
    <3> QED
      BY <2>6, <3>1, <3>2 DEF KeptOnce
  <2>15. /\ Has(x)' \subseteq Given \cup Has(x)
         /\ DOMAIN heap' = (DOMAIN heap \ (Given \cup Has(x))) \cup Has(x)'
    BY <2>4, <2>5, <2>7, <2>12
  <2>16. Waits(Op(x), Top.message, "buffer", 2, "REQUEST")
    BY <2>1 DEF Waits
  <2> QED
    BY <2>1, <2>2, <2>3, <2>4, <2>7, <2>14, <2>15, <2>16, CallHolds
<1>6. CASE /\ In("product", "OPEN", "buffer") /\ KeepTuples /\ ~Yielded /\ KeepLocal
           /\ Return("OK", None)
  <2>1. stack # << >> /\ Top.at = "buffer" /\ Given = {}
    BY <1>6, TakesAnswer DEF In
  <2> QED
    BY <1>6, <2>1, EmptyReturn
<1> QED
  BY <1>1, <1>2, <1>3, <1>4, <1>5, <1>6 DEF ProductOpen

LEMMA Two ==
  2 \in Tuples
BY DEF Tuples

LEMMA NewPlace ==
  ASSUME NEW info \in LocalOf["product"], NEW after,
         \/ after = [info EXCEPT !.next = @ + 1]
         \/ after = [info EXCEPT !.current = None]
         \/ \E t \in Tuples : after = [info EXCEPT !.current = t, !.next = 2]
  PROVE  after # None /\ after.buffer = info.buffer
<1>1. info \in [current : Tuples \cup {None}, buffer : Seq(Tuples), next : Tuples]
  BY Locals
<1>2. after \in [current : Tuples \cup {None}, buffer : Seq(Tuples), next : Tuples]
  <2>1. CASE after = [info EXCEPT !.next = @ + 1]
    BY <1>1, <2>1 DEF Tuples
  <2>2. CASE after = [info EXCEPT !.current = None]
    BY <1>1, <2>2
  <2>3. CASE \E t \in Tuples : after = [info EXCEPT !.current = t, !.next = 2]
    <3>1. PICK t \in Tuples : after = [info EXCEPT !.current = t, !.next = 2]
      BY <2>3
    <3>2. 2 \in Tuples
      BY Two
    <3> QED
      BY <1>1, <3>1, <3>2
  <2> QED
    BY <2>1, <2>2, <2>3
<1>3. after.buffer = info.buffer
  BY <1>1
<1> QED
  BY <1>2, <1>3, Locals

LEMMA ProductRequestHolds ==
  ASSUME ProtocolInv, TupleInv, ProductRequest
  PROVE  TupleInv'
<1> PICK x : x = n
  OBVIOUS
<1>1. CASE /\ In("product", "REQUEST", "start") /\ KeepLocal /\ KeepTuples
           /\ Return("CANCEL", None)
  <2>1. stack # << >> /\ Top.at = "start" /\ Given = {}
    BY <1>1, TakesAnswer DEF In
  <2> QED
    BY <1>1, <2>1, EmptyReturn
<1>2. CASE /\ In("product", "REQUEST", "start")
           /\ local[n].current # None /\ local[n].next <= Len(local[n].buffer)
           /\ Set([local[n] EXCEPT !.next = @ + 1])
           /\ Reads({local[n].current, local[n].buffer[local[n].next]})
           /\ \E value : YieldNew(value, None)
  <2>1. /\ x \in Nodes /\ Op(x) = "product" /\ stack # << >> /\ "REQUEST" = Top.message
        /\ local[x] \in LocalOf["product"] /\ local[x] # None
    BY <1>2, Begins DEF Idle, IdleOpened, Asked
  <2>2. plan' = plan /\ argument' = argument
    BY <1>2 DEF YieldNew, Return, treeVars
  <2> PICK info : info = [local[n] EXCEPT !.next = @ + 1]
    OBVIOUS
  <2>3. /\ Set(info) /\ info # None /\ info.buffer = local[x].buffer
        /\ info.current = local[x].current
    <3>1. info # None /\ info.buffer = local[x].buffer
      BY <2>1, NewPlace
    <3>2. local[x] \in [current : Tuples \cup {None}, buffer : Seq(Tuples), next : Tuples]
      BY <2>1, Locals
    <3>3. info.current = local[x].current
      BY <3>2
    <3> QED
      BY <1>2, <3>1, <3>3
  <2>4. /\ Has(x) = KeptBy(local[x]) /\ KeptOnce(local[x])
        /\ Has(x)' = KeptBy(info) /\ (Distinct(x)' <=> KeptOnce(info))
        /\ Has(x) \subseteq DOMAIN heap
        /\ local[x].buffer \in Seq(Tuples) /\ local[x].next \in Nat \ {0}
    BY <2>1, <2>2, <2>3, ProductHas
  <2>5. Has(x)' = Has(x) /\ Distinct(x)'
    BY <2>1, <2>3, <2>4 DEF KeptBy, KeptOnce
  <2>6. Live(local[x].current) /\ Live(local[x].buffer[local[x].next])
    <3>1. local[x].next \in DOMAIN local[x].buffer
      BY <1>2, <2>4
    <3>2. local[x].buffer[local[x].next] \in Tuples
      BY <2>4, <3>1
    <3>3. {local[x].current, local[x].buffer[local[x].next]} \subseteq Has(x)
      BY <1>2, <2>1, <2>4, <3>1, <3>2, Locals DEF KeptBy, Range
    <3> QED
      BY <2>4, <3>3 DEF Live
  <2>7. ~misused'
    BY <1>2, <2>6 DEF Reads, TupleInv
  <2>8. None \notin DOMAIN heap /\ Given = {} /\ Alone(x)
    BY <1>2, <2>2, StaysAlone, TakesAnswer, Locals DEF TupleInv, OneHolder, HeapFine
  <2>9. PICK u \in Tuples : /\ Return("YIELD", u) /\ u \notin DOMAIN heap \ {None}
                            /\ DOMAIN heap' = (DOMAIN heap \ {None}) \cup {u}
    BY <1>2, NewTuple
  <2>10. HeapFine(heap')
    BY <1>2, NewTuple
  <2> PICK G : G = {u}
    OBVIOUS
  <2>11. /\ G = IF "YIELD" = "YIELD" THEN {u} ELSE {}
         /\ G \cap Has(x)' = {}
         /\ G \cup Has(x)' \subseteq Given \cup Has(x) \cup (Tuples \ DOMAIN heap)
         /\ DOMAIN heap' = (DOMAIN heap \ (Given \cup Has(x))) \cup G \cup Has(x)'
    BY ZenonT(40), <2>4, <2>5, <2>8, <2>9
  <2> QED
    BY <2>1, <2>5, <2>7, <2>8, <2>9, <2>10, <2>11, ReturnHolds
<1>3. CASE /\ In("product", "REQUEST", "start") /\ local[n].current # None
           /\ Set([local[n] EXCEPT !.current = None])
           /\ Delete(local[n].current) /\ Call(Son(1), "REQUEST", "current")
  <2>1. /\ x \in Nodes /\ Op(x) = "product" /\ stack # << >> /\ "REQUEST" = Top.message
        /\ 1 \in DOMAIN plan[x].sons /\ local[x] \in LocalOf["product"] /\ local[x] # None
    BY <1>3, Begins DEF Idle, IdleOpened, Asked
  <2>2. plan' = plan /\ argument' = argument /\ Push(Son(1), "REQUEST", "current")
    BY <1>3 DEF Call, treeVars
  <2> PICK info : info = [local[n] EXCEPT !.current = None]
    OBVIOUS
  <2>3. /\ Set(info) /\ info # None /\ info.buffer = local[x].buffer /\ info.current = None
    <3>1. info # None /\ info.buffer = local[x].buffer
      BY <2>1, NewPlace
    <3>2. local[x] \in [current : Tuples \cup {None}, buffer : Seq(Tuples), next : Tuples]
      BY <2>1, Locals
    <3>3. info.current = None
      BY <3>2
    <3> QED
      BY <1>3, <3>1, <3>3
  <2>4. /\ Has(x) = KeptBy(local[x]) /\ KeptOnce(local[x])
        /\ Has(x)' = KeptBy(info) /\ (Distinct(x)' <=> KeptOnce(info))
        /\ Has(x) \subseteq DOMAIN heap /\ local[x].buffer \in Seq(Tuples)
    BY <2>1, <2>2, <2>3, ProductHas
  <2>5. None \notin Range(local[x].buffer)
    BY <2>4, Locals DEF Range
  <2>6. /\ Has(x)' = Has(x) \ {local[x].current} /\ local[x].current \in Has(x) /\ Distinct(x)'
    BY <1>3, <2>1, <2>3, <2>4, <2>5 DEF KeptBy, KeptOnce
  <2>7. HeapFine(heap') /\ DOMAIN heap' = DOMAIN heap \ {local[x].current}
    BY <1>3, WithoutFine DEF Delete, TupleInv, OneHolder
  <2>8. ~misused'
    <3>1. Live(local[x].current)
      BY <2>4, <2>6 DEF Live
    <3> QED
      BY <1>3, <3>1 DEF Delete, Reads, TupleInv
  <2>9. Given = {} /\ Alone(x)
    BY <1>3, <2>2, StaysAlone, TakesAnswer
  <2>10. /\ Has(x)' \subseteq Given \cup Has(x)
         /\ DOMAIN heap' = (DOMAIN heap \ (Given \cup Has(x))) \cup Has(x)'
    BY <2>4, <2>6, <2>7, <2>9
  <2>11. Waits(Op(x), Top.message, "current", 1, "REQUEST")
    BY <2>1 DEF Waits
  <2> QED
    BY <2>1, <2>2, <2>6, <2>7, <2>8, <2>9, <2>10, <2>11, CallHolds
<1>4. CASE /\ In("product", "REQUEST", "current") /\ Yielded
           /\ Set([local[n] EXCEPT !.current = answer.tuple, !.next = 2])
           /\ Reads({answer.tuple, local[n].buffer[1]})
           /\ \E value : YieldNew(value, None)
  <2> PICK t : t = answer.tuple
    OBVIOUS
  <2>1. /\ x \in Nodes /\ Op(x) = "product" /\ stack # << >> /\ "REQUEST" = Top.message
        /\ local[x] \in LocalOf["product"] /\ local[x] # None
        /\ local[x].current = None /\ local[x].buffer # << >>
    BY <1>4, Begins DEF Running
  <2>2. plan' = plan /\ argument' = argument
    BY <1>4 DEF YieldNew, Return, treeVars
  <2>3. Given = {t} /\ t \in Tuples /\ t # None /\ Given \subseteq DOMAIN heap
    BY <1>4, TakesAnswer, Locals DEF Live
  <2> PICK info : info = [local[n] EXCEPT !.current = answer.tuple, !.next = 2]
    OBVIOUS
  <2>4. /\ Set(info) /\ info # None /\ info.buffer = local[x].buffer /\ info.current = t
    <3>1. info # None /\ info.buffer = local[x].buffer
      BY <2>1, <2>3, NewPlace
    <3>2. local[x] \in [current : Tuples \cup {None}, buffer : Seq(Tuples), next : Tuples]
      BY <2>1, Locals
    <3>3. info.current = t
      BY <3>2
    <3> QED
      BY <1>4, <3>1, <3>3
  <2>5. /\ Has(x) = KeptBy(local[x]) /\ KeptOnce(local[x]) /\ Given \cap Has(x) = {}
        /\ Has(x)' = KeptBy(info) /\ (Distinct(x)' <=> KeptOnce(info))
        /\ Has(x) \subseteq DOMAIN heap /\ local[x].buffer \in Seq(Tuples)
    BY ZenonT(40), <2>1, <2>2, <2>4, ProductHas
  <2>6. None \notin Range(local[x].buffer)
    BY <2>5, Locals DEF Range
  <2>7. Has(x) = Range(local[x].buffer) /\ Has(x)' = Has(x) \cup Given
    BY <2>1, <2>3, <2>4, <2>5, <2>6 DEF KeptBy
  <2>8. Distinct(x)'
    <3>1. t \notin Range(local[x].buffer)
      BY <2>3, <2>5, <2>7
    <3>2. \A i, j \in DOMAIN local[x].buffer : local[x].buffer[i] = local[x].buffer[j] => i = j
      BY <2>1, <2>5 DEF KeptOnce
    <3> QED
      BY <2>4, <2>5, <3>1, <3>2 DEF KeptOnce
  <2>9. ~misused'
    <3>1. 1 \in DOMAIN local[x].buffer
      BY <2>1, <2>5, EmptySeq, LenProperties
    <3>2. Live(t) /\ Live(local[x].buffer[1])
      BY <2>3, <2>5, <2>7, <3>1 DEF Range, Live
    <3> QED
      BY <1>4, <3>2 DEF Reads, TupleInv
  <2>10. None \notin DOMAIN heap /\ Alone(x)
    BY <1>4, <2>2, StaysAlone, Locals DEF TupleInv, OneHolder, HeapFine
  <2>11. PICK u \in Tuples : /\ Return("YIELD", u) /\ u \notin DOMAIN heap \ {None}
                             /\ DOMAIN heap' = (DOMAIN heap \ {None}) \cup {u}
    BY <1>4, NewTuple
  <2>12. HeapFine(heap')
    BY <1>4, NewTuple
  <2> PICK G : G = {u}
    OBVIOUS
  <2>13. /\ G = IF "YIELD" = "YIELD" THEN {u} ELSE {}
         /\ G \cap Has(x)' = {}
         /\ G \cup Has(x)' \subseteq Given \cup Has(x) \cup (Tuples \ DOMAIN heap)
         /\ DOMAIN heap' = (DOMAIN heap \ (Given \cup Has(x))) \cup G \cup Has(x)'
    BY <2>3, <2>5, <2>7, <2>10, <2>11
  <2> QED
    BY <2>1, <2>8, <2>9, <2>10, <2>11, <2>12, <2>13, ReturnHolds
<1>5. CASE /\ In("product", "REQUEST", "current") /\ ~Yielded /\ KeepLocal /\ KeepTuples
           /\ Return("CANCEL", None)
  <2>1. stack # << >> /\ Top.at = "current" /\ Given = {}
    BY <1>5, TakesAnswer DEF In
  <2> QED
    BY <1>5, <2>1, EmptyReturn
<1> QED
  BY <1>1, <1>2, <1>3, <1>4, <1>5 DEF ProductRequest

LEMMA ProductCloseHolds ==
  ASSUME ProtocolInv, TupleInv, ProductClose
  PROVE  TupleInv'
<1> PICK x : x = n
  OBVIOUS
<1>1. CASE /\ In("product", "CLOSE", "start") /\ Call(Son(1), "CLOSE", "first")
           /\ KeepLocal /\ KeepTuples
  <2>1. 1 \in DOMAIN plan[n].sons /\ Waits("product", "CLOSE", "first", 1, "CLOSE")
    BY <1>1, Begins DEF Waits
  <2> QED
    BY <1>1, <2>1, TakesAnswer, WaitingCall
<1>2. CASE /\ In("product", "CLOSE", "first") /\ Call(Son(2), "CLOSE", "second")
           /\ KeepLocal /\ KeepTuples
  <2>1. /\ 2 \in DOMAIN plan[n].sons /\ Waits("product", "CLOSE", "second", 2, "CLOSE")
        /\ \A k : ~Waits("product", "CLOSE", "first", k, "REQUEST")
    BY <1>2, Begins DEF Waits
  <2> QED
    BY <1>2, <2>1, TakesAnswer, WaitingCall
<1>3. CASE /\ In("product", "CLOSE", "second") /\ DeleteAll(HeldByProduct)
           /\ Set(None) /\ Return("OK", None)
  <2>1. /\ x \in Nodes /\ Op(x) = "product" /\ stack # << >> /\ "CLOSE" = Top.message
        /\ \A k : ~Waits("product", "CLOSE", "second", k, "REQUEST")
    BY <1>3, Begins DEF Waits
  <2>2. plan' = plan /\ argument' = argument
    BY <1>3 DEF Return, treeVars
  <2>3. Alone(x) /\ Given = {}
    BY <1>3, <2>1, <2>2, StaysAlone, TakesAnswer
  <2>4. HeapFine(heap') /\ ~misused' /\ DOMAIN heap' = DOMAIN heap \ Has(x)
    BY <1>3, <2>1, HeldDeleted
  <2>5. KeptBy(None) = {} /\ KeptOnce(None)
    BY DEF KeptBy, KeptOnce
  <2>6. Has(x)' = {} /\ Distinct(x)'
    BY <1>3, <2>1, <2>2, <2>5, ProductHas
  <2> PICK G : G = {}
    OBVIOUS
  <2>7. /\ G = IF "OK" = "YIELD" THEN {None} ELSE {}
        /\ G \cap Has(x)' = {}
        /\ G \cup Has(x)' \subseteq Given \cup Has(x) \cup (Tuples \ DOMAIN heap)
        /\ DOMAIN heap' = (DOMAIN heap \ (Given \cup Has(x))) \cup G \cup Has(x)'
    BY <2>3, <2>4, <2>6
  <2> QED
    BY <1>3, <2>1, <2>3, <2>4, <2>6, <2>7, ReturnHolds
<1> QED
  BY <1>1, <1>2, <1>3 DEF ProductClose

\* The tuple of a loopjoin, by its local information.
KeptAs(info) == IF info = None THEN {} ELSE {info.x} \ {None}

LEMMA LoopjoinHas ==
  ASSUME ProtocolInv, TupleInv, NEW message, NEW at, In("loopjoin", message, at), NEW x, x = n
  PROVE  /\ x \in Nodes /\ Op(x) = "loopjoin" /\ stack # << >> /\ message = Top.message
         /\ Top.at = at /\ DOMAIN plan[x].sons = {1, 2}
         /\ Has(x) = IF at = "function" THEN {argument[x]}
                     ELSE IF message = "REQUEST" /\ at = "outer" THEN {}
                     ELSE KeptAs(local[x])
         /\ Has(x) \subseteq DOMAIN heap /\ Given \cap Has(x) = {} /\ Given \subseteq DOMAIN heap
         /\ HeapFine(heap) /\ ~misused /\ None \notin DOMAIN heap
         /\ plan' = plan => Op(x)' = "loopjoin" /\ Distinct(x)'
         /\ \A info : Set(info) => local'[x] = info
         /\ KeepLocal => local'[x] = local[x]
<1>1. /\ x \in Nodes /\ Op(x) = "loopjoin" /\ stack # << >> /\ message = Top.message
      /\ Top.at = at /\ DOMAIN plan[x].sons = {1, 2}
  BY Begins
<1>2. (Passing(x) <=> at = "function") /\ (Stale(x) <=> message = "REQUEST" /\ at = "outer")
  BY <1>1, Placed
<1>3. Has(x) = IF at = "function" THEN {argument[x]}
               ELSE IF message = "REQUEST" /\ at = "outer" THEN {}
               ELSE KeptAs(local[x])
  BY <1>1, <1>2 DEF Has, KeptAs
<1>4. /\ Has(x) \subseteq DOMAIN heap /\ Given \cap Has(x) = {} /\ Given \subseteq DOMAIN heap
      /\ HeapFine(heap) /\ ~misused /\ None \notin DOMAIN heap
  BY <1>1, Locals DEF TupleInv, OneHolder, HeapFine
<1>5. plan' = plan => Op(x)' = "loopjoin" /\ Distinct(x)'
  BY <1>1 DEF Op, Distinct
<1>6. DOMAIN local = Nodes
  BY DEF ProtocolInv, ValuesOK
<1>7. (\A info : Set(info) => local'[x] = info) /\ (KeepLocal => local'[x] = local[x])
  BY <1>1, <1>6 DEF Set, KeepLocal
<1> QED
  BY <1>1, <1>3, <1>4, <1>5, <1>7

LEMMA LoopjoinCalls ==
  ASSUME ProtocolInv, NEW x \in Nodes, x = n, Op(x) = "loopjoin", stack # << >>, plan' = plan,
         NEW k \in DOMAIN plan[x].sons, NEW m, NEW at, Push(Son(k), m, at),
         Waits(Op(x), Top.message, at, k, m)
  PROVE  Has(x)' = IF at = "function" THEN {argument'[x]}
                   ELSE IF Top.message = "REQUEST" /\ at = "outer" THEN {}
                   ELSE KeptAs(local'[x])
<1>1. m \in {"OPEN", "REQUEST", "CLOSE"} /\ at \in Places
  BY DEF Waits, Places
<1>2. (Passing(x)' <=> at = "function") /\ (Stale(x)' <=> Top.message = "REQUEST" /\ at = "outer")
  BY <1>1, CallPlaces
<1>3. Op(x)' = "loopjoin"
  BY DEF Op
<1> QED
  BY <1>2, <1>3 DEF Has, KeptAs

LEMMA LoopjoinReturns ==
  ASSUME ProtocolInv, NEW x \in Nodes, x = n, Op(x) = "loopjoin", stack # << >>,
         NEW status, NEW tuple, Return(status, tuple)
  PROVE  Has(x)' = KeptAs(local'[x]) /\ plan' = plan /\ argument' = argument
<1>1. stack' = Tail(stack) /\ plan' = plan /\ argument' = argument
  BY DEF Return, treeVars
<1>2. ~Passing(x)' /\ ~Stale(x)'
  BY <1>1, ReturnPlaces
<1>3. Op(x)' = "loopjoin"
  BY <1>1 DEF Op
<1> QED
  BY <1>1, <1>2, <1>3 DEF Has, KeptAs

\* A tuple becomes the argument of the function.
LEMMA LoopjoinPasses ==
  ASSUME ProtocolInv, TupleInv, NEW message, NEW at, In("loopjoin", message, at),
         at # "start", Yielded, KeepTuples, KeepLocal, CallWith(answer.tuple, "function"),
         message \in {"OPEN", "REQUEST"}, NEW x, x = n, Has(x) = {}
  PROVE  TupleInv'
<1> PICK t : t = answer.tuple
  OBVIOUS
<1>1. /\ x \in Nodes /\ Op(x) = "loopjoin" /\ stack # << >> /\ message = Top.message
      /\ 2 \in DOMAIN plan[x].sons
  BY LoopjoinHas
<1>2. plan' = plan /\ argument' = [argument EXCEPT ![x] = t] /\ Push(Son(2), "OPEN", "function")
  BY DEF CallWith
<1>3. DOMAIN argument = Nodes
  BY DEF ProtocolInv, ValuesOK
<1>4. argument'[x] = t /\ Alone(x) /\ Distinct(x)'
  BY <1>1, <1>2, <1>3, LoopjoinHas DEF Alone, KeepLocal
<1>5. Waits(Op(x), Top.message, "function", 2, "OPEN")
  BY <1>1 DEF Waits
<1>6. Has(x)' = {t}
  BY <1>1, <1>2, <1>4, <1>5, LoopjoinCalls
<1>7. Given = {t} /\ Given \subseteq DOMAIN heap
  BY TakesAnswer DEF Live
<1>8. ~misused' /\ HeapFine(heap') /\ heap' = heap
  BY TuplesKept
<1>9. /\ Has(x)' \subseteq Given \cup Has(x)
      /\ DOMAIN heap' = (DOMAIN heap \ (Given \cup Has(x))) \cup Has(x)'
  BY <1>6, <1>7, <1>8
<1> QED
  BY <1>1, <1>2, <1>4, <1>5, <1>8, <1>9, CallHolds

LEMMA LoopjoinOpenHolds ==
  ASSUME ProtocolInv, TupleInv, LoopjoinOpen
  PROVE  TupleInv'
<1> PICK x : x = n
  OBVIOUS
<1>1. CASE /\ In("loopjoin", "OPEN", "start") /\ Set([x |-> None])
           /\ Call(Son(1), "OPEN", "opened") /\ KeepTuples
  <2> PICK info : info = [x |-> None]
    OBVIOUS
  <2>1. /\ x \in Nodes /\ Op(x) = "loopjoin" /\ stack # << >> /\ "OPEN" = Top.message
        /\ 1 \in DOMAIN plan[x].sons /\ Has(x) = KeptAs(local[x]) /\ local'[x] = info
    BY <1>1, LoopjoinHas
  <2>2. local[x] = None
    BY <1>1, <2>1, Begins DEF Idle, IdleClosed, Asked
  <2>3. Has(x) = {} /\ KeptAs(info) = {}
    BY <2>1, <2>2 DEF KeptAs
  <2>4. plan' = plan /\ argument' = argument /\ Push(Son(1), "OPEN", "opened")
    BY <1>1 DEF Call, treeVars
  <2>5. Alone(x) /\ Distinct(x)' /\ Given = {}
    BY <1>1, <2>4, StaysAlone, LoopjoinHas, TakesAnswer
  <2>6. Waits(Op(x), Top.message, "opened", 1, "OPEN")
    BY <2>1 DEF Waits
  <2>7. Has(x)' = {}
    BY <2>1, <2>3, <2>4, <2>6, LoopjoinCalls
  <2>8. ~misused' /\ HeapFine(heap') /\ heap' = heap
    BY <1>1, TuplesKept
  <2>9. /\ Has(x)' \subseteq Given \cup Has(x)
        /\ DOMAIN heap' = (DOMAIN heap \ (Given \cup Has(x))) \cup Has(x)'
    BY <2>3, <2>5, <2>7, <2>8
  <2> QED
    BY <2>1, <2>4, <2>5, <2>6, <2>8, <2>9, CallHolds
<1>2. CASE /\ In("loopjoin", "OPEN", "opened") /\ Call(Son(1), "REQUEST", "first")
           /\ KeepLocal /\ KeepTuples
  <2>1. /\ 1 \in DOMAIN plan[n].sons /\ Waits("loopjoin", "OPEN", "first", 1, "REQUEST")
        /\ \A k : ~Waits("loopjoin", "OPEN", "opened", k, "REQUEST")
    BY <1>2, Begins DEF Waits
  <2> QED
    BY <1>2, <2>1, TakesAnswer, WaitingCall
<1>3. CASE /\ In("loopjoin", "OPEN", "first") /\ Yielded /\ KeepTuples
           /\ KeepLocal /\ CallWith(answer.tuple, "function")
  <2>1. Has(x) = KeptAs(local[x]) /\ local[x].x = None
    BY <1>3, LoopjoinHas, Begins DEF Running
  <2>2. Has(x) = {}
    BY <2>1 DEF KeptAs
  <2> QED
    BY <1>3, <2>2, LoopjoinPasses
<1>4. CASE /\ In("loopjoin", "OPEN", "first") /\ ~Yielded /\ KeepTuples
           /\ KeepLocal /\ Return("OK", None)
  <2>1. stack # << >> /\ Top.at = "first" /\ Given = {}
    BY <1>4, TakesAnswer DEF In
  <2> QED
    BY <1>4, <2>1, EmptyReturn
<1>5. CASE /\ In("loopjoin", "OPEN", "function") /\ Set([x |-> argument[n]])
           /\ KeepTuples /\ Return("OK", None)
  <2> PICK a : a = argument[x]
    OBVIOUS
  <2> PICK info : info = [x |-> a]
    OBVIOUS
  <2>1. /\ x \in Nodes /\ Op(x) = "loopjoin" /\ stack # << >> /\ "OPEN" = Top.message
        /\ Has(x) = {a} /\ Has(x) \subseteq DOMAIN heap /\ None \notin DOMAIN heap
        /\ local'[x] = info
    BY <1>5, LoopjoinHas
  <2>2. plan' = plan /\ argument' = argument /\ Has(x)' = KeptAs(info)
    BY <1>5, <2>1, LoopjoinReturns
  <2>3. info # None
    <3>1. a \in Tuples
      BY <2>1 DEF TupleInv, OneHolder, HeapFine
    <3>2. info \in [x : Tuples \cup {None}]
      BY <3>1
    <3> QED
      BY <3>2, Locals
  <2>4. Has(x)' = {a}
    BY <2>1, <2>2, <2>3 DEF KeptAs
  <2>5. \A k : ~Waits("loopjoin", "OPEN", "function", k, "REQUEST")
    BY DEF Waits
  <2>6. Alone(x) /\ Distinct(x)' /\ Given = {}
    BY <1>5, <2>2, <2>5, StaysAlone, LoopjoinHas, TakesAnswer
  <2>7. ~misused' /\ HeapFine(heap') /\ heap' = heap
    BY <1>5, TuplesKept
  <2> PICK G : G = {}
    OBVIOUS
  <2>8. /\ G = IF "OK" = "YIELD" THEN {None} ELSE {}
        /\ G \cap Has(x)' = {}
        /\ G \cup Has(x)' \subseteq Given \cup Has(x) \cup (Tuples \ DOMAIN heap)
        /\ DOMAIN heap' = (DOMAIN heap \ (Given \cup Has(x))) \cup G \cup Has(x)'
    BY <2>1, <2>4, <2>6, <2>7
  <2> QED
    BY <1>5, <2>1, <2>6, <2>7, <2>8, ReturnHolds
<1> QED
  BY <1>1, <1>2, <1>3, <1>4, <1>5 DEF LoopjoinOpen

LEMMA JoinInfo ==
  ASSUME NEW a \in Tuples \cup {None}
  PROVE  [x |-> a] # None
<1>1. [x |-> a] \in [x : Tuples \cup {None}]
  OBVIOUS
<1> QED
  BY <1>1, Locals

LEMMA LoopjoinRequestHolds ==
  ASSUME ProtocolInv, TupleInv, LoopjoinRequest
  PROVE  TupleInv'
<1> PICK x : x = n
  OBVIOUS
<1>1. CASE /\ In("loopjoin", "REQUEST", "start") /\ KeepLocal /\ KeepTuples
           /\ Return("CANCEL", None)
  <2>1. stack # << >> /\ Top.at = "start" /\ Given = {}
    BY <1>1, TakesAnswer DEF In
  <2> QED
    BY <1>1, <2>1, EmptyReturn
<1>2. CASE /\ In("loopjoin", "REQUEST", "start") /\ Call(Son(2), "REQUEST", "inner")
           /\ KeepLocal /\ KeepTuples
  <2>1. 2 \in DOMAIN plan[n].sons /\ Waits("loopjoin", "REQUEST", "inner", 2, "REQUEST")
    BY <1>2, Begins DEF Waits
  <2> QED
    BY <1>2, <2>1, TakesAnswer, WaitingCall
<1>3. CASE /\ In("loopjoin", "REQUEST", "inner") /\ KeepLocal /\ Yielded
           /\ Reads({local[n].x, answer.tuple})
           /\ \E value : YieldNew(value, answer.tuple)
  <2> PICK t : t = answer.tuple
    OBVIOUS
  <2>1. /\ x \in Nodes /\ Op(x) = "loopjoin" /\ stack # << >> /\ "REQUEST" = Top.message
        /\ Has(x) = KeptAs(local[x]) /\ Has(x) \subseteq DOMAIN heap
        /\ Given \cap Has(x) = {} /\ local'[x] = local[x]
    BY <1>3, LoopjoinHas
  <2>2. local[x] # None /\ local[x].x # None
    BY <1>3, Begins DEF Running
  <2>3. Given = {t} /\ Live(t)
    BY <1>3, TakesAnswer
  <2>4. ~misused'
    <3>1. Live(local[x].x)
      BY <2>1, <2>2 DEF KeptAs, Live
    <3> QED
      BY <1>3, <2>3, <3>1 DEF Reads, TupleInv
  <2>5. PICK u \in Tuples : /\ Return("YIELD", u) /\ u \notin DOMAIN heap \ {t}
                            /\ DOMAIN heap' = (DOMAIN heap \ {t}) \cup {u}
    BY <1>3, NewTuple
  <2>6. HeapFine(heap')
    BY <1>3, NewTuple
  <2>7. plan' = plan /\ argument' = argument /\ Has(x)' = Has(x)
    BY <2>1, <2>5, LoopjoinReturns
  <2>8. Alone(x) /\ Distinct(x)'
    BY <1>3, <2>7, StaysAlone, LoopjoinHas
  <2> PICK G : G = {u}
    OBVIOUS
  <2>9. /\ G = IF "YIELD" = "YIELD" THEN {u} ELSE {}
        /\ G \cap Has(x)' = {}
        /\ G \cup Has(x)' \subseteq Given \cup Has(x) \cup (Tuples \ DOMAIN heap)
        /\ DOMAIN heap' = (DOMAIN heap \ (Given \cup Has(x))) \cup G \cup Has(x)'
    BY <2>1, <2>3, <2>5, <2>7
  <2> QED
    BY <2>1, <2>4, <2>5, <2>6, <2>8, <2>9, ReturnHolds
<1>4. CASE /\ In("loopjoin", "REQUEST", "inner") /\ KeepLocal /\ ~Yielded /\ KeepTuples
           /\ Call(Son(2), "CLOSE", "closed")
  <2>1. 2 \in DOMAIN plan[n].sons /\ Waits("loopjoin", "REQUEST", "closed", 2, "CLOSE")
    BY <1>4, Begins DEF Waits
  <2> QED
    BY <1>4, <2>1, TakesAnswer, WaitingCall
<1>5. CASE /\ In("loopjoin", "REQUEST", "closed") /\ Delete(local[n].x) /\ KeepLocal
           /\ Call(Son(1), "REQUEST", "outer")
  <2>1. /\ x \in Nodes /\ Op(x) = "loopjoin" /\ stack # << >> /\ "REQUEST" = Top.message
        /\ 1 \in DOMAIN plan[x].sons
        /\ Has(x) = KeptAs(local[x]) /\ Has(x) \subseteq DOMAIN heap
    BY <1>5, LoopjoinHas
  <2>2. local[x] # None /\ local[x].x # None
    BY <1>5, Begins DEF Running
  <2>3. Has(x) = {local[x].x}
    BY <2>1, <2>2 DEF KeptAs
  <2>4. plan' = plan /\ argument' = argument /\ Push(Son(1), "REQUEST", "outer")
    BY <1>5 DEF Call, treeVars
  <2>5. \A k : ~Waits("loopjoin", "REQUEST", "closed", k, "REQUEST")
    BY DEF Waits
  <2>6. Alone(x) /\ Distinct(x)' /\ Given = {}
    BY <1>5, <2>4, <2>5, StaysAlone, LoopjoinHas, TakesAnswer
  <2>7. Waits(Op(x), Top.message, "outer", 1, "REQUEST")
    BY <2>1 DEF Waits
  <2>8. Has(x)' = {}
    BY <2>1, <2>4, <2>7, LoopjoinCalls
  <2>9. HeapFine(heap') /\ DOMAIN heap' = DOMAIN heap \ {local[x].x}
    BY <1>5, WithoutFine DEF Delete, TupleInv, OneHolder
  <2>10. ~misused'
    BY <1>5, <2>1, <2>3 DEF Delete, Reads, Live, TupleInv
  <2>11. /\ Has(x)' \subseteq Given \cup Has(x)
         /\ DOMAIN heap' = (DOMAIN heap \ (Given \cup Has(x))) \cup Has(x)'
    BY <2>3, <2>6, <2>8, <2>9
  <2> QED
    BY <2>1, <2>4, <2>6, <2>7, <2>9, <2>10, <2>11, CallHolds
<1>6. CASE /\ In("loopjoin", "REQUEST", "outer") /\ KeepTuples /\ Yielded /\ KeepLocal
           /\ CallWith(answer.tuple, "function")
  <2>1. Has(x) = {}
    BY <1>6, LoopjoinHas
  <2> QED
    BY <1>6, <2>1, LoopjoinPasses
<1>7. CASE /\ In("loopjoin", "REQUEST", "outer") /\ KeepTuples /\ ~Yielded
           /\ Set([x |-> None]) /\ Return("CANCEL", None)
  <2> PICK info : info = [x |-> None]
    OBVIOUS
  <2>1. /\ x \in Nodes /\ Op(x) = "loopjoin" /\ stack # << >> /\ "REQUEST" = Top.message
        /\ Has(x) = {} /\ local'[x] = info
    BY <1>7, LoopjoinHas
  <2>2. plan' = plan /\ argument' = argument /\ Has(x)' = KeptAs(info)
    BY <1>7, <2>1, LoopjoinReturns
  <2>3. KeptAs(info) = {}
    BY DEF KeptAs
  <2>4. Alone(x) /\ Distinct(x)' /\ Given = {}
    BY <1>7, <2>2, StaysAlone, LoopjoinHas, TakesAnswer
  <2>5. ~misused' /\ HeapFine(heap') /\ heap' = heap
    BY <1>7, TuplesKept
  <2> PICK G : G = {}
    OBVIOUS
  <2>6. /\ G = IF "CANCEL" = "YIELD" THEN {None} ELSE {}
        /\ G \cap Has(x)' = {}
        /\ G \cup Has(x)' \subseteq Given \cup Has(x) \cup (Tuples \ DOMAIN heap)
        /\ DOMAIN heap' = (DOMAIN heap \ (Given \cup Has(x))) \cup G \cup Has(x)'
    BY <2>1, <2>2, <2>3, <2>4, <2>5
  <2> QED
    BY <1>7, <2>1, <2>4, <2>5, <2>6, ReturnHolds
<1>8. CASE /\ In("loopjoin", "REQUEST", "function") /\ Set([x |-> argument[n]])
           /\ Call(Son(2), "REQUEST", "inner") /\ KeepTuples
  <2> PICK a : a = argument[x]
    OBVIOUS
  <2> PICK info : info = [x |-> a]
    OBVIOUS
  <2>1. /\ x \in Nodes /\ Op(x) = "loopjoin" /\ stack # << >> /\ "REQUEST" = Top.message
        /\ 2 \in DOMAIN plan[x].sons
        /\ Has(x) = {a} /\ Has(x) \subseteq DOMAIN heap /\ None \notin DOMAIN heap
        /\ local'[x] = info
    BY <1>8, LoopjoinHas
  <2>2. plan' = plan /\ argument' = argument /\ Push(Son(2), "REQUEST", "inner")
    BY <1>8 DEF Call, treeVars
  <2>3. \A k : ~Waits("loopjoin", "REQUEST", "function", k, "REQUEST")
    BY DEF Waits
  <2>4. Alone(x) /\ Distinct(x)' /\ Given = {}
    BY <1>8, <2>2, <2>3, StaysAlone, LoopjoinHas, TakesAnswer
  <2>5. Waits(Op(x), Top.message, "inner", 2, "REQUEST")
    BY <2>1 DEF Waits
  <2>6. Has(x)' = KeptAs(info)
    BY <2>1, <2>2, <2>5, LoopjoinCalls
  <2>7. info # None
    <3>1. a \in Tuples \cup {None}
      BY <2>1 DEF TupleInv, OneHolder, HeapFine
    <3> QED
      BY <3>1, JoinInfo
  <2>8. Has(x)' = {a}
    BY <2>1, <2>6, <2>7 DEF KeptAs
  <2>9. ~misused' /\ HeapFine(heap') /\ heap' = heap
    BY <1>8, TuplesKept
  <2>10. /\ Has(x)' \subseteq Given \cup Has(x)
         /\ DOMAIN heap' = (DOMAIN heap \ (Given \cup Has(x))) \cup Has(x)'
    BY <2>1, <2>4, <2>8, <2>9
  <2> QED
    BY <2>1, <2>2, <2>4, <2>5, <2>9, <2>10, CallHolds
<1> QED
  BY <1>1, <1>2, <1>3, <1>4, <1>5, <1>6, <1>7, <1>8 DEF LoopjoinRequest, InnerEnded

LEMMA LoopjoinCloseHolds ==
  ASSUME ProtocolInv, TupleInv, LoopjoinClose
  PROVE  TupleInv'
<1> PICK x : x = n
  OBVIOUS
<1>1. CASE /\ In("loopjoin", "CLOSE", "start") /\ Call(Son(1), "CLOSE", "outer")
           /\ KeepLocal /\ KeepTuples
  <2>1. 1 \in DOMAIN plan[n].sons /\ Waits("loopjoin", "CLOSE", "outer", 1, "CLOSE")
    BY <1>1, Begins DEF Waits
  <2> QED
    BY <1>1, <2>1, TakesAnswer, WaitingCall
<1>2. CASE /\ In("loopjoin", "CLOSE", "outer") /\ KeepTuples /\ KeepLocal
           /\ Call(Son(2), "CLOSE", "inner")
  <2>1. /\ 2 \in DOMAIN plan[n].sons /\ Waits("loopjoin", "CLOSE", "inner", 2, "CLOSE")
        /\ \A k : ~Waits("loopjoin", "CLOSE", "outer", k, "REQUEST")
    BY <1>2, Begins DEF Waits
  <2> QED
    BY <1>2, <2>1, TakesAnswer, WaitingCall
<1>3. CASE /\ In("loopjoin", "CLOSE", "outer") /\ KeepTuples
           /\ ~(local[n] # None /\ local[n].x # None) /\ Set(None) /\ Return("OK", None)
  <2>1. /\ x \in Nodes /\ Op(x) = "loopjoin" /\ stack # << >> /\ "CLOSE" = Top.message
        /\ Has(x) = KeptAs(local[x]) /\ local'[x] = None
    BY <1>3, LoopjoinHas
  <2>2. plan' = plan /\ argument' = argument /\ Has(x)' = KeptAs(None)
    BY <1>3, <2>1, LoopjoinReturns
  <2>3. Has(x) = {} /\ Has(x)' = {}
    BY <1>3, <2>1, <2>2 DEF KeptAs
  <2>4. \A k : ~Waits("loopjoin", "CLOSE", "outer", k, "REQUEST")
    BY DEF Waits
  <2>5. Alone(x) /\ Distinct(x)' /\ Given = {}
    BY <1>3, <2>2, <2>4, StaysAlone, LoopjoinHas, TakesAnswer
  <2>6. ~misused' /\ HeapFine(heap') /\ heap' = heap
    BY <1>3, TuplesKept
  <2> PICK G : G = {}
    OBVIOUS
  <2>7. /\ G = IF "OK" = "YIELD" THEN {None} ELSE {}
        /\ G \cap Has(x)' = {}
        /\ G \cup Has(x)' \subseteq Given \cup Has(x) \cup (Tuples \ DOMAIN heap)
        /\ DOMAIN heap' = (DOMAIN heap \ (Given \cup Has(x))) \cup G \cup Has(x)'
    BY <2>3, <2>5, <2>6
  <2> QED
    BY <1>3, <2>1, <2>5, <2>6, <2>7, ReturnHolds
<1>4. CASE /\ In("loopjoin", "CLOSE", "inner") /\ Delete(local[n].x)
           /\ Set(None) /\ Return("OK", None)
  <2>1. /\ x \in Nodes /\ Op(x) = "loopjoin" /\ stack # << >> /\ "CLOSE" = Top.message
        /\ Has(x) = KeptAs(local[x]) /\ local'[x] = None /\ Has(x) \subseteq DOMAIN heap
    BY <1>4, LoopjoinHas
  <2>2. local[x] # None /\ local[x].x # None
    BY <1>4, Begins DEF Running
  <2>3. plan' = plan /\ argument' = argument /\ Has(x)' = KeptAs(None)
    BY <1>4, <2>1, LoopjoinReturns
  <2>4. Has(x) = {local[x].x} /\ Has(x)' = {}
    BY <2>1, <2>2, <2>3 DEF KeptAs
  <2>5. \A k : ~Waits("loopjoin", "CLOSE", "inner", k, "REQUEST")
    BY DEF Waits
  <2>6. Alone(x) /\ Distinct(x)' /\ Given = {}
    BY <1>4, <2>3, <2>5, StaysAlone, LoopjoinHas, TakesAnswer
  <2>7. HeapFine(heap') /\ DOMAIN heap' = DOMAIN heap \ {local[x].x}
    BY <1>4, WithoutFine DEF Delete, TupleInv, OneHolder
  <2>8. ~misused'
    BY <1>4, <2>1, <2>4 DEF Delete, Reads, Live, TupleInv
  <2> PICK G : G = {}
    OBVIOUS
  <2>9. /\ G = IF "OK" = "YIELD" THEN {None} ELSE {}
        /\ G \cap Has(x)' = {}
        /\ G \cup Has(x)' \subseteq Given \cup Has(x) \cup (Tuples \ DOMAIN heap)
        /\ DOMAIN heap' = (DOMAIN heap \ (Given \cup Has(x))) \cup G \cup Has(x)'
    BY <2>4, <2>6, <2>7
  <2> QED
    BY <1>4, <2>1, <2>6, <2>7, <2>8, <2>9, ReturnHolds
<1> QED
  BY <1>1, <1>2, <1>3, <1>4 DEF LoopjoinClose

LEMMA TupleStep ==
  ASSUME ProtocolInv, TupleInv, [Next]_vars
  PROVE  TupleInv'
<1>1. CASE Step
  BY <1>1, FeedHolds, FilterHolds, HeadHolds, CancelHolds, ConcatHolds, ProductOpenHolds,
     ProductRequestHolds, ProductCloseHolds, LoopjoinOpenHolds, LoopjoinRequestHolds,
     LoopjoinCloseHolds, ConsumeHolds, CancelledHolds, DestroyHolds DEF Step
<1>2. CASE UserCancels
  BY <1>2, NobodyMoves DEF UserCancels
<1>3. CASE UNCHANGED vars
  BY <1>3, NobodyMoves DEF vars, treeVars
<1> QED
  BY <1>1, <1>2, <1>3 DEF Next

(* Every tuple in memory has one reference and one owner: a product, a       *)
(* loopjoin or the answer that is on its way.                                *)
THEOREM TuplesAlways == Spec => []TupleInv
<1>1. Init => TupleInv
  BY TupleInit
<1>2. ProtocolInv /\ TupleInv /\ [Next]_vars => TupleInv'
  BY TupleStep
<1> QED
  BY <1>1, <1>2, ProtocolAlways, PTL DEF Spec

LEMMA NothingIsLeft ==
  ASSUME ProtocolInv, TupleInv
  PROVE  NothingLeft
<1>1. ASSUME stack = << >>
      PROVE  heap = << >> /\ \A x \in Nodes : streams[x] = "closed"
  <2>1. \A x \in Nodes : streams[x] = "closed" /\ Idle(x)
    BY <1>1 DEF ProtocolInv, EndOK, QuietOK, OnStack
  <2>2. \A x \in Nodes : Op(x) # "head" => local[x] = None
    BY <2>1 DEF Idle, IdleClosed
  <2>3. \A x \in Nodes : Has(x) = {}
    BY <1>1, <2>2 DEF Has, Passing
  <2>4. Given = {}
    BY <1>1 DEF Given
  <2>5. DOMAIN heap = {}
    BY <2>3, <2>4 DEF TupleInv, OneHolder
  <2>6. heap = [t \in DOMAIN heap |-> heap[t]]
    BY DEF TupleInv, OneHolder, HeapFine
  <2>7. heap = << >>
    BY <2>5, <2>6
  <2> QED
    BY <2>1, <2>7
<1>2. ASSUME Ended
      PROVE  /\ local = [node \in Nodes |-> None]
             /\ streams = [node \in Nodes |-> "closed"]
  <2>1. stack = << >> /\ destroyed = Len(plan)
    BY <1>2 DEF Ended
  <2>2. Nodes = 1 .. Len(plan)
    BY NodesAndSons DEF ProtocolInv, ValuesOK
  <2>3. \A x \in Nodes : local[x] = None
    BY <2>1, <2>2 DEF ProtocolInv, EndOK
  <2>4. local = [x \in Nodes |-> local[x]] /\ streams \in [Nodes -> {"closed", "open", "ended"}]
    BY DEF ProtocolInv, ValuesOK
  <2>5. streams = [x \in Nodes |-> streams[x]]
    BY <2>4
  <2> QED
    BY <1>1, <2>1, <2>3, <2>4, <2>5
<1>3. ~misused
  BY DEF TupleInv
<1> QED
  BY <1>1, <1>2, <1>3 DEF NothingLeft

(* For every query, also when head stops early or the user cancels: no      *)
(* operator reads or deletes a tuple that is deleted already, and at the    *)
(* end every tuple and all local information is gone.                       *)
THEOREM NothingLeftCorrect == Spec => []NothingLeft
<1>1. ProtocolInv /\ TupleInv => NothingLeft
  BY NothingIsLeft
<1> QED
  BY <1>1, ProtocolAlways, TuplesAlways, PTL

(* Calls, answers, local information, tuples and streams keep their form. *)
THEOREM TypeCorrect == Spec => []StreamQueryTypeOK
<1>1. ProtocolInv /\ TupleInv => StreamQueryTypeOK
  <2> SUFFICES ASSUME ProtocolInv, TupleInv
               PROVE  StreamQueryTypeOK
    OBVIOUS
  <2>1. ValuesOK /\ PathOK /\ EndOK
    BY DEF ProtocolInv
  <2>2. ASSUME NEW i \in DOMAIN stack
        PROVE  /\ stack[i].node \in Nodes
               /\ stack[i].message \in {"OPEN", "REQUEST", "CLOSE", "CLOSEPROGRESS"}
               /\ i > 1 => stack[i].at # "start"
    <3>1. stack # << >> /\ stack[i] \in Frames
      BY <2>1 DEF ValuesOK
    <3>2. i > 1 => i \in 2 .. Len(stack)
      BY <2>1, <3>1, StackShape
    <3>3. i > 1 => stack[i].at # "start"
      BY <2>1, <3>1, <3>2, StackShape, WaitsAt
    <3> QED
      BY <3>1, <3>3 DEF Frames
  <2>3. \A t \in DOMAIN heap : t \in Tuples /\ heap[t].refs \in Nat \ {0}
    <3>1. /\ DOMAIN heap \subseteq Tuples
          /\ \A t \in DOMAIN heap : heap[t] = [value |-> heap[t].value, refs |-> 1]
      BY DEF TupleInv, OneHolder, HeapFine
    <3>2. ASSUME NEW t \in DOMAIN heap
          PROVE  heap[t].refs = 1
      <4>1. PICK v : heap[t] = [value |-> v, refs |-> 1]
        BY <3>1
      <4> QED
        BY <4>1
    <3> QED
      BY <3>1, <3>2
  <2>4. /\ answer.status \in {"OK", "YIELD", "CANCEL"}
        /\ answer.tuple \in Tuples \cup {None}
        /\ answer.status = "YIELD" <=> answer.tuple # None
        /\ DOMAIN local = Nodes
        /\ \A node \in Nodes : local[node] \in LocalOf[plan[node].op] \cup {None}
        /\ argument \in [Nodes -> Tuples \cup {None}]
        /\ streams \in [Nodes -> {"closed", "open", "ended"}]
        /\ misused \in BOOLEAN /\ userCancel \in BOOLEAN
    BY <2>1 DEF ValuesOK, Op
  <2>5. destroyed \in 0 .. Len(plan)
    BY <2>1 DEF EndOK
  <2> QED
    BY <2>2, <2>3, <2>4, <2>5 DEF StreamQueryTypeOK
<1> QED
  BY <1>1, ProtocolAlways, TuplesAlways, PTL
=============================================================================
