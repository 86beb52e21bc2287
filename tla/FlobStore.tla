------------------------------ MODULE FlobStore ------------------------------
(***************************************************************************)
(* What the operators of an algebra rely on when they use native Flobs     *)
(* (Tools/Flob/Flob.h): each Flob is an array of cells of its own, which    *)
(* keeps what was written until it is overwritten, cut off or destroyed.    *)
(* Nothing is promised about a cell that was never written.                 *)
(***************************************************************************)
EXTENDS Naturals, FiniteSets

CONSTANTS
  Handles,     \* the Flob objects of the running query
  Values,      \* contents of a cell
  Unwritten,   \* the content of a cell that was never written
  Destroyed,   \* a Flob object without data
  Sizes,       \* sizes that the query asks for
  Ranges       \* first and last cell of what it writes

VARIABLE content

Cells(n) == 0 .. n - 1
Resized(array, n) ==
  [c \in Cells(n) |-> IF c \in DOMAIN array THEN array[c] ELSE Unwritten]
Written(array, r, v) ==
  [c \in DOMAIN array \cup Cells(r[2] + 1) |->
     CASE c \in r[1] .. r[2] -> v
       [] c \in DOMAIN array \ (r[1] .. r[2]) -> array[c]
       [] OTHER -> Unwritten]

Init == content = [h \in Handles |-> Destroyed]

\* One Flob changes from old to new.
Create(old, new) ==
  old = Destroyed /\ \E n \in Sizes : new = [c \in Cells(n) |-> Unwritten]
CreateFromBlock(old, new) ==
  old = Destroyed /\ \E n \in Sizes, v \in Values : new = [c \in Cells(n) |-> v]
Resize(old, new) ==
  old # Destroyed /\ \E n \in Sizes : new = Resized(old, n)
Write(old, new) ==
  old # Destroyed /\ \E r \in Ranges, v \in Values : new = Written(old, r, v)
CopyFrom(old, new, src) == Destroyed \notin {old, src} /\ new = src
Destroy(old, new) == old # Destroyed /\ new = Destroyed

Change(h) ==
  LET old == content[h]
      new == content'[h]
  IN /\ \A g \in Handles \ {h} : content'[g] = content[g]
     /\ \/ Destroy(old, new) \/ Create(old, new) \/ CreateFromBlock(old, new)
        \/ Resize(old, new) \/ Write(old, new)
        \/ \E src \in Handles : CopyFrom(old, new, content[src])

EndOfCommand == \A h \in Handles : content'[h] = Destroyed

Next == (\E h \in Handles : Change(h)) \/ EndOfCommand

Spec == Init /\ [][Next]_content
=============================================================================
