----------------------------- MODULE CatalogStore -----------------------------
(***************************************************************************)
(* What SecondoCatalog and SecondoSystem promise to the commands: a store  *)
(* of named types and objects with transactions.  A command changes what   *)
(* the session sees; a commit makes exactly that durable, and everything   *)
(* that is not committed disappears with an abort or a crash.              *)
(***************************************************************************)
CONSTANTS ObjectNames, TypeNames, NoType, Values, Undefined, Nothing

VARIABLES
  durableTypes, durableObjects,  \* what a restart finds
  visibleTypes, visibleObjects   \* what the session sees

vars == <<durableTypes, durableObjects, visibleTypes, visibleObjects>>

Content == [typeName: TypeNames \cup {NoType}, value: Values \cup {Undefined}]

Init ==
  /\ durableTypes = {}
  /\ durableObjects = [o \in ObjectNames |-> Nothing]
  /\ visibleTypes = durableTypes
  /\ visibleObjects = durableObjects

Exists(o) == visibleObjects[o] # Nothing

UsedTypes == {visibleObjects[o].typeName : o \in {p \in ObjectNames : Exists(p)}}

DefineType(t) ==
  /\ t \notin visibleTypes
  /\ visibleTypes' = visibleTypes \cup {t}
  /\ UNCHANGED <<durableTypes, durableObjects, visibleObjects>>

RemoveType(t) ==
  /\ t \in visibleTypes \ UsedTypes
  /\ visibleTypes' = visibleTypes \ {t}
  /\ UNCHANGED <<durableTypes, durableObjects, visibleObjects>>

\* The objects of the session become exactly what after describes.
Replace(after) ==
  /\ visibleObjects' = after
  /\ UNCHANGED <<durableTypes, durableObjects, visibleTypes>>

Create(o) ==
  /\ ~Exists(o)
  /\ \E t \in visibleTypes \cup {NoType}, v \in Values \cup {Undefined} :
       Replace([visibleObjects EXCEPT ![o] = [typeName |-> t, value |-> v]])

Remove(o) ==
  /\ Exists(o)
  /\ Replace([visibleObjects EXCEPT ![o] = Nothing])

Overwrite(o) ==
  /\ Exists(o)
  /\ \E v \in Values : Replace([visibleObjects EXCEPT ![o].value = v])

Rename(old, new) ==
  /\ Exists(old)
  /\ ~Exists(new)
  /\ Replace([visibleObjects EXCEPT ![old] = Nothing,
                                     ![new] = visibleObjects[old]])

Commit ==
  /\ durableTypes' = visibleTypes
  /\ durableObjects' = visibleObjects
  /\ UNCHANGED <<visibleTypes, visibleObjects>>

Rollback ==
  /\ visibleTypes' = durableTypes
  /\ visibleObjects' = durableObjects
  /\ UNCHANGED <<durableTypes, durableObjects>>

Next ==
  \/ \E t \in TypeNames : DefineType(t) \/ RemoveType(t)
  \/ \E o \in ObjectNames : Create(o) \/ Remove(o) \/ Overwrite(o)
  \/ \E old, new \in ObjectNames : Rename(old, new)
  \/ Commit
  \/ Rollback

Spec == Init /\ [][Next]_vars
=============================================================================
