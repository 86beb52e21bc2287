------------------------------ MODULE Supersteps ------------------------------
(***************************************************************************)
(* What the Pregel algebra promises to the functions it runs: workers      *)
(* compute in supersteps, and a message sent in one superstep is read in    *)
(* the next one.  Nobody starts a superstep before all workers have         *)
(* finished the one before.                                                *)
(***************************************************************************)
EXTENDS Naturals

CONSTANTS Workers, Master, MaxSuperstep

VARIABLES
  superstep, \* the superstep that a worker computes or has finished
  computing, \* workers in the middle of their superstep
  mail       \* mail[w][s][p]: messages of p to w, sent in superstep s, not read

vars == <<superstep, computing, mail>>

Numbers == 0 .. MaxSuperstep
Senders == Workers \cup {Master}
NoMail == [p \in Senders |-> 0]

Init ==
  /\ superstep = [w \in Workers |-> 0]
  /\ computing = {}
  /\ mail = [w \in Workers |-> [s \in Numbers |-> NoMail]]

(* One message of p to each worker of D in superstep s. *)
Posted(box, D, s, p) ==
  [w \in Workers |-> [box[w] EXCEPT ![s][p] = IF w \in D THEN @ + 1 ELSE @]]

(* Messages from outside, between two computations. *)
Supply(p, D) ==
  /\ computing = {}
  /\ \E s \in Numbers :
       /\ \A w \in Workers : superstep[w] = s
       /\ mail' = Posted(mail, D, s, p)
  /\ UNCHANGED <<superstep, computing>>

Clear ==
  /\ computing = {}
  /\ \A v, w \in Workers : superstep[v] = superstep[w]
  /\ mail' = [w \in Workers |-> [s \in Numbers |-> NoMail]]
  /\ UNCHANGED <<superstep, computing>>

Begin(w) ==
  /\ w \notin computing
  /\ \A v \in Workers :
       \/ superstep[v] > superstep[w]
       \/ superstep[v] = superstep[w] /\ v \notin computing
  /\ superstep' = [superstep EXCEPT ![w] = @ + 1]
  /\ computing' = computing \cup {w}
  /\ UNCHANGED mail

(* The function reads the messages of the last superstep and answers them. *)
Compute(w, D) ==
  /\ w \in computing
  /\ D # {} => mail[w][superstep[w] - 1] # NoMail
  /\ mail' = Posted([mail EXCEPT ![w][superstep[w] - 1] = NoMail],
                    D, superstep[w], w)
  /\ computing' = computing \ {w}
  /\ UNCHANGED superstep

Next ==
  \/ \E p \in Senders, D \in SUBSET Workers : Supply(p, D)
  \/ Clear
  \/ \E w \in Workers : Begin(w) \/ \E D \in SUBSET Workers : Compute(w, D)

Spec == Init /\ [][Next]_vars
=============================================================================
