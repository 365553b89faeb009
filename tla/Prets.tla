------------------------------- MODULE Prets --------------------------------
(***************************************************************************)
(* What lending promises, with nothing of how it is done: a library that   *)
(* owns capacite[l] copies of each book lends each loan one copy it has,   *)
(* at one moment, and takes it back at one moment, once.                   *)
(***************************************************************************)
EXTENDS Integers, FiniteSets

CONSTANTS Livres, Prets

VARIABLES
  capacite,   \* the copies of each book the library owns
  sortis,     \* the loans that are out, by book
  revenus     \* the loans that came back

vars == <<capacite, sortis, revenus>>

Init ==
  /\ capacite \in [Livres -> Nat]
  /\ sortis = [l \in Livres |-> {}]
  /\ revenus = {}

(* Copies are bought or withdrawn, never one that is out. *)
Inventorier(l) ==
  /\ capacite'[l] \in Nat
  /\ capacite'[l] >= Cardinality(sortis[l])
  /\ capacite' = [capacite EXCEPT ![l] = capacite'[l]]
  /\ UNCHANGED <<sortis, revenus>>

Preter(l, p) ==
  /\ p \notin revenus /\ \A k \in Livres : p \notin sortis[k]
  /\ Cardinality(sortis[l]) < capacite[l]
  /\ sortis' = [sortis EXCEPT ![l] = @ \cup {p}]
  /\ UNCHANGED <<capacite, revenus>>

Reprendre(l, p) ==
  /\ p \in sortis[l]
  /\ sortis' = [sortis EXCEPT ![l] = @ \ {p}]
  /\ revenus' = revenus \cup {p}
  /\ UNCHANGED capacite

Next ==
  \E l \in Livres : Inventorier(l) \/ \E p \in Prets : Preter(l, p) \/ Reprendre(l, p)

Spec == Init /\ [][Next]_vars

=============================================================================
