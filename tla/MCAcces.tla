------------------------------ MODULE MCAcces ------------------------------
(* The accounts, sessions and access tokens for TLC.  The account is a     *)
(* librarian, and the modification an administrator's: it gives no         *)
(* protected field or takes the role away.  The deletion is of that        *)
(* account, not of one created meanwhile.                                  *)
EXTENDS Acces, TLC

InitMC ==
  /\ InitAcces
  /\ \A c \in Anciens : comptes[c].role = "bibliothecaire"
  /\ \A f \in Fermetures : fermetures[f].compte \in Anciens
  /\ \A m \in Modifications :
       /\ modifications[m].compte \in Anciens /\ modifications[m].admin
       /\ modifications[m].champs = {"role"} => modifications[m].role = "membre"
       /\ modifications[m].champs = {} \/ modifications[m].champs = {"role"}

(* Bound: two refreshes or logouts, or one creation, of any kind.          *)
DeuxAppels ==
  Cardinality({r \in Rafraichissements : ouvertures'[r].phase # "recue"})
  + Cardinality({d \in Deconnexions : deconnexions'[d].reponse # "aucune"})
  + 2 * Cardinality({i \in Creations : creations'[i] # "aucune"}) <= 2

SpecMC == InitMC /\ [][NextAcces /\ DeuxAppels]_varsAcces

Symetrie == Permutations(Rafraichissements)

=============================================================================
