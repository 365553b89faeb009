------------------------------ MODULE Comptes ------------------------------
(***************************************************************************)
(* The rows of utilisateurs as the account routes see them: creation by    *)
(* inscription or by an administrator, PUT and PATCH that read the row in  *)
(* one statement and write it back in another, logical and physical        *)
(* deletion.  Every statement is a transaction of its own.                 *)
(*                                                                         *)
(* The account that a creation inserts bears the name of the call.         *)
(***************************************************************************)
EXTENDS Integers, FiniteSets

CONSTANTS
  Anciens,         \* the accounts there are at the start
  Creations,       \* calls of POST /auth/inscription and POST /utilisateurs
  Modifications,   \* calls of PUT, PATCH /utilisateurs/{id} and PATCH /moi
  Fermetures,      \* calls of DELETE /utilisateurs/{id}
  Emails,          \* addresses, trimmed and in lower case
  Roles            \* the roles that are given

ASSUME RolesAssumption == "membre" \in Roles /\ Roles \subseteq {"admin", "bibliothecaire", "membre"}
ASSUME ComptesDistincts == Anciens \cap Creations = {}

VARIABLES
  comptes,         \* the rows, and where each is in its life
  creations,       \* the answer to each creation
  modifications,   \* what a modification asks for, what it has read, its answer
  fermetures       \* the deletions and their answers

varsComptes == <<comptes, creations, modifications, fermetures>>

Comptes == Anciens \cup Creations
EnBase == {c \in Comptes : comptes[c].etat \in {"visible", "masque"}}

Compte == [etat : {"absent", "visible", "masque", "efface"}, email : Emails,
           role : Roles, actif : BOOLEAN]

(* champs are the protected fields a PATCH gives, with role and actif their *)
(* values; a PUT, or a PATCH of one's own profile, gives none.              *)
Modification == [phase : {"recue", "lue", "terminee"}, compte : Comptes,
                 champs : SUBSET {"role", "actif"}, role : Roles, actif : BOOLEAN,
                 admin : BOOLEAN, lu : Roles \X BOOLEAN,
                 reponse : {"aucune", "200", "403", "404", "500"}]
Fermeture == [sorte : {"logique", "physique"}, compte : Comptes,
              reponse : {"aucune", "204", "404", "500"}]

TypeComptes ==
  /\ comptes \in [Comptes -> Compte]
  /\ creations \in [Creations -> {"aucune", "201", "409", "500"}]
  /\ modifications \in [Modifications -> Modification]
  /\ fermetures \in [Fermetures -> Fermeture]

InitComptes ==
  /\ comptes \in [Comptes -> Compte]
  /\ \A c \in Anciens : comptes[c].etat = "visible" /\ comptes[c].actif
  /\ \A c, d \in Anciens : c # d => comptes[c].email # comptes[d].email
  /\ \A c \in Creations : comptes[c].etat = "absent" /\ comptes[c].role = "membre" /\ comptes[c].actif
  /\ creations = [i \in Creations |-> "aucune"]
  /\ modifications \in [Modifications ->
       {m \in Modification : /\ m.phase = "recue" /\ m.reponse = "aucune"
                             /\ m.lu = <<"membre", TRUE>>
                             /\ "role" \notin m.champs => m.role = "membre"
                             /\ "actif" \notin m.champs => m.actif}]
  /\ fermetures \in [Fermetures -> {f \in Fermeture : f.reponse = "aucune"}]

(* What the client may be told of a statement that is committed: the       *)
(* deadline may pass before the driver has read that it is.                *)
Accuse(reponse) == {reponse, "500"}

-----------------------------------------------------------------------------
(* POST /auth/inscription, POST /utilisateurs                              *)

(* uq_utilisateurs_email also counts the masked rows. *)
EmailPris(e) == \E c \in EnBase : comptes[c].email = e

Inserer(i, role) ==
  /\ creations[i] = "aucune"
  /\ \/ /\ EmailPris(comptes[i].email)
        /\ creations' = [creations EXCEPT ![i] = "409"]
        /\ UNCHANGED comptes
     \/ /\ ~EmailPris(comptes[i].email)
        /\ comptes' = [comptes EXCEPT ![i].etat = "visible", ![i].role = role]
        /\ \E r \in Accuse("201") : creations' = [creations EXCEPT ![i] = r]
  /\ UNCHANGED <<modifications, fermetures>>

Inscription(i) == Inserer(i, "membre")

(* Mutant: the role is not validated. *)
CreerSansControle(i) == \E role \in Roles \cup {"inconnu"} : Inserer(i, role)

CreerCompte(i) == \E role \in Roles : Inserer(i, role)

-----------------------------------------------------------------------------
(* PUT /utilisateurs/{id}, PATCH /utilisateurs/{id}, PATCH /moi            *)

TerminerModification(m, reponse) ==
  modifications' = [modifications EXCEPT ![m].phase = "terminee", ![m].reponse = reponse]

LireCompte(m) ==
  LET c == comptes[modifications[m].compte] IN
  /\ modifications[m].phase = "recue"
  /\ \/ c.etat # "visible" /\ TerminerModification(m, "404")
     \/ /\ c.etat = "visible"
        /\ modifications[m].champs # {} /\ ~modifications[m].admin
        /\ TerminerModification(m, "403")
     \/ /\ c.etat = "visible"
        /\ modifications[m].champs = {} \/ modifications[m].admin
        /\ modifications' = [modifications EXCEPT ![m].phase = "lue",
                                                  ![m].lu = <<c.role, c.actif>>]
  /\ UNCHANGED <<comptes, creations, fermetures>>

RoleEcrit(m) == IF "role" \in m.champs THEN m.role ELSE m.lu[1]
ActifEcrit(m) == IF "actif" \in m.champs THEN m.actif ELSE m.lu[2]

(* The UPDATE writes both fields, given or not, unless the row is masked.  *)
EcrireCompte(m) ==
  LET c == modifications[m].compte IN
  /\ modifications[m].phase = "lue"
  /\ \/ /\ comptes[c].etat = "visible"
        /\ comptes' = [comptes EXCEPT ![c].role = RoleEcrit(modifications[m]),
                                      ![c].actif = ActifEcrit(modifications[m])]
        /\ \E r \in Accuse("200") : TerminerModification(m, r)
     \/ /\ comptes[c].etat # "visible"
        /\ TerminerModification(m, "404")
        /\ UNCHANGED comptes
  /\ UNCHANGED <<creations, fermetures>>

(* The deadline cuts the call before its next statement. *)
AnnulerModification(m) ==
  /\ modifications[m].phase # "terminee"
  /\ TerminerModification(m, "500")
  /\ UNCHANGED <<comptes, creations, fermetures>>

-----------------------------------------------------------------------------
(* DELETE /utilisateurs/{id}                                               *)

Fermer(f, reponse) == fermetures' = [fermetures EXCEPT ![f].reponse = reponse]

(* Mutant: only actif is cleared. *)
SupprimerSansMasquer(f) ==
  LET c == fermetures[f].compte IN
  /\ fermetures[f].sorte = "logique" /\ fermetures[f].reponse = "aucune"
  /\ comptes[c].etat = "visible"
  /\ comptes' = [comptes EXCEPT ![c].actif = FALSE]
  /\ Fermer(f, "204")
  /\ UNCHANGED <<creations, modifications>>

SupprimerLogique(f) ==
  LET c == fermetures[f].compte IN
  /\ fermetures[f].sorte = "logique" /\ fermetures[f].reponse = "aucune"
  /\ \/ /\ comptes[c].etat = "visible"
        /\ comptes' = [comptes EXCEPT ![c].etat = "masque", ![c].actif = FALSE]
        /\ \E r \in Accuse("204") : Fermer(f, r)
     \/ /\ comptes[c].etat # "visible"
        /\ Fermer(f, "404")
        /\ UNCHANGED comptes
  /\ UNCHANGED <<creations, modifications>>

(* The row goes, masked or not; a loan that is out holds it back (500):    *)
(* module Suppressions has the cascade over the loans.                     *)
SupprimerPhysique(f) ==
  LET c == fermetures[f].compte IN
  /\ fermetures[f].sorte = "physique" /\ fermetures[f].reponse = "aucune"
  /\ \/ /\ c \in EnBase
        /\ comptes' = [comptes EXCEPT ![c].etat = "efface"]
        /\ \E r \in Accuse("204") : Fermer(f, r)
     \/ /\ c \notin EnBase
        /\ Fermer(f, "404")
        /\ UNCHANGED comptes
     \/ c \in EnBase /\ Fermer(f, "500") /\ UNCHANGED comptes
  /\ UNCHANGED <<creations, modifications>>

-----------------------------------------------------------------------------
NextComptes ==
  \/ \E i \in Creations : Inscription(i) \/ CreerCompte(i)
  \/ \E m \in Modifications : LireCompte(m) \/ EcrireCompte(m) \/ AnnulerModification(m)
  \/ \E f \in Fermetures : SupprimerLogique(f) \/ SupprimerPhysique(f)

SpecComptes == InitComptes /\ [][NextComptes]_varsComptes

-----------------------------------------------------------------------------
(* "Le role et l'etat actif ne sont pas modifiables par cette voie"        *)
(* (utilisateur_service.go:79, of PUT): a modification that gives neither  *)
(* role nor actif changes neither.  The code breaks it: the UPDATE writes  *)
(* back what the call has read, over what an administrator has set since.  *)
ProfilSansDroits ==
  [][\A m \in Modifications : modifications[m].champs = {} /\ EcrireCompte(m)
        => \A c \in Comptes : comptes'[c].role = comptes[c].role
                              /\ comptes'[c].actif = comptes[c].actif]_varsComptes

=============================================================================
