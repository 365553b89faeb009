---------------------------- MODULE Suppressions ----------------------------
(***************************************************************************)
(* Physical deletions, by an administrator.  DELETE FROM livres locks the  *)
(* book, then looks for a loan that refers to it (ON DELETE RESTRICT).     *)
(* DELETE FROM utilisateurs locks the user, then deletes his loans one by  *)
(* one (ON DELETE CASCADE), until one of them is active: a trigger refuses *)
(* it, and the whole statement with it.                                    *)
(***************************************************************************)
EXTENDS Base

VARIABLES
  retrait,     \* the deletions of a book
  radiation    \* the deletions of a user

varsSuppressions == <<varsBase, retrait, radiation>>

Retrait == [phase : {"recue", "verrouillee", "controle", "terminee"}, livre : Livres,
            temoin : Demandes, reponse : {"aucune", "204", "404", "409", "500"}]
Radiation == [phase : {"recue", "cascade", "terminee"}, utilisateur : Utilisateurs,
              restants : SUBSET Demandes, effaces : SUBSET Demandes,
              reponse : {"aucune", "204", "404", "500"}]

TypeSuppressions ==
  /\ retrait \in [Retraits -> Retrait]
  /\ radiation \in [Radiations -> Radiation]

InitSuppressions ==
  /\ retrait \in [Retraits -> [phase : {"recue"}, livre : Livres, temoin : Demandes,
                               reponse : {"aucune"}]]
  /\ radiation \in [Radiations -> [phase : {"recue"}, utilisateur : Utilisateurs,
                                   restants : {{}}, effaces : {{}}, reponse : {"aucune"}]]

-----------------------------------------------------------------------------
(* DELETE FROM livres                                                      *)

TerminerRetrait(s, reponse) ==
  retrait' = [retrait EXCEPT ![s].phase = "terminee", ![s].reponse = reponse]

(* Mutants: the loans that are returned do not hold the book back, the     *)
(* cascade only sees those.                                                *)
ReferentsActifs(l) == Sortis(l)
EmpruntsRendusDe(u) == {e \in Demandes : emprunts[e].utilisateur = u /\ emprunts[e].statut = "rendu"}

(* The rows of emprunts that refer to a book, to a user.                   *)
Referents(l) == {e \in Demandes : emprunts[e].livre = l /\ emprunts[e].statut \in EnTable}
EmpruntsDe(u) == {e \in Demandes : emprunts[e].utilisateur = u /\ emprunts[e].statut \in EnTable}

VerrouillerRetrait(s) ==
  LET l == retrait[s].livre IN
  /\ retrait[s].phase = "recue"
  /\ \/ /\ livres[l].etat \in {"absent", "efface"}
        /\ TerminerRetrait(s, "404")
        /\ UNCHANGED verrouLivre
     \/ /\ livres[l].etat \in {"visible", "masque"} /\ verrouLivre[l] = Libre
        /\ retrait' = [retrait EXCEPT ![s].phase = "verrouillee"]
        /\ verrouLivre' = [verrouLivre EXCEPT ![l] = s]
  /\ UNCHANGED <<jour, tables, verrouEmprunt, verrouUtilisateur, radiation>>

(* The check of the foreign key meets a first row, or none: then the row   *)
(* of the book goes.                                                       *)
ChercherReferent(s) ==
  LET l == retrait[s].livre IN
  /\ retrait[s].phase = "verrouillee"
  /\ \/ /\ \E e \in Referents(l) :
             retrait' = [retrait EXCEPT ![s].phase = "controle", ![s].temoin = e]
        /\ UNCHANGED <<livres, verrouLivre>>
     \/ /\ Referents(l) = {}
        /\ livres' = [livres EXCEPT ![l].etat = "efface"]
        /\ TerminerRetrait(s, "204")
        /\ verrouLivre' = Liberes(verrouLivre, s)
  /\ UNCHANGED <<jour, utilisateurs, emprunts, verrouEmprunt, verrouUtilisateur, radiation>>

(* That row is locked FOR KEY SHARE: this waits for whoever closes or      *)
(* deletes it, not for the UPDATE that flags it late.  If it is still      *)
(* there the deletion is refused, else the search goes on.                 *)
ControlerReferent(s) ==
  LET e == retrait[s].temoin IN
  /\ retrait[s].phase = "controle"
  /\ verrouEmprunt[e] \in {Libre, "bib_marquer_retards"}
  /\ \/ /\ emprunts[e].statut \in EnTable
        /\ TerminerRetrait(s, "409")
        /\ verrouLivre' = Liberes(verrouLivre, s)
     \/ /\ emprunts[e].statut \notin EnTable
        /\ retrait' = [retrait EXCEPT ![s].phase = "verrouillee"]
        /\ UNCHANGED verrouLivre
  /\ UNCHANGED <<jour, tables, verrouEmprunt, verrouUtilisateur, radiation>>

(* Mutant: the statement that is cut keeps its lock. *)
AnnulerRetraitSansRollback(s) ==
  /\ retrait[s].phase # "terminee"
  /\ TerminerRetrait(s, "500")
  /\ UNCHANGED <<jour, tables, verrouLivre, verrouEmprunt, verrouUtilisateur, radiation>>

(* The deadline, or the deadlock detector, cuts the call. *)
AnnulerRetrait(s) ==
  /\ retrait[s].phase # "terminee"
  /\ TerminerRetrait(s, "500")
  /\ verrouLivre' = Liberes(verrouLivre, s)
  /\ UNCHANGED <<jour, tables, verrouEmprunt, verrouUtilisateur, radiation>>

-----------------------------------------------------------------------------
(* DELETE FROM utilisateurs                                                *)

TerminerRadiation(s, reponse) ==
  radiation' = [radiation EXCEPT ![s].phase = "terminee", ![s].reponse = reponse,
                                 ![s].restants = {}, ![s].effaces = {}]

(* Mutant: the loans stay locked. *)
RelacherUtilisateurSeul(s) ==
  /\ verrouUtilisateur' = Liberes(verrouUtilisateur, s)
  /\ UNCHANGED verrouEmprunt

RelacherRadiation(s) ==
  /\ verrouEmprunt' = Liberes(verrouEmprunt, s)
  /\ verrouUtilisateur' = Liberes(verrouUtilisateur, s)

(* The row of the user is locked; the cascade then takes its snapshot.     *)
VerrouillerRadiation(s) ==
  LET u == radiation[s].utilisateur IN
  /\ radiation[s].phase = "recue"
  /\ verrouUtilisateur[u] = Libre
  /\ \/ /\ utilisateurs[u] = "efface"
        /\ TerminerRadiation(s, "404")
        /\ UNCHANGED verrouUtilisateur
     \/ /\ utilisateurs[u] # "efface"
        /\ radiation' = [radiation EXCEPT ![s].phase = "cascade", ![s].restants = EmpruntsDe(u)]
        /\ verrouUtilisateur' = [verrouUtilisateur EXCEPT ![u] = s]
  /\ UNCHANGED <<jour, tables, verrouLivre, verrouEmprunt, retrait>>

(* The cascade meets a loan: an active one stops it                        *)
(* (fn_emprunts_interdire_suppr_active), a returned one is locked.         *)
EffacerEmprunt(s, e) ==
  /\ e \in radiation[s].restants
  /\ verrouEmprunt[e] = Libre
  /\ \/ /\ emprunts[e].statut \in Actif
        /\ TerminerRadiation(s, "500")
        /\ RelacherRadiation(s)
     \/ /\ emprunts[e].statut = "rendu"
        /\ radiation' = [radiation EXCEPT ![s].restants = @ \ {e}, ![s].effaces = @ \cup {e}]
        /\ verrouEmprunt' = [verrouEmprunt EXCEPT ![e] = s]
        /\ UNCHANGED verrouUtilisateur
     \/ /\ emprunts[e].statut \notin EnTable
        /\ radiation' = [radiation EXCEPT ![s].restants = @ \ {e}]
        /\ UNCHANGED <<verrouEmprunt, verrouUtilisateur>>
  /\ UNCHANGED <<jour, tables, verrouLivre, retrait>>

ValiderRadiation(s) ==
  /\ radiation[s].phase = "cascade"
  /\ radiation[s].restants = {}
  /\ Basculer(radiation[s].effaces, "efface")
  /\ utilisateurs' = [utilisateurs EXCEPT ![radiation[s].utilisateur] = "efface"]
  /\ TerminerRadiation(s, "204")
  /\ RelacherRadiation(s)
  /\ UNCHANGED <<jour, livres, verrouLivre, retrait>>

AnnulerRadiation(s) ==
  /\ radiation[s].phase # "terminee"
  /\ TerminerRadiation(s, "500")
  /\ RelacherRadiation(s)
  /\ UNCHANGED <<jour, tables, verrouLivre, retrait>>

-----------------------------------------------------------------------------
EtapeRetrait(s) == VerrouillerRetrait(s) \/ ChercherReferent(s) \/ ControlerReferent(s)
EtapeRadiation(s) ==
  VerrouillerRadiation(s) \/ (\E e \in Demandes : EffacerEmprunt(s, e)) \/ ValiderRadiation(s)

NextSuppressions ==
  \/ \E s \in Retraits : EtapeRetrait(s) \/ AnnulerRetrait(s)
  \/ \E s \in Radiations : EtapeRadiation(s) \/ AnnulerRadiation(s)

=============================================================================
