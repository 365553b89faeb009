-------------------------------- MODULE Base --------------------------------
(***************************************************************************)
(* The part of the PostgreSQL database the lending code works on: the      *)
(* committed rows of livres, utilisateurs and emprunts, the row locks held *)
(* by open transactions, and the date.  Transactions run under READ        *)
(* COMMITTED: a statement reads committed rows, and waits for the lock of  *)
(* a row another transaction has locked, then reads it again.              *)
(*                                                                         *)
(* The row that a call of pr_emprunter_livre inserts bears the name of the *)
(* call (a member of Demandes): its borrower and its book are the call's   *)
(* parameters, so they are there before the row is, with statut "aucun".   *)
(***************************************************************************)
EXTENDS Integers, FiniteSets

CONSTANTS
  Livres,         \* rows of livres
  Utilisateurs,   \* rows of utilisateurs
  Demandes,       \* calls of POST /emprunts
  Retours,        \* calls of POST /emprunts/{id}/retour
  Retraits,       \* calls of DELETE /livres/{id}?definitif=true
  Radiations,     \* calls of DELETE /utilisateurs/{id}?definitif=true
  Totaux,         \* the totals (nombre_exemplaires) a book may have
  Durees,         \* the lengths of a loan, in days
  Quota,          \* v_quota_max
  Retention,      \* days a returned loan is kept before it is archived
  JourMax,        \* bound: the last day of a behaviour
  Libre           \* the owner of a row lock that nobody holds

Taches == {"bib_marquer_retards", "bib_archiver"}

ASSUME TotauxAssumption   == Totaux \subseteq Nat \ {0}
ASSUME DureesAssumption   == Durees \subseteq Nat \ {0}
ASSUME NombresAssumption  == Quota \in Nat \ {0} /\ Retention \in Nat /\ JourMax \in Nat
ASSUME FinitudeAssumption == IsFiniteSet(Demandes) /\ IsFiniteSet(Livres)
ASSUME TransactionsDistinctes ==
  /\ Libre \notin Demandes \cup Retours \cup Retraits \cup Radiations \cup Taches
  /\ Demandes \cap (Retours \cup Retraits \cup Radiations \cup Taches) = {}
  /\ Retours \cap (Retraits \cup Radiations \cup Taches) = {}
  /\ Retraits \cap (Radiations \cup Taches) = {} /\ Radiations \cap Taches = {}

VARIABLES
  jour,               \* CURRENT_DATE
  livres,             \* rows of livres: total, free copies, and where the row is in its life
  utilisateurs,       \* "actif"; "inactif" once disabled or logically deleted; "efface"
  emprunts,           \* rows of emprunts
  verrouLivre,        \* owner of the lock of each book
  verrouEmprunt,      \* owner of the lock of each loan
  verrouUtilisateur   \* owner of the lock of each user

tables == <<livres, utilisateurs, emprunts>>
verrous == <<verrouLivre, verrouEmprunt, verrouUtilisateur>>
varsBase == <<jour, livres, utilisateurs, emprunts, verrouLivre, verrouEmprunt, verrouUtilisateur>>

Actif == {"en_cours", "en_retard"}
EnTable == Actif \cup {"rendu"}
Statuts == EnTable \cup {"aucun", "archive", "efface"}

Emprunt == [utilisateur : Utilisateurs, livre : Livres, statut : Statuts,
            prevue : Nat, effective : Nat, penalite : Nat]
Livre == [nombre : Nat, dispo : Int, etat : {"absent", "visible", "masque", "efface"}]

TypeBase ==
  /\ jour \in 0..JourMax
  /\ livres \in [Livres -> Livre]
  /\ utilisateurs \in [Utilisateurs -> {"actif", "inactif", "efface"}]
  /\ emprunts \in [Demandes -> Emprunt]
  /\ verrouLivre \in [Livres -> Demandes \cup Retraits \cup {Libre}]
  /\ verrouEmprunt \in [Demandes -> Retours \cup Radiations \cup Taches \cup {Libre}]
  /\ verrouUtilisateur \in [Utilisateurs -> Radiations \cup {Libre}]

(* The loans that still keep a copy out of the library.                    *)
Sortis(l) == {e \in Demandes : emprunts[e].livre = l /\ emprunts[e].statut \in Actif}

(* fn_nb_emprunts_actifs: the loans a user has not returned.               *)
EmpruntsActifs(u) ==
  {e \in Demandes : emprunts[e].utilisateur = u /\ emprunts[e].statut \in Actif}
NbEmpruntsActifs(u) == Cardinality(EmpruntsActifs(u))

(* fn_calculer_penalite, in units of the daily rate; without its GREATEST. *)
PenaliteSansPlancher(prevue, effective) == effective - prevue

(* fn_calculer_penalite, in units of the daily rate.                       *)
Penalite(prevue, effective) == IF effective > prevue THEN effective - prevue ELSE 0

(* chk_livres_stock, chk_livres_stock_positif and fn_livres_valider_stock. *)
StockAdmis(ligne) == ligne.dispo >= 0 /\ ligne.dispo <= ligne.nombre

(* The end of a transaction frees the locks it holds in a table.           *)
Liberes(verrou, p) == [x \in DOMAIN verrou |-> IF verrou[x] = p THEN Libre ELSE verrou[x]]

(* Loans change to a status together, in one commit.                       *)
Basculer(E, statut) ==
  emprunts' = [e \in Demandes |-> IF e \in E THEN [emprunts[e] EXCEPT !.statut = statut]
                                  ELSE emprunts[e]]

LivreAbsent == [nombre |-> 0, dispo |-> 0, etat |-> "absent"]
LivreNeuf(n) == [nombre |-> n, dispo |-> n, etat |-> "visible"]

InitBase ==
  /\ jour = 0
  /\ livres \in [Livres -> {LivreAbsent} \cup {LivreNeuf(n) : n \in Totaux}]
  /\ utilisateurs = [u \in Utilisateurs |-> "actif"]
  /\ emprunts \in [Demandes -> [utilisateur : Utilisateurs, livre : Livres, statut : {"aucun"},
                                prevue : {0}, effective : {0}, penalite : {0}]]
  /\ verrouLivre = [l \in Livres |-> Libre]
  /\ verrouEmprunt = [e \in Demandes |-> Libre]
  /\ verrouUtilisateur = [u \in Utilisateurs |-> Libre]

(* Midnight. *)
ChangerDeJour ==
  /\ jour < JourMax
  /\ jour' = jour + 1
  /\ UNCHANGED <<tables, verrous>>

(* The account is disabled (PATCH actif=false), logically deleted, or      *)
(* enabled again (an account that was only disabled): one UPDATE, which    *)
(* the KEY SHARE lock of a loan being inserted lets through.               *)
ChangerCompte(u) ==
  /\ verrouUtilisateur[u] = Libre
  /\ \/ utilisateurs[u] = "actif" /\ utilisateurs' = [utilisateurs EXCEPT ![u] = "inactif"]
     \/ utilisateurs[u] = "inactif" /\ utilisateurs' = [utilisateurs EXCEPT ![u] = "actif"]
  /\ UNCHANGED <<jour, livres, emprunts, verrous>>

=============================================================================
