-------------------------- MODULE EmpruntsPreuves ---------------------------
(***************************************************************************)
(* Proofs about lending.  The lemmas take one call at a time, so that they *)
(* serve the specification of lending alone (SpecEmprunts) and that of the *)
(* whole library.                                                          *)
(***************************************************************************)
EXTENDS Emprunts, FiniteSetTheorems, TLAPS

-----------------------------------------------------------------------------
(* Type correctness                                                        *)

LEMMA LiberesFonction ==
  ASSUME NEW S, NEW T, NEW v \in [S -> T \cup {Libre}], NEW p
  PROVE  Liberes(v, p) \in [S -> T \cup {Libre}]
BY DEF Liberes

LEMMA LiberesType ==
  ASSUME TypeBase, NEW p
  PROVE  /\ Liberes(verrouLivre, p) \in [Livres -> Demandes \cup Retraits \cup {Libre}]
         /\ Liberes(verrouEmprunt, p)
              \in [Demandes -> Retours \cup Radiations \cup Taches \cup {Libre}]
         /\ Liberes(verrouUtilisateur, p) \in [Utilisateurs -> Radiations \cup {Libre}]
BY LiberesFonction DEF TypeBase

LEMMA PenaliteType ==
  ASSUME NEW a \in Nat, NEW b \in Nat
  PROVE  Penalite(a, b) \in Nat
BY DEF Penalite

LEMMA TerminerDemandeType ==
  ASSUME demande \in [Demandes -> Demande], NEW d \in Demandes, NEW x \in Reponses,
         TerminerDemande(d, x)
  PROVE  demande' \in [Demandes -> Demande]
BY DEF TerminerDemande, Demande

LEMMA AvancerDemandeType ==
  ASSUME demande \in [Demandes -> Demande], NEW d \in Demandes,
         NEW x \in {"verrouillee", "comptee", "validee"}, AvancerDemande(d, x)
  PROVE  demande' \in [Demandes -> Demande]
BY DEF AvancerDemande, Demande

LEMMA TerminerRetourType ==
  ASSUME retour \in [Retours -> Retour], NEW r \in Retours, NEW x \in Reponses,
         TerminerRetour(r, x)
  PROVE  retour' \in [Retours -> Retour]
BY DEF TerminerRetour, Retour

(* Every step of a call of POST /emprunts keeps the rows well typed.       *)
LEMMA TypeDemande ==
  ASSUME TypeEmprunts, NEW d \in Demandes, EtapeDemande(d) \/ AnnulerDemande(d)
  PROVE  TypeEmprunts'
<1> USE DEF TypeEmprunts, TypeBase
<1>1. CASE LireUtilisateur(d)
  <2>1. demande' \in [Demandes -> Demande]
    BY <1>1, TerminerDemandeType DEF LireUtilisateur, Demande, Reponses
  <2> QED BY <1>1, <2>1 DEF LireUtilisateur, varsBase
<1>2. CASE VerrouillerLivre(d)
  <2>1. demande' \in [Demandes -> Demande]
    BY <1>2, TerminerDemandeType, AvancerDemandeType DEF VerrouillerLivre, Reponses
  <2>2. verrouLivre' \in [Livres -> Demandes \cup Retraits \cup {Libre}]
    BY <1>2 DEF VerrouillerLivre
  <2> QED BY <1>2, <2>1, <2>2 DEF VerrouillerLivre, tables
<1>3. CASE CompterEmprunts(d)
  <2>1. demande' \in [Demandes -> Demande]
    BY <1>3, TerminerDemandeType, AvancerDemandeType DEF CompterEmprunts, Reponses
  <2>2. verrouLivre' \in [Livres -> Demandes \cup Retraits \cup {Libre}]
    BY <1>3, LiberesType DEF CompterEmprunts
  <2> QED BY <1>3, <2>1, <2>2 DEF CompterEmprunts, tables
<1>4. CASE Inserer(d)
  <2>1. demande' \in [Demandes -> Demande]
    BY <1>4, TerminerDemandeType, AvancerDemandeType DEF Inserer, Reponses
  <2>2. verrouLivre' \in [Livres -> Demandes \cup Retraits \cup {Libre}]
    BY <1>4, LiberesType DEF Inserer
  <2>3. demande[d].jour \in Nat
    BY DEF Demande
  <2>4. emprunts' \in [Demandes -> Emprunt]
    BY <1>4, <2>3, DureesAssumption DEF Inserer, Emprunt, Statuts, EnTable, Actif
  <2>5. livres' \in [Livres -> Livre]
    BY <1>4 DEF Inserer, Livre
  <2> QED BY <1>4, <2>1, <2>2, <2>4, <2>5 DEF Inserer
<1>5. CASE RepondreDemande(d)
  <2>1. demande' \in [Demandes -> Demande]
    BY <1>5, TerminerDemandeType DEF RepondreDemande, Reponses
  <2> QED BY <1>5, <2>1 DEF RepondreDemande, varsBase
<1>6. CASE AnnulerDemande(d)
  <2>1. demande' \in [Demandes -> Demande]
    BY <1>6, TerminerDemandeType DEF AnnulerDemande, Reponses
  <2>2. verrouLivre' \in [Livres -> Demandes \cup Retraits \cup {Libre}]
    BY <1>6, LiberesType DEF AnnulerDemande
  <2> QED BY <1>6, <2>1, <2>2 DEF AnnulerDemande, tables
<1> QED BY <1>1, <1>2, <1>3, <1>4, <1>5, <1>6 DEF EtapeDemande

(* So does every step of a call of POST /emprunts/{id}/retour.             *)
LEMMA TypeRetour ==
  ASSUME TypeEmprunts, NEW r \in Retours, EtapeRetour(r) \/ AnnulerRetour(r)
  PROVE  TypeEmprunts'
<1> USE DEF TypeEmprunts, TypeBase
<1> DEFINE e == retour[r].emprunt
<1>0. e \in Demandes /\ retour[r].jour \in Nat
  BY DEF Retour
<1>1. CASE OuvrirRetour(r)
  <2>1. jour \in Nat
    BY NombresAssumption
  <2>2. retour' = [retour EXCEPT ![r].phase = "ouverte", ![r].jour = jour]
    BY <1>1 DEF OuvrirRetour
  <2>3. retour' \in [Retours -> Retour]
    BY <2>1, <2>2 DEF Retour
  <2> QED BY <1>1, <2>3 DEF OuvrirRetour, varsBase
<1>2. CASE VerrouillerEmprunt(r)
  <2>1. retour' \in [Retours -> Retour]
    BY <1>2, TerminerRetourType DEF VerrouillerEmprunt, Retour, Reponses
  <2>2. verrouEmprunt' \in [Demandes -> Retours \cup Radiations \cup Taches \cup {Libre}]
    BY <1>2 DEF VerrouillerEmprunt
  <2> QED BY <1>2, <2>1, <2>2 DEF VerrouillerEmprunt, tables
<1>3. CASE Rendre(r)
  <2>1. retour' \in [Retours -> Retour]
    BY <1>3, TerminerRetourType DEF Rendre, Retour, Reponses
  <2>2. verrouEmprunt' \in [Demandes -> Retours \cup Radiations \cup Taches \cup {Libre}]
    BY <1>3, LiberesType DEF Rendre
  <2>3. livres' \in [Livres -> Livre]
    BY <1>3 DEF Rendre, Reintegrer, Livre
  <2>4. Penalite(emprunts[e].prevue, retour[r].jour) \in Nat
    BY <1>0, PenaliteType DEF Emprunt
  <2>5. emprunts' \in [Demandes -> Emprunt]
    BY <1>3, <1>0, <2>4 DEF Rendre, Emprunt, Statuts, EnTable
  <2> QED BY <1>3, <2>1, <2>2, <2>3, <2>5 DEF Rendre
<1>4. CASE RepondreRetour(r)
  <2>1. retour' \in [Retours -> Retour]
    BY <1>4, TerminerRetourType DEF RepondreRetour, Reponses
  <2> QED BY <1>4, <2>1 DEF RepondreRetour, varsBase
<1>5. CASE AnnulerRetour(r)
  <2>1. retour' \in [Retours -> Retour]
    BY <1>5, TerminerRetourType DEF AnnulerRetour, Reponses
  <2>2. verrouEmprunt' \in [Demandes -> Retours \cup Radiations \cup Taches \cup {Libre}]
    BY <1>5, LiberesType DEF AnnulerRetour
  <2> QED BY <1>5, <2>1, <2>2 DEF AnnulerRetour, tables
<1> QED BY <1>1, <1>2, <1>3, <1>4, <1>5 DEF EtapeRetour

LEMMA TypeEnvironnement ==
  ASSUME TypeEmprunts, NextEnvironnement
  PROVE  TypeEmprunts'
<1> USE DEF TypeEmprunts, TypeBase, tables, verrous
<1>1. CASE ChangerDeJour
  BY <1>1, NombresAssumption DEF ChangerDeJour, NextEnvironnement
<1>2. ASSUME NEW u \in Utilisateurs, ChangerCompte(u)
      PROVE  TypeEmprunts'
  BY <1>2 DEF ChangerCompte, NextEnvironnement
<1> QED BY <1>1, <1>2 DEF NextEnvironnement

LEMMA TypeInit ==
  ASSUME InitEmprunts
  PROVE  TypeEmprunts
<1> DEFINE R == [phase : {"recue"}, emprunt : Demandes, jour : {0}, reponse : {"aucune"},
                 effet : {FALSE}]
<1>1. R \subseteq Retour
  <2> SUFFICES ASSUME NEW x \in R
               PROVE  x \in Retour
    OBVIOUS
  <2>1. /\ x.phase = "recue" /\ x.emprunt \in Demandes /\ x.jour = 0 /\ x.reponse = "aucune"
        /\ x.effet \in BOOLEAN
        /\ x = [phase |-> x.phase, emprunt |-> x.emprunt, jour |-> x.jour,
                reponse |-> x.reponse, effet |-> x.effet]
    OBVIOUS
  <2> QED BY <2>1 DEF Retour, Reponses
<1>2. retour \in [Retours -> R]
  BY DEF InitEmprunts
<1>3. retour \in [Retours -> Retour]
  <2> HIDE DEF R
  <2> QED BY <1>1, <1>2
<1>4. demande \in [Demandes -> Demande]
  BY DEF InitEmprunts, Demande, Reponses
<1>5. TypeBase
  BY NombresAssumption, TotauxAssumption
     DEF InitEmprunts, InitBase, TypeBase, Emprunt, Livre, Statuts, LivreAbsent, LivreNeuf
<1> QED BY <1>3, <1>4, <1>5 DEF TypeEmprunts

LEMMA TypeSuivant ==
  ASSUME TypeEmprunts, [NextEmprunts \/ NextEnvironnement]_varsEmprunts
  PROVE  TypeEmprunts'
<1>1. CASE NextEmprunts
  BY <1>1, TypeDemande, TypeRetour DEF NextEmprunts
<1>2. CASE NextEnvironnement
  BY <1>2, TypeEnvironnement
<1>3. CASE UNCHANGED varsEmprunts
  BY <1>3 DEF varsEmprunts, varsBase, TypeEmprunts, TypeBase
<1> QED BY <1>1, <1>2, <1>3

(* The rows and the calls of lending are always well typed: in particular  *)
(* a penalty is never negative (fn_calculer_penalite).                     *)
THEOREM EmpruntsBienTypes == SpecEmprunts => []TypeEmprunts
BY TypeInit, TypeSuivant, PTL DEF SpecEmprunts

-----------------------------------------------------------------------------
(* Locks                                                                   *)

(* The two parts of VerrousTenus: what a call of POST /emprunts holds, and *)
(* what a return holds.                                                    *)
LivresTenus ==
  \A l \in Livres, d \in Demandes :
    verrouLivre[l] = d <=> /\ demande[d].phase \in {"verrouillee", "comptee"}
                           /\ emprunts[d].livre = l
EmpruntsTenus ==
  \A e \in Demandes, r \in Retours :
    verrouEmprunt[e] = r <=> retour[r].phase = "verrouillee" /\ retour[r].emprunt = e

(* No step changes the borrower or the book of a loan.                     *)
LEMMA ParametresFixes ==
  ASSUME TypeEmprunts,
         \/ \E d \in Demandes : EtapeDemande(d) \/ AnnulerDemande(d)
         \/ \E r \in Retours : EtapeRetour(r) \/ AnnulerRetour(r)
         \/ NextEnvironnement
  PROVE  \A x \in Demandes : /\ emprunts'[x].livre = emprunts[x].livre
                             /\ emprunts'[x].utilisateur = emprunts[x].utilisateur
<1> USE DEF TypeEmprunts, TypeBase, Emprunt, Retour
<1>1. ASSUME NEW d \in Demandes, EtapeDemande(d) \/ AnnulerDemande(d)
      PROVE  \A x \in Demandes : /\ emprunts'[x].livre = emprunts[x].livre
                                 /\ emprunts'[x].utilisateur = emprunts[x].utilisateur
  <2>1. CASE Inserer(d)
    BY <2>1 DEF Inserer
  <2>2. CASE ~ Inserer(d)
    BY <1>1, <2>2 DEF EtapeDemande, LireUtilisateur, VerrouillerLivre, CompterEmprunts,
       RepondreDemande, AnnulerDemande, varsBase, tables
  <2> QED BY <2>1, <2>2
<1>2. ASSUME NEW r \in Retours, EtapeRetour(r) \/ AnnulerRetour(r)
      PROVE  \A x \in Demandes : /\ emprunts'[x].livre = emprunts[x].livre
                                 /\ emprunts'[x].utilisateur = emprunts[x].utilisateur
  <2>1. CASE Rendre(r)
    BY <2>1 DEF Rendre
  <2>2. CASE ~ Rendre(r)
    BY <1>2, <2>2 DEF EtapeRetour, OuvrirRetour, VerrouillerEmprunt, RepondreRetour,
       AnnulerRetour, varsBase, tables
  <2> QED BY <2>1, <2>2
<1>3. CASE NextEnvironnement
  BY <1>3 DEF NextEnvironnement, ChangerDeJour, ChangerCompte, tables
<1> QED BY <1>1, <1>2, <1>3

LEMMA LivresTenusDemande ==
  ASSUME TypeEmprunts, LivresTenus, NEW d \in Demandes, EtapeDemande(d) \/ AnnulerDemande(d)
  PROVE  LivresTenus'
<1> SUFFICES ASSUME NEW l \in Livres, NEW x \in Demandes
             PROVE  (verrouLivre[l] = x <=> /\ demande[x].phase \in {"verrouillee", "comptee"}
                                            /\ emprunts[x].livre = l)'
  BY DEF LivresTenus
<1>0. /\ emprunts'[x].livre = emprunts[x].livre
      /\ verrouLivre[l] = x <=> /\ demande[x].phase \in {"verrouillee", "comptee"}
                                /\ emprunts[x].livre = l
      /\ verrouLivre[l] = d <=> /\ demande[d].phase \in {"verrouillee", "comptee"}
                                /\ emprunts[d].livre = l
      /\ demande \in [Demandes -> Demande] /\ verrouLivre \in [Livres -> Demandes \cup Retraits \cup {Libre}]
      /\ emprunts[d].livre \in Livres
      /\ Libre \notin Demandes
  BY ParametresFixes, TransactionsDistinctes DEF LivresTenus, TypeEmprunts, TypeBase, Emprunt
<1> USE DEF Demande, AvancerDemande, TerminerDemande, Liberes
<1>1. CASE LireUtilisateur(d)
  BY <1>1, <1>0 DEF LireUtilisateur, varsBase
<1>2. CASE VerrouillerLivre(d)
  BY <1>2, <1>0 DEF VerrouillerLivre
<1>3. CASE CompterEmprunts(d)
  BY <1>3, <1>0 DEF CompterEmprunts
<1>4. CASE Inserer(d)
  BY <1>4, <1>0 DEF Inserer
<1>5. CASE RepondreDemande(d)
  BY <1>5, <1>0 DEF RepondreDemande, varsBase
<1>6. CASE AnnulerDemande(d)
  BY <1>6, <1>0 DEF AnnulerDemande
<1> QED BY <1>1, <1>2, <1>3, <1>4, <1>5, <1>6 DEF EtapeDemande

LEMMA LivresTenusRetour ==
  ASSUME TypeEmprunts, LivresTenus, NEW r \in Retours, EtapeRetour(r) \/ AnnulerRetour(r)
  PROVE  LivresTenus'
<1>1. \A x \in Demandes : emprunts'[x].livre = emprunts[x].livre
  BY ParametresFixes
<1>2. verrouLivre' = verrouLivre /\ demande' = demande
  BY DEF EtapeRetour, OuvrirRetour, VerrouillerEmprunt, Rendre, RepondreRetour, AnnulerRetour,
     varsBase
<1> QED BY <1>1, <1>2 DEF LivresTenus

LEMMA EmpruntsTenusDemande ==
  ASSUME EmpruntsTenus, NEW d \in Demandes, EtapeDemande(d) \/ AnnulerDemande(d)
  PROVE  EmpruntsTenus'
<1>1. verrouEmprunt' = verrouEmprunt /\ retour' = retour
  BY DEF EtapeDemande, LireUtilisateur, VerrouillerLivre, CompterEmprunts, Inserer,
     RepondreDemande, AnnulerDemande, varsBase
<1> QED BY <1>1 DEF EmpruntsTenus

LEMMA EmpruntsTenusRetour ==
  ASSUME TypeEmprunts, EmpruntsTenus, NEW r \in Retours, EtapeRetour(r) \/ AnnulerRetour(r)
  PROVE  EmpruntsTenus'
<1> SUFFICES ASSUME NEW e \in Demandes, NEW q \in Retours
             PROVE  (verrouEmprunt[e] = q <=> /\ retour[q].phase = "verrouillee"
                                              /\ retour[q].emprunt = e)'
  BY DEF EmpruntsTenus
<1>0. /\ verrouEmprunt[e] = q <=> retour[q].phase = "verrouillee" /\ retour[q].emprunt = e
      /\ verrouEmprunt[e] = r <=> retour[r].phase = "verrouillee" /\ retour[r].emprunt = e
      /\ retour \in [Retours -> Retour]
      /\ verrouEmprunt \in [Demandes -> Retours \cup Radiations \cup Taches \cup {Libre}]
      /\ retour[r].emprunt \in Demandes
      /\ Libre \notin Retours
  BY TransactionsDistinctes DEF EmpruntsTenus, TypeEmprunts, TypeBase, Retour
<1> USE DEF Retour, TerminerRetour, Liberes
<1>1. CASE OuvrirRetour(r)
  BY <1>1, <1>0 DEF OuvrirRetour, varsBase
<1>2. CASE VerrouillerEmprunt(r)
  BY <1>2, <1>0 DEF VerrouillerEmprunt
<1>3. CASE Rendre(r)
  BY <1>3, <1>0 DEF Rendre
<1>4. CASE RepondreRetour(r)
  BY <1>4, <1>0 DEF RepondreRetour, varsBase
<1>5. CASE AnnulerRetour(r)
  BY <1>5, <1>0 DEF AnnulerRetour
<1> QED BY <1>1, <1>2, <1>3, <1>4, <1>5 DEF EtapeRetour

-----------------------------------------------------------------------------
(* The rows behind the calls                                               *)

(* Until its INSERT a call has no row; while it holds its book there is a  *)
(* free copy; while a return holds its loan the loan is active.            *)
SansLigne ==
  \A d \in Demandes :
    demande[d].phase \in {"recue", "identifiee", "verrouillee", "comptee"}
      => emprunts[d].statut = "aucun"
ExemplaireTenu ==
  \A d \in Demandes :
    demande[d].phase \in {"verrouillee", "comptee"} => livres[emprunts[d].livre].dispo >= 1
PretTenu ==
  \A r \in Retours :
    retour[r].phase = "verrouillee" => emprunts[retour[r].emprunt].statut \in Actif

Lignes == SansLigne /\ ExemplaireTenu /\ PretTenu

LEMMA LignesDemande ==
  ASSUME TypeEmprunts, LivresTenus, Lignes,
         NEW d \in Demandes, EtapeDemande(d) \/ AnnulerDemande(d)
  PROVE  Lignes'
<1> USE DEF Lignes, TypeEmprunts, TypeBase, Demande, Emprunt, Livre, AvancerDemande,
            TerminerDemande
<1>0. \A x \in Demandes : emprunts'[x].livre = emprunts[x].livre
  BY ParametresFixes
<1>1. SansLigne'
  <2> SUFFICES ASSUME NEW x \in Demandes,
                      demande'[x].phase \in {"recue", "identifiee", "verrouillee", "comptee"}
               PROVE  emprunts'[x].statut = "aucun"
    BY DEF SansLigne
  <2>1. demande[x].phase \in {"recue", "identifiee", "verrouillee", "comptee"}
    BY DEF EtapeDemande, LireUtilisateur, VerrouillerLivre, CompterEmprunts, Inserer,
       RepondreDemande, AnnulerDemande
  <2>2. emprunts[x].statut = "aucun"
    BY <2>1 DEF SansLigne
  <2>3. CASE Inserer(d)
    <3>1. CASE x = d
      BY <2>3, <2>2, <3>1 DEF Inserer
    <3>2. CASE x # d
      BY <2>3, <2>2, <3>2 DEF Inserer
    <3> QED BY <3>1, <3>2
  <2>4. CASE ~ Inserer(d)
    BY <2>4, <2>2 DEF EtapeDemande, LireUtilisateur, VerrouillerLivre, CompterEmprunts,
       RepondreDemande, AnnulerDemande, varsBase, tables
  <2> QED BY <2>3, <2>4
<1>2. ExemplaireTenu'
  <2> SUFFICES ASSUME NEW x \in Demandes, demande'[x].phase \in {"verrouillee", "comptee"}
               PROVE  livres'[emprunts[x].livre].dispo >= 1
    BY <1>0 DEF ExemplaireTenu
  <2>1. CASE VerrouillerLivre(d)
    <3>1. livres' = livres /\ livres[emprunts[d].livre].dispo \in Int
      BY <2>1 DEF VerrouillerLivre, tables
    <3>2. CASE x = d
      <4>1. livres[emprunts[d].livre].dispo > 0
        BY <2>1, <3>2 DEF VerrouillerLivre
      <4> QED BY <3>1, <3>2, <4>1
    <3>3. CASE x # d
      <4>1. demande'[x].phase = demande[x].phase
        BY <2>1, <3>3 DEF VerrouillerLivre
      <4> QED BY <3>1, <4>1 DEF ExemplaireTenu
    <3> QED BY <3>2, <3>3
  <2>2. CASE Inserer(d)
    <3>1. x # d /\ demande[x].phase \in {"verrouillee", "comptee"}
      BY <2>2 DEF Inserer
    <3>2. emprunts[x].livre # emprunts[d].livre
      BY <2>2, <3>1 DEF Inserer, LivresTenus
    <3> QED BY <2>2, <3>1, <3>2 DEF Inserer, ExemplaireTenu
  <2>3. CASE ~ VerrouillerLivre(d) /\ ~ Inserer(d)
    <3>1. livres' = livres
      BY <2>3 DEF EtapeDemande, LireUtilisateur, CompterEmprunts, RepondreDemande,
         AnnulerDemande, varsBase, tables
    <3>2. demande[x].phase \in {"verrouillee", "comptee"}
      <4>1. CASE x = d /\ CompterEmprunts(d)
        BY <4>1 DEF CompterEmprunts
      <4>2. CASE x = d /\ ~ CompterEmprunts(d)
        <5>1. demande'[d].phase \in {"identifiee", "terminee"}
          BY <2>3, <4>2 DEF EtapeDemande, LireUtilisateur, RepondreDemande, AnnulerDemande
        <5> QED BY <4>2, <5>1
      <4>3. CASE x # d
        <5>1. demande'[x] = demande[x]
          BY <2>3, <4>3 DEF EtapeDemande, LireUtilisateur, CompterEmprunts, RepondreDemande,
             AnnulerDemande
        <5> QED BY <5>1
      <4> QED BY <4>1, <4>2, <4>3
    <3> QED BY <3>1, <3>2 DEF ExemplaireTenu
  <2> QED BY <2>1, <2>2, <2>3
<1>3. PretTenu'
  <2> SUFFICES ASSUME NEW r \in Retours, retour'[r].phase = "verrouillee"
               PROVE  emprunts'[retour'[r].emprunt].statut \in Actif
    BY DEF PretTenu
  <2>1. retour' = retour
    BY DEF EtapeDemande, LireUtilisateur, VerrouillerLivre, CompterEmprunts, Inserer,
       RepondreDemande, AnnulerDemande
  <2>2. /\ retour[r].emprunt \in Demandes
        /\ emprunts[retour[r].emprunt].statut \in Actif
    BY <2>1 DEF PretTenu, Retour
  <2>3. CASE Inserer(d)
    BY <2>1, <2>2, <2>3 DEF Inserer, Actif
  <2>4. CASE ~ Inserer(d)
    BY <2>1, <2>2, <2>4 DEF EtapeDemande, LireUtilisateur, VerrouillerLivre, CompterEmprunts,
       RepondreDemande, AnnulerDemande, varsBase, tables
  <2> QED BY <2>3, <2>4
<1> QED BY <1>1, <1>2, <1>3

LEMMA LignesRetour ==
  ASSUME TypeEmprunts, EmpruntsTenus, Lignes,
         NEW r \in Retours, EtapeRetour(r) \/ AnnulerRetour(r)
  PROVE  Lignes'
<1> USE DEF Lignes, TypeEmprunts, TypeBase, Retour, Emprunt, Livre, TerminerRetour
<1>0. \A x \in Demandes : emprunts'[x].livre = emprunts[x].livre
  BY ParametresFixes
<1>a. demande' = demande /\ retour[r].emprunt \in Demandes
  BY DEF EtapeRetour, OuvrirRetour, VerrouillerEmprunt, Rendre, RepondreRetour, AnnulerRetour
<1>1. CASE Rendre(r)
  <2>1. emprunts[retour[r].emprunt].statut \in Actif
    BY <1>1 DEF Rendre, PretTenu
  <2>2. SansLigne'
    BY <1>1, <1>a, <2>1 DEF Rendre, SansLigne, Actif
  <2>3. ExemplaireTenu'
    BY <1>1, <1>a, <1>0 DEF Rendre, Reintegrer, ExemplaireTenu
  <2>4. PretTenu'
    <3> SUFFICES ASSUME NEW q \in Retours, retour'[q].phase = "verrouillee"
                 PROVE  emprunts'[retour'[q].emprunt].statut \in Actif
      BY DEF PretTenu
    <3>1. q # r /\ retour[q].phase = "verrouillee" /\ retour'[q].emprunt = retour[q].emprunt
      BY <1>1 DEF Rendre
    <3>2. retour[q].emprunt # retour[r].emprunt
      BY <1>1, <1>a, <3>1 DEF Rendre, EmpruntsTenus
    <3> QED BY <1>1, <3>1, <3>2 DEF Rendre, PretTenu
  <2> QED BY <2>2, <2>3, <2>4
<1>2. CASE ~ Rendre(r)
  <2>1. emprunts' = emprunts /\ livres' = livres
    BY <1>2 DEF EtapeRetour, OuvrirRetour, VerrouillerEmprunt, RepondreRetour, AnnulerRetour,
       varsBase, tables
  <2>2. PretTenu'
    <3> SUFFICES ASSUME NEW q \in Retours, retour'[q].phase = "verrouillee"
                 PROVE  emprunts[retour'[q].emprunt].statut \in Actif
      BY <2>1 DEF PretTenu
    <3>0. retour \in [Retours -> Retour]
      OBVIOUS
    <3>1. retour'[q].emprunt = retour[q].emprunt
      <4> HIDE DEF TypeEmprunts, TypeBase, Lignes
      <4>1. CASE OuvrirRetour(r)
        BY <3>0, <4>1 DEF OuvrirRetour
      <4>2. CASE VerrouillerEmprunt(r)
        BY <3>0, <4>2 DEF VerrouillerEmprunt
      <4>3. CASE RepondreRetour(r)
        BY <3>0, <4>3 DEF RepondreRetour
      <4>4. CASE AnnulerRetour(r)
        BY <3>0, <4>4 DEF AnnulerRetour
      <4> QED BY <1>2, <4>1, <4>2, <4>3, <4>4 DEF EtapeRetour
    <3>2. CASE q = r /\ VerrouillerEmprunt(r)
      BY <3>1, <3>2 DEF VerrouillerEmprunt
    <3>3. CASE ~ (q = r /\ VerrouillerEmprunt(r))
      <4>1. q # r
        <5>1. ASSUME ~ VerrouillerEmprunt(r)
              PROVE  retour'[r].phase \in {"ouverte", "terminee"}
          BY <1>2, <5>1 DEF EtapeRetour, OuvrirRetour, RepondreRetour, AnnulerRetour
        <5> QED BY <3>3, <5>1
      <4>2. retour'[q] = retour[q]
        BY <1>2, <4>1 DEF EtapeRetour, OuvrirRetour, VerrouillerEmprunt, RepondreRetour,
           AnnulerRetour
      <4> QED BY <4>2 DEF PretTenu
    <3> QED BY <3>2, <3>3
  <2> QED BY <1>a, <2>1, <2>2 DEF SansLigne, ExemplaireTenu
<1> QED BY <1>1, <1>2

-----------------------------------------------------------------------------
(* The invariant everything else rests on                                  *)

Socle == TypeEmprunts /\ LivresTenus /\ EmpruntsTenus /\ Lignes

LEMMA SocleInit ==
  ASSUME InitEmprunts
  PROVE  Socle
<1>1. TypeEmprunts
  BY TypeInit
<1>2. LivresTenus
  BY TransactionsDistinctes DEF InitEmprunts, InitBase, LivresTenus
<1>3. EmpruntsTenus
  BY TransactionsDistinctes DEF InitEmprunts, InitBase, EmpruntsTenus
<1>4. SansLigne
  BY DEF InitEmprunts, InitBase, SansLigne
<1>5. ExemplaireTenu
  BY DEF InitEmprunts, ExemplaireTenu
<1>6. PretTenu
  BY DEF InitEmprunts, PretTenu
<1> QED BY <1>1, <1>2, <1>3, <1>4, <1>5, <1>6 DEF Socle, Lignes

(* Midnight and the accounts touch neither the loans nor the stock.        *)
LEMMA EnvironnementNeutre ==
  ASSUME NextEnvironnement \/ UNCHANGED varsEmprunts
  PROVE  UNCHANGED <<livres, emprunts, verrouLivre, verrouEmprunt, demande, retour>>
BY DEF NextEnvironnement, ChangerDeJour, ChangerCompte, varsEmprunts, varsBase, tables, verrous

LEMMA SocleSuivant ==
  ASSUME Socle, [NextEmprunts \/ NextEnvironnement]_varsEmprunts
  PROVE  Socle'
<1>1. TypeEmprunts'
  BY TypeSuivant DEF Socle
<1>2. ASSUME NEW d \in Demandes, EtapeDemande(d) \/ AnnulerDemande(d)
      PROVE  Socle'
  BY <1>1, <1>2, LivresTenusDemande, EmpruntsTenusDemande, LignesDemande DEF Socle
<1>3. ASSUME NEW r \in Retours, EtapeRetour(r) \/ AnnulerRetour(r)
      PROVE  Socle'
  BY <1>1, <1>3, LivresTenusRetour, EmpruntsTenusRetour, LignesRetour DEF Socle
<1>4. CASE NextEnvironnement \/ UNCHANGED varsEmprunts
  <2>1. UNCHANGED <<livres, emprunts, verrouLivre, verrouEmprunt, demande, retour>>
    BY <1>4, EnvironnementNeutre
  <2> QED BY <1>1, <2>1 DEF Socle, LivresTenus, EmpruntsTenus, Lignes, SansLigne,
             ExemplaireTenu, PretTenu
<1> QED BY <1>2, <1>3, <1>4 DEF NextEmprunts

LEMMA SocleInvariant == SpecEmprunts => []Socle
BY SocleInit, SocleSuivant, PTL DEF SpecEmprunts

(* A row lock is held exactly by the call that stands between its SELECT   *)
(* ... FOR UPDATE and the end of its transaction.                          *)
THEOREM VerrousRespectes == SpecEmprunts => []VerrousTenus
<1>1. Socle => VerrousTenus
  BY DEF Socle, LivresTenus, EmpruntsTenus, VerrousTenus
<1> QED BY <1>1, SocleInvariant, PTL

-----------------------------------------------------------------------------
(* What a step does to the rows: one loan is inserted, one loan is closed, *)
(* or the tables stay as they are.                                         *)

LEMMA EffetDemande ==
  ASSUME NEW d \in Demandes, EtapeDemande(d) \/ AnnulerDemande(d)
  PROVE  \/ Inserer(d) /\ utilisateurs[emprunts[d].utilisateur] # "efface"
         \/ UNCHANGED <<livres, emprunts>>
BY DEF EtapeDemande, LireUtilisateur, VerrouillerLivre, CompterEmprunts, Inserer,
   RepondreDemande, AnnulerDemande, varsBase, tables

LEMMA EffetRetour ==
  ASSUME NEW r \in Retours, EtapeRetour(r) \/ AnnulerRetour(r)
  PROVE  \/ Rendre(r) /\ StockAdmis(Reintegrer(livres[emprunts[retour[r].emprunt].livre]))
         \/ UNCHANGED <<livres, emprunts>>
BY DEF EtapeRetour, OuvrirRetour, VerrouillerEmprunt, Rendre, RepondreRetour, AnnulerRetour,
   varsBase, tables

(* The loan of a call that inserts was not out, and is out with its book.  *)
LEMMA SortisInserer ==
  ASSUME Socle, NEW d \in Demandes, Inserer(d), utilisateurs[emprunts[d].utilisateur] # "efface",
         NEW l \in Livres
  PROVE  IF emprunts[d].livre = l
         THEN /\ d \notin Sortis(l) /\ Sortis(l)' = Sortis(l) \cup {d}
              /\ livres'[l].dispo = livres[l].dispo - 1 /\ livres'[l].nombre = livres[l].nombre
         ELSE Sortis(l)' = Sortis(l) /\ livres'[l] = livres[l]
<1> USE DEF Socle, TypeEmprunts, TypeBase, Emprunt, Livre
<1>1. emprunts[d].statut = "aucun"
  BY DEF Inserer, Lignes, SansLigne
<1>2. \A x \in Demandes : /\ emprunts'[x].livre = emprunts[x].livre
                          /\ x # d => emprunts'[x].statut = emprunts[x].statut
  BY DEF Inserer
<1>3. emprunts'[d].statut = "en_cours"
  BY DEF Inserer
<1>4. IF emprunts[d].livre = l
      THEN livres'[l].dispo = livres[l].dispo - 1 /\ livres'[l].nombre = livres[l].nombre
      ELSE livres'[l] = livres[l]
  BY DEF Inserer
<1> QED BY <1>1, <1>2, <1>3, <1>4 DEF Sortis, Actif

(* The loan of a return that commits was out with its book, and is not.    *)
LEMMA SortisRendre ==
  ASSUME Socle, NEW r \in Retours, Rendre(r),
         StockAdmis(Reintegrer(livres[emprunts[retour[r].emprunt].livre])), NEW l \in Livres
  PROVE  LET e == retour[r].emprunt IN
         IF emprunts[e].livre = l
         THEN /\ e \in Sortis(l) /\ Sortis(l)' = Sortis(l) \ {e}
              /\ livres'[l].dispo = livres[l].dispo + 1 /\ livres'[l].nombre = livres[l].nombre
         ELSE Sortis(l)' = Sortis(l) /\ livres'[l] = livres[l]
<1> USE DEF Socle, TypeEmprunts, TypeBase, Emprunt, Livre, Retour
<1> DEFINE e == retour[r].emprunt
<1>1. e \in Demandes /\ emprunts[e].statut \in Actif
  BY DEF Rendre, Lignes, PretTenu
<1>2. \A x \in Demandes : /\ emprunts'[x].livre = emprunts[x].livre
                          /\ x # e => emprunts'[x].statut = emprunts[x].statut
  BY DEF Rendre
<1>3. emprunts'[e].statut = "rendu"
  BY <1>1 DEF Rendre
<1>4. IF emprunts[e].livre = l
      THEN livres'[l].dispo = livres[l].dispo + 1 /\ livres'[l].nombre = livres[l].nombre
      ELSE livres'[l] = livres[l]
  BY <1>1 DEF Rendre, Reintegrer
<1> QED BY <1>1, <1>2, <1>3, <1>4 DEF Sortis, Actif

-----------------------------------------------------------------------------
(* The stock                                                               *)

LEMMA SortisFinis ==
  ASSUME NEW l
  PROVE  IsFiniteSet(Sortis(l)) /\ Cardinality(Sortis(l)) \in Nat
BY FinitudeAssumption, FS_Subset, FS_CardinalityType DEF Sortis

StockPositif == \A l \in Livres : livres[l].dispo >= 0

Stock == Socle /\ StockCoherent /\ StockPositif

LEMMA StockInit ==
  ASSUME InitEmprunts
  PROVE  Stock
<1>1. \A l \in Livres : livres[l].dispo = livres[l].nombre /\ livres[l].dispo >= 0
  BY TotauxAssumption DEF InitEmprunts, InitBase, LivreAbsent, LivreNeuf
<1>2. \A l \in Livres : Cardinality(Sortis(l)) = 0
  <2>1. \A l \in Livres : Sortis(l) = {}
    BY DEF InitEmprunts, InitBase, Sortis, Actif
  <2> QED BY <2>1, FS_EmptySet
<1>3. \A l \in Livres : livres[l].dispo \in Int
  BY SocleInit DEF Socle, TypeEmprunts, TypeBase, Livre
<1> QED BY <1>1, <1>2, <1>3, SocleInit DEF Stock, StockCoherent, StockPositif

LEMMA StockSuivant ==
  ASSUME Stock, [NextEmprunts \/ NextEnvironnement]_varsEmprunts
  PROVE  Stock'
<1> SUFFICES ASSUME NEW l \in Livres
             PROVE  /\ livres'[l].dispo + Cardinality(Sortis(l)') = livres'[l].nombre
                    /\ livres'[l].dispo >= 0
  BY SocleSuivant DEF Stock, StockCoherent, StockPositif
<1>0. /\ livres[l].dispo \in Int /\ livres[l].nombre \in Nat
      /\ livres[l].dispo + Cardinality(Sortis(l)) = livres[l].nombre
      /\ livres[l].dispo >= 0
      /\ IsFiniteSet(Sortis(l)) /\ Cardinality(Sortis(l)) \in Nat
  BY SortisFinis DEF Stock, Socle, TypeEmprunts, TypeBase, Livre, StockCoherent, StockPositif
<1>1. CASE UNCHANGED <<livres, emprunts>>
  BY <1>0, <1>1 DEF Sortis
<1>2. ASSUME NEW d \in Demandes, Inserer(d), utilisateurs[emprunts[d].utilisateur] # "efface"
      PROVE  /\ livres'[l].dispo + Cardinality(Sortis(l)') = livres'[l].nombre
             /\ livres'[l].dispo >= 0
  <2>1. CASE emprunts[d].livre = l
    <3>1. livres[l].dispo >= 1
      BY <1>2, <2>1 DEF Inserer, Stock, Socle, Lignes, ExemplaireTenu
    <3>2. Cardinality(Sortis(l)') = Cardinality(Sortis(l)) + 1
      BY <1>0, <1>2, <2>1, SortisInserer, FS_AddElement DEF Stock
    <3>3. livres'[l].dispo = livres[l].dispo - 1 /\ livres'[l].nombre = livres[l].nombre
      BY <1>2, <2>1, SortisInserer DEF Stock
    <3> QED BY <1>0, <3>1, <3>2, <3>3
  <2>2. CASE emprunts[d].livre # l
    BY <1>0, <1>2, <2>2, SortisInserer DEF Stock
  <2> QED BY <2>1, <2>2
<1>3. ASSUME NEW r \in Retours, Rendre(r),
             StockAdmis(Reintegrer(livres[emprunts[retour[r].emprunt].livre]))
      PROVE  /\ livres'[l].dispo + Cardinality(Sortis(l)') = livres'[l].nombre
             /\ livres'[l].dispo >= 0
  <2>1. CASE emprunts[retour[r].emprunt].livre = l
    <3>1. Cardinality(Sortis(l)') = Cardinality(Sortis(l)) - 1
      BY <1>0, <1>3, <2>1, SortisRendre, FS_RemoveElement DEF Stock
    <3>2. livres'[l].dispo = livres[l].dispo + 1 /\ livres'[l].nombre = livres[l].nombre
      BY <1>3, <2>1, SortisRendre DEF Stock
    <3> QED BY <1>0, <3>1, <3>2
  <2>2. CASE emprunts[retour[r].emprunt].livre # l
    BY <1>0, <1>3, <2>2, SortisRendre DEF Stock
  <2> QED BY <2>1, <2>2
<1>4. CASE NextEnvironnement \/ UNCHANGED varsEmprunts
  BY <1>1, <1>4, EnvironnementNeutre
<1> QED BY <1>1, <1>2, <1>3, <1>4, EffetDemande, EffetRetour DEF NextEmprunts

LEMMA StockInvariant == SpecEmprunts => []Stock
BY StockInit, StockSuivant, PTL DEF SpecEmprunts

(* Free copies and copies that are out always make the total of the book.  *)
THEOREM StockToujoursCoherent == SpecEmprunts => []StockCoherent
<1>1. Stock => StockCoherent
  BY DEF Stock
<1> QED BY <1>1, StockInvariant, PTL

(* The stock stays between nothing and the total: no call takes the last   *)
(* copy twice, so that the CHECK constraints stop no loan and no return.   *)
THEOREM StockToujoursBorne == SpecEmprunts => []StockBorne
<1>1. ASSUME Stock
      PROVE  StockBorne
  <2> SUFFICES ASSUME NEW l \in Livres
               PROVE  StockAdmis(livres[l])
    BY DEF StockBorne
  <2>1. /\ livres[l].dispo \in Int /\ livres[l].nombre \in Nat
        /\ livres[l].dispo + Cardinality(Sortis(l)) = livres[l].nombre
        /\ livres[l].dispo >= 0 /\ Cardinality(Sortis(l)) \in Nat
    BY <1>1, SortisFinis DEF Stock, Socle, TypeEmprunts, TypeBase, Livre, StockCoherent,
       StockPositif
  <2> QED BY <2>1 DEF StockAdmis
<1> QED BY <1>1, StockInvariant, PTL

-----------------------------------------------------------------------------
(* Returns                                                                 *)

(* What a return has done so far agrees with where it stands.              *)
Clos == {"rendu", "archive", "efface"}
EffetSitue(r) ==
  /\ retour[r].effet => /\ retour[r].phase \in {"validee", "terminee"}
                        /\ emprunts[retour[r].emprunt].statut \in Clos
  /\ retour[r].phase = "validee" => retour[r].effet
  /\ retour[r].reponse # "aucune" => retour[r].phase = "terminee"
  /\ retour[r].reponse = "200" => retour[r].effet
  /\ retour[r].reponse = "409" => ~ retour[r].effet

Effets ==
  /\ \A r \in Retours : EffetSitue(r)
  /\ \A r, q \in Retours :
       retour[r].effet /\ retour[q].effet /\ retour[q].emprunt = retour[r].emprunt => q = r

(* A return that does not commit keeps its loan and its effect.            *)
LEMMA RetourSansEffet ==
  ASSUME Socle, NEW r \in Retours, EffetSitue(r), EtapeRetour(r) \/ AnnulerRetour(r),
         ~ (Rendre(r) /\ StockAdmis(Reintegrer(livres[emprunts[retour[r].emprunt].livre])))
  PROVE  /\ emprunts' = emprunts
         /\ \A q \in Retours : q # r => retour'[q] = retour[q]
         /\ retour'[r].emprunt = retour[r].emprunt
         /\ retour'[r].effet = retour[r].effet
         /\ EffetSitue(r)'
<1>0. /\ retour \in [Retours -> Retour]
      /\ EffetSitue(r)
  BY DEF Socle, TypeEmprunts
<1>1. CASE OuvrirRetour(r)
  <2>1. retour' = [retour EXCEPT ![r].phase = "ouverte", ![r].jour = jour]
    BY <1>1 DEF OuvrirRetour
  <2>2. emprunts' = emprunts /\ retour[r].phase = "recue"
    BY <1>1 DEF OuvrirRetour, varsBase
  <2> QED BY <1>0, <2>1, <2>2 DEF EffetSitue, Retour
<1>2. CASE VerrouillerEmprunt(r)
  <2>1. emprunts' = emprunts /\ retour[r].phase = "ouverte"
    BY <1>2 DEF VerrouillerEmprunt, tables
  <2>2. \/ TerminerRetour(r, "404")
        \/ TerminerRetour(r, "409")
        \/ retour' = [retour EXCEPT ![r].phase = "verrouillee"]
    BY <1>2 DEF VerrouillerEmprunt
  <2> QED BY <1>0, <2>1, <2>2 DEF TerminerRetour, EffetSitue, Retour
<1>3. CASE Rendre(r)
  <2>1. TerminerRetour(r, "500") /\ emprunts' = emprunts
    BY <1>3 DEF Rendre
  <2> QED BY <1>0, <2>1 DEF TerminerRetour, EffetSitue
<1>4. CASE RepondreRetour(r)
  <2>1. retour[r].effet /\ emprunts' = emprunts
    BY <1>0, <1>4 DEF RepondreRetour, EffetSitue, varsBase
  <2>2. \/ TerminerRetour(r, "200")
        \/ TerminerRetour(r, "404")
    BY <1>4 DEF RepondreRetour
  <2>3. CASE TerminerRetour(r, "200")
    BY <1>0, <2>1, <2>3 DEF TerminerRetour, EffetSitue, Retour
  <2>4. CASE TerminerRetour(r, "404")
    BY <1>0, <2>1, <2>4 DEF TerminerRetour, EffetSitue, Retour
  <2> QED BY <2>2, <2>3, <2>4
<1>5. CASE AnnulerRetour(r)
  BY <1>0, <1>5 DEF AnnulerRetour, TerminerRetour, EffetSitue, tables
<1> QED BY <1>1, <1>2, <1>3, <1>4, <1>5 DEF EtapeRetour

(* A return that commits closes a loan that no return had closed.          *)
LEMMA RetourAvecEffet ==
  ASSUME Socle, Effets, NEW r \in Retours, Rendre(r),
         StockAdmis(Reintegrer(livres[emprunts[retour[r].emprunt].livre]))
  PROVE  Effets'
<1> DEFINE e == retour[r].emprunt
<1>0. /\ retour \in [Retours -> Retour] /\ e \in Demandes
      /\ emprunts \in [Demandes -> Emprunt]
      /\ emprunts[e].statut \in Actif
      /\ retour[r].phase = "verrouillee" /\ retour[r].reponse = "aucune"
  BY DEF Socle, TypeEmprunts, TypeBase, Retour, Lignes, PretTenu, Rendre, Effets, EffetSitue
<1>1. /\ retour' = [retour EXCEPT ![r].phase = "validee", ![r].effet = TRUE]
      /\ emprunts' = [emprunts EXCEPT ![e].statut = "rendu",
                                      ![e].effective = retour[r].jour,
                                      ![e].penalite = Penalite(emprunts[e].prevue, retour[r].jour)]
  BY DEF Rendre
<1>2. /\ retour'[r].effet /\ retour'[r].phase = "validee" /\ retour'[r].emprunt = e
      /\ retour'[r].reponse = "aucune"
      /\ emprunts'[e].statut = "rendu"
  BY <1>0, <1>1 DEF Retour, Emprunt
<1>3. ASSUME NEW q \in Retours, q # r
      PROVE  /\ retour'[q] = retour[q]
             /\ retour[q].effet => retour[q].emprunt # e
             /\ retour[q].emprunt \in Demandes
             /\ retour[q].emprunt # e
                  => emprunts'[retour[q].emprunt] = emprunts[retour[q].emprunt]
  BY <1>0, <1>1, <1>3 DEF Effets, EffetSitue, Actif, Clos, Retour
<1>4. \A q \in Retours : EffetSitue(q)'
  <2> SUFFICES ASSUME NEW q \in Retours
               PROVE  EffetSitue(q)'
    OBVIOUS
  <2>1. CASE q = r
    BY <1>2, <2>1 DEF EffetSitue, Clos
  <2>2. CASE q # r
    <3>1. EffetSitue(q)
      BY DEF Effets
    <3> QED BY <1>3, <2>2, <3>1 DEF EffetSitue
  <2> QED BY <2>1, <2>2
<1>5. ASSUME NEW a \in Retours, NEW b \in Retours, retour'[a].effet, retour'[b].effet,
             retour'[b].emprunt = retour'[a].emprunt
      PROVE  b = a
  BY <1>2, <1>3, <1>5 DEF Effets
<1> QED BY <1>4, <1>5 DEF Effets

LEMMA EffetsRetour ==
  ASSUME Socle, Effets, NEW r \in Retours, EtapeRetour(r) \/ AnnulerRetour(r)
  PROVE  Effets'
<1>1. CASE Rendre(r) /\ StockAdmis(Reintegrer(livres[emprunts[retour[r].emprunt].livre]))
  BY <1>1, RetourAvecEffet
<1>2. CASE ~ (Rendre(r) /\ StockAdmis(Reintegrer(livres[emprunts[retour[r].emprunt].livre])))
  <2>0. EffetSitue(r)
    BY DEF Effets
  <2>1. /\ emprunts' = emprunts
        /\ \A q \in Retours : q # r => retour'[q] = retour[q]
        /\ retour'[r].emprunt = retour[r].emprunt
        /\ retour'[r].effet = retour[r].effet
        /\ EffetSitue(r)'
    BY <1>2, <2>0, RetourSansEffet
  <2>2. \A q \in Retours : EffetSitue(q)'
    BY <2>1 DEF Effets, EffetSitue
  <2>3. \A q \in Retours : retour'[q].effet = retour[q].effet /\ retour'[q].emprunt = retour[q].emprunt
    BY <2>1
  <2> QED BY <2>2, <2>3 DEF Effets
<1> QED BY <1>1, <1>2

(* A borrowing touches no loan that is closed.                             *)
LEMMA EffetsDemande ==
  ASSUME Socle, Effets, NEW d \in Demandes, EtapeDemande(d) \/ AnnulerDemande(d)
  PROVE  Effets'
<1>1. retour' = retour
  BY DEF EtapeDemande, LireUtilisateur, VerrouillerLivre, CompterEmprunts, Inserer,
     RepondreDemande, AnnulerDemande
<1>2. \A x \in Demandes : emprunts[x].statut \in Clos => emprunts'[x].statut \in Clos
  <2>1. CASE Inserer(d)
    <3>1. emprunts[d].statut = "aucun"
      BY <2>1 DEF Inserer, Socle, Lignes, SansLigne
    <3> QED BY <2>1, <3>1 DEF Inserer, Socle, TypeEmprunts, TypeBase, Clos
  <2> QED BY <2>1, EffetDemande
<1>3. \A r \in Retours : retour[r].emprunt \in Demandes
  BY DEF Socle, TypeEmprunts, Retour
<1> QED BY <1>1, <1>2, <1>3 DEF Effets, EffetSitue

LEMMA EffetsInvariant == SpecEmprunts => [](Socle /\ Effets)
<1>1. InitEmprunts => Effets
  BY DEF InitEmprunts, Effets, EffetSitue
<1>2. ASSUME Socle, Effets, [NextEmprunts \/ NextEnvironnement]_varsEmprunts
      PROVE  Effets'
  <2>1. CASE NextEnvironnement \/ UNCHANGED varsEmprunts
    BY <1>2, <2>1, EnvironnementNeutre DEF Effets, EffetSitue
  <2> QED BY <1>2, <2>1, EffetsDemande, EffetsRetour DEF NextEmprunts
<1> QED BY <1>1, <1>2, SocleInvariant, PTL DEF SpecEmprunts

(* Of the returns of one loan at most one commits, and the loan is then    *)
(* closed: Rendre locks the loan before it reads its status.               *)
THEOREM RetourToujoursUnique == SpecEmprunts => []RetourUnique
<1>1. Effets => RetourUnique
  BY DEF Effets, EffetSitue, Clos, RetourUnique
<1> QED BY <1>1, EffetsInvariant, PTL

-----------------------------------------------------------------------------
(* Answers                                                                 *)

(* What a call of POST /emprunts has answered agrees with its row.         *)
DemandeSituee(d) ==
  /\ demande[d].reponse # "aucune" => demande[d].phase = "terminee"
  /\ demande[d].phase = "validee" => emprunts[d].statut # "aucun"
  /\ demande[d].reponse = "201" => emprunts[d].statut # "aucun"
  /\ demande[d].reponse = "409" => emprunts[d].statut = "aucun"

LEMMA DemandeSitueeSienne ==
  ASSUME Socle, NEW d \in Demandes, DemandeSituee(d), EtapeDemande(d) \/ AnnulerDemande(d)
  PROVE  DemandeSituee(d)'
<1>0. /\ demande \in [Demandes -> Demande]
      /\ emprunts \in [Demandes -> Emprunt]
      /\ demande[d].phase \in {"recue", "identifiee", "verrouillee", "comptee"}
           => emprunts[d].statut = "aucun" /\ demande[d].reponse = "aucune"
  BY DEF Socle, TypeEmprunts, TypeBase, Lignes, SansLigne, DemandeSituee
<1>1. CASE LireUtilisateur(d)
  <2>1. emprunts' = emprunts /\ demande[d].phase = "recue"
    BY <1>1 DEF LireUtilisateur, varsBase
  <2>2. \/ demande' = [demande EXCEPT ![d].phase = "identifiee", ![d].jour = jour]
        \/ TerminerDemande(d, "404")
    BY <1>1 DEF LireUtilisateur
  <2> QED BY <1>0, <2>1, <2>2 DEF TerminerDemande, DemandeSituee, Demande
<1>2. CASE VerrouillerLivre(d) \/ CompterEmprunts(d)
  <2>1. emprunts' = emprunts /\ demande[d].phase \in {"identifiee", "verrouillee"}
    BY <1>2 DEF VerrouillerLivre, CompterEmprunts, tables
  <2>2. \/ \E x \in {"404", "409"} : TerminerDemande(d, x)
        \/ \E x \in {"verrouillee", "comptee"} : AvancerDemande(d, x)
    BY <1>2 DEF VerrouillerLivre, CompterEmprunts
  <2>3. ASSUME NEW x \in {"404", "409"}, TerminerDemande(d, x)
        PROVE  DemandeSituee(d)'
    BY <1>0, <2>1, <2>3 DEF TerminerDemande, DemandeSituee, Demande
  <2>4. ASSUME NEW x \in {"verrouillee", "comptee"}, AvancerDemande(d, x)
        PROVE  DemandeSituee(d)'
    BY <1>0, <2>1, <2>4 DEF AvancerDemande, DemandeSituee, Demande
  <2> QED BY <2>2, <2>3, <2>4
<1>3. CASE Inserer(d)
  <2>1. demande[d].phase = "comptee"
    BY <1>3 DEF Inserer
  <2>2. CASE utilisateurs[emprunts[d].utilisateur] # "efface"
    <3>1. AvancerDemande(d, "validee") /\ emprunts'[d].statut = "en_cours"
      BY <1>0, <1>3, <2>2 DEF Inserer, Emprunt
    <3> QED BY <1>0, <2>1, <3>1 DEF AvancerDemande, DemandeSituee, Demande
  <2>3. CASE utilisateurs[emprunts[d].utilisateur] = "efface"
    <3>1. TerminerDemande(d, "500") /\ emprunts' = emprunts
      BY <1>3, <2>3 DEF Inserer
    <3> QED BY <1>0, <2>1, <3>1 DEF TerminerDemande, DemandeSituee, Demande
  <2> QED BY <2>2, <2>3
<1>4. CASE RepondreDemande(d) \/ AnnulerDemande(d)
  <2>1. emprunts' = emprunts
    BY <1>4 DEF RepondreDemande, AnnulerDemande, varsBase, tables
  <2>2. \/ TerminerDemande(d, "201") /\ emprunts[d].statut # "aucun"
        \/ TerminerDemande(d, "404")
        \/ TerminerDemande(d, "500")
    BY <1>4 DEF RepondreDemande, AnnulerDemande, EnTable, Actif
  <2>3. ASSUME NEW x \in {"201", "404", "500"}, TerminerDemande(d, x),
               x = "201" => emprunts[d].statut # "aucun"
        PROVE  DemandeSituee(d)'
    BY <1>0, <2>1, <2>3 DEF TerminerDemande, DemandeSituee, Demande
  <2> QED BY <2>2, <2>3
<1> QED BY <1>1, <1>2, <1>3, <1>4 DEF EtapeDemande

(* The calls of the others leave its row and its answer alone.             *)
LEMMA DemandeSitueeAutre ==
  ASSUME Socle, NEW d \in Demandes, EtapeDemande(d) \/ AnnulerDemande(d),
         NEW x \in Demandes, x # d
  PROVE  demande'[x] = demande[x] /\ emprunts'[x].statut = emprunts[x].statut
<1>0. /\ demande \in [Demandes -> Demande]
      /\ emprunts \in [Demandes -> Emprunt]
  BY DEF Socle, TypeEmprunts, TypeBase
<1>1. demande'[x] = demande[x]
  BY <1>0 DEF EtapeDemande, LireUtilisateur, VerrouillerLivre, CompterEmprunts, Inserer,
     RepondreDemande, AnnulerDemande, AvancerDemande, TerminerDemande
<1>2. CASE Inserer(d)
  BY <1>0, <1>1, <1>2 DEF Inserer
<1> QED BY <1>1, <1>2, EffetDemande

(* A return changes the status of no loan but an active one, to "rendu".   *)
LEMMA StatutRetour ==
  ASSUME Socle, NEW r \in Retours, EtapeRetour(r) \/ AnnulerRetour(r), NEW x \in Demandes
  PROVE  \/ emprunts'[x].statut = emprunts[x].statut
         \/ emprunts[x].statut \in Actif /\ emprunts'[x].statut = "rendu"
<1>1. CASE Rendre(r) /\ StockAdmis(Reintegrer(livres[emprunts[retour[r].emprunt].livre]))
  <2> DEFINE e == retour[r].emprunt
  <2>1. emprunts \in [Demandes -> Emprunt] /\ e \in Demandes /\ emprunts[e].statut \in Actif
    BY <1>1 DEF Socle, TypeEmprunts, TypeBase, Retour, Lignes, PretTenu, Rendre
  <2>2. emprunts' = [emprunts EXCEPT ![e].statut = "rendu",
                                     ![e].effective = retour[r].jour,
                                     ![e].penalite = Penalite(emprunts[e].prevue, retour[r].jour)]
    BY <1>1 DEF Rendre
  <2> HIDE DEF e
  <2> QED BY <2>1, <2>2 DEF Emprunt
<1> QED BY <1>1, EffetRetour

Situations == \A d \in Demandes : DemandeSituee(d)

LEMMA SituationsInvariant == SpecEmprunts => []Situations
<1>1. InitEmprunts => Situations
  BY DEF InitEmprunts, Situations, DemandeSituee
<1>2. ASSUME Socle, Situations, [NextEmprunts \/ NextEnvironnement]_varsEmprunts
      PROVE  Situations'
  <2>1. CASE NextEnvironnement \/ UNCHANGED varsEmprunts
    BY <1>2, <2>1, EnvironnementNeutre DEF Situations, DemandeSituee
  <2>2. ASSUME NEW d \in Demandes, EtapeDemande(d) \/ AnnulerDemande(d)
        PROVE  Situations'
    BY <1>2, <2>2, DemandeSitueeSienne, DemandeSitueeAutre DEF Situations, DemandeSituee
  <2>3. ASSUME NEW r \in Retours, EtapeRetour(r) \/ AnnulerRetour(r)
        PROVE  Situations'
    <3>1. demande' = demande
      BY <2>3 DEF EtapeRetour, OuvrirRetour, VerrouillerEmprunt, Rendre, RepondreRetour,
         AnnulerRetour
    <3>2. \A x \in Demandes : emprunts'[x].statut = "aucun" <=> emprunts[x].statut = "aucun"
      BY <1>2, <2>3, StatutRetour DEF Actif
    <3> QED BY <1>2, <3>1, <3>2 DEF Situations, DemandeSituee
  <2> QED BY <1>2, <2>1, <2>2, <2>3 DEF NextEmprunts
<1> QED BY <1>1, <1>2, SocleInvariant, PTL DEF SpecEmprunts

(* 201 is only answered for a loan that was inserted, 200 for a return     *)
(* that was committed, and 409 by a call that changed nothing.             *)
THEOREM ReponsesToujoursVraies == SpecEmprunts => []ReponsesVraies
<1>1. Situations /\ Effets => ReponsesVraies
  BY DEF Situations, DemandeSituee, Effets, EffetSitue, ReponsesVraies
<1> QED BY <1>1, SituationsInvariant, EffetsInvariant, PTL

(* A loan only goes forward: inserted once, closed once, never revived.    *)
THEOREM StatutToujoursProgresse == SpecEmprunts => StatutProgresse
<1> DEFINE Progres == \A e \in Demandes :
                        emprunts'[e].statut # emprunts[e].statut
                          => emprunts'[e].statut \in Suivants[emprunts[e].statut]
<1>1. ASSUME Socle, [NextEmprunts \/ NextEnvironnement]_varsEmprunts
      PROVE  [Progres]_emprunts
  <2>1. CASE NextEnvironnement \/ UNCHANGED varsEmprunts
    BY <2>1, EnvironnementNeutre
  <2>2. ASSUME NEW d \in Demandes, EtapeDemande(d) \/ AnnulerDemande(d)
        PROVE  Progres
    <3>1. \A x \in Demandes : x # d => emprunts'[x].statut = emprunts[x].statut
      BY <1>1, <2>2, DemandeSitueeAutre
    <3>2. CASE UNCHANGED emprunts
      BY <3>2
    <3>3. CASE Inserer(d) /\ utilisateurs[emprunts[d].utilisateur] # "efface"
      <4>1. emprunts[d].statut = "aucun"
        BY <1>1, <3>3 DEF Inserer, Socle, Lignes, SansLigne
      <4>2. emprunts'[d].statut = "en_cours"
        BY <1>1, <3>3 DEF Inserer, Socle, TypeEmprunts, TypeBase, Emprunt
      <4> QED BY <3>1, <4>1, <4>2 DEF Suivants
    <3> QED BY <2>2, <3>2, <3>3, EffetDemande
  <2>3. ASSUME NEW r \in Retours, EtapeRetour(r) \/ AnnulerRetour(r)
        PROVE  Progres
    BY <1>1, <2>3, StatutRetour DEF Actif, Suivants
  <2> QED BY <1>1, <2>1, <2>2, <2>3 DEF NextEmprunts
<1> QED BY <1>1, SocleInvariant, PTL DEF SpecEmprunts, StatutProgresse

-----------------------------------------------------------------------------
(* The quota                                                               *)

(* The calls of a user that have passed the test of the quota and have not *)
(* inserted yet, and the loans the quota is in truth about.                *)
Comptees(u) == {d \in Demandes : emprunts[d].utilisateur = u /\ demande[d].phase = "comptee"}
Engages(u) == EmpruntsActifs(u) \cup Comptees(u)

QuotaEngage ==
  \A u \in Utilisateurs : Cardinality(Engages(u)) < Quota + Cardinality(Livres)

LEMMA EngagesFinis ==
  ASSUME NEW u
  PROVE  /\ IsFiniteSet(EmpruntsActifs(u)) /\ IsFiniteSet(Comptees(u)) /\ IsFiniteSet(Engages(u))
         /\ Cardinality(EmpruntsActifs(u)) \in Nat /\ Cardinality(Comptees(u)) \in Nat
         /\ Cardinality(Engages(u)) \in Nat
BY FinitudeAssumption, FS_Subset, FS_CardinalityType DEF EmpruntsActifs, Comptees, Engages

(* CompterEmprunts engages a loan more.  It saw less than Quota active     *)
(* loans, and the calls past the test are for as many books: each of them  *)
(* holds the lock of its own.                                              *)
LEMMA EngagesAjout ==
  ASSUME Socle, Socle', NEW u \in Utilisateurs, NEW d \in Demandes,
         CompterEmprunts(d), QuotaEngage
  PROVE  Cardinality(Engages(u)') < Quota + Cardinality(Livres)
<1>0. /\ demande \in [Demandes -> Demande] /\ emprunts' = emprunts
      /\ EmpruntsActifs(u)' = EmpruntsActifs(u)
      /\ Cardinality(Livres) \in Nat /\ Quota \in Nat
  BY FinitudeAssumption, NombresAssumption, FS_CardinalityType
     DEF Socle, TypeEmprunts, CompterEmprunts, tables, EmpruntsActifs
<1>1. CASE emprunts[d].utilisateur = u /\ NbEmpruntsActifs(u) < Quota
  <2>1. Cardinality(Comptees(u)') <= Cardinality(Livres)
    <3>1. TypeEmprunts' /\ LivresTenus'
      BY DEF Socle
    <3>2. \A x \in Comptees(u)' : /\ x \in Demandes /\ emprunts'[x].livre \in Livres
                                  /\ verrouLivre'[emprunts'[x].livre] = x
      BY <3>1 DEF TypeEmprunts, TypeBase, Emprunt, LivresTenus, Comptees
    <3> DEFINE parLivre == [x \in Comptees(u)' |-> emprunts'[x].livre]
    <3>3. parLivre \in Injection(Comptees(u)', Livres)
      BY <3>2 DEF Injection, IsInjective
    <3> QED BY <3>3, FinitudeAssumption, FS_Injection
  <2>2. Comptees(u)' \subseteq Demandes /\ Engages(u)' = EmpruntsActifs(u) \cup Comptees(u)'
    BY <1>0 DEF Comptees, Engages
  <2>3. IsFiniteSet(Comptees(u)') /\ Cardinality(Comptees(u)') \in Nat
    BY <2>2, FinitudeAssumption, FS_Subset, FS_CardinalityType
  <2>4. /\ IsFiniteSet(EmpruntsActifs(u) \cap Comptees(u)')
        /\ Cardinality(EmpruntsActifs(u) \cap Comptees(u)') \in Nat
    BY <2>3, FS_Intersection, FS_CardinalityType
  <2>5. Cardinality(Engages(u)')
          = Cardinality(EmpruntsActifs(u)) + Cardinality(Comptees(u)')
            - Cardinality(EmpruntsActifs(u) \cap Comptees(u)')
    BY <2>2, <2>3, EngagesFinis, FS_Union
  <2>6. Cardinality(EmpruntsActifs(u)) \in Nat /\ Cardinality(EmpruntsActifs(u)) < Quota
    BY <1>1, EngagesFinis DEF NbEmpruntsActifs
  <2> QED BY <1>0, <2>1, <2>3, <2>4, <2>5, <2>6
<1>2. CASE ~ (emprunts[d].utilisateur = u /\ NbEmpruntsActifs(u) < Quota)
  <2>1. Engages(u)' \subseteq Engages(u)
    <3>1. Comptees(u)' \subseteq Comptees(u)
      BY <1>0, <1>2 DEF CompterEmprunts, AvancerDemande, TerminerDemande, Comptees, Demande
    <3> QED BY <1>0, <3>1 DEF Engages
  <2>2. Cardinality(Engages(u)') <= Cardinality(Engages(u)) /\ Cardinality(Engages(u)') \in Nat
    BY <2>1, EngagesFinis, FS_Subset, FS_CardinalityType
  <2> QED BY <1>0, <2>2, EngagesFinis DEF QuotaEngage
<1> QED BY <1>1, <1>2

(* Every other step of a call of POST /emprunts engages nobody: the INSERT *)
(* turns a call past the test into an active loan.                         *)
LEMMA EngagesDemande ==
  ASSUME Socle, NEW u \in Utilisateurs, NEW d \in Demandes,
         EtapeDemande(d) \/ AnnulerDemande(d), ~ CompterEmprunts(d)
  PROVE  Engages(u)' \subseteq Engages(u)
<1>0. demande \in [Demandes -> Demande] /\ emprunts \in [Demandes -> Emprunt]
  BY DEF Socle, TypeEmprunts, TypeBase
<1>1. CASE Inserer(d)
  <2>1. demande[d].phase = "comptee"
    BY <1>1 DEF Inserer
  <2>2. \A x \in Demandes : /\ emprunts'[x].utilisateur = emprunts[x].utilisateur
                            /\ x # d => emprunts'[x] = emprunts[x] /\ demande'[x] = demande[x]
    BY <1>0, <1>1 DEF Inserer, AvancerDemande, TerminerDemande, Emprunt
  <2>3. Engages(u)' \subseteq Demandes
    BY DEF Engages, EmpruntsActifs, Comptees
  <2>4. ASSUME NEW x \in Engages(u)'
        PROVE  x \in Engages(u)
    BY <2>1, <2>2, <2>3, <2>4 DEF Engages, EmpruntsActifs, Comptees
  <2> QED BY <2>4
<1>2. CASE ~ Inserer(d)
  <2>1. emprunts' = emprunts
    BY <1>2, EffetDemande
  <2>2. \A x \in Demandes : demande'[x].phase = "comptee" => demande[x].phase = "comptee"
    <3>1. \A x \in Demandes : x # d => demande'[x] = demande[x]
      BY DemandeSitueeAutre
    <3>2. demande'[d].phase # "comptee"
      BY <1>0, <1>2 DEF EtapeDemande, LireUtilisateur, VerrouillerLivre, RepondreDemande,
         AnnulerDemande, AvancerDemande, TerminerDemande, Demande
    <3> QED BY <3>1, <3>2
  <2> QED BY <2>1, <2>2 DEF Engages, EmpruntsActifs, Comptees
<1> QED BY <1>1, <1>2

LEMMA EngagesRetour ==
  ASSUME Socle, NEW u \in Utilisateurs, NEW r \in Retours, EtapeRetour(r) \/ AnnulerRetour(r)
  PROVE  Engages(u)' \subseteq Engages(u)
<1>1. demande' = demande
  BY DEF EtapeRetour, OuvrirRetour, VerrouillerEmprunt, Rendre, RepondreRetour, AnnulerRetour
<1>2. \A x \in Demandes : emprunts'[x].statut \in Actif => emprunts[x].statut \in Actif
  BY StatutRetour DEF Actif
<1>3. \A x \in Demandes : emprunts'[x].utilisateur = emprunts[x].utilisateur
  BY ParametresFixes DEF Socle
<1> QED BY <1>1, <1>2, <1>3 DEF Engages, EmpruntsActifs, Comptees

LEMMA QuotaSuivant ==
  ASSUME Socle, QuotaEngage, [NextEmprunts \/ NextEnvironnement]_varsEmprunts
  PROVE  QuotaEngage'
<1> SUFFICES ASSUME NEW u \in Utilisateurs
             PROVE  Cardinality(Engages(u)') < Quota + Cardinality(Livres)
  BY DEF QuotaEngage
<1>0. /\ Quota \in Nat /\ Cardinality(Livres) \in Nat
      /\ Cardinality(Engages(u)) \in Nat /\ IsFiniteSet(Engages(u))
      /\ Cardinality(Engages(u)) < Quota + Cardinality(Livres)
  BY NombresAssumption, FinitudeAssumption, FS_CardinalityType, EngagesFinis DEF QuotaEngage
<1>1. ASSUME Engages(u)' \subseteq Engages(u)
      PROVE  Cardinality(Engages(u)') < Quota + Cardinality(Livres)
  <2>1. /\ Cardinality(Engages(u)') <= Cardinality(Engages(u))
        /\ Cardinality(Engages(u)') \in Nat
    BY <1>0, <1>1, FS_Subset, FS_CardinalityType
  <2> QED BY <1>0, <2>1
<1>2. CASE NextEnvironnement \/ UNCHANGED varsEmprunts
  <2>1. Engages(u)' = Engages(u)
    BY <1>2, EnvironnementNeutre DEF Engages, EmpruntsActifs, Comptees
  <2> QED BY <1>1, <2>1
<1>3. ASSUME NEW d \in Demandes, CompterEmprunts(d)
      PROVE  Cardinality(Engages(u)') < Quota + Cardinality(Livres)
  BY <1>3, SocleSuivant, EngagesAjout
<1>4. ASSUME NEW d \in Demandes, EtapeDemande(d) \/ AnnulerDemande(d), ~ CompterEmprunts(d)
      PROVE  Cardinality(Engages(u)') < Quota + Cardinality(Livres)
  BY <1>1, <1>4, EngagesDemande
<1>5. ASSUME NEW r \in Retours, EtapeRetour(r) \/ AnnulerRetour(r)
      PROVE  Cardinality(Engages(u)') < Quota + Cardinality(Livres)
  BY <1>1, <1>5, EngagesRetour
<1> QED BY <1>2, <1>3, <1>4, <1>5 DEF NextEmprunts

LEMMA QuotaInit ==
  ASSUME InitEmprunts
  PROVE  QuotaEngage
<1>1. \A u \in Utilisateurs : Engages(u) = {}
  BY DEF InitEmprunts, InitBase, Engages, EmpruntsActifs, Comptees, Actif
<1>2. Quota \in Nat \ {0} /\ Cardinality(Livres) \in Nat
  BY NombresAssumption, FinitudeAssumption, FS_CardinalityType
<1> QED BY <1>1, <1>2, FS_EmptySet DEF QuotaEngage

LEMMA QuotaSuffit ==
  ASSUME QuotaEngage
  PROVE  DepassementBorne
<1> SUFFICES ASSUME NEW u \in Utilisateurs
             PROVE  NbEmpruntsActifs(u) < Quota + Cardinality(Livres)
  BY DEF DepassementBorne
<1>1. /\ Cardinality(EmpruntsActifs(u)) <= Cardinality(Engages(u))
      /\ Cardinality(EmpruntsActifs(u)) \in Nat /\ Cardinality(Engages(u)) \in Nat
  BY EngagesFinis, FS_Subset DEF Engages
<1>2. /\ Cardinality(Engages(u)) < Quota + Cardinality(Livres)
      /\ Quota \in Nat /\ Cardinality(Livres) \in Nat
  BY NombresAssumption, FinitudeAssumption, FS_CardinalityType DEF QuotaEngage
<1> QED BY <1>1, <1>2 DEF NbEmpruntsActifs

(* The quota can be passed, because it is counted without a lock on the    *)
(* user, but by less than the number of books: the calls that count at the *)
(* same time hold the locks of as many books.                              *)
THEOREM DepassementToujoursBorne == SpecEmprunts => []DepassementBorne
<1>1. SpecEmprunts => []QuotaEngage
  BY QuotaInit, QuotaSuivant, SocleInvariant, PTL DEF SpecEmprunts
<1> QED BY <1>1, QuotaSuffit, PTL

=============================================================================
