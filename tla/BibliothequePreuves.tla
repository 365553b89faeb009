------------------------ MODULE BibliothequePreuves -------------------------
(***************************************************************************)
(* Proofs about the whole library: lending together with the pg_cron jobs, *)
(* the edits of the catalogue and the physical deletions.  They extend the *)
(* lemmas of EmpruntsPreuves, which take one call at a time, with what the *)
(* other writers of the same rows do.                                      *)
(***************************************************************************)
EXTENDS Bibliotheque, EmpruntsPreuves

-----------------------------------------------------------------------------
(* The steps of the library, one actor at a time.  The deadlock detector   *)
(* only cuts a transaction as its deadline may.                            *)

PasDemande(d) == (EtapeDemande(d) \/ AnnulerDemande(d)) /\ HorsEmprunts
PasRetour(r) == (EtapeRetour(r) \/ AnnulerRetour(r)) /\ HorsEmprunts
PasEnvironnement == NextEnvironnement /\ HorsEmprunts
PasTache(t) == (EtapeTache(t) \/ AnnulerTache(t)) /\ HorsCron
PasEdition(m) == (EtapeEdition(m) \/ AnnulerEdition(m)) /\ HorsCatalogue
PasLivre(l) == (CreerLivre(l) \/ MasquerLivre(l)) /\ HorsCatalogue
PasRetrait(s) == (EtapeRetrait(s) \/ AnnulerRetrait(s)) /\ HorsSuppressions
PasRadiation(s) == (EtapeRadiation(s) \/ AnnulerRadiation(s)) /\ HorsSuppressions

UnPas ==
  \/ PasEnvironnement
  \/ \E d \in Demandes : PasDemande(d)
  \/ \E r \in Retours : PasRetour(r)
  \/ \E t \in Taches : PasTache(t)
  \/ \E m \in Editions : PasEdition(m)
  \/ \E l \in Livres : PasLivre(l)
  \/ \E s \in Retraits : PasRetrait(s)
  \/ \E s \in Radiations : PasRadiation(s)

LEMMA PasSuivant ==
  ASSUME Next
  PROVE  UnPas
<1> USE DEF UnPas
<1>1. CASE DetecterInterblocage
  BY <1>1 DEF DetecterInterblocage, PasDemande, PasRetour, PasTache, PasRetrait, PasRadiation
<1>2. CASE NextEmprunts /\ HorsEmprunts
  BY <1>2 DEF NextEmprunts, PasDemande, PasRetour
<1>3. CASE NextEnvironnement /\ HorsEmprunts
  BY <1>3 DEF PasEnvironnement
<1>4. CASE NextCron /\ HorsCron
  BY <1>4 DEF NextCron, PasTache
<1>5. CASE NextCatalogue /\ HorsCatalogue
  BY <1>5 DEF NextCatalogue, PasEdition, PasLivre
<1>6. CASE NextSuppressions /\ HorsSuppressions
  BY <1>6 DEF NextSuppressions, PasRetrait, PasRadiation
<1> QED BY <1>1, <1>2, <1>3, <1>4, <1>5, <1>6 DEF Next

(* What a step of an actor leaves alone.                                   *)
LEMMA CadreDemande ==
  ASSUME NEW d \in Demandes, PasDemande(d)
  PROVE  UNCHANGED <<jour, utilisateurs, verrouEmprunt, verrouUtilisateur,
                     retour, cron, edition, retrait, radiation>>
BY DEF PasDemande, HorsEmprunts, EtapeDemande, LireUtilisateur, VerrouillerLivre,
   CompterEmprunts, Inserer, RepondreDemande, AnnulerDemande, varsBase, tables

LEMMA CadreRetour ==
  ASSUME NEW r \in Retours, PasRetour(r)
  PROVE  UNCHANGED <<jour, utilisateurs, verrouLivre, verrouUtilisateur,
                     demande, cron, edition, retrait, radiation>>
BY DEF PasRetour, HorsEmprunts, EtapeRetour, OuvrirRetour, VerrouillerEmprunt, Rendre,
   RepondreRetour, AnnulerRetour, varsBase, tables

LEMMA CadreEnvironnement ==
  ASSUME PasEnvironnement \/ UNCHANGED vars
  PROVE  UNCHANGED <<livres, emprunts, verrouLivre, verrouEmprunt, verrouUtilisateur,
                     demande, retour, cron, edition, retrait, radiation>>
BY DEF PasEnvironnement, HorsEmprunts, NextEnvironnement, ChangerDeJour, ChangerCompte,
   vars, varsBase, tables, verrous

LEMMA CadreTache ==
  ASSUME NEW t \in Taches, PasTache(t)
  PROVE  UNCHANGED <<jour, livres, utilisateurs, verrouLivre, verrouUtilisateur,
                     demande, retour, edition, retrait, radiation>>
BY DEF PasTache, HorsCron, EtapeTache, DebuterTache, PrendreLigne, ValiderTache,
   AnnulerTache, varsBase, tables

LEMMA CadreEdition ==
  ASSUME NEW m \in Editions, PasEdition(m)
  PROVE  UNCHANGED <<jour, utilisateurs, emprunts, verrouLivre, verrouEmprunt,
                     verrouUtilisateur, demande, retour, cron, retrait, radiation>>
BY DEF PasEdition, HorsCatalogue, EtapeEdition, LireLivre, EcrireLivre, RelireLivre,
   AnnulerEdition, varsBase, verrous

LEMMA CadreLivre ==
  ASSUME NEW l \in Livres, PasLivre(l)
  PROVE  UNCHANGED <<jour, utilisateurs, emprunts, verrouLivre, verrouEmprunt,
                     verrouUtilisateur, demande, retour, cron, edition, retrait, radiation>>
BY DEF PasLivre, HorsCatalogue, CreerLivre, MasquerLivre, verrous

LEMMA CadreRetrait ==
  ASSUME NEW s \in Retraits, PasRetrait(s)
  PROVE  UNCHANGED <<jour, utilisateurs, emprunts, verrouEmprunt, verrouUtilisateur,
                     demande, retour, cron, edition, radiation>>
BY DEF PasRetrait, HorsSuppressions, EtapeRetrait, VerrouillerRetrait, ChercherReferent,
   ControlerReferent, AnnulerRetrait, tables

LEMMA CadreRadiation ==
  ASSUME NEW s \in Radiations, PasRadiation(s)
  PROVE  UNCHANGED <<jour, livres, verrouLivre, demande, retour, cron, edition, retrait>>
BY DEF PasRadiation, HorsSuppressions, EtapeRadiation, VerrouillerRadiation, EffacerEmprunt,
   ValiderRadiation, AnnulerRadiation, tables

-----------------------------------------------------------------------------
(* Type correctness                                                        *)

LEMMA BasculerType ==
  ASSUME emprunts \in [Demandes -> Emprunt], NEW E, NEW x \in Statuts, Basculer(E, x)
  PROVE  emprunts' \in [Demandes -> Emprunt]
BY DEF Basculer, Emprunt

LEMMA TypeTache ==
  ASSUME TypeOK, NEW t \in Taches, PasTache(t)
  PROVE  TypeOK'
<1>0. UNCHANGED <<jour, livres, utilisateurs, verrouLivre, verrouUtilisateur,
                  demande, retour, edition, retrait, radiation>>
  BY CadreTache
<1>1. emprunts' \in [Demandes -> Emprunt]
  <2>1. Effet(t) \in Statuts
    BY DEF Effet, Statuts, EnTable, Actif
  <2>2. CASE Basculer(cron[t].prises, Effet(t))
    BY <2>1, <2>2, BasculerType DEF TypeOK, TypeEmprunts, TypeBase
  <2>3. CASE emprunts' = emprunts
    BY <2>3 DEF TypeOK, TypeEmprunts, TypeBase
  <2> QED BY <2>2, <2>3 DEF PasTache, EtapeTache, DebuterTache, PrendreLigne, ValiderTache,
             AnnulerTache, varsBase, tables
<1>2. verrouEmprunt' \in [Demandes -> Retours \cup Radiations \cup Taches \cup {Libre}]
  <2>1. Liberes(verrouEmprunt, t) \in [Demandes -> Retours \cup Radiations \cup Taches \cup {Libre}]
    BY LiberesType DEF TypeOK, TypeEmprunts
  <2> QED BY <2>1 DEF PasTache, EtapeTache, DebuterTache, PrendreLigne, ValiderTache,
             AnnulerTache, varsBase, TypeOK, TypeEmprunts, TypeBase
<1>3. TypeCron'
  <2>1. TypeCron
    BY DEF TypeOK
  <2>2. {e \in Demandes : Vise(t, e)} \in SUBSET Demandes
    OBVIOUS
  <2>3. CASE DebuterTache(t)
    BY <2>1, <2>2, <2>3 DEF DebuterTache, TypeCron
  <2>4. ASSUME NEW e \in Demandes, PrendreLigne(t, e)
        PROVE  TypeCron'
    BY <2>1, <2>4 DEF PrendreLigne, TypeCron
  <2>5. CASE ValiderTache(t) \/ AnnulerTache(t)
    BY <2>1, <2>5 DEF ValiderTache, AnnulerTache, TypeCron, Repos
  <2> QED BY <2>3, <2>4, <2>5 DEF PasTache, EtapeTache
<1> QED BY <1>0, <1>1, <1>2, <1>3
        DEF TypeOK, TypeEmprunts, TypeBase, TypeCatalogue, TypeSuppressions

LEMMA TypeEdition ==
  ASSUME TypeOK, NEW m \in Editions, PasEdition(m)
  PROVE  TypeOK'
<1>0. UNCHANGED <<jour, utilisateurs, emprunts, verrouLivre, verrouEmprunt,
                  verrouUtilisateur, demande, retour, cron, retrait, radiation>>
  BY CadreEdition
<1>a. TypeCatalogue /\ livres \in [Livres -> Livre]
  BY DEF TypeOK, TypeEmprunts, TypeBase
<1>1. livres' \in [Livres -> Livre] /\ TypeCatalogue'
  <2>1. ASSUME NEW x \in {"404", "409", "422", "500", "200"}, TerminerEdition(m, x)
        PROVE  TypeCatalogue'
    BY <1>a, <2>1 DEF TerminerEdition, TypeCatalogue
  <2>2. CASE LireLivre(m)
    <3>1. livres[edition[m].livre] \in Livre
      BY <1>a DEF TypeCatalogue
    <3> QED BY <1>a, <2>1, <2>2, <3>1 DEF LireLivre, TypeCatalogue, varsBase
  <2>3. CASE EcrireLivre(m)
    <3> DEFINE lu == edition[m].lu
    <3>1. lu.nombre \in Nat /\ lu.dispo \in Int
      BY <1>a DEF TypeCatalogue, Livre
    <3>2. PICK n \in Totaux \cup {lu.nombre} :
            \/ TerminerEdition(m, "409") /\ UNCHANGED livres
            \/ TerminerEdition(m, "404") /\ UNCHANGED livres
            \/ /\ livres' = [livres EXCEPT ![edition[m].livre].nombre = n,
                                           ![edition[m].livre].dispo = AjusterStock(lu, n)]
               /\ edition' = [edition EXCEPT ![m].phase = "ecrite"]
      BY <2>3 DEF EcrireLivre
    <3>3. n \in Nat /\ AjusterStock(lu, n) \in Int
      BY <3>1, TotauxAssumption DEF AjusterStock, Empruntes
    <3>4. ASSUME edition' = [edition EXCEPT ![m].phase = "ecrite"]
          PROVE  TypeCatalogue'
      BY <1>a, <3>4 DEF TypeCatalogue
    <3> HIDE DEF lu
    <3>5. ASSUME livres' = [livres EXCEPT ![edition[m].livre].nombre = n,
                                          ![edition[m].livre].dispo = AjusterStock(lu, n)]
          PROVE  livres' \in [Livres -> Livre]
      BY <1>a, <3>3, <3>5 DEF Livre
    <3> QED BY <1>a, <2>1, <3>2, <3>4, <3>5
  <2>4. CASE RelireLivre(m) \/ AnnulerEdition(m)
    <3>1. livres' = livres
      BY <2>4 DEF RelireLivre, AnnulerEdition, varsBase
    <3>2. \E x \in {"404", "409", "422", "500", "200"} : TerminerEdition(m, x)
      BY <2>4 DEF RelireLivre, AnnulerEdition
    <3> QED BY <1>a, <2>1, <3>1, <3>2
  <2> QED BY <2>2, <2>3, <2>4 DEF PasEdition, EtapeEdition
<1> QED BY <1>0, <1>1 DEF TypeOK, TypeEmprunts, TypeBase, TypeCron, TypeSuppressions

LEMMA TypeLivre ==
  ASSUME TypeOK, NEW l \in Livres, PasLivre(l)
  PROVE  TypeOK'
<1>0. UNCHANGED <<jour, utilisateurs, emprunts, verrouLivre, verrouEmprunt,
                  verrouUtilisateur, demande, retour, cron, edition, retrait, radiation>>
  BY CadreLivre
<1>1. livres' \in [Livres -> Livre]
  <2>1. livres \in [Livres -> Livre]
    BY DEF TypeOK, TypeEmprunts, TypeBase
  <2>2. \A n \in Totaux : LivreNeuf(n) \in Livre
    BY TotauxAssumption DEF LivreNeuf, Livre
  <2>3. CASE CreerLivre(l)
    BY <2>1, <2>2, <2>3 DEF CreerLivre
  <2>4. CASE MasquerLivre(l)
    BY <2>1, <2>4 DEF MasquerLivre, Livre
  <2> QED BY <2>3, <2>4 DEF PasLivre
<1> QED BY <1>0, <1>1
        DEF TypeOK, TypeEmprunts, TypeBase, TypeCron, TypeCatalogue, TypeSuppressions

LEMMA TypeRetrait ==
  ASSUME TypeOK, NEW s \in Retraits, PasRetrait(s)
  PROVE  TypeOK'
<1>0. UNCHANGED <<jour, utilisateurs, emprunts, verrouEmprunt, verrouUtilisateur,
                  demande, retour, cron, edition, radiation>>
  BY CadreRetrait
<1>a. /\ retrait \in [Retraits -> Retrait] /\ livres \in [Livres -> Livre]
      /\ verrouLivre \in [Livres -> Demandes \cup Retraits \cup {Libre}]
      /\ Liberes(verrouLivre, s) \in [Livres -> Demandes \cup Retraits \cup {Libre}]
  BY LiberesType DEF TypeOK, TypeEmprunts, TypeBase, TypeSuppressions
<1>1. retrait' \in [Retraits -> Retrait]
  <2>1. ASSUME NEW x \in {"204", "404", "409", "500"}, TerminerRetrait(s, x)
        PROVE  retrait' \in [Retraits -> Retrait]
    BY <1>a, <2>1 DEF TerminerRetrait, Retrait
  <2>2. ASSUME NEW x \in {"verrouillee", "controle"}, NEW e \in Demandes,
               retrait' = [retrait EXCEPT ![s].phase = x, ![s].temoin = e]
        PROVE  retrait' \in [Retraits -> Retrait]
    BY <1>a, <2>2 DEF Retrait
  <2>3. ASSUME retrait' = [retrait EXCEPT ![s].phase = "verrouillee"]
        PROVE  retrait' \in [Retraits -> Retrait]
    BY <1>a, <2>3 DEF Retrait
  <2>4. Referents(retrait[s].livre) \subseteq Demandes
    BY DEF Referents
  <2> QED BY <2>1, <2>2, <2>3, <2>4 DEF PasRetrait, EtapeRetrait, VerrouillerRetrait,
             ChercherReferent, ControlerReferent, AnnulerRetrait
<1>2. livres' \in [Livres -> Livre]
  <2>1. CASE livres' = [livres EXCEPT ![retrait[s].livre].etat = "efface"]
    BY <1>a, <2>1 DEF Livre
  <2> QED BY <1>a, <2>1 DEF PasRetrait, EtapeRetrait, VerrouillerRetrait, ChercherReferent,
             ControlerReferent, AnnulerRetrait, tables
<1>3. verrouLivre' \in [Livres -> Demandes \cup Retraits \cup {Libre}]
  BY <1>a DEF PasRetrait, EtapeRetrait, VerrouillerRetrait, ChercherReferent,
     ControlerReferent, AnnulerRetrait
<1> QED BY <1>0, <1>1, <1>2, <1>3
        DEF TypeOK, TypeEmprunts, TypeBase, TypeCron, TypeCatalogue, TypeSuppressions

(* A call of DELETE /utilisateurs moves on, with other sets of loans.       *)
LEMMA RadiationType ==
  ASSUME radiation \in [Radiations -> Radiation], NEW s \in Radiations,
         NEW x \in {"recue", "cascade", "terminee"}, NEW y \in {"aucune", "204", "404", "500"},
         NEW S \in SUBSET Demandes, NEW T \in SUBSET Demandes,
         radiation' = [radiation EXCEPT ![s].phase = x, ![s].reponse = y,
                                        ![s].restants = S, ![s].effaces = T]
  PROVE  radiation' \in [Radiations -> Radiation]
<1>1. [radiation[s] EXCEPT !.phase = x, !.reponse = y, !.restants = S, !.effaces = T] \in Radiation
  <2>1. radiation[s] \in Radiation
    OBVIOUS
  <2> QED BY <2>1 DEF Radiation
<1> QED BY <1>1

LEMMA TypeRadiation ==
  ASSUME TypeOK, NEW s \in Radiations, PasRadiation(s)
  PROVE  TypeOK'
<1>0. UNCHANGED <<jour, livres, verrouLivre, demande, retour, cron, edition, retrait>>
  BY CadreRadiation
<1>a. /\ radiation \in [Radiations -> Radiation]
      /\ emprunts \in [Demandes -> Emprunt]
      /\ utilisateurs \in [Utilisateurs -> {"actif", "inactif", "efface"}]
      /\ verrouEmprunt \in [Demandes -> Retours \cup Radiations \cup Taches \cup {Libre}]
      /\ verrouUtilisateur \in [Utilisateurs -> Radiations \cup {Libre}]
      /\ Liberes(verrouEmprunt, s) \in [Demandes -> Retours \cup Radiations \cup Taches \cup {Libre}]
      /\ Liberes(verrouUtilisateur, s) \in [Utilisateurs -> Radiations \cup {Libre}]
  BY LiberesType DEF TypeOK, TypeEmprunts, TypeBase, TypeSuppressions
<1>1. ASSUME NEW x \in {"204", "404", "500"}, TerminerRadiation(s, x)
      PROVE  radiation' \in [Radiations -> Radiation]
  <2>1. {} \in SUBSET Demandes
    OBVIOUS
  <2>2. radiation' = [radiation EXCEPT ![s].phase = "terminee", ![s].reponse = x,
                                       ![s].restants = {}, ![s].effaces = {}]
    BY <1>1 DEF TerminerRadiation
  <2> QED BY <1>a, <2>1, <2>2, RadiationType
<1>2. CASE VerrouillerRadiation(s)
  <2>1. EmpruntsDe(radiation[s].utilisateur) \in SUBSET Demandes
    BY DEF EmpruntsDe
  <2>2. radiation' \in [Radiations -> Radiation]
    <3>1. CASE TerminerRadiation(s, "404")
      BY <1>1, <3>1
    <3>2. CASE radiation' = [radiation EXCEPT ![s].phase = "cascade",
                                              ![s].restants = EmpruntsDe(radiation[s].utilisateur)]
      <4>1. radiation[s] \in Radiation
        BY <1>a
      <4>2. /\ radiation[s].reponse \in {"aucune", "204", "404", "500"}
            /\ radiation[s].effaces \in SUBSET Demandes
        BY <4>1 DEF Radiation
      <4>3. radiation' = [radiation EXCEPT ![s].phase = "cascade",
                            ![s].reponse = radiation[s].reponse,
                            ![s].restants = EmpruntsDe(radiation[s].utilisateur),
                            ![s].effaces = radiation[s].effaces]
        BY <1>a, <3>2 DEF Radiation
      <4> QED BY <1>a, <2>1, <4>2, <4>3, RadiationType
    <3> QED BY <1>2, <3>1, <3>2 DEF VerrouillerRadiation
  <2>3. verrouUtilisateur' \in [Utilisateurs -> Radiations \cup {Libre}]
    BY <1>a, <1>2 DEF VerrouillerRadiation
  <2> QED BY <1>0, <1>2, <2>2, <2>3 DEF VerrouillerRadiation, TypeOK, TypeEmprunts, TypeBase,
             TypeCron, TypeCatalogue, TypeSuppressions, tables
<1>3. ASSUME NEW e \in Demandes, EffacerEmprunt(s, e)
      PROVE  TypeOK'
  <2>1. radiation' \in [Radiations -> Radiation]
    <3>1. CASE TerminerRadiation(s, "500")
      BY <1>1, <3>1
    <3> DEFINE S == radiation[s].restants \ {e}
               T == radiation[s].effaces \cup {e}
               U == radiation[s].effaces
    <3>0. /\ radiation[s] \in Radiation
          /\ radiation[s].phase \in {"recue", "cascade", "terminee"}
          /\ radiation[s].reponse \in {"aucune", "204", "404", "500"}
          /\ U \in SUBSET Demandes
          /\ S \in SUBSET Demandes /\ T \in SUBSET Demandes
      BY <1>a DEF Radiation
    <3>2. CASE radiation' = [radiation EXCEPT ![s].restants = S, ![s].effaces = T]
      <4> HIDE DEF S, T
      <4>1. radiation' = [radiation EXCEPT ![s].phase = radiation[s].phase,
                            ![s].reponse = radiation[s].reponse,
                            ![s].restants = S, ![s].effaces = T]
        BY <1>a, <3>2 DEF Radiation
      <4> QED BY <1>a, <3>0, <4>1, RadiationType
    <3>3. CASE radiation' = [radiation EXCEPT ![s].restants = S]
      <4>1. radiation' = [radiation EXCEPT ![s].phase = radiation[s].phase,
                            ![s].reponse = radiation[s].reponse,
                            ![s].restants = S, ![s].effaces = U]
        BY <1>a, <3>3 DEF Radiation
      <4> HIDE DEF S, T, U
      <4> QED BY <1>a, <3>0, <4>1, RadiationType
    <3>4. ASSUME radiation' = [radiation EXCEPT ![s].restants = @ \ {e},
                                                ![s].effaces = @ \cup {e}]
          PROVE  radiation' = [radiation EXCEPT ![s].restants = S, ![s].effaces = T]
      BY <1>a, <3>4 DEF Radiation
    <3> HIDE DEF T
    <3> QED BY <1>3, <3>1, <3>2, <3>3, <3>4 DEF EffacerEmprunt
  <2>2. /\ verrouEmprunt' \in [Demandes -> Retours \cup Radiations \cup Taches \cup {Libre}]
        /\ verrouUtilisateur' \in [Utilisateurs -> Radiations \cup {Libre}]
    BY <1>a, <1>3 DEF EffacerEmprunt, RelacherRadiation
  <2> QED BY <1>0, <1>3, <2>1, <2>2 DEF EffacerEmprunt, TypeOK, TypeEmprunts, TypeBase,
             TypeCron, TypeCatalogue, TypeSuppressions, tables
<1>4. CASE ValiderRadiation(s) \/ AnnulerRadiation(s)
  <2>1. radiation' \in [Radiations -> Radiation]
    BY <1>1, <1>4 DEF ValiderRadiation, AnnulerRadiation
  <2>2. emprunts' \in [Demandes -> Emprunt]
    <3>1. "efface" \in Statuts
      BY DEF Statuts
    <3> QED BY <1>a, <1>4, <3>1, BasculerType DEF ValiderRadiation, AnnulerRadiation, tables
  <2>3. /\ utilisateurs' \in [Utilisateurs -> {"actif", "inactif", "efface"}]
        /\ verrouEmprunt' \in [Demandes -> Retours \cup Radiations \cup Taches \cup {Libre}]
        /\ verrouUtilisateur' \in [Utilisateurs -> Radiations \cup {Libre}]
    BY <1>a, <1>4 DEF ValiderRadiation, AnnulerRadiation, RelacherRadiation, tables
  <2> QED BY <1>0, <2>1, <2>2, <2>3 DEF TypeOK, TypeEmprunts, TypeBase, TypeCron,
             TypeCatalogue, TypeSuppressions
<1> QED BY <1>2, <1>3, <1>4 DEF PasRadiation, EtapeRadiation

LEMMA TypeOKInit ==
  ASSUME Init
  PROVE  TypeOK
<1>1. TypeEmprunts
  BY TypeInit DEF Init
<1>2. TypeCron
  BY DEF Init, InitCron, TypeCron, Repos
<1>3. TypeCatalogue
  <2> DEFINE M == [phase : {"recue"}, livre : Livres, lu : {LivreAbsent}, reponse : {"aucune"}]
             N == [phase : {"recue", "lue", "ecrite", "terminee"}, livre : Livres, lu : Livre,
                   reponse : {"aucune", "200", "404", "409", "422", "500"}]
  <2>1. LivreAbsent \in Livre
    BY DEF LivreAbsent, Livre
  <2>2. M \subseteq N
    BY <2>1
  <2>3. edition \in [Editions -> M]
    BY DEF Init, InitCatalogue
  <2> HIDE DEF M, N
  <2>4. edition \in [Editions -> N]
    BY <2>2, <2>3
  <2> QED BY <2>4 DEF TypeCatalogue, N
<1>4. TypeSuppressions
  BY DEF Init, InitSuppressions, TypeSuppressions, Retrait, Radiation
<1> QED BY <1>1, <1>2, <1>3, <1>4 DEF TypeOK

LEMMA TypeOKSuivant ==
  ASSUME TypeOK, [Next]_vars
  PROVE  TypeOK'
<1>1. ASSUME HorsEmprunts, TypeEmprunts'
      PROVE  TypeOK'
  BY <1>1 DEF TypeOK, HorsEmprunts, TypeCron, TypeCatalogue, TypeSuppressions
<1>2. ASSUME NEW d \in Demandes, PasDemande(d)
      PROVE  TypeOK'
  BY <1>1, <1>2, TypeDemande DEF PasDemande, TypeOK
<1>3. ASSUME NEW r \in Retours, PasRetour(r)
      PROVE  TypeOK'
  BY <1>1, <1>3, TypeRetour DEF PasRetour, TypeOK
<1>4. CASE PasEnvironnement
  BY <1>1, <1>4, TypeEnvironnement DEF PasEnvironnement, TypeOK
<1>5. CASE UNCHANGED vars
  BY <1>5 DEF vars, varsBase, TypeOK, TypeEmprunts, TypeBase, TypeCron, TypeCatalogue,
     TypeSuppressions
<1> QED BY <1>2, <1>3, <1>4, <1>5, PasSuivant, TypeTache, TypeEdition, TypeLivre, TypeRetrait,
           TypeRadiation DEF UnPas

(* Every row, lock and call of the library stays well typed, whatever the  *)
(* jobs, the edits and the deletions do to the rows lending works on.      *)
THEOREM BibliothequeBienTypee == Spec => []TypeOK
BY TypeOKInit, TypeOKSuivant, PTL DEF Spec

-----------------------------------------------------------------------------
(* Locks                                                                   *)

(* Between two runs a job has chosen no row; a deletion of a user has rows *)
(* to visit only while its cascade is under way.                           *)
Parcours ==
  /\ \A t \in Taches : cron[t].phase = "repos" => cron[t].candidats = {} /\ cron[t].prises = {}
  /\ \A s \in Radiations :
       radiation[s].phase # "cascade" => radiation[s].restants = {} /\ radiation[s].effaces = {}

(* Every lock is held by the actor that is at the place where it holds it. *)
VerrousExacts == TypeOK /\ LivresTenus /\ EmpruntsTenus /\ VerrousRendus /\ Parcours

(* Every lock moves between nobody and the actor of the step: no step      *)
(* takes, or gives back, a lock of another.                                *)
Deplace(avant, apres, p) == apres = avant \/ (avant = Libre /\ apres = p) \/ (avant = p /\ apres = Libre)

LEMMA LiberesDeplace ==
  ASSUME NEW v, NEW p, NEW x \in DOMAIN v
  PROVE  Deplace(v[x], Liberes(v, p)[x], p)
BY DEF Liberes, Deplace

LEMMA VerrouDemande ==
  ASSUME TypeOK, NEW d \in Demandes, PasDemande(d), NEW l \in Livres
  PROVE  Deplace(verrouLivre[l], verrouLivre'[l], d)
<1>1. /\ verrouLivre \in [Livres -> Demandes \cup Retraits \cup {Libre}]
      /\ Deplace(verrouLivre[l], Liberes(verrouLivre, d)[l], d)
  BY LiberesDeplace DEF TypeOK, TypeEmprunts, TypeBase
<1>2. CASE VerrouillerLivre(d)
  BY <1>1, <1>2 DEF VerrouillerLivre, Deplace
<1>3. CASE ~ VerrouillerLivre(d)
  BY <1>1, <1>3 DEF PasDemande, EtapeDemande, LireUtilisateur, CompterEmprunts, Inserer,
     RepondreDemande, AnnulerDemande, varsBase, Deplace
<1> QED BY <1>2, <1>3

LEMMA VerrouRetour ==
  ASSUME TypeOK, NEW r \in Retours, PasRetour(r), NEW e \in Demandes
  PROVE  Deplace(verrouEmprunt[e], verrouEmprunt'[e], r)
<1>1. /\ verrouEmprunt \in [Demandes -> Retours \cup Radiations \cup Taches \cup {Libre}]
      /\ Deplace(verrouEmprunt[e], Liberes(verrouEmprunt, r)[e], r)
  BY LiberesDeplace DEF TypeOK, TypeEmprunts, TypeBase
<1>2. CASE VerrouillerEmprunt(r)
  BY <1>1, <1>2 DEF VerrouillerEmprunt, Deplace
<1>3. CASE ~ VerrouillerEmprunt(r)
  BY <1>1, <1>3 DEF PasRetour, EtapeRetour, OuvrirRetour, Rendre, RepondreRetour,
     AnnulerRetour, varsBase, Deplace
<1> QED BY <1>2, <1>3

LEMMA VerrouTache ==
  ASSUME TypeOK, NEW t \in Taches, PasTache(t), NEW e \in Demandes
  PROVE  Deplace(verrouEmprunt[e], verrouEmprunt'[e], t)
<1>1. /\ verrouEmprunt \in [Demandes -> Retours \cup Radiations \cup Taches \cup {Libre}]
      /\ Deplace(verrouEmprunt[e], Liberes(verrouEmprunt, t)[e], t)
  BY LiberesDeplace DEF TypeOK, TypeEmprunts, TypeBase
<1>2. ASSUME NEW x \in Demandes, PrendreLigne(t, x)
      PROVE  Deplace(verrouEmprunt[e], verrouEmprunt'[e], t)
  BY <1>1, <1>2 DEF PrendreLigne, Deplace
<1>3. CASE DebuterTache(t) \/ ValiderTache(t) \/ AnnulerTache(t)
  BY <1>1, <1>3 DEF DebuterTache, ValiderTache, AnnulerTache, varsBase, Deplace
<1> QED BY <1>2, <1>3 DEF PasTache, EtapeTache

LEMMA VerrouRetrait ==
  ASSUME TypeOK, NEW s \in Retraits, PasRetrait(s), NEW l \in Livres
  PROVE  Deplace(verrouLivre[l], verrouLivre'[l], s)
<1>1. /\ verrouLivre \in [Livres -> Demandes \cup Retraits \cup {Libre}]
      /\ Deplace(verrouLivre[l], Liberes(verrouLivre, s)[l], s)
  BY LiberesDeplace DEF TypeOK, TypeEmprunts, TypeBase
<1>2. CASE VerrouillerRetrait(s)
  BY <1>1, <1>2 DEF VerrouillerRetrait, Deplace
<1>3. CASE ~ VerrouillerRetrait(s)
  BY <1>1, <1>3 DEF PasRetrait, EtapeRetrait, ChercherReferent, ControlerReferent,
     AnnulerRetrait, Deplace
<1> QED BY <1>2, <1>3

LEMMA VerrouRadiation ==
  ASSUME TypeOK, NEW s \in Radiations, PasRadiation(s), NEW e \in Demandes
  PROVE  Deplace(verrouEmprunt[e], verrouEmprunt'[e], s)
<1>1. /\ verrouEmprunt \in [Demandes -> Retours \cup Radiations \cup Taches \cup {Libre}]
      /\ Deplace(verrouEmprunt[e], Liberes(verrouEmprunt, s)[e], s)
  BY LiberesDeplace DEF TypeOK, TypeEmprunts, TypeBase
<1>2. ASSUME NEW x \in Demandes, EffacerEmprunt(s, x)
      PROVE  Deplace(verrouEmprunt[e], verrouEmprunt'[e], s)
  BY <1>1, <1>2 DEF EffacerEmprunt, RelacherRadiation, Deplace
<1>3. CASE VerrouillerRadiation(s) \/ ValiderRadiation(s) \/ AnnulerRadiation(s)
  BY <1>1, <1>3 DEF VerrouillerRadiation, ValiderRadiation, AnnulerRadiation,
     RelacherRadiation, Deplace
<1> QED BY <1>2, <1>3 DEF PasRadiation, EtapeRadiation

LEMMA VerrouRadiationUtilisateur ==
  ASSUME TypeOK, NEW s \in Radiations, PasRadiation(s), NEW u \in Utilisateurs
  PROVE  Deplace(verrouUtilisateur[u], verrouUtilisateur'[u], s)
<1>1. /\ verrouUtilisateur \in [Utilisateurs -> Radiations \cup {Libre}]
      /\ Deplace(verrouUtilisateur[u], Liberes(verrouUtilisateur, s)[u], s)
  BY LiberesDeplace DEF TypeOK, TypeEmprunts, TypeBase
<1>2. CASE VerrouillerRadiation(s)
  BY <1>1, <1>2 DEF VerrouillerRadiation, Deplace
<1>3. CASE ~ VerrouillerRadiation(s)
  BY <1>1, <1>3 DEF PasRadiation, EtapeRadiation, EffacerEmprunt, ValiderRadiation,
     AnnulerRadiation, RelacherRadiation, Deplace
<1> QED BY <1>2, <1>3

(* No step of the library changes the borrower or the book of a loan.      *)
LEMMA ParametresToujoursFixes ==
  ASSUME TypeOK, UnPas
  PROVE  \A x \in Demandes : /\ emprunts'[x].livre = emprunts[x].livre
                             /\ emprunts'[x].utilisateur = emprunts[x].utilisateur
<1>0. TypeEmprunts /\ emprunts \in [Demandes -> Emprunt]
  BY DEF TypeOK, TypeEmprunts, TypeBase
<1>1. ASSUME NEW E, NEW y, Basculer(E, y), NEW x \in Demandes
      PROVE  /\ emprunts'[x].livre = emprunts[x].livre
             /\ emprunts'[x].utilisateur = emprunts[x].utilisateur
  BY <1>0, <1>1 DEF Basculer, Emprunt
<1>2. ASSUME NEW t \in Taches, PasTache(t)
      PROVE  emprunts' = emprunts \/ Basculer(cron[t].prises, Effet(t))
  BY <1>2 DEF PasTache, EtapeTache, DebuterTache, PrendreLigne, ValiderTache, AnnulerTache,
     varsBase, tables
<1>3. ASSUME NEW s \in Radiations, PasRadiation(s)
      PROVE  emprunts' = emprunts \/ Basculer(radiation[s].effaces, "efface")
  BY <1>3 DEF PasRadiation, EtapeRadiation, VerrouillerRadiation, EffacerEmprunt,
     ValiderRadiation, AnnulerRadiation, tables
<1>4. CASE (\E d \in Demandes : PasDemande(d)) \/ (\E r \in Retours : PasRetour(r))
           \/ PasEnvironnement
  BY <1>0, <1>4, ParametresFixes DEF PasDemande, PasRetour, PasEnvironnement
<1>5. CASE \/ \E m \in Editions : PasEdition(m)
           \/ \E l \in Livres : PasLivre(l)
           \/ \E s \in Retraits : PasRetrait(s)
  BY <1>5, CadreEdition, CadreLivre, CadreRetrait
<1> QED BY <1>1, <1>2, <1>3, <1>4, <1>5 DEF UnPas

LEMMA ExactsInit ==
  ASSUME Init
  PROVE  VerrousExacts
<1>1. TypeOK /\ LivresTenus /\ EmpruntsTenus
  BY TypeOKInit, SocleInit DEF Init, Socle
<1>2. VerrousRendus
  BY TransactionsDistinctes DEF Init, InitEmprunts, InitBase, InitCron, Repos, InitSuppressions,
     VerrousRendus
<1>3. Parcours
  BY DEF Init, InitCron, Repos, InitSuppressions, Parcours
<1> QED BY <1>1, <1>2, <1>3 DEF VerrousExacts

LEMMA ExactsDemande ==
  ASSUME VerrousExacts, NEW d \in Demandes, PasDemande(d)
  PROVE  VerrousExacts'
<1>0. TypeOK /\ TypeOK' /\ TypeEmprunts
  BY TypeDemande
     DEF VerrousExacts, PasDemande, HorsEmprunts, TypeOK, TypeCron, TypeCatalogue, TypeSuppressions
<1>1. UNCHANGED <<jour, utilisateurs, verrouEmprunt, verrouUtilisateur,
                  retour, cron, edition, retrait, radiation>>
  BY CadreDemande
<1>2. LivresTenus' /\ EmpruntsTenus'
  BY <1>0, LivresTenusDemande, EmpruntsTenusDemande DEF VerrousExacts, PasDemande
<1>3. \A l \in Livres, s \in Retraits : verrouLivre'[l] = s <=> verrouLivre[l] = s
  BY <1>0, VerrouDemande, TransactionsDistinctes DEF Deplace
<1> QED BY <1>0, <1>1, <1>2, <1>3 DEF VerrousExacts, VerrousRendus, Parcours

LEMMA ExactsRetour ==
  ASSUME VerrousExacts, NEW r \in Retours, PasRetour(r)
  PROVE  VerrousExacts'
<1>0. TypeOK /\ TypeOK' /\ TypeEmprunts
  BY TypeRetour
     DEF VerrousExacts, PasRetour, HorsEmprunts, TypeOK, TypeCron, TypeCatalogue, TypeSuppressions
<1>1. UNCHANGED <<jour, utilisateurs, verrouLivre, verrouUtilisateur,
                  demande, cron, edition, retrait, radiation>>
  BY CadreRetour
<1>2. LivresTenus' /\ EmpruntsTenus'
  BY <1>0, LivresTenusRetour, EmpruntsTenusRetour DEF VerrousExacts, PasRetour
<1>3. \A e \in Demandes : \A p \in Taches \cup Radiations :
        verrouEmprunt'[e] = p <=> verrouEmprunt[e] = p
  BY <1>0, VerrouRetour, TransactionsDistinctes DEF Deplace
<1> QED BY <1>0, <1>1, <1>2, <1>3 DEF VerrousExacts, VerrousRendus, Parcours

LEMMA ExactsTache ==
  ASSUME VerrousExacts, NEW t \in Taches, PasTache(t)
  PROVE  VerrousExacts'
<1>0. TypeOK /\ TypeOK'
  BY TypeTache DEF VerrousExacts
<1>1. UNCHANGED <<jour, livres, utilisateurs, verrouLivre, verrouUtilisateur,
                  demande, retour, edition, retrait, radiation>>
  BY CadreTache
<1>2. \A x \in Demandes : emprunts'[x].livre = emprunts[x].livre
  BY <1>0, ParametresToujoursFixes DEF UnPas
<1>3. \A e \in Demandes : \A p \in (Retours \cup Radiations \cup Taches) \ {t} :
        verrouEmprunt'[e] = p <=> verrouEmprunt[e] = p
  BY <1>0, VerrouTache, TransactionsDistinctes DEF Deplace
<1>4. LivresTenus' /\ EmpruntsTenus'
  <2>1. t \notin Retours
    BY TransactionsDistinctes
  <2> QED BY <1>1, <1>2, <1>3, <2>1 DEF VerrousExacts, LivresTenus, EmpruntsTenus
<1>5. \A x \in Taches \ {t} : cron'[x] = cron[x]
  BY <1>0 DEF PasTache, EtapeTache, DebuterTache, PrendreLigne, ValiderTache, AnnulerTache,
     TypeOK, TypeCron
<1>6. /\ \A e \in Demandes : verrouEmprunt'[e] = t <=> e \in cron'[t].prises
      /\ cron'[t].phase = "repos" => cron'[t].candidats = {} /\ cron'[t].prises = {}
  <2>0. /\ cron \in [Taches -> [phase : {"repos", "parcours"}, candidats : SUBSET Demandes,
                                prises : SUBSET Demandes]]
        /\ verrouEmprunt \in [Demandes -> Retours \cup Radiations \cup Taches \cup {Libre}]
        /\ \A e \in Demandes : verrouEmprunt[e] = t <=> e \in cron[t].prises
        /\ cron[t].phase = "repos" => cron[t].candidats = {} /\ cron[t].prises = {}
        /\ Libre # t
    BY <1>0, TransactionsDistinctes
       DEF VerrousExacts, VerrousRendus, Parcours, TypeOK, TypeEmprunts, TypeBase, TypeCron
  <2>1. CASE DebuterTache(t)
    <3>1. /\ verrouEmprunt' = verrouEmprunt /\ cron[t].prises = {}
          /\ cron'[t].prises = {} /\ cron'[t].phase = "parcours"
      BY <2>0, <2>1 DEF DebuterTache, varsBase
    <3> QED BY <2>0, <3>1
  <2>2. ASSUME NEW x \in Demandes, PrendreLigne(t, x)
        PROVE  /\ \A e \in Demandes : verrouEmprunt'[e] = t <=> e \in cron'[t].prises
               /\ cron'[t].phase = "repos" => cron'[t].candidats = {} /\ cron'[t].prises = {}
    <3>1. cron'[t].phase = cron[t].phase /\ cron[t].phase # "repos"
      BY <2>0, <2>2 DEF PrendreLigne
    <3>2. \/ verrouEmprunt' = verrouEmprunt /\ cron'[t].prises = cron[t].prises
          \/ /\ verrouEmprunt' = [verrouEmprunt EXCEPT ![x] = t]
             /\ cron'[t].prises = cron[t].prises \cup {x}
      BY <2>0, <2>2 DEF PrendreLigne
    <3> QED BY <2>0, <3>1, <3>2
  <2>3. CASE ValiderTache(t) \/ AnnulerTache(t)
    <3>1. verrouEmprunt' = Liberes(verrouEmprunt, t) /\ cron'[t] = Repos
      BY <2>0, <2>3 DEF ValiderTache, AnnulerTache
    <3> QED BY <2>0, <3>1 DEF Liberes, Repos
  <2> QED BY <2>1, <2>2, <2>3 DEF PasTache, EtapeTache
<1>7. VerrousRendus'
  <2>1. t \notin Radiations
    BY TransactionsDistinctes
  <2> QED BY <1>1, <1>3, <1>5, <1>6, <2>1 DEF VerrousExacts, VerrousRendus
<1>8. Parcours'
  BY <1>1, <1>5, <1>6 DEF VerrousExacts, Parcours
<1> QED BY <1>0, <1>4, <1>7, <1>8 DEF VerrousExacts

(* The catalogue waits for locks but keeps none past its statement.        *)
LEMMA ExactsCatalogue ==
  ASSUME VerrousExacts,
         \/ \E m \in Editions : PasEdition(m)
         \/ \E l \in Livres : PasLivre(l)
  PROVE  VerrousExacts'
<1>1. TypeOK'
  BY TypeEdition, TypeLivre DEF VerrousExacts
<1>2. UNCHANGED <<emprunts, verrouLivre, verrouEmprunt, verrouUtilisateur, demande, retour, cron,
                  retrait, radiation>>
  BY CadreEdition, CadreLivre
<1> QED BY <1>1, <1>2 DEF VerrousExacts, LivresTenus, EmpruntsTenus, VerrousRendus, Parcours

LEMMA ExactsRetrait ==
  ASSUME VerrousExacts, NEW s \in Retraits, PasRetrait(s)
  PROVE  VerrousExacts'
<1>0. TypeOK /\ TypeOK'
  BY TypeRetrait DEF VerrousExacts
<1>1. UNCHANGED <<jour, utilisateurs, emprunts, verrouEmprunt, verrouUtilisateur,
                  demande, retour, cron, edition, radiation>>
  BY CadreRetrait
<1>2. \A l \in Livres : \A p \in (Demandes \cup Retraits) \ {s} :
        verrouLivre'[l] = p <=> verrouLivre[l] = p
  BY <1>0, VerrouRetrait, TransactionsDistinctes DEF Deplace
<1>3. LivresTenus'
  <2>1. s \notin Demandes
    BY TransactionsDistinctes
  <2> QED BY <1>1, <1>2, <2>1 DEF VerrousExacts, LivresTenus
<1>4. \A x \in Retraits \ {s} : retrait'[x] = retrait[x]
  BY <1>0 DEF PasRetrait, EtapeRetrait, VerrouillerRetrait, ChercherReferent,
     ControlerReferent, AnnulerRetrait, TerminerRetrait, TypeOK, TypeSuppressions
<1>5. \A l \in Livres : verrouLivre'[l] = s <=> /\ retrait'[s].phase \in {"verrouillee", "controle"}
                                                /\ retrait'[s].livre = l
  <2>0. /\ retrait \in [Retraits -> Retrait]
        /\ verrouLivre \in [Livres -> Demandes \cup Retraits \cup {Libre}]
        /\ \A l \in Livres : verrouLivre[l] = s <=>
             retrait[s].phase \in {"verrouillee", "controle"} /\ retrait[s].livre = l
        /\ Libre # s /\ retrait[s].livre \in Livres
    BY <1>0, TransactionsDistinctes
       DEF VerrousExacts, VerrousRendus, TypeOK, TypeEmprunts, TypeBase, TypeSuppressions, Retrait
  <2>1. CASE VerrouillerRetrait(s)
    BY <2>0, <2>1 DEF VerrouillerRetrait, TerminerRetrait, Retrait
  <2>2. CASE ChercherReferent(s) \/ ControlerReferent(s)
    <3>1. \/ /\ verrouLivre' = verrouLivre /\ retrait'[s].livre = retrait[s].livre
             /\ retrait[s].phase \in {"verrouillee", "controle"}
             /\ retrait'[s].phase \in {"verrouillee", "controle"}
          \/ verrouLivre' = Liberes(verrouLivre, s) /\ retrait'[s].phase = "terminee"
      BY <2>0, <2>2 DEF ChercherReferent, ControlerReferent, TerminerRetrait, Retrait
    <3> QED BY <2>0, <3>1 DEF Liberes
  <2>3. CASE AnnulerRetrait(s)
    BY <2>0, <2>3 DEF AnnulerRetrait, TerminerRetrait, Liberes, Retrait
  <2> QED BY <2>1, <2>2, <2>3 DEF PasRetrait, EtapeRetrait
<1>6. EmpruntsTenus' /\ Parcours'
  BY <1>1 DEF VerrousExacts, EmpruntsTenus, Parcours
<1>7. VerrousRendus'
  BY <1>1, <1>2, <1>4, <1>5 DEF VerrousExacts, VerrousRendus
<1> QED BY <1>0, <1>3, <1>6, <1>7 DEF VerrousExacts

LEMMA ExactsRadiation ==
  ASSUME VerrousExacts, NEW s \in Radiations, PasRadiation(s)
  PROVE  VerrousExacts'
<1>0. TypeOK /\ TypeOK'
  BY TypeRadiation DEF VerrousExacts
<1>1. UNCHANGED <<jour, livres, verrouLivre, demande, retour, cron, edition, retrait>>
  BY CadreRadiation
<1>2. \A x \in Demandes : emprunts'[x].livre = emprunts[x].livre
  BY <1>0, ParametresToujoursFixes DEF UnPas
<1>3. /\ \A e \in Demandes : \A p \in (Retours \cup Radiations \cup Taches) \ {s} :
           verrouEmprunt'[e] = p <=> verrouEmprunt[e] = p
      /\ \A u \in Utilisateurs : \A p \in Radiations \ {s} :
           verrouUtilisateur'[u] = p <=> verrouUtilisateur[u] = p
  BY <1>0, VerrouRadiation, VerrouRadiationUtilisateur, TransactionsDistinctes DEF Deplace
<1>4. LivresTenus' /\ EmpruntsTenus'
  <2>1. s \notin Retours
    BY TransactionsDistinctes
  <2> QED BY <1>1, <1>2, <1>3, <2>1 DEF VerrousExacts, LivresTenus, EmpruntsTenus
<1>5. \A x \in Radiations \ {s} : radiation'[x] = radiation[x]
  BY <1>0 DEF PasRadiation, EtapeRadiation, VerrouillerRadiation, EffacerEmprunt,
     ValiderRadiation, AnnulerRadiation, TerminerRadiation, TypeOK, TypeSuppressions
<1>6. /\ \A e \in Demandes : verrouEmprunt'[e] = s <=> e \in radiation'[s].effaces
      /\ \A u \in Utilisateurs : verrouUtilisateur'[u] = s <=>
           radiation'[s].phase = "cascade" /\ radiation'[s].utilisateur = u
      /\ radiation'[s].phase # "cascade" => radiation'[s].restants = {} /\ radiation'[s].effaces = {}
  <2>0. /\ radiation \in [Radiations -> Radiation]
        /\ verrouEmprunt \in [Demandes -> Retours \cup Radiations \cup Taches \cup {Libre}]
        /\ verrouUtilisateur \in [Utilisateurs -> Radiations \cup {Libre}]
        /\ \A e \in Demandes : verrouEmprunt[e] = s <=> e \in radiation[s].effaces
        /\ \A u \in Utilisateurs : verrouUtilisateur[u] = s <=>
             radiation[s].phase = "cascade" /\ radiation[s].utilisateur = u
        /\ radiation[s].phase # "cascade" => radiation[s].restants = {} /\ radiation[s].effaces = {}
        /\ Libre # s /\ radiation[s].utilisateur \in Utilisateurs
    BY <1>0, TransactionsDistinctes DEF VerrousExacts, VerrousRendus, Parcours, TypeOK,
       TypeEmprunts, TypeBase, TypeSuppressions, Radiation
  <2>1. CASE RelacherRadiation(s) /\ \E x \in {"204", "404", "500"} : TerminerRadiation(s, x)
    <3>1. /\ radiation'[s].phase = "terminee" /\ radiation'[s].restants = {}
          /\ radiation'[s].effaces = {}
      BY <2>0, <2>1 DEF TerminerRadiation, Radiation
    <3>2. /\ verrouEmprunt' = Liberes(verrouEmprunt, s)
          /\ verrouUtilisateur' = Liberes(verrouUtilisateur, s)
      BY <2>1 DEF RelacherRadiation
    <3> QED BY <2>0, <3>1, <3>2 DEF Liberes
  <2>2. CASE VerrouillerRadiation(s)
    <3>1. /\ verrouEmprunt' = verrouEmprunt /\ radiation[s].phase = "recue"
          /\ radiation[s].effaces = {} /\ radiation[s].restants = {}
      BY <2>0, <2>2 DEF VerrouillerRadiation
    <3>2. CASE TerminerRadiation(s, "404") /\ UNCHANGED verrouUtilisateur
      BY <2>0, <3>1, <3>2 DEF TerminerRadiation
    <3>3. CASE /\ radiation' = [radiation EXCEPT ![s].phase = "cascade",
                                  ![s].restants = EmpruntsDe(radiation[s].utilisateur)]
               /\ verrouUtilisateur' = [verrouUtilisateur EXCEPT ![radiation[s].utilisateur] = s]
      <4>1. /\ radiation'[s].phase = "cascade" /\ radiation'[s].effaces = {}
            /\ radiation'[s].utilisateur = radiation[s].utilisateur
        BY <2>0, <3>1, <3>3 DEF Radiation
      <4> QED BY <2>0, <3>1, <3>3, <4>1
    <3> QED BY <2>2, <3>2, <3>3 DEF VerrouillerRadiation
  <2>3. ASSUME NEW x \in Demandes, EffacerEmprunt(s, x)
        PROVE  \/ RelacherRadiation(s) /\ TerminerRadiation(s, "500")
               \/ /\ radiation'[s].phase = radiation[s].phase /\ radiation[s].phase = "cascade"
                  /\ radiation'[s].utilisateur = radiation[s].utilisateur
                  /\ verrouUtilisateur' = verrouUtilisateur
                  /\ \/ /\ verrouEmprunt' = [verrouEmprunt EXCEPT ![x] = s]
                        /\ radiation'[s].effaces = radiation[s].effaces \cup {x}
                     \/ /\ verrouEmprunt' = verrouEmprunt
                        /\ radiation'[s].effaces = radiation[s].effaces
    <3>1. radiation[s].phase = "cascade"
      BY <2>0, <2>3 DEF EffacerEmprunt
    <3> QED BY <2>0, <2>3, <3>1 DEF EffacerEmprunt, Radiation
  <2>4. ASSUME NEW x \in Demandes, EffacerEmprunt(s, x)
        PROVE  /\ \A e \in Demandes : verrouEmprunt'[e] = s <=> e \in radiation'[s].effaces
               /\ \A u \in Utilisateurs : verrouUtilisateur'[u] = s <=>
                    radiation'[s].phase = "cascade" /\ radiation'[s].utilisateur = u
               /\ radiation'[s].phase # "cascade" =>
                    radiation'[s].restants = {} /\ radiation'[s].effaces = {}
    <3>1. CASE RelacherRadiation(s) /\ TerminerRadiation(s, "500")
      BY <2>1, <3>1
    <3>2. CASE ~ (RelacherRadiation(s) /\ TerminerRadiation(s, "500"))
      BY <2>0, <2>3, <2>4, <3>2
    <3> QED BY <3>1, <3>2
  <2>5. CASE ValiderRadiation(s) \/ AnnulerRadiation(s)
    BY <2>1, <2>5 DEF ValiderRadiation, AnnulerRadiation
  <2> QED BY <2>2, <2>4, <2>5 DEF PasRadiation, EtapeRadiation
<1>7. VerrousRendus'
  <2>1. s \notin Taches
    BY TransactionsDistinctes
  <2> QED BY <1>1, <1>3, <1>5, <1>6, <2>1 DEF VerrousExacts, VerrousRendus
<1>8. Parcours'
  BY <1>1, <1>5, <1>6 DEF VerrousExacts, Parcours
<1> QED BY <1>0, <1>4, <1>7, <1>8 DEF VerrousExacts

LEMMA ExactsSuivant ==
  ASSUME VerrousExacts, [Next]_vars
  PROVE  VerrousExacts'
<1>1. CASE PasEnvironnement \/ UNCHANGED vars
  <2>1. TypeOK'
    BY <1>1, TypeOKSuivant DEF VerrousExacts, PasEnvironnement, Next
  <2>2. UNCHANGED <<livres, emprunts, verrouLivre, verrouEmprunt, verrouUtilisateur,
                    demande, retour, cron, edition, retrait, radiation>>
    BY <1>1, CadreEnvironnement
  <2> QED BY <2>1, <2>2 DEF VerrousExacts, LivresTenus, EmpruntsTenus, VerrousRendus, Parcours
<1> QED BY <1>1, PasSuivant, ExactsDemande, ExactsRetour, ExactsTache, ExactsCatalogue,
           ExactsRetrait, ExactsRadiation DEF UnPas

LEMMA ExactsInvariant == Spec => []VerrousExacts
BY ExactsInit, ExactsSuivant, PTL DEF Spec

(* The daily jobs and the deletions hold a lock exactly while they are     *)
(* between taking it and their commit: a run that is over, a call that is  *)
(* answered, refused or chosen by the deadlock detector holds nothing.     *)
THEOREM VerrousToujoursRendus == Spec => []VerrousRendus
<1>1. VerrousExacts => VerrousRendus
  BY DEF VerrousExacts
<1> QED BY <1>1, ExactsInvariant, PTL

(* The locks of lending stay exact in the whole library too: the jobs and  *)
(* the deletions, which lock the same rows, take none from a call.         *)
THEOREM VerrousTenusPartout == Spec => []VerrousTenus
<1>1. VerrousExacts => VerrousTenus
  BY DEF VerrousExacts, LivresTenus, EmpruntsTenus, VerrousTenus
<1> QED BY <1>1, ExactsInvariant, PTL

-----------------------------------------------------------------------------
(* The rows behind the locks                                               *)

(* A loan a job or a deletion has locked still has the status for which it *)
(* was taken; a book that is locked is in the table.                       *)
Pris(t) == IF t = "bib_archiver" THEN "rendu" ELSE "en_cours"
LignesPrises ==
  /\ \A t \in Taches : \A e \in cron[t].prises : emprunts[e].statut = Pris(t)
  /\ \A s \in Radiations : \A e \in radiation[s].effaces : emprunts[e].statut = "rendu"
LivresPresents ==
  /\ \A d \in Demandes :
       demande[d].phase \in {"verrouillee", "comptee"} => livres[emprunts[d].livre].etat = "visible"
  /\ \A s \in Retraits :
       retrait[s].phase \in {"verrouillee", "controle"}
         => livres[retrait[s].livre].etat \in {"visible", "masque"}

Rangees == VerrousExacts /\ Lignes /\ LignesPrises /\ LivresPresents

LEMMA RangeesSocle ==
  ASSUME Rangees
  PROVE  Socle /\ TypeOK /\ VerrousRendus
BY DEF Rangees, VerrousExacts, TypeOK, Socle

(* What a step does to the row of a loan: one INSERT, one return, one      *)
(* batch of a job or of a cascade, each of rows that its actor holds.      *)
LEMMA StatutDemande ==
  ASSUME Rangees, NEW d \in Demandes, PasDemande(d), NEW x \in Demandes
  PROVE  \/ emprunts'[x] = emprunts[x]
         \/ /\ x = d /\ Inserer(d) /\ utilisateurs[emprunts[d].utilisateur] # "efface"
            /\ emprunts[x].statut = "aucun" /\ emprunts'[x].statut = "en_cours"
<1>0. emprunts \in [Demandes -> Emprunt]
  BY RangeesSocle DEF TypeOK, TypeEmprunts, TypeBase
<1>1. CASE Inserer(d) /\ utilisateurs[emprunts[d].utilisateur] # "efface"
  <2>1. emprunts[d].statut = "aucun"
    BY <1>1 DEF Inserer, Rangees, Lignes, SansLigne
  <2>2. emprunts'[d].statut = "en_cours" /\ (x # d => emprunts'[x] = emprunts[x])
    BY <1>0, <1>1 DEF Inserer, Emprunt
  <2> QED BY <1>1, <2>1, <2>2
<1> QED BY <1>1, EffetDemande DEF PasDemande

LEMMA StatutRendre ==
  ASSUME Rangees, NEW r \in Retours, PasRetour(r), NEW x \in Demandes
  PROVE  \/ emprunts'[x] = emprunts[x]
         \/ /\ x = retour[r].emprunt /\ verrouEmprunt[x] = r
            /\ emprunts[x].statut \in Actif /\ emprunts'[x].statut = "rendu"
<1>0. emprunts \in [Demandes -> Emprunt] /\ retour[r].emprunt \in Demandes
  BY RangeesSocle DEF TypeOK, TypeEmprunts, TypeBase, Retour
<1>1. CASE Rendre(r) /\ StockAdmis(Reintegrer(livres[emprunts[retour[r].emprunt].livre]))
  <2> DEFINE e == retour[r].emprunt
  <2>1. emprunts[e].statut \in Actif /\ verrouEmprunt[e] = r
    BY <1>0, <1>1, RangeesSocle DEF Rendre, Socle, Lignes, PretTenu, EmpruntsTenus
  <2>2. emprunts' = [emprunts EXCEPT ![e].statut = "rendu",
                                     ![e].effective = retour[r].jour,
                                     ![e].penalite = Penalite(emprunts[e].prevue, retour[r].jour)]
    BY <1>1 DEF Rendre
  <2>3. emprunts'[e].statut = "rendu" /\ (x # e => emprunts'[x] = emprunts[x])
    BY <1>0, <2>2 DEF Emprunt
  <2> QED BY <2>1, <2>3
<1> QED BY <1>1, EffetRetour DEF PasRetour

LEMMA StatutTache ==
  ASSUME Rangees, NEW t \in Taches, PasTache(t), NEW x \in Demandes
  PROVE  \/ emprunts'[x] = emprunts[x]
         \/ /\ x \in cron[t].prises /\ verrouEmprunt[x] = t
            /\ emprunts[x].statut = Pris(t) /\ emprunts'[x].statut = Effet(t)
<1>1. CASE ValiderTache(t)
  <2>1. /\ emprunts \in [Demandes -> Emprunt]
        /\ x \in cron[t].prises => verrouEmprunt[x] = t /\ emprunts[x].statut = Pris(t)
    BY RangeesSocle DEF TypeOK, TypeEmprunts, TypeBase, Rangees, LignesPrises, VerrousRendus
  <2>2. IF x \in cron[t].prises THEN emprunts'[x].statut = Effet(t) ELSE emprunts'[x] = emprunts[x]
    BY <1>1, <2>1 DEF ValiderTache, Basculer, Emprunt
  <2> QED BY <2>1, <2>2
<1>2. CASE ~ ValiderTache(t)
  BY <1>2 DEF PasTache, EtapeTache, DebuterTache, PrendreLigne, AnnulerTache, varsBase, tables
<1> QED BY <1>1, <1>2

LEMMA StatutRadiation ==
  ASSUME Rangees, NEW s \in Radiations, PasRadiation(s), NEW x \in Demandes
  PROVE  \/ emprunts'[x] = emprunts[x]
         \/ /\ x \in radiation[s].effaces /\ verrouEmprunt[x] = s
            /\ emprunts[x].statut = "rendu" /\ emprunts'[x].statut = "efface"
<1>1. CASE ValiderRadiation(s)
  <2>1. /\ emprunts \in [Demandes -> Emprunt]
        /\ x \in radiation[s].effaces => verrouEmprunt[x] = s /\ emprunts[x].statut = "rendu"
    BY RangeesSocle DEF TypeOK, TypeEmprunts, TypeBase, Rangees, LignesPrises, VerrousRendus
  <2>2. IF x \in radiation[s].effaces THEN emprunts'[x].statut = "efface"
                                      ELSE emprunts'[x] = emprunts[x]
    BY <1>1, <2>1 DEF ValiderRadiation, Basculer, Emprunt
  <2> QED BY <2>1, <2>2
<1>2. CASE ~ ValiderRadiation(s)
  BY <1>2 DEF PasRadiation, EtapeRadiation, VerrouillerRadiation, EffacerEmprunt,
     AnnulerRadiation, tables
<1> QED BY <1>1, <1>2

(* What a step does to the row of a book.                                  *)
LEMMA LivresEmprunts ==
  ASSUME TypeOK, NEW l \in Livres,
         \/ \E d \in Demandes : PasDemande(d)
         \/ \E r \in Retours : PasRetour(r)
  PROVE  /\ livres'[l].etat = livres[l].etat
         /\ livres'[l].nombre = livres[l].nombre
<1>0. /\ livres \in [Livres -> Livre] /\ emprunts \in [Demandes -> Emprunt]
      /\ retour \in [Retours -> Retour]
  BY DEF TypeOK, TypeEmprunts, TypeBase
<1>1. ASSUME NEW d \in Demandes, PasDemande(d)
      PROVE  livres'[l].etat = livres[l].etat /\ livres'[l].nombre = livres[l].nombre
  <2>1. CASE UNCHANGED <<livres, emprunts>>
    BY <2>1
  <2>2. CASE Inserer(d) /\ utilisateurs[emprunts[d].utilisateur] # "efface"
    <3> DEFINE k == emprunts[d].livre
    <3>1. livres' = [livres EXCEPT ![k].dispo = @ - 1] /\ k \in Livres
      BY <1>0, <2>2 DEF Inserer, Emprunt
    <3> HIDE DEF k
    <3> QED BY <1>0, <3>1 DEF Livre
  <2> QED BY <1>1, <2>1, <2>2, EffetDemande DEF PasDemande
<1>2. ASSUME NEW r \in Retours, PasRetour(r)
      PROVE  livres'[l].etat = livres[l].etat /\ livres'[l].nombre = livres[l].nombre
  <2>1. CASE UNCHANGED <<livres, emprunts>>
    BY <2>1
  <2>2. CASE Rendre(r) /\ StockAdmis(Reintegrer(livres[emprunts[retour[r].emprunt].livre]))
    <3> DEFINE k == emprunts[retour[r].emprunt].livre
    <3>1. livres' = [livres EXCEPT ![k] = Reintegrer(livres[k])] /\ k \in Livres
      BY <1>0, <2>2 DEF Rendre, Emprunt, Retour
    <3> HIDE DEF k
    <3> QED BY <1>0, <3>1 DEF Reintegrer, Livre
  <2> QED BY <1>2, <2>1, <2>2, EffetRetour DEF PasRetour
<1> QED BY <1>1, <1>2

(* An edit that writes: the row it finds is visible and nobody's, what it  *)
(* writes comes from the row it had read.                                  *)
Ecriture(m, l) ==
  /\ edition[m].livre = l /\ edition[m].phase = "lue" /\ edition'[m].phase = "ecrite"
  /\ livres[l].etat = "visible" /\ verrouLivre[l] = Libre
  /\ \E n \in Totaux \cup {edition[m].lu.nombre} :
       /\ ~ AjusterRefuse(edition[m].lu, n)
       /\ livres' = [livres EXCEPT ![l].nombre = n, ![l].dispo = AjusterStock(edition[m].lu, n)]

LEMMA EffetEdition ==
  ASSUME TypeOK, NEW m \in Editions, PasEdition(m)
  PROVE  /\ \/ UNCHANGED livres /\ ~ (edition[m].phase = "lue" /\ edition'[m].phase = "ecrite")
            \/ Ecriture(m, edition[m].livre)
         /\ \A x \in Editions \ {m} : edition'[x] = edition[x]
         /\ edition'[m].livre = edition[m].livre
<1>0. edition \in [Editions -> [phase : {"recue", "lue", "ecrite", "terminee"}, livre : Livres,
                                lu : Livre,
                                reponse : {"aucune", "200", "404", "409", "422", "500"}]]
  BY DEF TypeOK, TypeCatalogue
<1>1. CASE EcrireLivre(m)
  <2>1. PICK n \in Totaux \cup {edition[m].lu.nombre} :
          \/ TerminerEdition(m, "409") /\ UNCHANGED livres
          \/ TerminerEdition(m, "404") /\ UNCHANGED livres
          \/ /\ ~ AjusterRefuse(edition[m].lu, n) /\ livres[edition[m].livre].etat = "visible"
             /\ verrouLivre[edition[m].livre] = Libre
             /\ livres' = [livres EXCEPT ![edition[m].livre].nombre = n,
                                         ![edition[m].livre].dispo = AjusterStock(edition[m].lu, n)]
             /\ edition' = [edition EXCEPT ![m].phase = "ecrite"]
    BY <1>1 DEF EcrireLivre
  <2>2. edition[m].phase = "lue"
    BY <1>1 DEF EcrireLivre
  <2>3. CASE (\E x \in {"404", "409"} : TerminerEdition(m, x)) /\ UNCHANGED livres
    BY <1>0, <2>3 DEF TerminerEdition
  <2>4. CASE /\ ~ AjusterRefuse(edition[m].lu, n) /\ livres[edition[m].livre].etat = "visible"
             /\ verrouLivre[edition[m].livre] = Libre
             /\ livres' = [livres EXCEPT ![edition[m].livre].nombre = n,
                                         ![edition[m].livre].dispo = AjusterStock(edition[m].lu, n)]
             /\ edition' = [edition EXCEPT ![m].phase = "ecrite"]
    <3>1. /\ edition'[m].phase = "ecrite" /\ edition'[m].livre = edition[m].livre
          /\ \A x \in Editions \ {m} : edition'[x] = edition[x]
      BY <1>0, <2>4
    <3> QED BY <2>2, <2>4, <3>1 DEF Ecriture
  <2> QED BY <2>1, <2>3, <2>4
<1>2. CASE LireLivre(m)
  <2>1. edition[m].phase = "recue" /\ UNCHANGED livres
    BY <1>2 DEF LireLivre, varsBase
  <2> QED BY <1>0, <1>2, <2>1 DEF LireLivre, TerminerEdition
<1>3. CASE RelireLivre(m) \/ AnnulerEdition(m)
  <2>1. UNCHANGED livres /\ \E x \in {"200", "404", "409", "422", "500"} : TerminerEdition(m, x)
    BY <1>3 DEF RelireLivre, AnnulerEdition, varsBase
  <2> QED BY <1>0, <2>1 DEF TerminerEdition
<1> QED BY <1>1, <1>2, <1>3 DEF PasEdition, EtapeEdition

LEMMA EffetRetrait ==
  ASSUME TypeOK, NEW s \in Retraits, PasRetrait(s)
  PROVE  \/ UNCHANGED livres
         \/ /\ retrait[s].phase = "verrouillee" /\ Referents(retrait[s].livre) = {}
            /\ livres' = [livres EXCEPT ![retrait[s].livre].etat = "efface"]
            /\ retrait'[s].phase = "terminee"
BY DEF PasRetrait, EtapeRetrait, VerrouillerRetrait, ChercherReferent, ControlerReferent,
   AnnulerRetrait, TerminerRetrait, tables, TypeOK, TypeSuppressions, Retrait

LEMMA RangeesInit ==
  ASSUME Init
  PROVE  Rangees
<1>1. VerrousExacts /\ Lignes
  BY ExactsInit, SocleInit DEF Init, Socle
<1>2. LignesPrises
  BY DEF Init, InitCron, Repos, InitSuppressions, LignesPrises
<1>3. LivresPresents
  BY DEF Init, InitEmprunts, InitSuppressions, LivresPresents
<1> QED BY <1>1, <1>2, <1>3 DEF Rangees

LEMMA RangeesDemande ==
  ASSUME Rangees, NEW d \in Demandes, PasDemande(d)
  PROVE  Rangees'
<1>0. /\ Socle /\ TypeOK
      /\ UNCHANGED <<jour, utilisateurs, verrouEmprunt, verrouUtilisateur,
                     retour, cron, edition, retrait, radiation>>
      /\ \A x \in Demandes : emprunts'[x].livre = emprunts[x].livre
      /\ \A l \in Livres : livres'[l].etat = livres[l].etat
  BY RangeesSocle, CadreDemande, ParametresToujoursFixes, LivresEmprunts DEF UnPas
<1>1. VerrousExacts' /\ Lignes'
  BY <1>0, ExactsDemande, LignesDemande DEF Rangees, Socle, PasDemande
<1>2. LignesPrises'
  <2>1. cron \in [Taches -> [phase : {"repos", "parcours"}, candidats : SUBSET Demandes,
                             prises : SUBSET Demandes]]
        /\ radiation \in [Radiations -> Radiation]
    BY <1>0 DEF TypeOK, TypeCron, TypeSuppressions
  <2>2. \A x \in Demandes : emprunts[x].statut # "aucun" => emprunts'[x].statut = emprunts[x].statut
    BY StatutDemande
  <2> QED BY <1>0, <2>1, <2>2 DEF Rangees, LignesPrises, Pris, Radiation
<1>3. LivresPresents'
  <2>1. ASSUME NEW x \in Demandes, demande'[x].phase \in {"verrouillee", "comptee"}
        PROVE  livres[emprunts[x].livre].etat = "visible"
    <3>1. CASE demande[x].phase \in {"verrouillee", "comptee"}
      BY <3>1 DEF Rangees, LivresPresents
    <3>2. CASE demande[x].phase \notin {"verrouillee", "comptee"}
      <4>1. x = d
        BY <1>0, <2>1, <3>2, DemandeSitueeAutre DEF PasDemande
      <4>2. VerrouillerLivre(d) /\ demande'[d].phase = "verrouillee"
        BY <1>0, <2>1, <3>2, <4>1 DEF PasDemande, EtapeDemande, LireUtilisateur, VerrouillerLivre,
           CompterEmprunts, Inserer, RepondreDemande, AnnulerDemande, AvancerDemande,
           TerminerDemande, TypeOK, TypeEmprunts, Demande
      <4> QED BY <1>0, <4>1, <4>2 DEF VerrouillerLivre, TerminerDemande, TypeOK, TypeEmprunts,
                 Demande
    <3> QED BY <3>1, <3>2
  <2>2. /\ \A x \in Demandes : emprunts[x].livre \in Livres
        /\ \A s \in Retraits : retrait[s].livre \in Livres
    BY <1>0 DEF TypeOK, TypeEmprunts, TypeBase, Emprunt, TypeSuppressions, Retrait
  <2> QED BY <1>0, <2>1, <2>2 DEF Rangees, LivresPresents
<1> QED BY <1>1, <1>2, <1>3 DEF Rangees

LEMMA RangeesRetour ==
  ASSUME Rangees, NEW r \in Retours, PasRetour(r)
  PROVE  Rangees'
<1>0. /\ Socle /\ TypeOK /\ VerrousRendus
      /\ UNCHANGED <<jour, utilisateurs, verrouLivre, verrouUtilisateur,
                     demande, cron, edition, retrait, radiation>>
      /\ \A x \in Demandes : emprunts'[x].livre = emprunts[x].livre
      /\ \A l \in Livres : livres'[l].etat = livres[l].etat
  BY RangeesSocle, CadreRetour, ParametresToujoursFixes, LivresEmprunts DEF UnPas
<1>1. VerrousExacts' /\ Lignes'
  BY <1>0, ExactsRetour, LignesRetour DEF Rangees, Socle, PasRetour
<1>2. LignesPrises'
  <2>1. cron \in [Taches -> [phase : {"repos", "parcours"}, candidats : SUBSET Demandes,
                             prises : SUBSET Demandes]]
        /\ radiation \in [Radiations -> Radiation]
        /\ r \notin Taches \cup Radiations
    BY <1>0, TransactionsDistinctes DEF TypeOK, TypeCron, TypeSuppressions
  <2>2. \A x \in Demandes : verrouEmprunt[x] # r => emprunts'[x].statut = emprunts[x].statut
    BY StatutRendre
  <2>3. \A t \in Taches : \A e \in cron[t].prises : emprunts'[e].statut = emprunts[e].statut
    BY <1>0, <2>1, <2>2 DEF VerrousRendus
  <2>4. \A s \in Radiations : \A e \in radiation[s].effaces : emprunts'[e].statut = emprunts[e].statut
    BY <1>0, <2>1, <2>2 DEF VerrousRendus, Radiation
  <2> QED BY <1>0, <2>3, <2>4 DEF Rangees, LignesPrises
<1>3. LivresPresents'
  <2>1. /\ \A x \in Demandes : emprunts[x].livre \in Livres
        /\ \A s \in Retraits : retrait[s].livre \in Livres
    BY <1>0 DEF TypeOK, TypeEmprunts, TypeBase, Emprunt, TypeSuppressions, Retrait
  <2> QED BY <1>0, <2>1 DEF Rangees, LivresPresents
<1> QED BY <1>1, <1>2, <1>3 DEF Rangees

LEMMA RangeesTache ==
  ASSUME Rangees, NEW t \in Taches, PasTache(t)
  PROVE  Rangees'
<1>0. /\ Socle /\ TypeOK /\ VerrousRendus /\ VerrousExacts'
      /\ UNCHANGED <<jour, livres, utilisateurs, verrouLivre, verrouUtilisateur,
                     demande, retour, edition, retrait, radiation>>
      /\ \A x \in Demandes : emprunts'[x].livre = emprunts[x].livre
  BY RangeesSocle, CadreTache, ParametresToujoursFixes, ExactsTache DEF UnPas, Rangees
<1>a. /\ \A q \in Taches : cron[q].prises \subseteq Demandes
      /\ \A s \in Radiations : radiation[s].effaces \subseteq Demandes
      /\ \A r \in Retours : retour[r].emprunt \in Demandes
      /\ t \notin Retours \cup Radiations
  BY <1>0, TransactionsDistinctes
     DEF TypeOK, TypeEmprunts, TypeCron, TypeSuppressions, Retour, Radiation
<1>b. \A x \in Demandes : verrouEmprunt[x] # t => emprunts'[x] = emprunts[x]
  BY StatutTache
<1>1. Lignes'
  <2>1. SansLigne'
    <3>1. \A x \in Demandes : emprunts[x].statut = "aucun" => emprunts'[x] = emprunts[x]
      BY StatutTache DEF Pris
    <3> QED BY <1>0, <3>1 DEF Rangees, Lignes, SansLigne
  <2>2. ExemplaireTenu'
    BY <1>0 DEF Rangees, Lignes, ExemplaireTenu
  <2>3. PretTenu'
    <3>1. \A r \in Retours : retour[r].phase = "verrouillee" => verrouEmprunt[retour[r].emprunt] = r
      BY <1>0, <1>a DEF Socle, EmpruntsTenus
    <3> QED BY <1>0, <1>a, <1>b, <3>1 DEF Rangees, Lignes, PretTenu
  <2> QED BY <2>1, <2>2, <2>3 DEF Lignes
<1>2. LignesPrises'
  <2>1. \A q \in Taches \ {t} : \A e \in cron[q].prises : emprunts'[e].statut = Pris(q)
    BY <1>0, <1>a, <1>b DEF VerrousRendus, Rangees, LignesPrises
  <2>2. \A s \in Radiations : \A e \in radiation[s].effaces : emprunts'[e].statut = "rendu"
    BY <1>0, <1>a, <1>b DEF VerrousRendus, Rangees, LignesPrises
  <2>3. \A q \in Taches \ {t} : cron'[q] = cron[q]
    BY <1>0 DEF PasTache, EtapeTache, DebuterTache, PrendreLigne, ValiderTache, AnnulerTache,
       TypeOK, TypeCron
  <2>4. \A e \in cron'[t].prises : emprunts'[e].statut = Pris(t)
    <3>0. cron \in [Taches -> [phase : {"repos", "parcours"}, candidats : SUBSET Demandes,
                               prises : SUBSET Demandes]]
          /\ \A e \in cron[t].prises : emprunts[e].statut = Pris(t)
      BY <1>0 DEF TypeOK, TypeCron, Rangees, LignesPrises
    <3>1. CASE DebuterTache(t) \/ ValiderTache(t) \/ AnnulerTache(t)
      <4>1. cron'[t].prises = {}
        BY <3>0, <3>1 DEF DebuterTache, ValiderTache, AnnulerTache, Repos
      <4> QED BY <4>1
    <3>2. ASSUME NEW x \in Demandes, PrendreLigne(t, x)
          PROVE  \A e \in cron'[t].prises : emprunts'[e].statut = Pris(t)
      <4>1. emprunts' = emprunts
        BY <3>2 DEF PrendreLigne, tables
      <4>2. \/ cron'[t].prises = cron[t].prises
            \/ cron'[t].prises = cron[t].prises \cup {x} /\ Vise(t, x)
        BY <3>0, <3>2 DEF PrendreLigne
      <4>3. Vise(t, x) => emprunts[x].statut = Pris(t)
        BY DEF Vise, Ancien, EnRetard, Pris
      <4> QED BY <3>0, <4>1, <4>2, <4>3
    <3> QED BY <3>1, <3>2 DEF PasTache, EtapeTache
  <2> QED BY <1>0, <2>1, <2>2, <2>3, <2>4 DEF LignesPrises
<1>3. LivresPresents'
  BY <1>0 DEF Rangees, LivresPresents
<1> QED BY <1>0, <1>1, <1>2, <1>3 DEF Rangees

LEMMA RangeesCatalogue ==
  ASSUME Rangees,
         \/ \E m \in Editions : PasEdition(m)
         \/ \E l \in Livres : PasLivre(l)
  PROVE  Rangees'
<1>0. /\ Socle /\ TypeOK /\ VerrousRendus /\ VerrousExacts'
      /\ UNCHANGED <<jour, utilisateurs, emprunts, verrouLivre, verrouEmprunt,
                     verrouUtilisateur, demande, retour, cron, retrait, radiation>>
  BY RangeesSocle, CadreEdition, CadreLivre, ExactsCatalogue DEF Rangees
<1>1. /\ livres \in [Livres -> Livre]
      /\ \A x \in Demandes : emprunts[x].livre \in Livres
      /\ \A s \in Retraits : retrait[s].livre \in Livres
      /\ Libre \notin Demandes \cup Retraits
      /\ \A m \in Editions : edition[m].livre \in Livres
  BY <1>0, TransactionsDistinctes
     DEF TypeOK, TypeEmprunts, TypeBase, Emprunt, TypeSuppressions, Retrait, TypeCatalogue
<1>2. \A l \in Livres : \/ livres'[l] = livres[l]
                        \/ verrouLivre[l] = Libre
                        \/ livres[l].etat = "absent"
  <2>1. ASSUME NEW m \in Editions, PasEdition(m)
        PROVE  \A l \in Livres : livres'[l] = livres[l] \/ verrouLivre[l] = Libre
    BY <1>0, <1>1, <2>1, EffetEdition DEF Ecriture
  <2>2. ASSUME NEW k \in Livres, PasLivre(k)
        PROVE  \A l \in Livres : \/ livres'[l] = livres[l]
                                 \/ verrouLivre[l] = Libre
                                 \/ livres[l].etat = "absent"
    BY <1>1, <2>2 DEF PasLivre, CreerLivre, MasquerLivre
  <2> QED BY <2>1, <2>2
<1>3. /\ \A d \in Demandes : demande[d].phase \in {"verrouillee", "comptee"} =>
           livres'[emprunts[d].livre] = livres[emprunts[d].livre]
      /\ \A s \in Retraits : retrait[s].phase \in {"verrouillee", "controle"} =>
           livres'[retrait[s].livre] = livres[retrait[s].livre]
  <2>1. ASSUME NEW d \in Demandes, demande[d].phase \in {"verrouillee", "comptee"}
        PROVE  livres'[emprunts[d].livre] = livres[emprunts[d].livre]
    <3>1. verrouLivre[emprunts[d].livre] = d /\ livres[emprunts[d].livre].etat = "visible"
      BY <1>0, <1>1, <2>1 DEF Socle, LivresTenus, Rangees, LivresPresents
    <3> QED BY <1>1, <1>2, <3>1
  <2>2. ASSUME NEW s \in Retraits, retrait[s].phase \in {"verrouillee", "controle"}
        PROVE  livres'[retrait[s].livre] = livres[retrait[s].livre]
    <3>1. verrouLivre[retrait[s].livre] = s /\ livres[retrait[s].livre].etat \in {"visible", "masque"}
      BY <1>0, <1>1, <2>2 DEF VerrousRendus, Rangees, LivresPresents
    <3> QED BY <1>1, <1>2, <3>1
  <2> QED BY <2>1, <2>2
<1>4. Lignes' /\ LivresPresents'
  BY <1>0, <1>3 DEF Rangees, Lignes, SansLigne, ExemplaireTenu, PretTenu, LivresPresents
<1>5. LignesPrises'
  BY <1>0 DEF Rangees, LignesPrises
<1> QED BY <1>0, <1>4, <1>5 DEF Rangees

LEMMA RangeesRetrait ==
  ASSUME Rangees, NEW s \in Retraits, PasRetrait(s)
  PROVE  Rangees'
<1>0. /\ Socle /\ TypeOK /\ VerrousRendus /\ VerrousExacts'
      /\ UNCHANGED <<jour, utilisateurs, emprunts, verrouEmprunt, verrouUtilisateur,
                     demande, retour, cron, edition, radiation>>
  BY RangeesSocle, CadreRetrait, ExactsRetrait DEF Rangees
<1>1. /\ livres \in [Livres -> Livre] /\ retrait \in [Retraits -> Retrait]
      /\ \A x \in Demandes : emprunts[x].livre \in Livres
      /\ \A q \in Retraits : retrait[q].livre \in Livres
      /\ s \notin Demandes
  BY <1>0, TransactionsDistinctes
     DEF TypeOK, TypeEmprunts, TypeBase, Emprunt, TypeSuppressions, Retrait
<1>2. /\ \A l \in Livres : livres'[l].dispo = livres[l].dispo
      /\ \A l \in Livres : \/ livres'[l] = livres[l]
                           \/ verrouLivre[l] = s /\ retrait'[s].phase = "terminee"
  <2> DEFINE k == retrait[s].livre
  <2>1. CASE UNCHANGED livres
    BY <2>1
  <2>2. CASE /\ retrait[s].phase = "verrouillee" /\ retrait'[s].phase = "terminee"
             /\ livres' = [livres EXCEPT ![k].etat = "efface"]
    <3>1. k \in Livres /\ verrouLivre[k] = s
      BY <1>0, <1>1, <2>2 DEF VerrousRendus
    <3> HIDE DEF k
    <3>2. /\ livres'[k].dispo = livres[k].dispo
          /\ \A l \in Livres \ {k} : livres'[l] = livres[l]
      BY <1>1, <2>2, <3>1 DEF Livre
    <3> QED BY <2>2, <3>1, <3>2
  <2> QED BY <1>0, <2>1, <2>2, EffetRetrait
<1>3. Lignes'
  BY <1>0, <1>1, <1>2 DEF Rangees, Lignes, SansLigne, ExemplaireTenu, PretTenu
<1>4. ASSUME NEW d \in Demandes, demande[d].phase \in {"verrouillee", "comptee"}
      PROVE  livres'[emprunts[d].livre].etat = "visible"
  <2>1. verrouLivre[emprunts[d].livre] = d /\ livres[emprunts[d].livre].etat = "visible"
    BY <1>0, <1>1, <1>4 DEF Socle, LivresTenus, Rangees, LivresPresents
  <2> QED BY <1>1, <1>2, <2>1
<1>5. ASSUME NEW q \in Retraits, retrait'[q].phase \in {"verrouillee", "controle"}
      PROVE  livres'[retrait'[q].livre].etat \in {"visible", "masque"}
  <2>1. CASE q # s
    <3>1. retrait'[q] = retrait[q]
      BY <1>1, <2>1 DEF PasRetrait, EtapeRetrait, VerrouillerRetrait, ChercherReferent,
         ControlerReferent, AnnulerRetrait, TerminerRetrait
    <3>2. verrouLivre[retrait[q].livre] = q /\ livres[retrait[q].livre].etat \in {"visible", "masque"}
      BY <1>0, <1>1, <1>5, <3>1 DEF VerrousRendus, Rangees, LivresPresents
    <3> QED BY <1>1, <1>2, <2>1, <3>1, <3>2
  <2>2. CASE q = s
    <3>1. retrait'[s].livre = retrait[s].livre /\ livres'[retrait[s].livre] = livres[retrait[s].livre]
      <4>1. retrait'[s].livre = retrait[s].livre
        BY <1>1 DEF PasRetrait, EtapeRetrait, VerrouillerRetrait, ChercherReferent,
           ControlerReferent, AnnulerRetrait, TerminerRetrait, Retrait
      <4> QED BY <1>1, <1>2, <1>5, <2>2, <4>1
    <3>2. CASE retrait[s].phase \in {"verrouillee", "controle"}
      BY <2>2, <3>1, <3>2 DEF Rangees, LivresPresents
    <3>3. CASE retrait[s].phase \notin {"verrouillee", "controle"}
      <4>1. VerrouillerRetrait(s)
        BY <1>1, <1>5, <2>2, <3>3 DEF PasRetrait, EtapeRetrait, ChercherReferent,
           ControlerReferent, AnnulerRetrait, TerminerRetrait, Retrait
      <4>2. livres[retrait[s].livre].etat \in {"visible", "masque"}
        BY <1>1, <1>5, <2>2, <4>1 DEF VerrouillerRetrait, TerminerRetrait, Retrait
      <4> QED BY <2>2, <3>1, <4>2
    <3> QED BY <3>2, <3>3
  <2> QED BY <2>1, <2>2
<1>6. LignesPrises' /\ LivresPresents'
  BY <1>0, <1>4, <1>5 DEF Rangees, LignesPrises, LivresPresents
<1> QED BY <1>0, <1>3, <1>6 DEF Rangees

LEMMA RangeesRadiation ==
  ASSUME Rangees, NEW s \in Radiations, PasRadiation(s)
  PROVE  Rangees'
<1>0. /\ Socle /\ TypeOK /\ VerrousRendus /\ VerrousExacts'
      /\ UNCHANGED <<jour, livres, verrouLivre, demande, retour, cron, edition, retrait>>
      /\ \A x \in Demandes : emprunts'[x].livre = emprunts[x].livre
  BY RangeesSocle, CadreRadiation, ParametresToujoursFixes, ExactsRadiation DEF UnPas, Rangees
<1>a. /\ \A q \in Taches : cron[q].prises \subseteq Demandes
      /\ \A q \in Radiations : radiation[q].effaces \subseteq Demandes
      /\ \A r \in Retours : retour[r].emprunt \in Demandes
      /\ s \notin Retours \cup Taches
  BY <1>0, TransactionsDistinctes
     DEF TypeOK, TypeEmprunts, TypeCron, TypeSuppressions, Retour, Radiation
<1>b. \A x \in Demandes : verrouEmprunt[x] # s => emprunts'[x] = emprunts[x]
  BY StatutRadiation
<1>1. Lignes'
  <2>1. SansLigne'
    <3>1. \A x \in Demandes : emprunts[x].statut = "aucun" => emprunts'[x] = emprunts[x]
      BY StatutRadiation
    <3> QED BY <1>0, <3>1 DEF Rangees, Lignes, SansLigne
  <2>2. ExemplaireTenu'
    BY <1>0 DEF Rangees, Lignes, ExemplaireTenu
  <2>3. PretTenu'
    <3>1. \A r \in Retours : retour[r].phase = "verrouillee" => verrouEmprunt[retour[r].emprunt] = r
      BY <1>0, <1>a DEF Socle, EmpruntsTenus
    <3> QED BY <1>0, <1>a, <1>b, <3>1 DEF Rangees, Lignes, PretTenu
  <2> QED BY <2>1, <2>2, <2>3 DEF Lignes
<1>2. LignesPrises'
  <2>1. \A q \in Radiations \ {s} : \A e \in radiation[q].effaces : emprunts'[e].statut = "rendu"
    BY <1>0, <1>a, <1>b DEF VerrousRendus, Rangees, LignesPrises
  <2>2. \A t \in Taches : \A e \in cron[t].prises : emprunts'[e].statut = Pris(t)
    BY <1>0, <1>a, <1>b DEF VerrousRendus, Rangees, LignesPrises
  <2>3. \A q \in Radiations \ {s} : radiation'[q] = radiation[q]
    BY <1>0 DEF PasRadiation, EtapeRadiation, VerrouillerRadiation, EffacerEmprunt,
       ValiderRadiation, AnnulerRadiation, TerminerRadiation, TypeOK, TypeSuppressions
  <2>4. \A e \in radiation'[s].effaces : emprunts'[e].statut = "rendu"
    <3>0. /\ radiation \in [Radiations -> Radiation]
          /\ \A e \in radiation[s].effaces : emprunts[e].statut = "rendu"
      BY <1>0 DEF TypeOK, TypeSuppressions, Rangees, LignesPrises
    <3>1. CASE ValiderRadiation(s) \/ AnnulerRadiation(s)
      <4>1. radiation'[s].effaces = {}
        BY <3>0, <3>1 DEF ValiderRadiation, AnnulerRadiation, TerminerRadiation, Radiation
      <4> QED BY <4>1
    <3>2. CASE VerrouillerRadiation(s)
      <4>1. emprunts' = emprunts /\ radiation'[s].effaces \subseteq radiation[s].effaces
        BY <3>0, <3>2 DEF VerrouillerRadiation, TerminerRadiation, tables, Radiation
      <4> QED BY <3>0, <4>1
    <3>3. ASSUME NEW x \in Demandes, EffacerEmprunt(s, x)
          PROVE  \A e \in radiation'[s].effaces : emprunts'[e].statut = "rendu"
      <4>1. emprunts' = emprunts
        BY <3>3 DEF EffacerEmprunt, tables
      <4>2. \/ radiation'[s].effaces = {}
            \/ radiation'[s].effaces = radiation[s].effaces
            \/ radiation'[s].effaces = radiation[s].effaces \cup {x} /\ emprunts[x].statut = "rendu"
        BY <3>0, <3>3 DEF EffacerEmprunt, TerminerRadiation, Radiation
      <4> QED BY <3>0, <4>1, <4>2
    <3> QED BY <3>1, <3>2, <3>3 DEF PasRadiation, EtapeRadiation
  <2> QED BY <1>0, <2>1, <2>2, <2>3, <2>4 DEF LignesPrises
<1>3. LivresPresents'
  BY <1>0 DEF Rangees, LivresPresents
<1> QED BY <1>0, <1>1, <1>2, <1>3 DEF Rangees

LEMMA RangeesSuivant ==
  ASSUME Rangees, [Next]_vars
  PROVE  Rangees'
<1>1. CASE PasEnvironnement \/ UNCHANGED vars
  <2>1. VerrousExacts'
    BY ExactsSuivant DEF Rangees
  <2>2. UNCHANGED <<livres, emprunts, verrouLivre, verrouEmprunt, verrouUtilisateur,
                    demande, retour, cron, edition, retrait, radiation>>
    BY <1>1, CadreEnvironnement
  <2> QED BY <2>1, <2>2 DEF Rangees, Lignes, SansLigne, ExemplaireTenu, PretTenu, LignesPrises,
             LivresPresents
<1> QED BY <1>1, PasSuivant, RangeesDemande, RangeesRetour, RangeesTache, RangeesCatalogue,
           RangeesRetrait, RangeesRadiation DEF UnPas

LEMMA RangeesInvariant == Spec => []Rangees
BY RangeesInit, RangeesSuivant, PTL DEF Spec

-----------------------------------------------------------------------------
(* The life of a loan                                                      *)

LEMMA ProgresSuivant ==
  ASSUME Rangees, [Next]_vars, NEW x \in Demandes
  PROVE  \/ emprunts'[x].statut = emprunts[x].statut
         \/ emprunts'[x].statut \in Suivants[emprunts[x].statut]
<1>1. ASSUME NEW d \in Demandes, PasDemande(d)
      PROVE  \/ emprunts'[x].statut = emprunts[x].statut
             \/ emprunts'[x].statut \in Suivants[emprunts[x].statut]
  BY <1>1, StatutDemande DEF Suivants
<1>2. ASSUME NEW r \in Retours, PasRetour(r)
      PROVE  \/ emprunts'[x].statut = emprunts[x].statut
             \/ emprunts'[x].statut \in Suivants[emprunts[x].statut]
  BY <1>2, StatutRendre DEF Suivants, Actif
<1>3. ASSUME NEW t \in Taches, PasTache(t)
      PROVE  \/ emprunts'[x].statut = emprunts[x].statut
             \/ emprunts'[x].statut \in Suivants[emprunts[x].statut]
  BY <1>3, StatutTache DEF Suivants, Pris, Effet
<1>4. ASSUME NEW s \in Radiations, PasRadiation(s)
      PROVE  \/ emprunts'[x].statut = emprunts[x].statut
             \/ emprunts'[x].statut \in Suivants[emprunts[x].statut]
  BY <1>4, StatutRadiation DEF Suivants
<1>5. CASE \/ PasEnvironnement \/ UNCHANGED vars
           \/ \E m \in Editions : PasEdition(m)
           \/ \E l \in Livres : PasLivre(l)
           \/ \E s \in Retraits : PasRetrait(s)
  BY <1>5, CadreEnvironnement, CadreEdition, CadreLivre, CadreRetrait
<1> QED BY <1>1, <1>2, <1>3, <1>4, <1>5, PasSuivant DEF UnPas

(* A loan only goes forward, in the whole library: no job, no deletion and *)
(* no return revives a loan that was returned, clears the mark of a late   *)
(* one, or archives or deletes one that is out.                            *)
THEOREM StatutProgressePartout == Spec => StatutProgresse
<1>1. ASSUME Rangees, [Next]_vars
      PROVE  [\A e \in Demandes :
                emprunts'[e].statut # emprunts[e].statut
                  => emprunts'[e].statut \in Suivants[emprunts[e].statut]]_emprunts
  BY <1>1, ProgresSuivant
<1> QED BY <1>1, RangeesInvariant, PTL DEF Spec, StatutProgresse

-----------------------------------------------------------------------------
(* References                                                              *)

(* The loans of a user whose deletion is under way are all before it or    *)
(* behind it: none is inserted past the snapshot of the cascade.  A user   *)
(* whose deletion has succeeded is gone.                                   *)
Cascades ==
  \A s \in Radiations :
    /\ radiation[s].phase = "cascade" =>
         EmpruntsDe(radiation[s].utilisateur) \subseteq radiation[s].restants \cup radiation[s].effaces
    /\ radiation[s].reponse = "204" => utilisateurs[radiation[s].utilisateur] = "efface"

Integre == Rangees /\ IntegriteReferentielle /\ Cascades

(* The steps of all but the deletions of users put no loan in the table,   *)
(* but that of an INSERT, and delete no user.                              *)
LEMMA CascadesNeutre ==
  ASSUME Integre, UnPas, radiation' = radiation,
         \A u \in Utilisateurs : utilisateurs'[u] = "efface" <=> utilisateurs[u] = "efface",
         \A s \in Radiations, x \in Demandes :
           /\ radiation[s].phase = "cascade" /\ emprunts[x].utilisateur = radiation[s].utilisateur
           /\ emprunts'[x].statut \in EnTable
           => emprunts[x].statut \in EnTable
  PROVE  Cascades'
<1>0. /\ \A x \in Demandes : emprunts'[x].utilisateur = emprunts[x].utilisateur
      /\ \A s \in Radiations : radiation[s].utilisateur \in Utilisateurs
  BY ParametresToujoursFixes, RangeesSocle DEF Integre, TypeOK, TypeSuppressions, Radiation
<1>1. ASSUME NEW s \in Radiations, radiation[s].phase = "cascade"
      PROVE  EmpruntsDe(radiation[s].utilisateur)' \subseteq EmpruntsDe(radiation[s].utilisateur)
  BY <1>0, <1>1 DEF EmpruntsDe
<1>2. ASSUME NEW s \in Radiations
      PROVE  /\ radiation'[s].phase = "cascade" =>
                  EmpruntsDe(radiation[s].utilisateur)'
                    \subseteq radiation'[s].restants \cup radiation'[s].effaces
             /\ radiation'[s].reponse = "204" => utilisateurs'[radiation'[s].utilisateur] = "efface"
  BY <1>0, <1>1, <1>2 DEF Integre, Cascades
<1> QED BY <1>2 DEF Cascades

LEMMA IntegriteNeutre ==
  ASSUME Integre, UnPas,
         \A u \in Utilisateurs : utilisateurs'[u] = "efface" <=> utilisateurs[u] = "efface",
         \A x \in Demandes : emprunts'[x].statut \in EnTable => emprunts[x].statut \in EnTable,
         \A l \in Livres : livres[l].etat \in {"visible", "masque"}
                             => livres'[l].etat \in {"visible", "masque"}
  PROVE  IntegriteReferentielle'
<1>0. \A x \in Demandes : /\ emprunts'[x].utilisateur = emprunts[x].utilisateur
                          /\ emprunts'[x].livre = emprunts[x].livre
                          /\ emprunts[x].utilisateur \in Utilisateurs
                          /\ emprunts[x].livre \in Livres
  BY ParametresToujoursFixes, RangeesSocle
     DEF Integre, TypeOK, TypeEmprunts, TypeBase, Emprunt
<1> QED BY <1>0 DEF Integre, IntegriteReferentielle

LEMMA IntegreDemande ==
  ASSUME Integre, NEW d \in Demandes, PasDemande(d)
  PROVE  Integre'
<1>0. /\ Rangees /\ Rangees' /\ TypeOK /\ VerrousRendus /\ UnPas
      /\ UNCHANGED <<utilisateurs, verrouUtilisateur, radiation>>
      /\ \A x \in Demandes : /\ emprunts'[x].utilisateur = emprunts[x].utilisateur
                             /\ emprunts'[x].livre = emprunts[x].livre
                             /\ emprunts[x].utilisateur \in Utilisateurs
                             /\ emprunts[x].livre \in Livres
      /\ \A l \in Livres : livres'[l].etat = livres[l].etat
      /\ Libre \notin Radiations
  BY RangeesDemande, RangeesSocle, CadreDemande, ParametresToujoursFixes, LivresEmprunts,
     TransactionsDistinctes DEF Integre, UnPas, TypeOK, TypeEmprunts, TypeBase, Emprunt
<1>1. ASSUME NEW x \in Demandes
      PROVE  \/ emprunts'[x].statut = emprunts[x].statut
             \/ /\ verrouUtilisateur[emprunts[x].utilisateur] = Libre
                /\ livres[emprunts[x].livre].etat = "visible"
                /\ utilisateurs[emprunts[x].utilisateur] # "efface"
  <2>1. CASE emprunts'[x] = emprunts[x]
    BY <2>1
  <2>2. CASE x = d /\ Inserer(d) /\ utilisateurs[emprunts[d].utilisateur] # "efface"
    <3>1. demande[d].phase = "comptee" /\ verrouUtilisateur[emprunts[d].utilisateur] = Libre
      BY <2>2 DEF Inserer
    <3> QED BY <1>0, <2>2, <3>1 DEF Rangees, LivresPresents
  <2> QED BY <1>0, <2>1, <2>2, StatutDemande
<1>2. IntegriteReferentielle'
  BY <1>0, <1>1 DEF Integre, IntegriteReferentielle
<1>3. \A s \in Radiations, x \in Demandes :
        /\ radiation[s].phase = "cascade" /\ emprunts[x].utilisateur = radiation[s].utilisateur
        /\ emprunts'[x].statut \in EnTable
        => emprunts[x].statut \in EnTable
  BY <1>0, <1>1 DEF VerrousRendus
<1>4. Cascades'
  BY <1>0, <1>3, CascadesNeutre
<1> QED BY <1>0, <1>2, <1>4 DEF Integre

(* The steps that insert no loan and delete neither a book nor a user.     *)
LEMMA IntegreNeutre ==
  ASSUME Integre,
         \/ \E r \in Retours : PasRetour(r)
         \/ \E t \in Taches : PasTache(t)
         \/ \E m \in Editions : PasEdition(m)
         \/ \E l \in Livres : PasLivre(l)
         \/ PasEnvironnement
  PROVE  Integre'
<1>0. UnPas /\ TypeOK /\ Rangees /\ Rangees'
  BY RangeesRetour, RangeesTache, RangeesCatalogue, RangeesSocle, RangeesSuivant
     DEF UnPas, Integre, PasEnvironnement, Next
<1>1. radiation' = radiation
  BY CadreRetour, CadreTache, CadreEdition, CadreLivre, CadreEnvironnement
<1>2. \A u \in Utilisateurs : utilisateurs'[u] = "efface" <=> utilisateurs[u] = "efface"
  <2>1. utilisateurs \in [Utilisateurs -> {"actif", "inactif", "efface"}]
    BY <1>0 DEF TypeOK, TypeEmprunts, TypeBase
  <2>2. CASE PasEnvironnement
    BY <2>1, <2>2 DEF PasEnvironnement, NextEnvironnement, ChangerDeJour, ChangerCompte, tables
  <2> QED BY <2>2, CadreRetour, CadreTache, CadreEdition, CadreLivre
<1>3. \A x \in Demandes : emprunts'[x].statut \in EnTable => emprunts[x].statut \in EnTable
  <2>1. ASSUME NEW r \in Retours, PasRetour(r), NEW x \in Demandes
        PROVE  emprunts'[x].statut \in EnTable => emprunts[x].statut \in EnTable
    BY <1>0, <2>1, StatutRendre DEF EnTable
  <2>2. ASSUME NEW t \in Taches, PasTache(t), NEW x \in Demandes
        PROVE  emprunts'[x].statut \in EnTable => emprunts[x].statut \in EnTable
    BY <1>0, <2>2, StatutTache DEF EnTable, Actif, Pris
  <2> QED BY <2>1, <2>2, CadreEdition, CadreLivre, CadreEnvironnement
<1>4. \A l \in Livres : livres[l].etat \in {"visible", "masque"}
                          => livres'[l].etat \in {"visible", "masque"}
  <2>0. livres \in [Livres -> Livre] /\ \A m \in Editions : edition[m].livre \in Livres
    BY <1>0 DEF TypeOK, TypeEmprunts, TypeBase, TypeCatalogue
  <2>1. ASSUME NEW m \in Editions, PasEdition(m), NEW l \in Livres
        PROVE  livres'[l].etat = livres[l].etat
    <3> DEFINE k == edition[m].livre
    <3>1. CASE UNCHANGED livres
      BY <3>1
    <3>2. CASE Ecriture(m, k)
      <4>1. PICK n \in Totaux \cup {edition[m].lu.nombre} :
              livres' = [livres EXCEPT ![k].nombre = n, ![k].dispo = AjusterStock(edition[m].lu, n)]
        BY <3>2 DEF Ecriture
      <4> HIDE DEF k
      <4> QED BY <2>0, <4>1 DEF Livre
    <3> QED BY <1>0, <2>1, <3>1, <3>2, EffetEdition
  <2>2. ASSUME NEW k \in Livres, PasLivre(k), NEW l \in Livres
        PROVE  livres[l].etat \in {"visible", "masque"} => livres'[l].etat \in {"visible", "masque"}
    BY <2>0, <2>2 DEF PasLivre, CreerLivre, MasquerLivre, LivreNeuf, Livre
  <2> QED BY <1>0, <2>1, <2>2, LivresEmprunts, CadreTache, CadreEnvironnement
<1>5. IntegriteReferentielle'
  BY <1>0, <1>2, <1>3, <1>4, IntegriteNeutre
<1>6. Cascades'
  BY <1>0, <1>1, <1>2, <1>3, CascadesNeutre
<1> QED BY <1>0, <1>5, <1>6 DEF Integre

(* A book goes when no row refers to it: its lock keeps any from coming.   *)
LEMMA IntegreRetrait ==
  ASSUME Integre, NEW s \in Retraits, PasRetrait(s)
  PROVE  Integre'
<1>0. /\ UnPas /\ TypeOK /\ Rangees'
      /\ UNCHANGED <<utilisateurs, emprunts, radiation>>
      /\ livres \in [Livres -> Livre]
      /\ \A x \in Demandes : emprunts[x].livre \in Livres
  BY RangeesRetrait, RangeesSocle, CadreRetrait
     DEF UnPas, Integre, TypeOK, TypeEmprunts, TypeBase, Emprunt
<1>1. ASSUME NEW x \in Demandes, emprunts[x].statut \in EnTable
      PROVE  livres'[emprunts[x].livre] = livres[emprunts[x].livre]
  BY <1>0, <1>1, EffetRetrait DEF Referents
<1>2. IntegriteReferentielle'
  BY <1>0, <1>1 DEF Integre, IntegriteReferentielle
<1>3. Cascades'
  BY <1>0, CascadesNeutre
<1> QED BY <1>0, <1>2, <1>3 DEF Integre

LEMMA IntegreRadiation ==
  ASSUME Integre, NEW s \in Radiations, PasRadiation(s)
  PROVE  Integre'
<1>0. /\ UnPas /\ TypeOK /\ Rangees /\ Rangees' /\ livres' = livres
      /\ radiation \in [Radiations -> Radiation]
      /\ utilisateurs \in [Utilisateurs -> {"actif", "inactif", "efface"}]
      /\ \A x \in Demandes : /\ emprunts'[x].utilisateur = emprunts[x].utilisateur
                             /\ emprunts'[x].livre = emprunts[x].livre
                             /\ emprunts[x].utilisateur \in Utilisateurs
      /\ \A q \in Radiations : radiation[q].utilisateur \in Utilisateurs
  BY RangeesRadiation, RangeesSocle, CadreRadiation, ParametresToujoursFixes
     DEF UnPas, Integre, TypeOK, TypeEmprunts, TypeBase, Emprunt, TypeSuppressions, Radiation
<1> DEFINE u == radiation[s].utilisateur
<1>1. /\ \A q \in Radiations \ {s} : radiation'[q] = radiation[q]
      /\ radiation'[s].utilisateur = u
  <2>1. ASSUME NEW x \in Demandes, EffacerEmprunt(s, x)
        PROVE  /\ \A q \in Radiations \ {s} : radiation'[q] = radiation[q]
               /\ radiation'[s].utilisateur = u
    BY <1>0, <2>1 DEF EffacerEmprunt, TerminerRadiation, Radiation
  <2>2. CASE VerrouillerRadiation(s) \/ ValiderRadiation(s) \/ AnnulerRadiation(s)
    BY <1>0, <2>2 DEF VerrouillerRadiation, ValiderRadiation, AnnulerRadiation,
       TerminerRadiation, Radiation
  <2> QED BY <2>1, <2>2 DEF PasRadiation, EtapeRadiation
<1>2. \A x \in Demandes : emprunts'[x].statut \in EnTable => emprunts[x].statut \in EnTable
  BY <1>0, StatutRadiation DEF EnTable, Actif
<1>3. \A v \in Utilisateurs : EmpruntsDe(v)' \subseteq EmpruntsDe(v)
  BY <1>0, <1>2 DEF EmpruntsDe
<1>4. \A v \in Utilisateurs : utilisateurs[v] = "efface" => utilisateurs'[v] = "efface"
  BY <1>0 DEF PasRadiation, EtapeRadiation, VerrouillerRadiation, EffacerEmprunt,
     ValiderRadiation, AnnulerRadiation, tables
<1>5. CASE ValiderRadiation(s)
  <2>1. /\ radiation[s].phase = "cascade" /\ radiation[s].restants = {}
        /\ utilisateurs' = [utilisateurs EXCEPT ![u] = "efface"]
        /\ Basculer(radiation[s].effaces, "efface")
        /\ TerminerRadiation(s, "204")
    BY <1>5 DEF ValiderRadiation
  <2>2. EmpruntsDe(u) \subseteq radiation[s].effaces
    BY <2>1 DEF Integre, Cascades
  <2>3. \A x \in Demandes : emprunts[x].utilisateur = u => emprunts'[x].statut \notin EnTable
    <3>1. \A x \in radiation[s].effaces : x \in Demandes => emprunts'[x].statut = "efface"
      <4>1. emprunts \in [Demandes -> Emprunt]
        BY <1>0 DEF TypeOK, TypeEmprunts, TypeBase
      <4> QED BY <2>1, <4>1 DEF Basculer, Emprunt
    <3> QED BY <1>2, <2>2, <3>1 DEF EmpruntsDe, EnTable, Actif
  <2>4. IntegriteReferentielle'
    <3>1. \A v \in Utilisateurs \ {u} : utilisateurs'[v] = utilisateurs[v]
      BY <1>0, <2>1
    <3> QED BY <1>0, <1>2, <2>3, <3>1 DEF Integre, IntegriteReferentielle
  <2>5. radiation'[s].phase = "terminee" /\ utilisateurs'[u] = "efface"
    BY <1>0, <2>1 DEF TerminerRadiation, Radiation
  <2>6. ASSUME NEW q \in Radiations \ {s}
        PROVE  /\ radiation'[q].phase = "cascade" =>
                    EmpruntsDe(radiation[q].utilisateur)'
                      \subseteq radiation'[q].restants \cup radiation'[q].effaces
               /\ radiation'[q].reponse = "204" => utilisateurs'[radiation'[q].utilisateur] = "efface"
    BY <1>0, <1>1, <1>3, <1>4, <2>6 DEF Integre, Cascades
  <2>7. Cascades'
    BY <1>1, <2>5, <2>6 DEF Cascades
  <2> QED BY <1>0, <2>4, <2>7 DEF Integre
<1>6. CASE ~ ValiderRadiation(s)
  <2>1. emprunts' = emprunts /\ utilisateurs' = utilisateurs
    BY <1>6 DEF PasRadiation, EtapeRadiation, VerrouillerRadiation, EffacerEmprunt,
       AnnulerRadiation, tables
  <2>2. IntegriteReferentielle'
    BY <1>0, <2>1 DEF Integre, IntegriteReferentielle
  <2>3. EmpruntsDe(u)' = EmpruntsDe(u)
    BY <1>1, <2>1 DEF EmpruntsDe
  <2>4. /\ radiation'[s].phase = "cascade" =>
             EmpruntsDe(u) \subseteq radiation'[s].restants \cup radiation'[s].effaces
        /\ radiation'[s].reponse = "204" => radiation[s].reponse = "204"
    <3>1. CASE VerrouillerRadiation(s)
      BY <1>0, <3>1 DEF VerrouillerRadiation, TerminerRadiation, Radiation
    <3>2. CASE AnnulerRadiation(s)
      BY <1>0, <3>2 DEF AnnulerRadiation, TerminerRadiation, Radiation
    <3>3. ASSUME NEW x \in Demandes, EffacerEmprunt(s, x)
          PROVE  /\ radiation'[s].phase = "cascade" =>
                      EmpruntsDe(u) \subseteq radiation'[s].restants \cup radiation'[s].effaces
                 /\ radiation'[s].reponse = "204" => radiation[s].reponse = "204"
      <4>1. CASE TerminerRadiation(s, "500")
        BY <1>0, <4>1 DEF TerminerRadiation, Radiation
      <4>2. CASE ~ TerminerRadiation(s, "500")
        <5>1. /\ radiation'[s].phase = radiation[s].phase
              /\ radiation'[s].reponse = radiation[s].reponse
              /\ radiation'[s].restants = radiation[s].restants \ {x}
              /\ \/ radiation'[s].effaces = radiation[s].effaces \cup {x}
                 \/ radiation'[s].effaces = radiation[s].effaces /\ emprunts[x].statut \notin EnTable
          BY <1>0, <3>3, <4>2 DEF EffacerEmprunt, Radiation
        <5>2. radiation[s].phase = "cascade" =>
                EmpruntsDe(u) \subseteq radiation[s].restants \cup radiation[s].effaces
          BY DEF Integre, Cascades
        <5>3. emprunts[x].statut \notin EnTable => x \notin EmpruntsDe(u)
          BY DEF EmpruntsDe
        <5> QED BY <5>1, <5>2, <5>3
      <4> QED BY <4>1, <4>2
    <3> QED BY <1>6, <3>1, <3>2, <3>3 DEF PasRadiation, EtapeRadiation
  <2>5. ASSUME NEW q \in Radiations \ {s}
        PROVE  /\ radiation'[q].phase = "cascade" =>
                    EmpruntsDe(radiation[q].utilisateur)'
                      \subseteq radiation'[q].restants \cup radiation'[q].effaces
               /\ radiation'[q].reponse = "204" => utilisateurs'[radiation'[q].utilisateur] = "efface"
    BY <1>0, <1>1, <1>3, <2>1, <2>5 DEF Integre, Cascades
  <2>6. Cascades'
    <3>1. radiation[s].reponse = "204" => utilisateurs[u] = "efface"
      BY DEF Integre, Cascades
    <3> QED BY <1>1, <2>1, <2>3, <2>4, <2>5, <3>1 DEF Cascades
  <2> QED BY <1>0, <2>2, <2>6 DEF Integre
<1> QED BY <1>5, <1>6

LEMMA IntegreSuivant ==
  ASSUME Integre, [Next]_vars
  PROVE  Integre'
<1>1. CASE UNCHANGED vars
  <2>1. Rangees'
    BY RangeesSuivant DEF Integre
  <2> QED BY <1>1, <2>1 DEF vars, varsBase, Integre, IntegriteReferentielle, Cascades, EmpruntsDe
<1> QED BY <1>1, PasSuivant, IntegreDemande, IntegreNeutre, IntegreRetrait, IntegreRadiation
        DEF UnPas

LEMMA IntegreInit ==
  ASSUME Init
  PROVE  Integre
<1>1. IntegriteReferentielle
  BY DEF Init, InitEmprunts, InitBase, IntegriteReferentielle, EnTable, Actif
<1>2. Cascades
  BY DEF Init, InitSuppressions, Cascades
<1> QED BY <1>1, <1>2, RangeesInit DEF Integre

LEMMA IntegreInvariant == Spec => []Integre
BY IntegreInit, IntegreSuivant, PTL DEF Spec

(* A loan in the table always refers to a book and to a user that are      *)
(* there: the INSERT, which has read both before, and the two physical     *)
(* deletions exclude each other by the row locks alone.                    *)
THEOREM ReferencesToujoursIntegres == Spec => []IntegriteReferentielle
<1>1. Integre => IntegriteReferentielle
  BY DEF Integre
<1> QED BY <1>1, IntegreInvariant, PTL

(* A user whose deletion has succeeded has no book out, and never will: no *)
(* call that had read him before gets its loan in afterwards.              *)
THEOREM RadiationToujoursSansPret == Spec => []RadiationSansPret
<1>1. ASSUME Integre
      PROVE  RadiationSansPret
  <2> SUFFICES ASSUME NEW s \in Radiations, radiation[s].reponse = "204"
               PROVE  EmpruntsActifs(radiation[s].utilisateur) = {}
    BY DEF RadiationSansPret
  <2>1. utilisateurs[radiation[s].utilisateur] = "efface"
    BY <1>1 DEF Integre, Cascades
  <2> QED BY <1>1, <2>1 DEF Integre, IntegriteReferentielle, EmpruntsActifs, EnTable
<1> QED BY <1>1, IntegreInvariant, PTL

-----------------------------------------------------------------------------
(* The stock under the edits                                               *)

(* No copy of a book that is not there yet is out; the stock an edit works *)
(* on is one the constraints have accepted.                                *)
LivresAbsents == \A l \in Livres : livres[l].etat = "absent" => livres[l].dispo = livres[l].nombre
LusAdmis == \A m \in Editions : edition[m].phase = "lue" => StockAdmis(edition[m].lu)

Stocks == Integre /\ LivresAbsents /\ LusAdmis /\ StockBorne

LEMMA EffetLivre ==
  ASSUME TypeOK, NEW k \in Livres, PasLivre(k), NEW l \in Livres
  PROVE  /\ \/ livres'[l].dispo = livres[l].dispo /\ livres'[l].nombre = livres[l].nombre
            \/ /\ livres[l].etat = "absent"
               /\ livres'[l].nombre \in Totaux /\ livres'[l].dispo = livres'[l].nombre
         /\ livres'[l].etat = "absent" => livres'[l] = livres[l]
<1>0. livres \in [Livres -> Livre]
  BY DEF TypeOK, TypeEmprunts, TypeBase
<1>1. CASE CreerLivre(k)
  <2>1. PICK n \in Totaux : livres' = [livres EXCEPT ![k] = LivreNeuf(n)]
    BY <1>1 DEF CreerLivre
  <2> QED BY <1>0, <1>1, <2>1 DEF CreerLivre, LivreNeuf
<1>2. CASE MasquerLivre(k)
  BY <1>0, <1>2 DEF MasquerLivre, Livre
<1> QED BY <1>1, <1>2 DEF PasLivre

LEMMA NombresRetrait ==
  ASSUME TypeOK, NEW s \in Retraits, PasRetrait(s), NEW l \in Livres
  PROVE  /\ livres'[l].dispo = livres[l].dispo /\ livres'[l].nombre = livres[l].nombre
         /\ livres'[l].etat = "absent" => livres[l].etat = "absent"
<1>0. livres \in [Livres -> Livre]
  BY DEF TypeOK, TypeEmprunts, TypeBase
<1> DEFINE k == retrait[s].livre
<1>1. CASE livres' = [livres EXCEPT ![k].etat = "efface"]
  <2> HIDE DEF k
  <2> QED BY <1>0, <1>1 DEF Livre
<1> QED BY <1>1, EffetRetrait

(* What an edit writes: the total it wants, less the copies its reading    *)
(* says are out.                                                           *)
LEMMA ValeursEcrites ==
  ASSUME TypeOK, NEW m \in Editions, NEW l \in Livres, Ecriture(m, l)
  PROVE  /\ livres'[l].nombre \in Nat /\ livres'[l].dispo \in Int
         /\ livres'[l].dispo >= 0
         /\ livres'[l].nombre - livres'[l].dispo = edition[m].lu.nombre - edition[m].lu.dispo
         /\ livres'[l].etat = "visible"
         /\ \A k \in Livres \ {l} : livres'[k] = livres[k]
<1>0. /\ livres \in [Livres -> Livre]
      /\ edition[m].lu.nombre \in Nat /\ edition[m].lu.dispo \in Int
  BY DEF TypeOK, TypeEmprunts, TypeBase, TypeCatalogue, Livre
<1>1. PICK n \in Totaux \cup {edition[m].lu.nombre} :
        /\ ~ AjusterRefuse(edition[m].lu, n)
        /\ livres' = [livres EXCEPT ![l].nombre = n, ![l].dispo = AjusterStock(edition[m].lu, n)]
  BY DEF Ecriture
<1>2. n \in Nat
  BY <1>0, TotauxAssumption
<1>3. /\ livres'[l].nombre = n
      /\ livres'[l].dispo = AjusterStock(edition[m].lu, n)
      /\ livres'[l].etat = livres[l].etat
      /\ \A k \in Livres \ {l} : livres'[k] = livres[k]
  BY <1>0, <1>1 DEF Livre
<1> QED BY <1>0, <1>1, <1>2, <1>3 DEF AjusterStock, AjusterRefuse, Empruntes, Ecriture

LEMMA LusSuivant ==
  ASSUME Stocks, UnPas
  PROVE  LusAdmis'
<1>0. /\ TypeOK
      /\ edition \in [Editions -> [phase : {"recue", "lue", "ecrite", "terminee"}, livre : Livres,
                                   lu : Livre,
                                   reponse : {"aucune", "200", "404", "409", "422", "500"}]]
  BY RangeesSocle DEF Stocks, Integre, TypeOK, TypeCatalogue
<1>1. ASSUME NEW m \in Editions, PasEdition(m)
      PROVE  LusAdmis'
  <2>1. \A x \in Editions \ {m} : edition'[x] = edition[x]
    BY <1>0, <1>1, EffetEdition
  <2>2. edition'[m].phase = "lue" => StockAdmis(edition'[m].lu)
    <3>1. CASE LireLivre(m)
      <4>1. StockAdmis(livres[edition[m].livre])
        BY <1>0 DEF Stocks, StockBorne
      <4>2. \/ edition' = [edition EXCEPT ![m].phase = "lue", ![m].lu = livres[edition[m].livre]]
            \/ TerminerEdition(m, "404")
        BY <3>1 DEF LireLivre
      <4> QED BY <1>0, <4>1, <4>2 DEF TerminerEdition
    <3>2. CASE ~ LireLivre(m)
      BY <1>0, <1>1, <3>2 DEF PasEdition, EtapeEdition, EcrireLivre, RelireLivre, AnnulerEdition,
         TerminerEdition
    <3> QED BY <3>1, <3>2
  <2> QED BY <2>1, <2>2 DEF Stocks, LusAdmis
<1>2. CASE ~ \E m \in Editions : PasEdition(m)
  <2>1. edition' = edition
    BY <1>2, CadreDemande, CadreRetour, CadreTache, CadreLivre, CadreRetrait, CadreRadiation,
       CadreEnvironnement DEF UnPas
  <2> QED BY <2>1 DEF Stocks, LusAdmis
<1> QED BY <1>1, <1>2

LEMMA BorneSuivant ==
  ASSUME Stocks, UnPas, NEW l \in Livres
  PROVE  /\ StockAdmis(livres'[l])
         /\ livres'[l].etat = "absent" => livres'[l].dispo = livres'[l].nombre
<1>0. /\ Rangees /\ Socle /\ TypeOK
      /\ livres \in [Livres -> Livre] /\ livres[l].dispo \in Int /\ livres[l].nombre \in Nat
      /\ livres[l].dispo >= 0 /\ livres[l].dispo <= livres[l].nombre
      /\ livres[l].etat = "absent" => livres[l].dispo = livres[l].nombre
      /\ \A x \in Demandes : emprunts[x].livre \in Livres
      /\ \A r \in Retours : retour[r].emprunt \in Demandes
  BY RangeesSocle DEF Stocks, Integre, StockBorne, StockAdmis, LivresAbsents, TypeOK,
     TypeEmprunts, TypeBase, Emprunt, Livre, Retour
<1>1. CASE livres'[l] = livres[l]
  BY <1>0, <1>1 DEF StockAdmis
<1>2. ASSUME NEW d \in Demandes, PasDemande(d)
      PROVE  /\ StockAdmis(livres'[l])
             /\ livres'[l].etat = "absent" => livres'[l].dispo = livres'[l].nombre
  <2>1. CASE Inserer(d) /\ utilisateurs[emprunts[d].utilisateur] # "efface"
    <3>1. CASE emprunts[d].livre = l
      <4>1. demande[d].phase = "comptee"
        BY <2>1 DEF Inserer
      <4>2. livres[l].dispo >= 1 /\ livres[l].etat = "visible"
        BY <1>0, <3>1, <4>1 DEF Rangees, Lignes, ExemplaireTenu, LivresPresents
      <4>3. /\ livres'[l].dispo = livres[l].dispo - 1 /\ livres'[l].nombre = livres[l].nombre
            /\ livres'[l].etat = livres[l].etat
        BY <1>0, <1>2, <2>1, <3>1, SortisInserer, LivresEmprunts
      <4> QED BY <1>0, <4>2, <4>3 DEF StockAdmis
    <3>2. CASE emprunts[d].livre # l
      BY <1>0, <1>1, <2>1, <3>2, SortisInserer
    <3> QED BY <3>1, <3>2
  <2> QED BY <1>1, <1>2, <2>1, EffetDemande DEF PasDemande
<1>3. ASSUME NEW r \in Retours, PasRetour(r)
      PROVE  /\ StockAdmis(livres'[l])
             /\ livres'[l].etat = "absent" => livres'[l].dispo = livres'[l].nombre
  <2> DEFINE e == retour[r].emprunt
  <2>1. CASE Rendre(r) /\ StockAdmis(Reintegrer(livres[emprunts[e].livre]))
    <3>1. CASE emprunts[e].livre = l
      <4>1. livres' = [livres EXCEPT ![l] = Reintegrer(livres[l])] /\ StockAdmis(Reintegrer(livres[l]))
        BY <2>1, <3>1 DEF Rendre
      <4>2. livres[l].etat # "absent"
        BY <1>0, <2>1, <3>1 DEF Stocks, Integre, IntegriteReferentielle, Rangees, Lignes, PretTenu,
           Rendre, EnTable
      <4>3. livres'[l].etat = livres[l].etat
        BY <1>0, <1>3, LivresEmprunts
      <4> QED BY <1>0, <4>1, <4>2, <4>3
    <3>2. CASE emprunts[e].livre # l
      BY <1>0, <1>1, <2>1, <3>2, SortisRendre
    <3> QED BY <3>1, <3>2
  <2> QED BY <1>1, <1>3, <2>1, EffetRetour DEF PasRetour
<1>4. ASSUME NEW m \in Editions, PasEdition(m)
      PROVE  /\ StockAdmis(livres'[l])
             /\ livres'[l].etat = "absent" => livres'[l].dispo = livres'[l].nombre
  <2>1. CASE Ecriture(m, edition[m].livre)
    <3>1. edition[m].livre \in Livres /\ edition[m].lu.nombre \in Nat /\ edition[m].lu.dispo \in Int
      BY <1>0 DEF TypeOK, TypeCatalogue, Livre
    <3>2. CASE edition[m].livre = l
      <4>1. edition[m].lu.dispo <= edition[m].lu.nombre
        BY <2>1 DEF Stocks, LusAdmis, StockAdmis, Ecriture
      <4> QED BY <1>0, <2>1, <3>1, <3>2, <4>1, ValeursEcrites DEF StockAdmis
    <3>3. CASE edition[m].livre # l
      BY <1>0, <1>1, <2>1, <3>1, <3>3, ValeursEcrites
    <3> QED BY <3>2, <3>3
  <2> QED BY <1>0, <1>1, <1>4, <2>1, EffetEdition
<1>5. ASSUME NEW k \in Livres, PasLivre(k)
      PROVE  /\ StockAdmis(livres'[l])
             /\ livres'[l].etat = "absent" => livres'[l].dispo = livres'[l].nombre
  <2>1. CASE livres'[l].dispo = livres[l].dispo /\ livres'[l].nombre = livres[l].nombre
    <3>1. livres'[l].etat = "absent" => livres'[l] = livres[l]
      BY <1>0, <1>5, EffetLivre
    <3> QED BY <1>0, <2>1, <3>1 DEF StockAdmis
  <2>2. CASE livres'[l].nombre \in Totaux /\ livres'[l].dispo = livres'[l].nombre
    <3>1. livres'[l].nombre \in Nat
      BY <2>2, TotauxAssumption
    <3> QED BY <2>2, <3>1 DEF StockAdmis
  <2> QED BY <1>0, <1>5, <2>1, <2>2, EffetLivre
<1>6. ASSUME NEW s \in Retraits, PasRetrait(s)
      PROVE  /\ StockAdmis(livres'[l])
             /\ livres'[l].etat = "absent" => livres'[l].dispo = livres'[l].nombre
  BY <1>0, <1>6, NombresRetrait DEF StockAdmis
<1>7. CASE \/ PasEnvironnement
           \/ \E t \in Taches : PasTache(t)
           \/ \E s \in Radiations : PasRadiation(s)
  BY <1>1, <1>7, CadreEnvironnement, CadreTache, CadreRadiation
<1> QED BY <1>2, <1>3, <1>4, <1>5, <1>6, <1>7 DEF UnPas

LEMMA StocksInit ==
  ASSUME Init
  PROVE  Stocks
<1>1. \A l \in Livres : livres[l].dispo = livres[l].nombre /\ livres[l].dispo \in Nat
  BY TotauxAssumption DEF Init, InitEmprunts, InitBase, LivreAbsent, LivreNeuf
<1>2. LusAdmis
  BY DEF Init, InitCatalogue, LusAdmis
<1> QED BY <1>1, <1>2, IntegreInit DEF Stocks, LivresAbsents, StockBorne, StockAdmis

LEMMA StocksSuivant ==
  ASSUME Stocks, [Next]_vars
  PROVE  Stocks'
<1>1. Integre'
  BY IntegreSuivant DEF Stocks
<1>2. CASE Next
  BY <1>1, <1>2, PasSuivant, LusSuivant, BorneSuivant DEF Stocks, LivresAbsents, StockBorne
<1>3. CASE UNCHANGED vars
  BY <1>1, <1>3 DEF vars, varsBase, Stocks, LivresAbsents, LusAdmis, StockBorne
<1> QED BY <1>2, <1>3

LEMMA StocksInvariant == Spec => []Stocks
BY StocksInit, StocksSuivant, PTL DEF Spec

(* The stock of every book stays between nothing and its total, whatever   *)
(* the edits write over the loans: ajusterStock, on a reading that may be  *)
(* stale, never computes a value the CHECK constraints would refuse.       *)
THEOREM StockBornePartout == Spec => []StockBorne
<1>1. Stocks => StockBorne
  BY DEF Stocks
<1> QED BY <1>1, StocksInvariant, PTL

-----------------------------------------------------------------------------
(* What a step does to the stock and to the loans of all the books at once *)

MemeStock(l) == livres'[l].nombre = livres[l].nombre /\ livres'[l].dispo = livres[l].dispo
MemesPrets == Revenus' = Revenus /\ \A l \in Livres : Sortis(l)' = Sortis(l)

(* A loan goes out, with a copy that was free.                             *)
SortiePret(k, d) ==
  /\ d \notin Revenus /\ \A l \in Livres : d \notin Sortis(l)
  /\ Sortis(k)' = Sortis(k) \cup {d}
  /\ livres[k].dispo >= 1
  /\ livres'[k].dispo = livres[k].dispo - 1 /\ livres'[k].nombre = livres[k].nombre
  /\ \A l \in Livres \ {k} : MemeStock(l) /\ Sortis(l)' = Sortis(l)
  /\ Revenus' = Revenus

(* A loan comes back, with its copy.                                       *)
EntreePret(k, e) ==
  /\ e \in Sortis(k)
  /\ Sortis(k)' = Sortis(k) \ {e}
  /\ livres'[k].dispo = livres[k].dispo + 1 /\ livres'[k].nombre = livres[k].nombre
  /\ \A l \in Livres \ {k} : MemeStock(l) /\ Sortis(l)' = Sortis(l)
  /\ Revenus' = Revenus \cup {e}

(* A book is bought, of which no loan can be out.                          *)
Achat(k) ==
  /\ MemesPrets /\ Sortis(k) = {}
  /\ livres[k].dispo = livres[k].nombre
  /\ livres'[k].nombre \in Nat /\ livres'[k].dispo = livres'[k].nombre
  /\ \A l \in Livres \ {k} : MemeStock(l)

(* An edit writes what it has computed from its reading.                   *)
Reevaluation(m, k) ==
  /\ MemesPrets /\ EcritLivre(m, k)
  /\ livres'[k].nombre \in Nat /\ livres'[k].dispo \in Int /\ livres'[k].dispo >= 0
  /\ livres'[k].nombre - livres'[k].dispo = edition[m].lu.nombre - edition[m].lu.dispo
  /\ \A l \in Livres \ {k} : MemeStock(l)
  /\ \A x \in Editions \ {m} : edition'[x] = edition[x]

Immobile == MemesPrets /\ \A l \in Livres : MemeStock(l)

(* The steps that write no edit.                                           *)
SansEcriture == \A m \in Editions, l \in Livres : ~ EcritLivre(m, l)

LEMMA EditionsFigees ==
  ASSUME UNCHANGED edition
  PROVE  SansEcriture
BY DEF SansEcriture, EcritLivre

(* The loans stay in and out when no status crosses Actif.                 *)
LEMMA PretsStables ==
  ASSUME \A x \in Demandes :
           /\ emprunts'[x].livre = emprunts[x].livre
           /\ emprunts'[x].statut \in Actif <=> emprunts[x].statut \in Actif
           /\ emprunts'[x].statut \in {"rendu", "archive", "efface"}
                <=> emprunts[x].statut \in {"rendu", "archive", "efface"}
  PROVE  MemesPrets
BY DEF MemesPrets, Sortis, Revenus

LEMMA MouvementDemande ==
  ASSUME Stocks, NEW d \in Demandes, PasDemande(d)
  PROVE  ((\E k \in Livres : SortiePret(k, d)) \/ Immobile) /\ SansEcriture
<1>0. /\ Rangees /\ Socle /\ TypeOK
      /\ emprunts[d].livre \in Livres
      /\ \A l \in Livres : livres[l].dispo \in Int
  BY RangeesSocle DEF Stocks, Integre, TypeOK, TypeEmprunts, TypeBase, Emprunt, Livre
<1>1. SansEcriture
  BY CadreDemande, EditionsFigees
<1>2. CASE UNCHANGED <<livres, emprunts>>
  BY <1>1, <1>2 DEF Immobile, MemesPrets, MemeStock, Sortis, Revenus
<1>3. CASE Inserer(d) /\ utilisateurs[emprunts[d].utilisateur] # "efface"
  <2>0. PICK k \in Livres : k = emprunts[d].livre
    BY <1>0
  <2>1. emprunts[d].statut = "aucun" /\ livres[k].dispo >= 1
    BY <1>0, <1>3, <2>0 DEF Inserer, Rangees, Lignes, SansLigne, ExemplaireTenu
  <2>2. d \notin Revenus /\ \A l \in Livres : d \notin Sortis(l)
    BY <2>1 DEF Revenus, Sortis, Actif
  <2>3. Revenus' = Revenus
    <3>1. \A x \in Demandes : \/ emprunts'[x] = emprunts[x]
                              \/ emprunts[x].statut = "aucun" /\ emprunts'[x].statut = "en_cours"
      BY <1>0, StatutDemande
    <3> QED BY <3>1 DEF Revenus
  <2>4. /\ Sortis(k)' = Sortis(k) \cup {d}
        /\ livres'[k].dispo = livres[k].dispo - 1 /\ livres'[k].nombre = livres[k].nombre
        /\ \A l \in Livres \ {k} : Sortis(l)' = Sortis(l) /\ livres'[l] = livres[l]
    BY <1>0, <1>3, <2>0, SortisInserer
  <2>5. SortiePret(k, d)
    BY <1>0, <2>1, <2>2, <2>3, <2>4 DEF SortiePret, MemeStock
  <2> QED BY <1>1, <2>5
<1> QED BY <1>2, <1>3, EffetDemande DEF PasDemande

LEMMA MouvementRetour ==
  ASSUME Stocks, NEW r \in Retours, PasRetour(r)
  PROVE  ((\E k \in Livres, e \in Demandes : EntreePret(k, e)) \/ Immobile) /\ SansEcriture
<1>0. Rangees /\ Socle /\ TypeOK
  BY RangeesSocle DEF Stocks, Integre
<1>a. PICK e \in Demandes, k \in Livres : e = retour[r].emprunt /\ k = emprunts[e].livre
  BY <1>0 DEF TypeOK, TypeEmprunts, TypeBase, Emprunt, Retour
<1>1. SansEcriture
  BY CadreRetour, EditionsFigees
<1>2. CASE UNCHANGED <<livres, emprunts>>
  BY <1>1, <1>2 DEF Immobile, MemesPrets, MemeStock, Sortis, Revenus
<1>3. CASE Rendre(r) /\ StockAdmis(Reintegrer(livres[k]))
  <2>1. /\ e \in Sortis(k) /\ Sortis(k)' = Sortis(k) \ {e}
        /\ livres'[k].dispo = livres[k].dispo + 1 /\ livres'[k].nombre = livres[k].nombre
        /\ \A l \in Livres \ {k} : Sortis(l)' = Sortis(l) /\ livres'[l] = livres[l]
    BY <1>0, <1>a, <1>3, SortisRendre
  <2>2. Revenus' = Revenus \cup {e}
    <3>1. \A x \in Demandes : \/ emprunts'[x] = emprunts[x]
                              \/ x = e /\ emprunts[x].statut \in Actif /\ emprunts'[x].statut = "rendu"
      BY <1>0, <1>a, StatutRendre
    <3>2. emprunts'[e].statut = "rendu"
      <4>1. emprunts \in [Demandes -> Emprunt]
        BY <1>0 DEF TypeOK, TypeEmprunts, TypeBase
      <4>2. emprunts' = [emprunts EXCEPT ![e].statut = "rendu",
                                         ![e].effective = retour[r].jour,
                                         ![e].penalite = Penalite(emprunts[e].prevue, retour[r].jour)]
        BY <1>a, <1>3 DEF Rendre
      <4> QED BY <4>1, <4>2 DEF Emprunt
    <3> QED BY <3>1, <3>2 DEF Revenus, Actif
  <2>3. EntreePret(k, e)
    BY <1>0, <2>1, <2>2 DEF EntreePret, MemeStock
  <2> QED BY <1>1, <2>3
<1> QED BY <1>a, <1>2, <1>3, EffetRetour DEF PasRetour

LEMMA MouvementTache ==
  ASSUME Stocks, NEW t \in Taches, PasTache(t)
  PROVE  Immobile /\ SansEcriture
<1>1. \A x \in Demandes : /\ emprunts'[x].statut \in Actif <=> emprunts[x].statut \in Actif
                          /\ emprunts'[x].statut \in {"rendu", "archive", "efface"}
                               <=> emprunts[x].statut \in {"rendu", "archive", "efface"}
  BY StatutTache DEF Stocks, Integre, Pris, Effet, Actif, Taches
<1>2. \A x \in Demandes : emprunts'[x].livre = emprunts[x].livre
  BY RangeesSocle, ParametresToujoursFixes DEF Stocks, Integre, UnPas
<1> QED BY <1>1, <1>2, PretsStables, CadreTache, EditionsFigees DEF Immobile, MemeStock

LEMMA MouvementRadiation ==
  ASSUME Stocks, NEW s \in Radiations, PasRadiation(s)
  PROVE  Immobile /\ SansEcriture
<1>1. \A x \in Demandes : /\ emprunts'[x].statut \in Actif <=> emprunts[x].statut \in Actif
                          /\ emprunts'[x].statut \in {"rendu", "archive", "efface"}
                               <=> emprunts[x].statut \in {"rendu", "archive", "efface"}
  BY StatutRadiation DEF Stocks, Integre, Actif
<1>2. \A x \in Demandes : emprunts'[x].livre = emprunts[x].livre
  BY RangeesSocle, ParametresToujoursFixes DEF Stocks, Integre, UnPas
<1> QED BY <1>1, <1>2, PretsStables, CadreRadiation, EditionsFigees DEF Immobile, MemeStock

LEMMA MouvementRetrait ==
  ASSUME Stocks, NEW s \in Retraits, PasRetrait(s)
  PROVE  Immobile /\ SansEcriture
<1>1. UNCHANGED <<emprunts, edition>> /\ TypeOK
  BY RangeesSocle, CadreRetrait DEF Stocks, Integre
<1>2. MemesPrets
  BY <1>1, PretsStables
<1> QED BY <1>1, <1>2, NombresRetrait, EditionsFigees DEF Immobile, MemeStock

LEMMA MouvementLivre ==
  ASSUME Stocks, NEW k \in Livres, PasLivre(k)
  PROVE  (Immobile \/ \E l \in Livres : Achat(l)) /\ SansEcriture
<1>1. UNCHANGED <<emprunts, edition>> /\ TypeOK /\ livres \in [Livres -> Livre]
  BY RangeesSocle, CadreLivre DEF Stocks, Integre, TypeOK, TypeEmprunts, TypeBase
<1>2. MemesPrets
  BY <1>1, PretsStables
<1>3. CASE CreerLivre(k)
  <2>1. PICK n \in Totaux : livres' = [livres EXCEPT ![k] = LivreNeuf(n)]
    BY <1>3 DEF CreerLivre
  <2>2. /\ livres'[k].nombre \in Nat /\ livres'[k].dispo = livres'[k].nombre
        /\ \A l \in Livres \ {k} : livres'[l] = livres[l]
    BY <1>1, <2>1, TotauxAssumption DEF LivreNeuf
  <2>3. livres[k].etat = "absent" /\ livres[k].dispo = livres[k].nombre
    BY <1>3 DEF CreerLivre, Stocks, LivresAbsents
  <2>4. Sortis(k) = {}
    BY <2>3 DEF Stocks, Integre, IntegriteReferentielle, Sortis, EnTable
  <2> QED BY <1>1, <1>2, <2>2, <2>3, <2>4, EditionsFigees DEF Achat, MemeStock
<1>4. CASE MasquerLivre(k)
  <2>1. \A l \in Livres : MemeStock(l)
    BY <1>1, <1>4 DEF MasquerLivre, MemeStock, Livre
  <2> QED BY <1>1, <1>2, <2>1, EditionsFigees DEF Immobile
<1> QED BY <1>3, <1>4 DEF PasLivre

LEMMA MouvementEdition ==
  ASSUME Stocks, NEW m \in Editions, PasEdition(m)
  PROVE  (\E k \in Livres : Reevaluation(m, k)) \/ (Immobile /\ SansEcriture)
<1>0. PICK k \in Livres : k = edition[m].livre
  BY RangeesSocle DEF Stocks, Integre, TypeOK, TypeCatalogue
<1>1. emprunts' = emprunts /\ TypeOK
  BY RangeesSocle, CadreEdition DEF Stocks, Integre
<1>2. MemesPrets
  BY <1>1, PretsStables
<1>3. \A x \in Editions \ {m} : edition'[x] = edition[x]
  BY <1>1, EffetEdition
<1>4. CASE UNCHANGED livres /\ ~ (edition[m].phase = "lue" /\ edition'[m].phase = "ecrite")
  <2>1. SansEcriture
    BY <1>3, <1>4 DEF SansEcriture, EcritLivre
  <2> QED BY <1>2, <1>4, <2>1 DEF Immobile, MemeStock
<1>5. CASE Ecriture(m, k)
  <2>1. /\ livres'[k].nombre \in Nat /\ livres'[k].dispo \in Int /\ livres'[k].dispo >= 0
        /\ livres'[k].nombre - livres'[k].dispo = edition[m].lu.nombre - edition[m].lu.dispo
        /\ \A l \in Livres \ {k} : livres'[l] = livres[l]
    BY <1>1, <1>5, ValeursEcrites
  <2>2. EcritLivre(m, k)
    BY <1>5 DEF Ecriture, EcritLivre
  <2>3. Reevaluation(m, k)
    BY <1>2, <1>3, <2>1, <2>2 DEF Reevaluation, MemeStock
  <2> QED BY <2>3
<1> QED BY <1>0, <1>1, <1>4, <1>5, EffetEdition

LEMMA Mouvements ==
  ASSUME Stocks, [Next]_vars
  PROVE  \/ /\ SansEcriture
            /\ \/ Immobile
               \/ \E k \in Livres, d \in Demandes : SortiePret(k, d) \/ EntreePret(k, d)
               \/ \E k \in Livres : Achat(k)
         \/ \E m \in Editions, k \in Livres : Reevaluation(m, k)
<1>1. CASE PasEnvironnement \/ UNCHANGED vars
  <2>1. UNCHANGED <<livres, emprunts, edition>>
    BY <1>1, CadreEnvironnement
  <2> QED BY <2>1, EditionsFigees, PretsStables DEF Immobile, MemeStock
<1>2. CASE UnPas
  BY <1>1, <1>2, MouvementDemande, MouvementRetour, MouvementTache, MouvementRadiation,
     MouvementRetrait, MouvementLivre, MouvementEdition DEF UnPas
<1> QED BY <1>1, <1>2, PasSuivant

-----------------------------------------------------------------------------
(* The stock and the loans part company by an edit only                    *)

LEMMA Chiffres ==
  ASSUME Stocks, NEW l \in Livres
  PROVE  /\ livres[l].nombre \in Nat /\ livres[l].dispo \in Int
         /\ livres[l].dispo >= 0 /\ livres[l].dispo <= livres[l].nombre
         /\ IsFiniteSet(Sortis(l)) /\ Cardinality(Sortis(l)) \in Nat
BY RangeesSocle, SortisFinis DEF Stocks, Integre, StockBorne, StockAdmis, TypeOK, TypeEmprunts,
   TypeBase, Livre

LEMMA EcartSuivant ==
  ASSUME Stocks, [Next]_vars, NEW l \in Livres
  PROVE  Ecart(l)' = Ecart(l) \/ \E m \in Editions : EcritLivre(m, l)
<1>0. /\ livres[l].nombre \in Nat /\ livres[l].dispo \in Int
      /\ IsFiniteSet(Sortis(l)) /\ Cardinality(Sortis(l)) \in Nat
  BY Chiffres
<1>1. CASE MemeStock(l) /\ Sortis(l)' = Sortis(l)
  BY <1>1 DEF Ecart, MemeStock
<1>2. ASSUME NEW k \in Livres, NEW d \in Demandes, SortiePret(k, d)
      PROVE  Ecart(l)' = Ecart(l)
  <2>1. CASE l = k
    <3>1. Cardinality(Sortis(l)') = Cardinality(Sortis(l)) + 1
      BY <1>0, <1>2, <2>1, FS_AddElement DEF SortiePret
    <3>2. livres'[l].dispo = livres[l].dispo - 1 /\ livres'[l].nombre = livres[l].nombre
      BY <1>2, <2>1 DEF SortiePret
    <3> QED BY <1>0, <3>1, <3>2 DEF Ecart
  <2> QED BY <1>1, <1>2, <2>1 DEF SortiePret, Ecart, MemeStock
<1>3. ASSUME NEW k \in Livres, NEW e \in Demandes, EntreePret(k, e)
      PROVE  Ecart(l)' = Ecart(l)
  <2>1. CASE l = k
    <3>1. Cardinality(Sortis(l)') = Cardinality(Sortis(l)) - 1
      BY <1>0, <1>3, <2>1, FS_RemoveElement DEF EntreePret
    <3>2. livres'[l].dispo = livres[l].dispo + 1 /\ livres'[l].nombre = livres[l].nombre
      BY <1>3, <2>1 DEF EntreePret
    <3> QED BY <1>0, <3>1, <3>2 DEF Ecart
  <2> QED BY <1>1, <1>3, <2>1 DEF EntreePret, Ecart, MemeStock
<1>4. ASSUME NEW k \in Livres, Achat(k)
      PROVE  Ecart(l)' = Ecart(l)
  <2>1. CASE l = k
    <3>1. /\ livres[l].dispo = livres[l].nombre /\ livres'[l].dispo = livres'[l].nombre
          /\ livres'[l].nombre \in Nat /\ Sortis(l)' = Sortis(l)
      BY <1>4, <2>1 DEF Achat, MemesPrets
    <3> QED BY <1>0, <3>1 DEF Ecart
  <2> QED BY <1>1, <1>4, <2>1 DEF Achat, MemesPrets, Ecart, MemeStock
<1>5. ASSUME NEW m \in Editions, NEW k \in Livres, Reevaluation(m, k)
      PROVE  Ecart(l)' = Ecart(l) \/ EcritLivre(m, l)
  BY <1>5 DEF Reevaluation, MemesPrets, Ecart, MemeStock
<1>6. Immobile => Ecart(l)' = Ecart(l)
  BY DEF Immobile, MemesPrets, Ecart, MemeStock
<1> QED BY <1>2, <1>3, <1>4, <1>5, <1>6, Mouvements

(* Whatever runs, the stock and the loans of a book only part company when *)
(* an edit of this book writes: borrowing, returning, the jobs, the        *)
(* deletions and the creations never disturb their agreement.              *)
THEOREM EcartParEditionPartout == Spec => EcartParEdition
<1> DEFINE Pas == \A l \in Livres : Ecart(l)' # Ecart(l) => \E m \in Editions : EcritLivre(m, l)
<1>1. ASSUME Stocks, [Next]_vars
      PROVE  [Pas]_vars
  BY <1>1, EcartSuivant
<1> QED BY <1>1, StocksInvariant, PTL DEF Spec, EcartParEdition

LEMMA EcartEcrit ==
  ASSUME Stocks, [Next]_vars, NEW l \in Livres, NEW m \in Editions, EcritLivre(m, l)
  PROVE  Ecart(l)' = Ecart(l) + Empruntes(edition[m].lu) - Empruntes(livres[l])
<1>1. PICK x \in Editions, k \in Livres : Reevaluation(x, k)
  BY Mouvements DEF SansEcriture
<1>2. x = m /\ k = l
  BY <1>1 DEF Reevaluation, EcritLivre
<1>3. livres'[l].nombre - livres'[l].dispo = Empruntes(edition[m].lu) /\ Sortis(l)' = Sortis(l)
  BY <1>1, <1>2 DEF Reevaluation, MemesPrets, Empruntes
<1>4. Empruntes(edition[m].lu) \in Int /\ Empruntes(livres[l]) \in Int /\ Cardinality(Sortis(l)) \in Nat
  <2>1. edition[m].lu.nombre \in Nat /\ edition[m].lu.dispo \in Int
    BY RangeesSocle DEF Stocks, Integre, TypeOK, TypeCatalogue, Livre
  <2> QED BY <2>1, Chiffres DEF Empruntes
<1>5. Ecart(l)' = Empruntes(edition[m].lu) - Cardinality(Sortis(l))
  BY <1>3 DEF Ecart
<1>6. Ecart(l) = Empruntes(livres[l]) - Cardinality(Sortis(l))
  BY DEF Ecart, Empruntes
<1> QED BY <1>4, <1>5, <1>6

(* ajusterStock carries the copies that are out from the row it has read   *)
(* to the row it writes, and loses nothing else.                           *)
THEOREM EcartToujoursExact == Spec => EcartExact
<1> DEFINE Pas == \A l \in Livres, m \in Editions :
                    EcritLivre(m, l) =>
                      Ecart(l)' = Ecart(l) + Empruntes(edition[m].lu) - Empruntes(livres[l])
<1>1. ASSUME Stocks, [Next]_vars
      PROVE  [Pas]_vars
  BY <1>1, EcartEcrit
<1> QED BY <1>1, StocksInvariant, PTL DEF Spec, EcartExact

LEMMA EditionNeutre ==
  ASSUME Stocks, [Next]_vars, NEW l \in Livres, NEW m \in Editions,
         EcritLivre(m, l), Empruntes(edition[m].lu) = Empruntes(livres[l])
  PROVE  Ecart(l)' = Ecart(l)
<1>1. Empruntes(livres[l]) \in Int /\ Cardinality(Sortis(l)) \in Nat
  BY Chiffres DEF Empruntes
<1>2. Ecart(l) = Empruntes(livres[l]) - Cardinality(Sortis(l))
  BY DEF Ecart, Empruntes
<1> QED BY <1>1, <1>2, EcartEcrit

-----------------------------------------------------------------------------
(* What lending promises when no edit overwrites a loan                    *)

(* The hypothesis under which the code keeps its promise, and the only one *)
(* it lacks: when an edit writes, the copies it has read to be out are as  *)
(* many as those the row says are out.                                     *)
EditionJuste ==
  \A l \in Livres, m \in Editions :
    EcritLivre(m, l) => Empruntes(edition[m].lu) = Empruntes(livres[l])
EditionsJustes == [][EditionJuste]_vars

LEMMA CoherentSuivant ==
  ASSUME Stocks, Stocks', StockCoherent, [Next]_vars, [EditionJuste]_vars
  PROVE  StockCoherent'
<1> SUFFICES ASSUME NEW l \in Livres
             PROVE  livres'[l].dispo + Cardinality(Sortis(l)') = livres'[l].nombre
  BY DEF StockCoherent
<1>1. Ecart(l)' = Ecart(l)
  <2>1. CASE EditionJuste
    BY <2>1, EcartSuivant, EditionNeutre DEF EditionJuste
  <2>2. CASE UNCHANGED vars
    BY <2>2 DEF vars, varsBase, Ecart, Sortis
  <2> QED BY <2>1, <2>2
<1>2. /\ livres[l].nombre \in Nat /\ livres[l].dispo \in Int /\ Cardinality(Sortis(l)) \in Nat
      /\ livres[l].dispo + Cardinality(Sortis(l)) = livres[l].nombre
  BY Chiffres DEF StockCoherent
<1>3. livres'[l].nombre \in Nat /\ livres'[l].dispo \in Int /\ Cardinality(Sortis(l)') \in Nat
  <2>1. TypeOK'
    BY DEF Stocks, Integre, Rangees, VerrousExacts
  <2>2. Sortis(l)' \subseteq Demandes
    BY DEF Sortis
  <2>3. Cardinality(Sortis(l)') \in Nat
    BY <2>2, FinitudeAssumption, FS_Subset, FS_CardinalityType
  <2> QED BY <2>1, <2>3 DEF TypeOK, TypeEmprunts, TypeBase, Livre
<1> QED BY <1>1, <1>2, <1>3 DEF Ecart

LEMMA CoherentInvariant == Spec /\ EditionsJustes => [](Stocks /\ StockCoherent)
<1>1. Init => StockCoherent
  BY StockInit DEF Init, Stock
<1>2. ASSUME Stocks, Stocks', StockCoherent, [Next]_vars, [EditionJuste]_vars
      PROVE  StockCoherent'
  BY <1>2, CoherentSuivant
<1> QED BY <1>1, <1>2, StocksInvariant, PTL DEF Spec, EditionsJustes

(* As long as no edit overwrites what it has not read, the free copies and *)
(* the copies that are out make the total of the book, whatever the jobs   *)
(* and the deletions do.                                                   *)
THEOREM StockCoherentSiJustes == Spec /\ EditionsJustes => []StockCoherent
<1>1. Stocks /\ StockCoherent => StockCoherent
  OBVIOUS
<1> QED BY <1>1, CoherentInvariant, PTL

LEMMA RetourAdmis ==
  ASSUME Stocks, StockCoherent
  PROVE  RetourJamaisRefuse
<1> SUFFICES ASSUME NEW r \in Retours, retour[r].phase = "verrouillee"
             PROVE  LET l == emprunts[retour[r].emprunt].livre IN livres[l].dispo < livres[l].nombre
  BY DEF RetourJamaisRefuse
<1> DEFINE e == retour[r].emprunt
           l == emprunts[e].livre
<1>1. e \in Demandes /\ l \in Livres /\ emprunts[e].statut \in Actif
  BY RangeesSocle DEF Stocks, Integre, TypeOK, TypeEmprunts, TypeBase, Emprunt, Retour, Rangees,
     Lignes, PretTenu
<1>2. Sortis(l) # {}
  BY <1>1 DEF Sortis
<1>3. IsFiniteSet(Sortis(l)) /\ Cardinality(Sortis(l)) \in Nat \ {0}
  BY <1>2, SortisFinis, FS_EmptySet
<1>4. /\ livres[l].nombre \in Nat /\ livres[l].dispo \in Int
      /\ livres[l].dispo + Cardinality(Sortis(l)) = livres[l].nombre
  BY <1>1, Chiffres DEF StockCoherent
<1> QED BY <1>3, <1>4

(* A return that holds its loan is then never refused by the trigger on    *)
(* the stock: the reader can always give the book back.                    *)
THEOREM RetourJamaisRefuseSiJustes == Spec /\ EditionsJustes => []RetourJamaisRefuse
BY CoherentInvariant, RetourAdmis, PTL

-----------------------------------------------------------------------------
(* The refinement: lending implements the promise of Prets                 *)

LEMMA PromesseInit ==
  ASSUME Init
  PROVE  Promesse!Init
<1>1. [l \in Livres |-> livres[l].nombre] \in [Livres -> Nat]
  <2>1. TypeOK
    BY TypeOKInit
  <2> QED BY <2>1 DEF TypeOK, TypeEmprunts, TypeBase, Livre
<1>2. \A e \in Demandes : emprunts[e].statut = "aucun"
  BY DEF Init, InitEmprunts, InitBase
<1>3. Revenus = {} /\ \A l \in Livres : Sortis(l) = {}
  BY <1>2 DEF Revenus, Sortis, Actif
<1> QED BY <1>1, <1>3 DEF Promesse!Init

(* The instance counts as the library does.                                *)
LEMMA PromesseCardinal ==
  ASSUME NEW S
  PROVE  Promesse!Cardinality(S) = Cardinality(S)
BY DEF Promesse!Cardinality, Cardinality

(* The steps of the promise, one kind of movement at a time.               *)
LEMMA PromesseSortie ==
  ASSUME Stocks, StockCoherent, NEW k \in Livres, NEW d \in Demandes, SortiePret(k, d)
  PROVE  Promesse!Preter(k, d)
<1>1. Cardinality(Sortis(k)) < livres[k].nombre
  BY Chiffres DEF StockCoherent, SortiePret
<1>2. [l \in Livres |-> livres'[l].nombre] = [l \in Livres |-> livres[l].nombre]
  BY DEF SortiePret, MemeStock
<1>3. [l \in Livres |-> Sortis(l)']
        = [[l \in Livres |-> Sortis(l)] EXCEPT ![k] = @ \cup {d}]
  BY DEF SortiePret
<1> QED BY <1>1, <1>2, <1>3, PromesseCardinal DEF Promesse!Preter, SortiePret

LEMMA PromesseEntree ==
  ASSUME NEW k \in Livres, NEW e \in Demandes, EntreePret(k, e)
  PROVE  Promesse!Reprendre(k, e)
<1>1. [l \in Livres |-> livres'[l].nombre] = [l \in Livres |-> livres[l].nombre]
  BY DEF EntreePret, MemeStock
<1>2. [l \in Livres |-> Sortis(l)']
        = [[l \in Livres |-> Sortis(l)] EXCEPT ![k] = @ \ {e}]
  BY DEF EntreePret
<1> QED BY <1>1, <1>2 DEF Promesse!Reprendre, EntreePret

LEMMA PromesseInventaire ==
  ASSUME Stocks', StockCoherent', NEW k \in Livres, MemesPrets,
         \A l \in Livres \ {k} : MemeStock(l)
  PROVE  Promesse!Inventorier(k)
<1>1. Sortis(k)' = Sortis(k) /\ \A l \in Livres : Sortis(l)' = Sortis(l)
  BY DEF MemesPrets
<1>2. livres'[k].nombre \in Nat /\ Cardinality(Sortis(k)) <= livres'[k].nombre
  <2>1. /\ livres'[k].nombre \in Nat /\ livres'[k].dispo \in Int /\ livres'[k].dispo >= 0
        /\ livres'[k].dispo + Cardinality(Sortis(k)') = livres'[k].nombre
    BY DEF Stocks, Integre, Rangees, VerrousExacts, TypeOK, TypeEmprunts, TypeBase, Livre,
       StockBorne, StockAdmis, StockCoherent
  <2>2. Cardinality(Sortis(k)) \in Nat
    BY SortisFinis
  <2> QED BY <1>1, <2>1, <2>2
<1>3. [l \in Livres |-> livres'[l].nombre]
        = [[l \in Livres |-> livres[l].nombre] EXCEPT ![k] = livres'[k].nombre]
  BY DEF MemeStock
<1>4. [l \in Livres |-> Sortis(l)'] = [l \in Livres |-> Sortis(l)]
  BY <1>1
<1> QED BY <1>2, <1>3, <1>4, PromesseCardinal DEF Promesse!Inventorier, MemesPrets

LEMMA PromesseSuivant ==
  ASSUME Stocks, Stocks', StockCoherent, StockCoherent', [Next]_vars
  PROVE  [Promesse!Next]_Promesse!vars
<1>1. CASE Immobile
  <2>1. /\ [l \in Livres |-> livres'[l].nombre] = [l \in Livres |-> livres[l].nombre]
        /\ [l \in Livres |-> Sortis(l)'] = [l \in Livres |-> Sortis(l)]
        /\ Revenus' = Revenus
    BY <1>1 DEF Immobile, MemesPrets, MemeStock
  <2> QED BY <2>1 DEF Promesse!vars
<1>2. ASSUME NEW k \in Livres, NEW d \in Demandes, SortiePret(k, d) \/ EntreePret(k, d)
      PROVE  Promesse!Next
  BY <1>2, PromesseSortie, PromesseEntree DEF Promesse!Next
<1>3. ASSUME NEW k \in Livres, Achat(k)
      PROVE  Promesse!Next
  BY <1>3, PromesseInventaire DEF Achat, Promesse!Next
<1>4. ASSUME NEW m \in Editions, NEW k \in Livres, Reevaluation(m, k)
      PROVE  Promesse!Next
  BY <1>4, PromesseInventaire DEF Reevaluation, Promesse!Next
<1> QED BY <1>1, <1>2, <1>3, <1>4, Mouvements

(* With its steps, its locks, its jobs and its deletions, the library      *)
(* lends a copy it owns, once, and takes it back once: Bibliotheque        *)
(* implements Prets as long as no edit overwrites what it has not read.    *)
THEOREM PromesseTenueSiJustes == Spec /\ EditionsJustes => TientPromesse
<1>1. ASSUME Stocks, Stocks', StockCoherent, StockCoherent', [Next]_vars
      PROVE  [Promesse!Next]_Promesse!vars
  BY <1>1, PromesseSuivant
<1> QED BY <1>1, PromesseInit, CoherentInvariant, PTL DEF Spec, TientPromesse, Promesse!Spec

(* Where nobody edits the catalogue nothing is assumed.                    *)
LEMMA SansEditions ==
  ASSUME Editions = {}
  PROVE  EditionsJustes
<1>1. EditionJuste
  BY DEF EditionJuste
<1> QED BY <1>1, PTL DEF EditionsJustes

(* Without edits the stock and the loans agree for ever,                   *)
THEOREM StockCoherentSansEditions ==
  ASSUME Editions = {}
  PROVE  Spec => []StockCoherent
BY SansEditions, StockCoherentSiJustes, PTL

(* the reader can always give the book back,                               *)
THEOREM RetourJamaisRefuseSansEditions ==
  ASSUME Editions = {}
  PROVE  Spec => []RetourJamaisRefuse
BY SansEditions, RetourJamaisRefuseSiJustes, PTL

(* and the library keeps its promise.                                      *)
THEOREM PromesseTenueSansEditions ==
  ASSUME Editions = {}
  PROVE  Spec => TientPromesse
BY SansEditions, PromesseTenueSiJustes, PTL

-----------------------------------------------------------------------------
(* What the calls of lending were promised alone they keep in the library  *)

(* The steps of the others leave the calls where they are, and a loan out  *)
(* or closed as it was.                                                    *)
LEMMA AutresPas ==
  ASSUME Rangees,
         \/ UnPas /\ ~ (\E d \in Demandes : PasDemande(d)) /\ ~ (\E r \in Retours : PasRetour(r))
         \/ UNCHANGED vars
  PROVE  /\ UNCHANGED <<demande, retour>>
         /\ \A x \in Demandes :
              /\ emprunts'[x].livre = emprunts[x].livre
              /\ emprunts'[x].utilisateur = emprunts[x].utilisateur
              /\ emprunts'[x].statut \in Actif <=> emprunts[x].statut \in Actif
              /\ emprunts'[x].statut \in Clos <=> emprunts[x].statut \in Clos
              /\ emprunts'[x].statut = "aucun" <=> emprunts[x].statut = "aucun"
<1> USE DEF Actif, Clos
<1>0. TypeOK
  BY RangeesSocle
<1>1. ASSUME NEW t \in Taches, PasTache(t), NEW x \in Demandes
      PROVE  \/ emprunts'[x].statut = emprunts[x].statut
             \/ emprunts[x].statut = "en_cours" /\ emprunts'[x].statut = "en_retard"
             \/ emprunts[x].statut = "rendu" /\ emprunts'[x].statut = "archive"
  BY <1>1, StatutTache DEF Pris, Effet, Taches
<1>2. ASSUME NEW s \in Radiations, PasRadiation(s), NEW x \in Demandes
      PROVE  \/ emprunts'[x].statut = emprunts[x].statut
             \/ emprunts[x].statut = "rendu" /\ emprunts'[x].statut = "efface"
  BY <1>2, StatutRadiation
<1>3. CASE \E t \in Taches : PasTache(t)
  BY <1>0, <1>1, <1>3, CadreTache, ParametresToujoursFixes DEF UnPas
<1>4. CASE \E s \in Radiations : PasRadiation(s)
  BY <1>0, <1>2, <1>4, CadreRadiation, ParametresToujoursFixes DEF UnPas
<1>5. CASE \/ PasEnvironnement \/ UNCHANGED vars
           \/ \E m \in Editions : PasEdition(m)
           \/ \E l \in Livres : PasLivre(l)
           \/ \E s \in Retraits : PasRetrait(s)
  <2>1. UNCHANGED <<demande, retour, emprunts>>
    BY <1>5, CadreEnvironnement, CadreEdition, CadreLivre, CadreRetrait
  <2> QED BY <2>1
<1> QED BY <1>3, <1>4, <1>5 DEF UnPas

LEMMA AppelsSuivant ==
  ASSUME Rangees, Effets, Situations, [Next]_vars
  PROVE  Effets' /\ Situations'
<1>0. Socle /\ \A r \in Retours : retour[r].emprunt \in Demandes
  BY RangeesSocle DEF TypeOK, TypeEmprunts, Retour
<1>1. ASSUME NEW d \in Demandes, PasDemande(d)
      PROVE  Effets' /\ Situations'
  <2>1. EtapeDemande(d) \/ AnnulerDemande(d)
    BY <1>1 DEF PasDemande
  <2>2. Situations'
    BY <1>0, <2>1, DemandeSitueeSienne, DemandeSitueeAutre DEF Situations, DemandeSituee
  <2> QED BY <1>0, <2>1, <2>2, EffetsDemande
<1>2. ASSUME NEW r \in Retours, PasRetour(r)
      PROVE  Effets' /\ Situations'
  <2>1. EtapeRetour(r) \/ AnnulerRetour(r)
    BY <1>2 DEF PasRetour
  <2>2. demande' = demande
    BY <1>2, CadreRetour
  <2>3. \A x \in Demandes : emprunts'[x].statut = "aucun" <=> emprunts[x].statut = "aucun"
    BY <1>0, <2>1, StatutRetour DEF Actif
  <2> QED BY <1>0, <2>1, <2>2, <2>3, EffetsRetour DEF Situations, DemandeSituee
<1>3. CASE \/ UnPas /\ ~ (\E d \in Demandes : PasDemande(d)) /\ ~ (\E r \in Retours : PasRetour(r))
           \/ UNCHANGED vars
  <2>1. /\ UNCHANGED <<demande, retour>>
        /\ \A x \in Demandes : /\ emprunts'[x].statut \in Clos <=> emprunts[x].statut \in Clos
                               /\ emprunts'[x].statut = "aucun" <=> emprunts[x].statut = "aucun"
    BY <1>3, AutresPas
  <2> QED BY <1>0, <2>1 DEF Effets, EffetSitue, Situations, DemandeSituee
<1> QED BY <1>1, <1>2, <1>3, PasSuivant

LEMMA AppelsInvariant == Spec => [](Effets /\ Situations)
<1>1. Init => Effets /\ Situations
  <2>1. InitEmprunts => Effets
    BY DEF InitEmprunts, Effets, EffetSitue
  <2>2. InitEmprunts => Situations
    BY DEF InitEmprunts, Situations, DemandeSituee
  <2> QED BY <2>1, <2>2 DEF Init
<1>2. ASSUME Rangees, Effets, Situations, [Next]_vars
      PROVE  Effets' /\ Situations'
  BY <1>2, AppelsSuivant
<1> QED BY <1>1, <1>2, RangeesInvariant, PTL DEF Spec

(* Of the returns of one loan at most one ever commits, and the loan stays *)
(* closed: the jobs and the deletions may move or erase it, they revive    *)
(* nothing.                                                                *)
THEOREM RetourUniquePartout == Spec => []RetourUnique
<1>1. Effets => RetourUnique
  BY DEF Effets, EffetSitue, Clos, RetourUnique
<1> QED BY <1>1, AppelsInvariant, PTL

(* The answers tell what is in the base, whatever else writes it.          *)
THEOREM ReponsesVraiesPartout == Spec => []ReponsesVraies
<1>1. Situations /\ Effets => ReponsesVraies
  BY DEF Situations, DemandeSituee, Effets, EffetSitue, ReponsesVraies
<1> QED BY <1>1, AppelsInvariant, PTL

LEMMA QuotaPartoutSuivant ==
  ASSUME Rangees, Rangees', QuotaEngage, [Next]_vars
  PROVE  QuotaEngage'
<1>0. Socle /\ Socle'
  BY DEF Rangees, VerrousExacts, TypeOK, Socle
<1> SUFFICES ASSUME NEW u \in Utilisateurs
             PROVE  Cardinality(Engages(u)') < Quota + Cardinality(Livres)
  BY DEF QuotaEngage
<1>1. /\ Quota \in Nat /\ Cardinality(Livres) \in Nat
      /\ Cardinality(Engages(u)) \in Nat /\ IsFiniteSet(Engages(u))
      /\ Cardinality(Engages(u)) < Quota + Cardinality(Livres)
  BY NombresAssumption, FinitudeAssumption, FS_CardinalityType, EngagesFinis DEF QuotaEngage
<1>2. ASSUME Engages(u)' \subseteq Engages(u)
      PROVE  Cardinality(Engages(u)') < Quota + Cardinality(Livres)
  <2>1. /\ Cardinality(Engages(u)') <= Cardinality(Engages(u))
        /\ Cardinality(Engages(u)') \in Nat
    BY <1>1, <1>2, FS_Subset, FS_CardinalityType
  <2> QED BY <1>1, <2>1
<1>3. ASSUME NEW d \in Demandes, PasDemande(d)
      PROVE  Cardinality(Engages(u)') < Quota + Cardinality(Livres)
  <2>1. CASE CompterEmprunts(d)
    BY <1>0, <2>1, EngagesAjout
  <2>2. CASE ~ CompterEmprunts(d)
    BY <1>0, <1>2, <1>3, <2>2, EngagesDemande DEF PasDemande
  <2> QED BY <2>1, <2>2
<1>4. ASSUME NEW r \in Retours, PasRetour(r)
      PROVE  Cardinality(Engages(u)') < Quota + Cardinality(Livres)
  BY <1>0, <1>2, <1>4, EngagesRetour DEF PasRetour
<1>5. CASE \/ UnPas /\ ~ (\E d \in Demandes : PasDemande(d)) /\ ~ (\E r \in Retours : PasRetour(r))
           \/ UNCHANGED vars
  <2>1. /\ demande' = demande
        /\ \A x \in Demandes : /\ emprunts'[x].utilisateur = emprunts[x].utilisateur
                               /\ emprunts'[x].statut \in Actif <=> emprunts[x].statut \in Actif
    BY <1>5, AutresPas
  <2>2. Engages(u)' \subseteq Engages(u)
    BY <2>1 DEF Engages, EmpruntsActifs, Comptees
  <2> QED BY <1>2, <2>2
<1> QED BY <1>3, <1>4, <1>5, PasSuivant

(* The quota is passed by less than the number of books, whatever the jobs *)
(* and the deletions do: they make no loan active.                         *)
THEOREM DepassementBornePartout == Spec => []DepassementBorne
<1>1. QuotaEngage => DepassementBorne
  BY QuotaSuffit
<1>2. Init => QuotaEngage
  BY QuotaInit DEF Init
<1>3. ASSUME Rangees, Rangees', QuotaEngage, [Next]_vars
      PROVE  QuotaEngage'
  BY <1>3, QuotaPartoutSuivant
<1> QED BY <1>1, <1>2, <1>3, RangeesInvariant, PTL DEF Spec

=============================================================================
