------------------------------ MODULE Emprunts ------------------------------
(***************************************************************************)
(* Lending: POST /emprunts (pr_emprunter_livre, one transaction) and       *)
(* POST /emprunts/{id}/retour (EmpruntRepository.Rendre inside             *)
(* EnTransaction).  Every SQL statement that reads committed rows or may   *)
(* wait for a lock is a step; the writes of a transaction and its commit   *)
(* are its last step, because the statements between them wait for nobody. *)
(* A call may be cut at any moment by the request's deadline: its          *)
(* transaction is rolled back, or has been committed already.              *)
(***************************************************************************)
EXTENDS Base

VARIABLES
  demande,   \* the calls of POST /emprunts
  retour     \* the calls of POST /emprunts/{id}/retour

varsEmprunts == <<varsBase, demande, retour>>

Reponses == {"aucune", "201", "200", "404", "409", "500"}

Demande == [phase : {"recue", "identifiee", "verrouillee", "comptee", "validee", "terminee"},
            jour : Nat, reponse : Reponses]
Retour == [phase : {"recue", "ouverte", "verrouillee", "validee", "terminee"},
           emprunt : Demandes, jour : Nat, reponse : Reponses, effet : BOOLEAN]

TypeEmprunts ==
  /\ TypeBase
  /\ demande \in [Demandes -> Demande]
  /\ retour \in [Retours -> Retour]

InitEmprunts ==
  /\ InitBase
  /\ demande = [d \in Demandes |-> [phase |-> "recue", jour |-> 0, reponse |-> "aucune"]]
  /\ retour \in [Retours -> [phase : {"recue"}, emprunt : Demandes, jour : {0},
                             reponse : {"aucune"}, effet : {FALSE}]]

-----------------------------------------------------------------------------
(* Borrowing                                                               *)

AvancerDemande(d, phase) == demande' = [demande EXCEPT ![d].phase = phase]
TerminerDemande(d, reponse) ==
  demande' = [demande EXCEPT ![d].phase = "terminee", ![d].reponse = reponse]

(* 1) The user is read without a lock.  CURRENT_DATE is that of the call's *)
(* beginning.                                                              *)
LireUtilisateur(d) ==
  /\ demande[d].phase = "recue"
  /\ \/ /\ utilisateurs[emprunts[d].utilisateur] = "actif"
        /\ demande' = [demande EXCEPT ![d].phase = "identifiee", ![d].jour = jour]
     \/ /\ utilisateurs[emprunts[d].utilisateur] # "actif"
        /\ TerminerDemande(d, "404")
  /\ UNCHANGED <<varsBase, retour>>

(* Mutant of 2): a plain SELECT. *)
VerrouillerLivreSansVerrou(d) ==
  LET l == emprunts[d].livre IN
  /\ demande[d].phase = "identifiee"
  /\ IF livres[l].etat = "visible" /\ livres[l].dispo > 0
     THEN AvancerDemande(d, "verrouillee") ELSE TerminerDemande(d, "409")
  /\ UNCHANGED <<varsBase, retour>>

(* 2) SELECT ... FOR UPDATE of the book, then the test of v_dispo.         *)
VerrouillerLivre(d) ==
  LET l == emprunts[d].livre IN
  /\ demande[d].phase = "identifiee"
  /\ \/ /\ livres[l].etat # "visible"
        /\ TerminerDemande(d, "404")
        /\ UNCHANGED verrouLivre
     \/ /\ livres[l].etat = "visible" /\ verrouLivre[l] = Libre /\ livres[l].dispo <= 0
        /\ TerminerDemande(d, "409")
        /\ UNCHANGED verrouLivre
     \/ /\ livres[l].etat = "visible" /\ verrouLivre[l] = Libre /\ livres[l].dispo > 0
        /\ AvancerDemande(d, "verrouillee")
        /\ verrouLivre' = [verrouLivre EXCEPT ![l] = d]
  /\ UNCHANGED <<jour, tables, verrouEmprunt, verrouUtilisateur, retour>>

(* Mutant of 3): the quota itself still lets a loan through. *)
CompterEmpruntsInclus(d) ==
  /\ demande[d].phase = "verrouillee"
  /\ NbEmpruntsActifs(emprunts[d].utilisateur) <= Quota
  /\ AvancerDemande(d, "comptee")
  /\ UNCHANGED <<varsBase, retour>>

(* 3) The quota, counted on the rows committed by now.                     *)
CompterEmprunts(d) ==
  /\ demande[d].phase = "verrouillee"
  /\ \/ /\ NbEmpruntsActifs(emprunts[d].utilisateur) >= Quota
        /\ TerminerDemande(d, "409")
        /\ verrouLivre' = Liberes(verrouLivre, d)
     \/ /\ NbEmpruntsActifs(emprunts[d].utilisateur) < Quota
        /\ AvancerDemande(d, "comptee")
        /\ UNCHANGED verrouLivre
  /\ UNCHANGED <<jour, tables, verrouEmprunt, verrouUtilisateur, retour>>

(* 4) INSERT of the loan, decrement of the stock, commit.  The foreign key *)
(* locks the row of the user (KEY SHARE): it waits for a deletion of this  *)
(* row, and fails (code 99) if the row is gone.                            *)
Inserer(d) ==
  LET l == emprunts[d].livre
      u == emprunts[d].utilisateur
  IN
  /\ demande[d].phase = "comptee"
  /\ verrouUtilisateur[u] = Libre
  /\ \/ /\ utilisateurs[u] # "efface"
        /\ \E n \in Durees :
             emprunts' = [emprunts EXCEPT ![d].statut = "en_cours",
                                          ![d].prevue = demande[d].jour + n]
        /\ livres' = [livres EXCEPT ![l].dispo = @ - 1]
        /\ AvancerDemande(d, "validee")
     \/ /\ utilisateurs[u] = "efface"
        /\ TerminerDemande(d, "500")
        /\ UNCHANGED <<emprunts, livres>>
  /\ verrouLivre' = Liberes(verrouLivre, d)
  /\ UNCHANGED <<jour, utilisateurs, verrouEmprunt, verrouUtilisateur, retour>>

(* The service reads the loan back (ParUUID) and answers.                  *)
RepondreDemande(d) ==
  /\ demande[d].phase = "validee"
  /\ TerminerDemande(d, IF emprunts[d].statut \in EnTable THEN "201" ELSE "404")
  /\ UNCHANGED <<varsBase, retour>>

(* Mutant: the transaction stays open, with its locks. *)
AnnulerDemandeSansRollback(d) ==
  /\ demande[d].phase # "terminee"
  /\ TerminerDemande(d, "500")
  /\ UNCHANGED <<varsBase, retour>>

(* The deadline cuts the call: rollback before the commit, an error after. *)
AnnulerDemande(d) ==
  /\ demande[d].phase # "terminee"
  /\ TerminerDemande(d, "500")
  /\ verrouLivre' = Liberes(verrouLivre, d)
  /\ UNCHANGED <<jour, tables, verrouEmprunt, verrouUtilisateur, retour>>

-----------------------------------------------------------------------------
(* Returning                                                               *)

TerminerRetour(r, reponse) ==
  retour' = [retour EXCEPT ![r].phase = "terminee", ![r].reponse = reponse]

(* BEGIN.  The client can only name a loan that has been committed: its    *)
(* identifier is drawn by the INSERT.  CURRENT_DATE is that of the BEGIN.  *)
OuvrirRetour(r) ==
  /\ retour[r].phase = "recue"
  /\ emprunts[retour[r].emprunt].statut # "aucun"
  /\ retour' = [retour EXCEPT ![r].phase = "ouverte", ![r].jour = jour]
  /\ UNCHANGED <<varsBase, demande>>

(* Mutant of 1) and 2): the status is not tested. *)
VerrouillerEmpruntSansControle(r) ==
  LET e == retour[r].emprunt IN
  /\ retour[r].phase = "ouverte"
  /\ emprunts[e].statut \in EnTable /\ verrouEmprunt[e] = Libre
  /\ retour' = [retour EXCEPT ![r].phase = "verrouillee"]
  /\ verrouEmprunt' = [verrouEmprunt EXCEPT ![e] = r]
  /\ UNCHANGED <<jour, tables, verrouLivre, verrouUtilisateur, demande>>

(* 1) and 2): SELECT ... FOR UPDATE of the loan, refused once returned.    *)
VerrouillerEmprunt(r) ==
  LET e == retour[r].emprunt IN
  /\ retour[r].phase = "ouverte"
  /\ \/ /\ emprunts[e].statut \notin EnTable
        /\ TerminerRetour(r, "404")
        /\ UNCHANGED verrouEmprunt
     \/ /\ emprunts[e].statut = "rendu" /\ verrouEmprunt[e] = Libre
        /\ TerminerRetour(r, "409")
        /\ UNCHANGED verrouEmprunt
     \/ /\ emprunts[e].statut \in Actif /\ verrouEmprunt[e] = Libre
        /\ retour' = [retour EXCEPT ![r].phase = "verrouillee"]
        /\ verrouEmprunt' = [verrouEmprunt EXCEPT ![e] = r]
  /\ UNCHANGED <<jour, tables, verrouLivre, verrouUtilisateur, demande>>

(* Mutant of 5): a masked book does not get its copy back. *)
ReintegrerVisible(ligne) ==
  IF ligne.etat = "visible" THEN [ligne EXCEPT !.dispo = @ + 1] ELSE ligne

(* 5) One more free copy. *)
Reintegrer(ligne) == [ligne EXCEPT !.dispo = @ + 1]

(* 3) to 5): penalty, closing of the loan, stock, commit.  The trigger     *)
(* refuses a stock above the total, and the whole transaction with it.     *)
Rendre(r) ==
  LET e == retour[r].emprunt
      l == emprunts[e].livre
      ligne == Reintegrer(livres[l])
  IN
  /\ retour[r].phase = "verrouillee"
  /\ verrouLivre[l] = Libre
  /\ \/ /\ StockAdmis(ligne)
        /\ livres' = [livres EXCEPT ![l] = ligne]
        /\ emprunts' = [emprunts EXCEPT ![e].statut = "rendu",
                                        ![e].effective = retour[r].jour,
                                        ![e].penalite = Penalite(emprunts[e].prevue, retour[r].jour)]
        /\ retour' = [retour EXCEPT ![r].phase = "validee", ![r].effet = TRUE]
     \/ /\ ~ StockAdmis(ligne)
        /\ TerminerRetour(r, "500")
        /\ UNCHANGED <<livres, emprunts>>
  /\ verrouEmprunt' = Liberes(verrouEmprunt, r)
  /\ UNCHANGED <<jour, utilisateurs, verrouLivre, verrouUtilisateur, demande>>

RepondreRetour(r) ==
  /\ retour[r].phase = "validee"
  /\ TerminerRetour(r, IF emprunts[retour[r].emprunt].statut \in EnTable THEN "200" ELSE "404")
  /\ UNCHANGED <<varsBase, demande>>

(* Mutants: EnTransaction forgets the rollback, or hides the failure of    *)
(* the commit.                                                             *)
AnnulerRetourSansRollback(r) ==
  /\ retour[r].phase \notin {"recue", "terminee"}
  /\ TerminerRetour(r, "500")
  /\ UNCHANGED <<varsBase, demande>>
AnnulerRetourEnSilence(r) ==
  /\ retour[r].phase \notin {"recue", "terminee"}
  /\ TerminerRetour(r, "200")
  /\ verrouEmprunt' = Liberes(verrouEmprunt, r)
  /\ UNCHANGED <<jour, tables, verrouLivre, verrouUtilisateur, demande>>

(* The deadline cuts the return; EnTransaction rolls it back.              *)
AnnulerRetour(r) ==
  /\ retour[r].phase \notin {"recue", "terminee"}
  /\ TerminerRetour(r, "500")
  /\ verrouEmprunt' = Liberes(verrouEmprunt, r)
  /\ UNCHANGED <<jour, tables, verrouLivre, verrouUtilisateur, demande>>

-----------------------------------------------------------------------------
EtapeDemande(d) ==
  \/ LireUtilisateur(d) \/ VerrouillerLivre(d) \/ CompterEmprunts(d)
  \/ Inserer(d) \/ RepondreDemande(d)

EtapeRetour(r) ==
  \/ OuvrirRetour(r) \/ VerrouillerEmprunt(r) \/ Rendre(r) \/ RepondreRetour(r)

NextEmprunts ==
  \/ \E d \in Demandes : EtapeDemande(d) \/ AnnulerDemande(d)
  \/ \E r \in Retours : EtapeRetour(r) \/ AnnulerRetour(r)

NextEnvironnement ==
  /\ \/ ChangerDeJour
     \/ \E u \in Utilisateurs : ChangerCompte(u)
  /\ UNCHANGED <<demande, retour>>

(* The database runs every statement it can run: no statement waits for    *)
(* ever for a lock that is free for good.                                  *)
EquiteEmprunts ==
  /\ \A d \in Demandes : WF_varsEmprunts(EtapeDemande(d))
  /\ \A r \in Retours : WF_varsEmprunts(EtapeRetour(r))

SpecEmprunts ==
  /\ InitEmprunts
  /\ [][NextEmprunts \/ NextEnvironnement]_varsEmprunts
  /\ EquiteEmprunts

-----------------------------------------------------------------------------
(* Properties                                                              *)

(* The stock tells the truth: the copies that are neither free nor out are *)
(* none (pr_emprunter_livre and Rendre move the row of livres and the row  *)
(* of emprunts together, whatever runs at the same time).                  *)
StockCoherent ==
  \A l \in Livres : livres[l].dispo + Cardinality(Sortis(l)) = livres[l].nombre

(* chk_livres_stock and chk_livres_stock_positif are never what stops a    *)
(* write of pr_emprunter_livre: no call takes the last copy twice.         *)
StockBorne == \A l \in Livres : StockAdmis(livres[l])

(* A row lock is held exactly by the call that is between its SELECT ...   *)
(* FOR UPDATE and the end of its transaction: no two calls are there for   *)
(* one row, and an answered, refused or cut call leaves no lock behind.    *)
VerrousTenus ==
  /\ \A l \in Livres, d \in Demandes :
       verrouLivre[l] = d <=> /\ demande[d].phase \in {"verrouillee", "comptee"}
                              /\ emprunts[d].livre = l
  /\ \A e \in Demandes, r \in Retours :
       verrouEmprunt[e] = r <=> retour[r].phase = "verrouillee" /\ retour[r].emprunt = e

(* fn_nb_emprunts_actifs is read without a lock on the user, so that the   *)
(* calls of one user for several books may all pass the test of the quota; *)
(* the lock of the book still bounds the excess: one call per book.        *)
DepassementBorne ==
  \A u \in Utilisateurs : NbEmpruntsActifs(u) < Quota + Cardinality(Livres)

(* The quota itself, as API.md and DATABASE.md promise it.                 *)
QuotaRespecte == \A u \in Utilisateurs : NbEmpruntsActifs(u) <= Quota

(* Of the calls that return a loan, at most one commits, and the loan is   *)
(* then closed for good (Rendre locks the loan before it reads its status).*)
RetourUnique ==
  \A r \in Retours : retour[r].effet =>
    /\ emprunts[retour[r].emprunt].statut \in {"rendu", "archive", "efface"}
    /\ \A q \in Retours : retour[q].effet /\ retour[q].emprunt = retour[r].emprunt => q = r

(* A loan only goes forward: nothing revives a loan that was returned, in  *)
(* particular not the daily job, a loan flagged late stays so until it is  *)
(* returned, and a loan that is out is neither archived nor deleted.       *)
Suivants == [aucun |-> {"en_cours"}, en_cours |-> {"en_retard", "rendu"},
             en_retard |-> {"rendu"}, rendu |-> {"archive", "efface"},
             archive |-> {}, efface |-> {}]
StatutProgresse ==
  [][\A e \in Demandes : emprunts'[e].statut # emprunts[e].statut
                         => emprunts'[e].statut \in Suivants[emprunts[e].statut]]_emprunts

(* The answers tell what is in the base: 201 is given for a loan that was  *)
(* inserted, 200 for a return that was committed, and a conflict (409)     *)
(* means that the call has changed nothing.                                *)
ReponsesVraies ==
  /\ \A d \in Demandes :
       /\ demande[d].reponse = "201" => emprunts[d].statut # "aucun"
       /\ demande[d].reponse = "409" => emprunts[d].statut = "aucun"
  /\ \A r \in Retours :
       /\ retour[r].reponse = "200" => retour[r].effet
       /\ retour[r].reponse = "409" => ~ retour[r].effet

(* Every call of POST /emprunts is answered: the locks are always taken in *)
(* an order that lets somebody go on.                                      *)
DemandesRepondues == \A d \in Demandes : <>(demande[d].phase = "terminee")

(* Every return that has begun is answered. *)
RetoursRepondus ==
  \A r \in Retours : retour[r].phase = "ouverte" ~> retour[r].phase = "terminee"

=============================================================================
