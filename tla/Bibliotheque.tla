---------------------------- MODULE Bibliotheque ----------------------------
(***************************************************************************)
(* The lending system: calls that borrow and return, edits and deletions,  *)
(* and the pg_cron jobs, over one database.                                *)
(***************************************************************************)
EXTENDS Emprunts, TachesCron, Catalogue, Suppressions

vars == <<varsBase, demande, retour, cron, edition, retrait, radiation>>

TypeOK == TypeEmprunts /\ TypeCron /\ TypeCatalogue /\ TypeSuppressions

Init == InitEmprunts /\ InitCron /\ InitCatalogue /\ InitSuppressions

(* A step of one component leaves the calls of the others where they are.  *)
HorsEmprunts == UNCHANGED <<cron, edition, retrait, radiation>>
HorsCron == UNCHANGED <<demande, retour, edition, retrait, radiation>>
HorsCatalogue == UNCHANGED <<demande, retour, cron, retrait, radiation>>
HorsSuppressions == UNCHANGED <<demande, retour, cron, edition>>

-----------------------------------------------------------------------------
(* Deadlocks.  A transaction that holds a row lock may wait for another:   *)
(* <<p, q>> says that p waits for a lock of q (or of nobody, Libre).  The  *)
(* calls that wait while they hold nothing close no cycle.                 *)
AttendPour ==
  {<<d, verrouUtilisateur[emprunts[d].utilisateur]>> :
      d \in {x \in Demandes : demande[x].phase = "comptee"}}
  \cup {<<r, verrouLivre[emprunts[retour[r].emprunt].livre]>> :
      r \in {x \in Retours : retour[x].phase = "verrouillee"}}
  \cup {<<s, verrouEmprunt[retrait[s].temoin]>> :
      s \in {x \in Retraits : retrait[x].phase = "controle"}}
  \cup UNION {{<<t, verrouEmprunt[e]>> : e \in cron[t].candidats} : t \in Taches}
  \cup UNION {{<<s, verrouEmprunt[e]>> : e \in radiation[s].restants} : s \in Radiations}

(* A cycle: transactions that wait for one another only, and none of which *)
(* merely waits for the cycle.                                             *)
Fermes ==
  {S \in SUBSET {a[1] : a \in AttendPour} :
     S # {} /\ \A a \in AttendPour : a[1] \in S => a[2] \in S}
Interbloques == UNION {S \in Fermes : \A T \in Fermes : T \subseteq S => T = S}

(* PostgreSQL's deadlock detector rolls back one of them.                  *)
DetecterInterblocage ==
  \/ (\E d \in Demandes \cap Interbloques : AnnulerDemande(d)) /\ HorsEmprunts
  \/ (\E r \in Retours \cap Interbloques : AnnulerRetour(r)) /\ HorsEmprunts
  \/ (\E t \in Taches \cap Interbloques : AnnulerTache(t)) /\ HorsCron
  \/ (\E s \in Retraits \cap Interbloques : AnnulerRetrait(s)) /\ HorsSuppressions
  \/ (\E s \in Radiations \cap Interbloques : AnnulerRadiation(s)) /\ HorsSuppressions

Next ==
  \/ NextEmprunts /\ HorsEmprunts
  \/ NextEnvironnement /\ HorsEmprunts
  \/ NextCron /\ HorsCron
  \/ NextCatalogue /\ HorsCatalogue
  \/ NextSuppressions /\ HorsSuppressions
  \/ DetecterInterblocage

(* PostgreSQL runs the statements it can run and breaks deadlocks; pg_cron *)
(* starts its daily jobs, which go on to their commit.                     *)
Equite ==
  /\ \A d \in Demandes : WF_vars(EtapeDemande(d) /\ HorsEmprunts)
  /\ \A r \in Retours : WF_vars(EtapeRetour(r) /\ HorsEmprunts)
  /\ \A t \in Taches : WF_vars(EtapeTache(t) /\ HorsCron)
  /\ \A m \in Editions : WF_vars(EtapeEdition(m) /\ HorsCatalogue)
  /\ \A s \in Retraits : WF_vars(EtapeRetrait(s) /\ HorsSuppressions)
  /\ \A s \in Radiations : WF_vars(EtapeRadiation(s) /\ HorsSuppressions)
  /\ WF_vars(DetecterInterblocage)

Spec == Init /\ [][Next]_vars /\ Equite

-----------------------------------------------------------------------------
(* Properties                                                              *)

(* The copies a book has lost, or gained, on paper.                        *)
Ecart(l) == livres[l].nombre - livres[l].dispo - Cardinality(Sortis(l))

EcritLivre(m, l) ==
  edition[m].livre = l /\ edition[m].phase = "lue" /\ edition'[m].phase = "ecrite"

(* Whatever runs, the stock and the loans of a book only part company when *)
(* an edit of this book writes: borrowing, returning, the daily jobs and   *)
(* the deletions never disturb their agreement.                            *)
EcartParEdition ==
  [][\A l \in Livres : Ecart(l)' # Ecart(l) => \E m \in Editions : EcritLivre(m, l)]_vars

(* What an edit does to that agreement: it counts as lost the copies that  *)
(* came back, and as free those that went out, between its reading of the  *)
(* row and its UPDATE, and does no other harm (the comment of ajusterStock *)
(* promises that it keeps the copies that are out).                        *)
EcartExact ==
  [][\A l \in Livres, m \in Editions :
       EcritLivre(m, l) =>
         Ecart(l)' = Ecart(l) + Empruntes(edition[m].lu) - Empruntes(livres[l])]_vars

(* A return that holds its loan is never refused by the trigger on the     *)
(* stock: the reader can always give the book back.                        *)
RetourJamaisRefuse ==
  \A r \in Retours : retour[r].phase = "verrouillee" =>
    LET l == emprunts[retour[r].emprunt].livre IN livres[l].dispo < livres[l].nombre

(* A loan in the table refers to a book and a user that are there: the     *)
(* insertion, which has read both before, and the deletions exclude each   *)
(* other by the locks alone.                                               *)
IntegriteReferentielle ==
  \A e \in Demandes : emprunts[e].statut \in EnTable =>
    /\ livres[emprunts[e].livre].etat \in {"visible", "masque"}
    /\ utilisateurs[emprunts[e].utilisateur] # "efface"

(* A user who has a loan out is not deleted, nor any of his loans (the     *)
(* trigger fn_emprunts_interdire_suppr_active stops the whole cascade): if *)
(* his deletion succeeds, none of his books is out.                        *)
RadiationSansPret ==
  \A s \in Radiations : radiation[s].reponse = "204" =>
    EmpruntsActifs(radiation[s].utilisateur) = {}

(* The daily jobs and the deletions hold the lock of a loan exactly when   *)
(* they have taken it and not finished: a run that is over, a call that is *)
(* answered, refused or chosen as the victim of a deadlock holds nothing.  *)
VerrousRendus ==
  /\ \A e \in Demandes :
       /\ \A t \in Taches : verrouEmprunt[e] = t <=> e \in cron[t].prises
       /\ \A s \in Radiations : verrouEmprunt[e] = s <=> e \in radiation[s].effaces
  /\ \A u \in Utilisateurs, s \in Radiations :
       verrouUtilisateur[u] = s <=> radiation[s].phase = "cascade" /\ radiation[s].utilisateur = u
  /\ \A l \in Livres, s \in Retraits :
       verrouLivre[l] = s <=> /\ retrait[s].phase \in {"verrouillee", "controle"}
                              /\ retrait[s].livre = l

(* A loan that is due is flagged, or returned, in the end.                 *)
RetardSignale == \A e \in Demandes : EnRetard(e) ~> emprunts[e].statut # "en_cours"

(* Every deletion and every return ends, with the cycles of locks they may *)
(* form with a loan in progress: the detector always frees somebody.       *)
RetraitsRepondus == \A s \in Retraits : <>(retrait[s].phase = "terminee")
RadiationsRepondues == \A s \in Radiations : <>(radiation[s].phase = "terminee")

(* Lending implements its promise: with its steps, its locks and its jobs, *)
(* it lends a copy it owns, once, and takes it back once.                  *)
Revenus == {e \in Demandes : emprunts[e].statut \in {"rendu", "archive", "efface"}}
Promesse == INSTANCE Prets WITH
  Prets <- Demandes,
  capacite <- [l \in Livres |-> livres[l].nombre],
  sortis <- [l \in Livres |-> Sortis(l)],
  revenus <- Revenus
TientPromesse == Promesse!Spec

=============================================================================
