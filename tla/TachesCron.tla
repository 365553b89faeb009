----------------------------- MODULE TachesCron -----------------------------
(***************************************************************************)
(* The pg_cron jobs that write loans: bib_marquer_retards flags the late   *)
(* ones, bib_archiver moves those returned long ago to emprunts_archive.   *)
(* Each is one statement over many rows: it chooses them in its snapshot,  *)
(* locks them one by one, in any order, testing its WHERE clause again on  *)
(* every row it locks, and commits them together.                          *)
(***************************************************************************)
EXTENDS Base

VARIABLE cron   \* the run in progress of each job

varsCron == <<varsBase, cron>>

TypeCron == cron \in [Taches -> [phase : {"repos", "parcours"}, candidats : SUBSET Demandes,
                                 prises : SUBSET Demandes]]

Repos == [phase |-> "repos", candidats |-> {}, prises |-> {}]
InitCron == cron = [t \in Taches |-> Repos]

EnRetard(e) == emprunts[e].statut = "en_cours" /\ emprunts[e].prevue < jour
Ancien(e) == emprunts[e].statut = "rendu" /\ emprunts[e].effective < jour - Retention

(* Mutant: loans are flagged a day late. *)
ViseUnJourTard(t, e) == IF t = "bib_archiver" THEN Ancien(e)
                        ELSE emprunts[e].statut = "en_cours" /\ emprunts[e].prevue < jour - 1

(* The WHERE clause of each job, and the status it gives.                  *)
Vise(t, e) == IF t = "bib_archiver" THEN Ancien(e) ELSE EnRetard(e)
Effet(t) == IF t = "bib_archiver" THEN "archive" ELSE "en_retard"

DebuterTache(t) ==
  LET E == {e \in Demandes : Vise(t, e)} IN
  /\ cron[t].phase = "repos"
  /\ E # {}
  /\ cron' = [cron EXCEPT ![t] = [phase |-> "parcours", candidats |-> E, prises |-> {}]]
  /\ UNCHANGED varsBase

(* Mutant: the WHERE clause is not tested again. *)
PrendreLigneSansReexamen(t, e) ==
  /\ e \in cron[t].candidats
  /\ verrouEmprunt[e] = Libre
  /\ cron' = [cron EXCEPT ![t].candidats = @ \ {e}, ![t].prises = @ \cup {e}]
  /\ verrouEmprunt' = [verrouEmprunt EXCEPT ![e] = t]
  /\ UNCHANGED <<jour, tables, verrouLivre, verrouUtilisateur>>

(* A candidate row: locked if it still qualifies, skipped otherwise.       *)
PrendreLigne(t, e) ==
  /\ e \in cron[t].candidats
  /\ verrouEmprunt[e] = Libre
  /\ \/ /\ Vise(t, e)
        /\ cron' = [cron EXCEPT ![t].candidats = @ \ {e}, ![t].prises = @ \cup {e}]
        /\ verrouEmprunt' = [verrouEmprunt EXCEPT ![e] = t]
     \/ /\ ~ Vise(t, e)
        /\ cron' = [cron EXCEPT ![t].candidats = @ \ {e}]
        /\ UNCHANGED verrouEmprunt
  /\ UNCHANGED <<jour, tables, verrouLivre, verrouUtilisateur>>

ValiderTache(t) ==
  /\ cron[t].phase = "parcours"
  /\ cron[t].candidats = {}
  /\ Basculer(cron[t].prises, Effet(t))
  /\ verrouEmprunt' = Liberes(verrouEmprunt, t)
  /\ cron' = [cron EXCEPT ![t] = Repos]
  /\ UNCHANGED <<jour, livres, utilisateurs, verrouLivre, verrouUtilisateur>>

(* The run is the victim of a deadlock: it is rolled back, and leaves what *)
(* it had to do to the next one.                                           *)
AnnulerTache(t) ==
  /\ cron[t].phase = "parcours"
  /\ verrouEmprunt' = Liberes(verrouEmprunt, t)
  /\ cron' = [cron EXCEPT ![t] = Repos]
  /\ UNCHANGED <<jour, tables, verrouLivre, verrouUtilisateur>>

EtapeTache(t) == DebuterTache(t) \/ (\E e \in Demandes : PrendreLigne(t, e)) \/ ValiderTache(t)

NextCron == \E t \in Taches : EtapeTache(t)

=============================================================================
