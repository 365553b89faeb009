------------------------------ MODULE Serveur ------------------------------
(***************************************************************************)
(* The process: requests going through the middlewares and competing for   *)
(* the connection pool under their deadlines, the scheduled tasks, and the *)
(* main goroutine from the listening to the end of the graceful shutdown.  *)
(* Time goes in units; a unit does not pass while a deadline is due.       *)
(***************************************************************************)
EXTENDS Limiteur, FiniteSets

CONSTANTS
  Requetes, Sondes,     \* request slots; those of /ready
  Taches,               \* scheduled tasks
  MaxConnexions,        \* MaxConnexionsOuvertes
  DelaiLecture, DelaiTraitement, DelaiSonde, DelaiArret,
  Libre                 \* no request owns the contended row

ASSUME ServeurAssumption ==
  /\ IsFiniteSet(Requetes) /\ Sondes \subseteq Requetes /\ Libre \notin Requetes
  /\ MaxConnexions \in Nat \ {0}
  /\ DelaiLecture \in Nat /\ DelaiTraitement \in Nat /\ DelaiSonde \in Nat /\ DelaiArret \in Nat

VARIABLES
  requetes,     \* of each slot: the phase and age of its request, when its context expires
  connexions,   \* the requests that hold a connection of the pool
  verrou,       \* the transaction that owns the contended row, or Libre
  enCours,      \* the gauge RequetesEnCours
  taches,       \* what the goroutine of each task does
  contexte,     \* the life-cycle context
  ecoute,       \* what ListenAndServe does
  principal,    \* where executer is
  ageArret,     \* since Shutdown was called
  coupees,      \* the requests whose connection Close has cut
  base          \* the *sql.DB

varsRequetes == <<requetes, connexions, verrou, enCours>>
varsMain == <<contexte, ecoute, principal, ageArret, coupees, base>>
vars == <<clients, verdict, varsRequetes, taches, varsMain>>

DelaiMax == DelaiLecture + DelaiTraitement

Requete == [phase : {"aucune", "lecture", "corps", "attente", "connectee", "verrouillee"},
            age : 0..DelaiMax, echeance : 0..DelaiMax]

Repos == [phase |-> "aucune", age |-> 0, echeance |-> 0]

EnVol == {r \in Requetes : requetes[r].phase # "aucune"}

(* Inside the Metriques middleware.                                        *)
Interieur == {r \in EnVol : requetes[r].phase # "lecture"}

InitServeur ==
  /\ InitLimiteur
  /\ requetes = [r \in Requetes |-> Repos]
  /\ connexions = {} /\ verrou = Libre /\ enCours = 0
  /\ taches = [t \in Taches |-> "attend"]
  /\ contexte = "actif" /\ ecoute = "ouverte" /\ principal = "sert"
  /\ ageArret = 0 /\ coupees = {} /\ base = "ouverte"

-----------------------------------------------------------------------------
(* A request and the resources it holds.                                   *)

Aller(r, phase) == requetes' = [requetes EXCEPT ![r].phase = phase]

(* The handler returns: what it wrote leaves, unless Close has cut the     *)
(* connection, and the slot is free for another request.                   *)
Achever(r) == requetes' = [requetes EXCEPT ![r] = Repos]

(* The end of a statement or a transaction gives the connection back.      *)
Rendre(r) ==
  /\ connexions' = connexions \ {r}
  /\ verrou' = IF verrou = r THEN Libre ELSE verrou

(* The deferred Dec: it runs on every way out.                             *)
Sortir == enCours' = enCours - 1

Repondre(r) == Achever(r) /\ Rendre(r) /\ Sortir

(* A client's request line arrives on a new connection, or on one kept     *)
(* alive, which goes on being served after an error of the listener.       *)
Accepter(r) ==
  /\ ecoute # "fermee" /\ r \notin EnVol
  /\ requetes' = [requetes EXCEPT ![r] = [Repos EXCEPT !.phase = "lecture"]]
  /\ UNCHANGED <<clients, verdict, connexions, verrou, enCours>>

(* ReadTimeout, or the client that leaves before the end of the headers.   *)
Interrompre(r) ==
  /\ requetes[r].phase = "lecture"
  /\ Achever(r)
  /\ UNCHANGED <<clients, verdict, connexions, verrou, enCours>>

(* CORS answers 204 to an OPTIONS before the limiter sees it.              *)
PreVol(r) ==
  /\ requetes[r].phase = "lecture" /\ r \notin Sondes
  /\ Achever(r)
  /\ UNCHANGED <<clients, verdict, connexions, verrou, enCours>>

(* 429: the request goes no further.                                       *)
Limiter(r) ==
  /\ requetes[r].phase = "lecture"
  /\ \E c \in Clients : Refuser(c)
  /\ Achever(r)
  /\ UNCHANGED <<connexions, verrou, enCours>>

(* Past the limiter: the deadline is attached, then the gauge goes up.     *)
Entrer(r) ==
  /\ requetes[r].phase = "lecture" /\ r \notin coupees
  /\ \E c \in Clients : Admettre(c)
  /\ requetes' = [requetes EXCEPT ![r].phase = "corps", ![r].echeance = requetes[r].age + DelaiTraitement]
  /\ enCours' = enCours + 1
  /\ UNCHANGED <<connexions, verrou>>

(* An answer that needs no base: /health, /metrics, 404, 401, 403, 405 or  *)
(* a body that is refused, too long or read too late.                      *)
Trancher(r) ==
  /\ requetes[r].phase = "corps" /\ r \notin Sondes
  /\ Repondre(r)
  /\ UNCHANGED <<clients, verdict>>

(* The body is read; the handler calls the base.  /ready gives its ping a  *)
(* deadline of its own.                                                    *)
Appeler(r) ==
  /\ requetes[r].phase = "corps"
  /\ requetes' = [requetes EXCEPT ![r].phase = "attente",
       ![r].echeance = IF r \in Sondes THEN Borne(requetes[r].age + DelaiSonde, requetes[r].echeance) ELSE @]
  /\ UNCHANGED <<clients, verdict, connexions, verrou, enCours>>

(* What database/sql checks before it gives a connection.                  *)
Disponible == base = "ouverte" /\ Cardinality(connexions) < MaxConnexions

Attribuer(r) ==
  /\ requetes[r].phase = "attente" /\ Disponible
  /\ connexions' = connexions \cup {r}
  /\ Aller(r, "connectee")
  /\ UNCHANGED <<clients, verdict, verrou, enCours>>

(* SELECT ... FOR UPDATE, or an UPDATE, of the contended row.              *)
Verrouiller(r) ==
  /\ requetes[r].phase = "connectee" /\ r \notin Sondes /\ verrou = Libre
  /\ verrou' = r
  /\ Aller(r, "verrouillee")
  /\ UNCHANGED <<clients, verdict, connexions, enCours>>

(* The last statement ends or the transaction commits.                     *)
Valider(r) ==
  /\ requetes[r].phase \in {"connectee", "verrouillee"}
  /\ Repondre(r)
  /\ UNCHANGED <<clients, verdict>>

(* A statement of its own ends and the handler has another one to make.    *)
Enchainer(r) ==
  /\ requetes[r].phase = "connectee" /\ r \notin Sondes
  /\ Rendre(r)
  /\ Aller(r, "attente")
  /\ UNCHANGED <<clients, verdict, enCours>>

(* An error of the base, the deadline, or a client that has left: the      *)
(* transaction is rolled back and the answer is 500, or 503 from /ready.   *)
Echouer(r) ==
  /\ requetes[r].phase \in {"attente", "connectee", "verrouillee"}
  /\ Repondre(r)
  /\ UNCHANGED <<clients, verdict>>

(* Mutant: the transaction is left open by the panic. *)
PaniquerSansRollback(r) ==
  /\ r \in Interieur \ Sondes
  /\ Achever(r) /\ Sortir
  /\ UNCHANGED <<clients, verdict, connexions, verrou>>

(* Mutant: the gauge goes down after the handler, and not by a defer. *)
PaniquerSansDefer(r) ==
  /\ r \in Interieur \ Sondes
  /\ Achever(r) /\ Rendre(r)
  /\ UNCHANGED <<clients, verdict, enCours>>

(* A panic rolls back, is raised again and is recovered into a 500.        *)
Paniquer(r) ==
  /\ r \in Interieur \ Sondes
  /\ Repondre(r)
  /\ UNCHANGED <<clients, verdict>>

(* A deadline is due, or what the request waits for is gone.               *)
Echue(r) ==
  LET q == requetes[r]
  IN  \/ q.phase \in {"lecture", "corps"} /\ q.age >= DelaiLecture
      \/ q.phase = "lecture" /\ r \in coupees
      \/ q.phase \in {"attente", "connectee", "verrouillee"} /\ (q.age >= q.echeance \/ r \in coupees)
      \/ q.phase = "attente" /\ base = "fermee"

EtapeRequete(r) ==
  /\ \/ Accepter(r) \/ Interrompre(r) \/ PreVol(r) \/ Limiter(r) \/ Entrer(r) \/ Trancher(r) \/ Appeler(r)
     \/ Attribuer(r) \/ Verrouiller(r) \/ Valider(r) \/ Enchainer(r) \/ Echouer(r) \/ Paniquer(r)
  /\ UNCHANGED <<taches, varsMain>>

-----------------------------------------------------------------------------
(* The goroutines of the scheduler: when the context is cancelled and the  *)
(* ticker has fired, select takes either.                                  *)
Executer(t) == taches[t] = "attend" /\ taches' = [taches EXCEPT ![t] = "execute"]

Finir(t) == taches[t] = "execute" /\ taches' = [taches EXCEPT ![t] = "attend"]

(* Mutant: the goroutine returns without wg.Done. *)
ArreterSansDone(t) == contexte = "annule" /\ taches[t] = "attend" /\ UNCHANGED taches

Arreter(t) ==
  /\ contexte = "annule" /\ taches[t] = "attend"
  /\ taches' = [taches EXCEPT ![t] = "arretee"]

EtapeTache(t) == (Executer(t) \/ Finir(t) \/ Arreter(t)) /\ UNCHANGED <<clients, verdict, varsRequetes, varsMain>>

(* SIGINT or SIGTERM, at any time.                                         *)
Signaler ==
  /\ contexte = "actif" /\ contexte' = "annule"
  /\ UNCHANGED <<ecoute, principal, ageArret, coupees, base>>

(* ListenAndServe returns an error: the port is taken, Accept fails.       *)
TomberEcoute ==
  /\ ecoute = "ouverte" /\ ecoute' = "erreur"
  /\ UNCHANGED <<contexte, principal, ageArret, coupees, base>>

(* The select of executer: the error returns at once...                    *)
SortirSurErreur ==
  /\ principal = "sert" /\ ecoute = "erreur"
  /\ principal' = "sortie"
  /\ UNCHANGED <<contexte, ecoute, ageArret, coupees, base>>

(* ... the signal begins Shutdown, which closes the listener first.        *)
CommencerArret ==
  /\ principal = "sert" /\ contexte = "annule"
  /\ principal' = "arret" /\ ecoute' = "fermee"
  /\ UNCHANGED <<contexte, ageArret, coupees, base>>

(* Shutdown returns once no connection is active...                        *)
FinirArret ==
  /\ principal = "arret" /\ EnVol = {}
  /\ principal' = "attente"
  /\ UNCHANGED <<contexte, ecoute, ageArret, coupees, base>>

(* ... or at its deadline, and Close cuts those that are left.             *)
ForcerArret ==
  /\ principal = "arret" /\ ageArret >= DelaiArret
  /\ principal' = "attente" /\ coupees' = EnVol
  /\ UNCHANGED <<contexte, ecoute, ageArret, base>>

(* Mutant: the tasks are not waited for. *)
NAttendrePas ==
  /\ principal = "attente"
  /\ principal' = "sortie"
  /\ UNCHANGED <<contexte, ecoute, ageArret, coupees, base>>

Attendre ==
  /\ principal = "attente" /\ \A t \in Taches : taches[t] = "arretee"
  /\ principal' = "sortie"
  /\ UNCHANGED <<contexte, ecoute, ageArret, coupees, base>>

(* The deferred calls, last first: db.Close, then arreterSignaux; the      *)
(* process ends.                                                           *)
FermerBase ==
  /\ principal = "sortie"
  /\ principal' = "fermeture" /\ base' = "fermee"
  /\ UNCHANGED <<contexte, ecoute, ageArret, coupees>>

Terminer ==
  /\ principal = "fermeture"
  /\ principal' = "termine" /\ contexte' = "annule"
  /\ UNCHANGED <<ecoute, ageArret, coupees, base>>

EtapeMain == SortirSurErreur \/ CommencerArret \/ FinirArret \/ ForcerArret \/ Attendre \/ FermerBase \/ Terminer

-----------------------------------------------------------------------------
Tic ==
  /\ \A r \in Requetes : ~Echue(r)
  /\ ~(principal = "arret" /\ ageArret >= DelaiArret)
  /\ Remplir
  /\ requetes' = [r \in Requetes |-> IF r \in EnVol THEN [requetes[r] EXCEPT !.age = @ + 1] ELSE requetes[r]]
  /\ ageArret' = IF principal = "arret" THEN ageArret + 1 ELSE ageArret
  /\ UNCHANGED <<connexions, verrou, enCours, taches, contexte, ecoute, principal, coupees, base>>

(* The cleaner's goroutine stops with the context.                         *)
NettoyerClients ==
  /\ contexte = "actif" /\ Nettoyer
  /\ UNCHANGED <<varsRequetes, taches, varsMain>>

(* Nothing runs once the process has ended.                                *)
NextServeur ==
  /\ principal # "termine"
  /\ \/ Tic \/ NettoyerClients
     \/ \E r \in Requetes : EtapeRequete(r)
     \/ \E t \in Taches : EtapeTache(t)
     \/ (Signaler \/ TomberEcoute \/ EtapeMain) /\ UNCHANGED <<clients, verdict, varsRequetes, taches>>

(* Time goes on, a due deadline acts, main is scheduled, a task ends and,  *)
(* select choosing at random among what is ready, sees the cancelling.     *)
Equite ==
  /\ WF_vars(principal # "termine" /\ Tic)
  /\ WF_vars(EtapeMain /\ UNCHANGED <<clients, verdict, varsRequetes, taches>>)
  /\ \A r \in Requetes :
       WF_vars(principal # "termine" /\ Echue(r)
               /\ (Interrompre(r) \/ Trancher(r) \/ Appeler(r) \/ Echouer(r)) /\ UNCHANGED <<taches, varsMain>>)
  /\ \A t \in Taches :
       /\ WF_vars(principal # "termine" /\ Finir(t) /\ UNCHANGED <<clients, verdict, varsRequetes, varsMain>>)
       /\ SF_vars(principal # "termine" /\ Arreter(t) /\ UNCHANGED <<clients, verdict, varsRequetes, varsMain>>)

Spec == InitServeur /\ [][NextServeur]_vars /\ Equite

-----------------------------------------------------------------------------
(* The gauge counts the requests inside the middleware, whichever way each *)
(* of them leaves (metrics.go:22-24).                                      *)
TypeServeur ==
  /\ TypeLimiteur
  /\ requetes \in [Requetes -> Requete]
  /\ connexions \subseteq EnVol /\ Cardinality(connexions) <= MaxConnexions
  /\ verrou \in connexions \cup {Libre}
  /\ enCours = Cardinality(Interieur)
  /\ taches \in [Taches -> {"attend", "execute", "arretee"}]
  /\ contexte \in {"actif", "annule"} /\ ecoute \in {"ouverte", "erreur", "fermee"}
  /\ principal \in {"sert", "arret", "attente", "sortie", "fermeture", "termine"}
  /\ ageArret \in 0..DelaiArret /\ coupees \subseteq Requetes /\ base \in {"ouverte", "fermee"}

(* After a signal the base is closed on a stopped scheduler, and on no     *)
(* request but those that Close has cut because they had run for the whole *)
(* of DelaiArretGracieux (main.go:189-196).                                *)
ArretGracieux ==
  /\ base = "fermee" /\ ecoute = "fermee" =>
       (\A t \in Taches : taches[t] = "arretee") /\ EnVol \subseteq coupees
  /\ \A r \in coupees \cap EnVol : requetes[r].age >= DelaiArret

(* A full pool never waits on itself: whoever waits for a connection, some *)
(* holder needs nothing that another one holds (transaction.go:53-66).     *)
PoolAvance ==
  (Cardinality(connexions) = MaxConnexions /\ \E r \in Requetes : requetes[r].phase = "attente") =>
    \E r \in connexions :
      requetes[r].phase = "verrouillee" \/ (requetes[r].phase = "connectee" /\ verrou = Libre)

(* A signal or an error of the listener ends the process, whatever the     *)
(* requests and the tasks do (main.go:177-199).                            *)
SignalTermine == (contexte = "annule" \/ ecoute = "erreur") ~> principal = "termine"

=============================================================================
