------------------------------ MODULE Limiteur ------------------------------
(***************************************************************************)
(* The rate limiter: a map from clients to token buckets, made on a first  *)
(* request and dropped by a periodic cleaning once idle.  limiteurPour and *)
(* Allow are one step: nothing between them can last as long as Oubli.     *)
(* Time goes in units; a bucket gets Debit tokens in each, and 3 minutes   *)
(* are Oubli units.                                                        *)
(***************************************************************************)
EXTENDS Integers

CONSTANTS Clients, Debit, Rafale, Oubli

ASSUME LimiteurAssumption == Debit \in Nat \ {0} /\ Rafale \in Nat \ {0} /\ Oubli \in Nat

(* A bucket left alone for Oubli units is full.  config.go does not check  *)
(* it: it holds of the default rate and burst, and of any rate of a token  *)
(* every few seconds.                                                      *)
ASSUME OubliAssumption == Rafale <= Debit * (Oubli + 1)

VARIABLES
  clients,   \* l.clients: an entry is there or not, its tokens, its idle time
  verdict    \* what the last request of each client was told

varsLimiteur == <<clients, verdict>>

Entree == [present : BOOLEAN, jetons : 0..Rafale, inactif : 0..(Oubli + 1)]

TypeLimiteur ==
  /\ clients \in [Clients -> Entree]
  /\ verdict \in [Clients -> {"aucun", "admise", "refusee"}]

InitLimiteur ==
  /\ clients = [c \in Clients |-> [present |-> FALSE, jetons |-> 0, inactif |-> 0]]
  /\ verdict = [c \in Clients |-> "aucun"]

(* limiteurPour: the tokens of the bucket the request is given.            *)
JetonsPour(c) == IF clients[c].present THEN clients[c].jetons ELSE Rafale

(* Mutant: derniereVue is set when the entry is made, and only then. *)
VueUneFois(c, jetons) ==
  clients' = [clients EXCEPT ![c] = [present |-> TRUE, jetons |-> jetons,
                                     inactif |-> IF clients[c].present THEN clients[c].inactif ELSE 0]]

Vue(c, jetons) == clients' = [clients EXCEPT ![c] = [present |-> TRUE, jetons |-> jetons, inactif |-> 0]]

Admettre(c) ==
  /\ JetonsPour(c) > 0
  /\ Vue(c, JetonsPour(c) - 1)
  /\ verdict' = [verdict EXCEPT ![c] = "admise"]

Refuser(c) ==
  /\ JetonsPour(c) = 0
  /\ Vue(c, 0)
  /\ verdict' = [verdict EXCEPT ![c] = "refusee"]

Oubliees == {c \in Clients : clients[c].present /\ clients[c].inactif > Oubli}

(* A round of nettoyerPeriodiquement.                                      *)
Nettoyer ==
  /\ Oubliees # {}
  /\ clients' = [c \in Clients |-> IF c \in Oubliees
                                   THEN [present |-> FALSE, jetons |-> 0, inactif |-> 0] ELSE clients[c]]
  /\ UNCHANGED verdict

Borne(n, max) == IF n > max THEN max ELSE n

(* A unit of time; an idle time past Oubli is not told apart.              *)
Remplir ==
  /\ clients' = [c \in Clients |->
       IF clients[c].present
       THEN [present |-> TRUE, jetons |-> Borne(clients[c].jetons + Debit, Rafale),
             inactif |-> Borne(clients[c].inactif + 1, Oubli + 1)]
       ELSE clients[c]]
  /\ UNCHANGED verdict

NextLimiteur == Nettoyer \/ Remplir \/ \E c \in Clients : Admettre(c) \/ Refuser(c)

SpecLimiteur == InitLimiteur /\ [][NextLimiteur]_varsLimiteur

-----------------------------------------------------------------------------
(* The limiter of the code is the bucket that is never forgotten: neither  *)
(* the making nor the cleaning of entries (rate_limiter.go:57-89) changes  *)
(* what any request is told.                                               *)
Ideal == INSTANCE Seau WITH niveau <- [c \in Clients |-> JetonsPour(c)]

SeauIdeal == Ideal!Spec

=============================================================================
