-------------------------------- MODULE Seau --------------------------------
(***************************************************************************)
(* What the rate limiter promises: each client has one bucket of Rafale    *)
(* tokens that is refilled at a constant rate and is never forgotten; a    *)
(* request is let in if and only if it finds a token.                      *)
(***************************************************************************)
EXTENDS Integers

CONSTANTS Clients, Debit, Rafale

VARIABLES
  niveau,    \* the tokens of each client
  verdict    \* what its last request was told

vars == <<niveau, verdict>>

Plafonner(n) == IF n > Rafale THEN Rafale ELSE n

Init == niveau = [c \in Clients |-> Rafale] /\ verdict = [c \in Clients |-> "aucun"]

Admettre(c) ==
  /\ niveau[c] > 0
  /\ niveau' = [niveau EXCEPT ![c] = @ - 1]
  /\ verdict' = [verdict EXCEPT ![c] = "admise"]

Refuser(c) ==
  /\ niveau[c] = 0
  /\ verdict' = [verdict EXCEPT ![c] = "refusee"]
  /\ UNCHANGED niveau

Remplir ==
  /\ niveau' = [c \in Clients |-> Plafonner(niveau[c] + Debit)]
  /\ UNCHANGED verdict

Next == Remplir \/ \E c \in Clients : Admettre(c) \/ Refuser(c)

Spec == Init /\ [][Next]_vars

=============================================================================
