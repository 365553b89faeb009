------------------------------- MODULE Acces -------------------------------
(***************************************************************************)
(* The access tokens that logins and refreshes give with the refresh       *)
(* tokens, and what the protected routes make of them.  A route never      *)
(* looks at the account: it trusts the role the token was signed with,     *)
(* until the token expires.                                                *)
(***************************************************************************)
EXTENDS Sessions

CONSTANT DureeAcces    \* dureeAcces, in the units of heure

ASSUME AccesAssumption == DureeAcces \in Nat \ {0}

VARIABLES
  acces,   \* the Revendications: the role, and when it was read and signed
  vecu,    \* history: when each account was last open with each role
  tard     \* history: what was already closed when each call began

varsAcces == <<vars, acces, vecu, tard>>

JetonAcces == [role : Roles, lu : Nat, signe : BOOLEAN, expire : Nat]

TypeAcces ==
  /\ TypeSessions
  /\ acces \in [Emetteurs -> JetonAcces]
  /\ vecu \in [Comptes -> [Roles -> -1..HeureMax]]
  /\ tard \in [Emetteurs -> SUBSET {"jeton", "compte"}]

Ouvert(c, role) == comptes[c].etat = "visible" /\ comptes[c].actif /\ comptes[c].role = role

InitAcces ==
  /\ Init
  /\ acces = [a \in Emetteurs |-> [role |-> "membre", lu |-> 0, signe |-> FALSE, expire |-> 0]]
  /\ vecu = [c \in Comptes |-> [role \in Roles |-> IF Ouvert(c, role) THEN 0 ELSE -1]]
  /\ tard = [a \in Emetteurs |-> {}]

-----------------------------------------------------------------------------
(* Mutant: a refresh signs the role of the pair it replaces. *)
RoleRepris(a, c) == IF a \in Rafraichissements THEN acces[ouvertures[a].jeton].role ELSE comptes[c].role

(* The role in the row that LireParEmail or LireParID has just read.       *)
RoleLu(a, c) == comptes[c].role

(* The account is read for a pair: its role goes on to the token.          *)
Retenir(a, c) == acces' = [acces EXCEPT ![a].role = RoleLu(a, c), ![a].lu = heure]

OuvrirParEmail(k) ==
  /\ LireParEmail(k)
  /\ LET c == ouvertures'[k].compte IN
     IF ouvertures'[k].phase = "accordee" THEN Retenir(k, c) ELSE UNCHANGED acces

OuvrirParID(r) ==
  /\ LireParID(r)
  /\ IF ouvertures'[r].phase = "lue" THEN Retenir(r, ouvertures[r].compte) ELSE UNCHANGED acces

(* GenererJetonAcces: before the refresh token is made and inserted.       *)
Signer(a) ==
  /\ ouvertures[a].phase = "accordee" /\ ~acces[a].signe
  /\ acces' = [acces EXCEPT ![a].signe = TRUE, ![a].expire = heure + DureeAcces]
  /\ UNCHANGED vars

EnregistrerPaire(a) == acces[a].signe /\ Enregistrer(a) /\ UNCHANGED acces

(* A unit is longer than DelaiTraitement: between the reading of the       *)
(* account and the signing it passes at most once.                         *)
LuAvant(a) == ouvertures[a].phase \in {"lue", "accordee"} /\ ~acces[a].signe /\ acces[a].lu < heure

PasserHeure == ChangerHeure /\ (\A a \in Emetteurs : ~LuAvant(a)) /\ UNCHANGED acces

AutreEtape ==
  /\ \/ \E r \in Rafraichissements : TrouverUtilisateurValide(r) \/ Revoquer(r)
     \/ \E a \in Emetteurs : RepondreOuverture(a) \/ AnnulerOuverture(a)
     \/ \E d \in Deconnexions : Deconnecter(d)
     \/ PurgerJetons \/ ChangerComptes
  /\ UNCHANGED acces

(* What the calls that are answered have closed for those that come after. *)
Fermes == {fermetures[f].compte : f \in {x \in Fermetures : fermetures[x].reponse = "204"}}

DejaFerme(a) ==
  {x \in {"jeton"} : ouvertures'[a].jeton \in Consommes}
  \cup {x \in {"compte"} : ouvertures'[a].compte \in Fermes}

Historique ==
  /\ vecu' = [c \in Comptes |-> [role \in Roles |-> IF Ouvert(c, role)' THEN heure' ELSE vecu[c][role]]]
  /\ tard' = [a \in Emetteurs |-> IF ouvertures[a].phase = "recue" /\ ouvertures'[a].phase # "recue"
                                  THEN DejaFerme(a) ELSE tard[a]]

NextAcces ==
  /\ \/ \E k \in Connexions : OuvrirParEmail(k)
     \/ \E r \in Rafraichissements : OuvrirParID(r)
     \/ \E a \in Emetteurs : Signer(a) \/ EnregistrerPaire(a)
     \/ PasserHeure \/ AutreEtape
  /\ Historique

SpecAcces == InitAcces /\ [][NextAcces]_varsAcces

-----------------------------------------------------------------------------
(* What the routes ask of a token.                                         *)

Tous == {"admin", "bibliothecaire", "membre"}

(* routes.go, with the check that a DELETE ?definitif=true makes by itself.*)
Exigences == [moi |-> Tous, emprunts |-> Tous,
              catalogue |-> {"admin", "bibliothecaire"}, emprunts_tous |-> {"admin", "bibliothecaire"},
              catalogue_definitif |-> {"admin"}, utilisateurs |-> {"admin"}]

(* VerifierJetonAcces: our signature, our issuer, and exp still to come.   *)
Authentifie(a) == acces[a].signe /\ heure < acces[a].expire

ExigerRole(a, route) == acces[a].role \in Exigences[route]

Reponse(a, route) ==
  IF ~Authentifie(a) THEN "401" ELSE IF ~ExigerRole(a, route) THEN "403" ELSE "handler"

(* A token that a logout or a refresh has acknowledged, or that has        *)
(* expired, opens nothing to a refresh that comes afterwards, and no       *)
(* interleaving of other calls, purges and edits brings it back            *)
(* (auth_service.go:119-137).                                              *)
JetonConsomme == \A r \in Rafraichissements : "jeton" \in tard[r] => r \notin Donnes

(* Once a deletion, logical or physical, has been acknowledged, no login   *)
(* and no refresh that comes afterwards gets a pair for that account,      *)
(* though a PUT that had read it before may still write                    *)
(* (utilisateur_repository.go:199-201).                                    *)
FermetureTient == \A a \in Emetteurs : "compte" \in tard[a] => a \notin Donnes

(* The role read from the base and not from the token it replaces: whoever *)
(* a route lets in was, no more than DureeAcces units ago, an open account *)
(* with a role the route asks for; nothing prolongs a role that was taken  *)
(* away, an account that was disabled or deleted (middleware/auth.go:37).  *)
AutoriteBornee ==
  \A a \in Donnes, route \in DOMAIN Exigences :
    Reponse(a, route) = "handler" =>
      \E role \in Exigences[route] \cap Roles : vecu[ouvertures[a].compte][role] >= heure - DureeAcces

=============================================================================
