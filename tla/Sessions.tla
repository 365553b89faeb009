------------------------------ MODULE Sessions ------------------------------
(***************************************************************************)
(* Login, rotation of the refresh tokens, logout and the hourly purge,     *)
(* over the accounts of Comptes.  Login reads the account, then inserts a  *)
(* token; a refresh finds the token, reads the account, revokes the token, *)
(* then inserts another: each a statement committed on its own.            *)
(*                                                                         *)
(* A token bears the name of the call that issues it.  Only a call that    *)
(* answered 200 has given its token away.                                  *)
(***************************************************************************)
EXTENDS Comptes

CONSTANTS
  Connexions,          \* calls of POST /auth/connexion
  Rafraichissements,   \* calls of POST /auth/rafraichir
  Deconnexions,        \* calls of POST /auth/deconnexion
  Duree,               \* dureeRafraichissement
  HeureMax,            \* bound: the last hour of a behaviour
  Aucun                \* no token, no account

ASSUME SessionsAssumption ==
  /\ Duree \in Nat /\ HeureMax \in Nat
  /\ Connexions \cap Rafraichissements = {}
  /\ Aucun \notin Connexions \cup Rafraichissements \cup Comptes

VARIABLES
  heure,          \* NOW()
  jetons,         \* rows of jetons_rafraichissement
  ouvertures,     \* the logins and the refreshes
  deconnexions    \* the logouts

varsJetons == <<heure, jetons, ouvertures, deconnexions>>
vars == <<varsComptes, varsJetons>>

Emetteurs == Connexions \cup Rafraichissements
Jeton == [etat : {"absent", "valide", "revoque", "purge"}, compte : Comptes \cup {Aucun}, expire : Nat]
Ouverture == [phase : {"recue", "trouvee", "lue", "accordee", "enregistree", "terminee"},
              jeton : Emetteurs \cup {Aucun}, compte : Comptes \cup {Aucun},
              reponse : {"aucune", "200", "401", "403", "404", "500"}]
Deconnexion == [jeton : Emetteurs \cup {Aucun}, reponse : {"aucune", "204", "500"}]

(* The rows and the calls keep their types: a call never holds a copy of   *)
(* something that was never a row.                                         *)
TypeSessions ==
  /\ TypeComptes
  /\ heure \in 0..HeureMax
  /\ jetons \in [Emetteurs -> Jeton]
  /\ ouvertures \in [Emetteurs -> Ouverture]
  /\ deconnexions \in [Deconnexions -> Deconnexion]

Init ==
  /\ InitComptes
  /\ heure = 0
  /\ jetons = [a \in Emetteurs |-> [etat |-> "absent", compte |-> Aucun, expire |-> 0]]
  /\ ouvertures = [a \in Emetteurs |-> [phase |-> "recue", jeton |-> Aucun, compte |-> Aucun,
                                        reponse |-> "aucune"]]
  /\ deconnexions = [d \in Deconnexions |-> [jeton |-> Aucun, reponse |-> "aucune"]]

Donnes == {a \in Emetteurs : ouvertures[a].reponse = "200"}
Stockes == {a \in Emetteurs : jetons[a].etat \in {"valide", "revoque"}}
Avancer(a, phase) == ouvertures' = [ouvertures EXCEPT ![a].phase = phase]
TerminerOuverture(a, reponse) ==
  ouvertures' = [ouvertures EXCEPT ![a].phase = "terminee", ![a].reponse = reponse]

-----------------------------------------------------------------------------
(* POST /auth/connexion                                                    *)

(* Any address, any password: 401 when there is no such visible account,   *)
(* or when the password is wrong.                                          *)
LireParEmail(k) ==
  /\ ouvertures[k].phase = "recue"
  /\ \/ TerminerOuverture(k, "401")
     \/ \E c \in Comptes :
          /\ comptes[c].etat = "visible"
          /\ \/ ~comptes[c].actif /\ TerminerOuverture(k, "403")
             \/ /\ comptes[c].actif
                /\ ouvertures' = [ouvertures EXCEPT ![k].phase = "accordee", ![k].compte = c]
  /\ UNCHANGED <<varsComptes, heure, jetons, deconnexions>>

-----------------------------------------------------------------------------
(* POST /auth/rafraichir                                                   *)

(* Mutant: a revoked token is found. *)
ValideOuRevoque(j) == j \in Stockes /\ jetons[j].expire > heure

Valide(j) == jetons[j].etat = "valide" /\ jetons[j].expire > heure

TrouverUtilisateurValide(r) ==
  /\ ouvertures[r].phase = "recue"
  /\ \E j \in Donnes :
       ouvertures' = [ouvertures EXCEPT
         ![r] = IF Valide(j)
                THEN [phase |-> "trouvee", jeton |-> j, compte |-> jetons[j].compte, reponse |-> "aucune"]
                ELSE [phase |-> "terminee", jeton |-> j, compte |-> Aucun, reponse |-> "401"]]
  /\ UNCHANGED <<varsComptes, heure, jetons, deconnexions>>

LireParID(r) ==
  LET c == comptes[ouvertures[r].compte] IN
  /\ ouvertures[r].phase = "trouvee"
  /\ \/ c.etat # "visible" /\ TerminerOuverture(r, "404")
     \/ c.etat = "visible" /\ ~c.actif /\ TerminerOuverture(r, "403")
     \/ c.etat = "visible" /\ c.actif /\ Avancer(r, "lue")
  /\ UNCHANGED <<varsComptes, heure, jetons, deconnexions>>

(* The UPDATE may find no row: the call goes on all the same.              *)
Revoques(j) == IF j \in Stockes THEN [jetons EXCEPT ![j].etat = "revoque"] ELSE jetons

(* Mutant: the pair is issued without the revocation. *)
RevoquerOublie(r) ==
  /\ ouvertures[r].phase = "lue"
  /\ Avancer(r, "accordee")
  /\ UNCHANGED <<varsComptes, heure, jetons, deconnexions>>

Revoquer(r) ==
  /\ ouvertures[r].phase = "lue"
  /\ jetons' = Revoques(ouvertures[r].jeton)
  /\ Avancer(r, "accordee")
  /\ UNCHANGED <<varsComptes, heure, deconnexions>>

-----------------------------------------------------------------------------
(* genererPaireDeJetons, the answer and the deadline, for both routes      *)

(* Mutant: no foreign key. *)
EnregistrerSansReference(a) ==
  /\ ouvertures[a].phase = "accordee"
  /\ jetons' = [jetons EXCEPT ![a] = [etat |-> "valide", compte |-> ouvertures[a].compte,
                                      expire |-> heure + Duree]]
  /\ Avancer(a, "enregistree")
  /\ UNCHANGED <<varsComptes, heure, deconnexions>>

(* fk_jetons_utilisateur refuses a token for an account that is gone.      *)
Enregistrer(a) ==
  LET c == ouvertures[a].compte IN
  /\ ouvertures[a].phase = "accordee"
  /\ \/ /\ c \in EnBase
        /\ jetons' = [jetons EXCEPT ![a] = [etat |-> "valide", compte |-> c, expire |-> heure + Duree]]
        /\ Avancer(a, "enregistree")
     \/ /\ c \notin EnBase
        /\ TerminerOuverture(a, "500")
        /\ UNCHANGED jetons
  /\ UNCHANGED <<varsComptes, heure, deconnexions>>

RepondreOuverture(a) ==
  /\ ouvertures[a].phase = "enregistree"
  /\ TerminerOuverture(a, "200")
  /\ UNCHANGED <<varsComptes, heure, jetons, deconnexions>>

(* The deadline: before a statement, or after the last with its answer     *)
(* lost.  What is committed stays.                                         *)
AnnulerOuverture(a) ==
  /\ ouvertures[a].phase # "terminee"
  /\ TerminerOuverture(a, "500")
  /\ UNCHANGED <<varsComptes, heure, jetons, deconnexions>>

-----------------------------------------------------------------------------
(* POST /auth/deconnexion, bib_purger_jetons, the clock                    *)

Deconnecter(d) ==
  /\ deconnexions[d].reponse = "aucune"
  /\ \E j \in Donnes, r \in Accuse("204") :
       /\ jetons' = Revoques(j)
       /\ deconnexions' = [deconnexions EXCEPT ![d] = [jeton |-> j, reponse |-> r]]
  /\ UNCHANGED <<varsComptes, heure, ouvertures>>

Purgeables == {j \in Stockes : jetons[j].expire < heure \/ jetons[j].etat = "revoque"}

Retirer(partis) ==
  jetons' = [j \in Emetteurs |-> IF j \in partis THEN [jetons[j] EXCEPT !.etat = "purge"] ELSE jetons[j]]

PurgerJetons ==
  /\ Purgeables # {}
  /\ Retirer(Purgeables)
  /\ UNCHANGED <<varsComptes, heure, ouvertures, deconnexions>>

ChangerHeure ==
  /\ heure < HeureMax
  /\ heure' = heure + 1
  /\ UNCHANGED <<varsComptes, jetons, ouvertures, deconnexions>>

(* Accounts change under the sessions; the deletion of a row takes its     *)
(* tokens along (ON DELETE CASCADE).                                       *)
ChangerComptes ==
  /\ NextComptes
  /\ Retirer({j \in Stockes : comptes'[jetons[j].compte].etat = "efface"})
  /\ UNCHANGED <<heure, ouvertures, deconnexions>>

Next ==
  \/ \E k \in Connexions : LireParEmail(k)
  \/ \E r \in Rafraichissements : TrouverUtilisateurValide(r) \/ LireParID(r) \/ Revoquer(r)
  \/ \E a \in Emetteurs : Enregistrer(a) \/ RepondreOuverture(a) \/ AnnulerOuverture(a)
  \/ \E d \in Deconnexions : Deconnecter(d)
  \/ PurgerJetons \/ ChangerHeure \/ ChangerComptes

Spec == Init /\ [][Next]_vars

-----------------------------------------------------------------------------
(* The rotation (auth_service.go:132-137): once the new token of a refresh *)
(* is there, the one it was given in exchange for is revoked or gone.      *)
RotationOrdonnee ==
  \A r \in Rafraichissements : r \in Stockes =>
    jetons[ouvertures[r].jeton].etat \in {"revoque", "purge"}

(* No row of jetons_rafraichissement without its account, whatever the     *)
(* order of a deletion and of a login or a refresh that has read it before.*)
JetonsSansOrphelin == \A j \in Stockes : jetons[j].compte \in EnBase

(* Tokens a client has been told are of no more use, or that are past      *)
(* their date.                                                             *)
Consommes ==
  {deconnexions[d].jeton : d \in {x \in Deconnexions : deconnexions[x].reponse = "204"}}
  \cup {ouvertures[r].jeton : r \in Donnes \cap Rafraichissements}
  \cup {j \in Donnes : jetons[j].expire <= heure}

=============================================================================
