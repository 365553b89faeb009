---------------------------- MODULE AccesPreuves ----------------------------
(***************************************************************************)
(* Proofs about the access tokens: what a consumed refresh token or a      *)
(* closed account still opens, and how long a role outlives its account.   *)
(***************************************************************************)
EXTENDS Acces, SessionsPreuves

-----------------------------------------------------------------------------
(* The sessions under the access tokens                                    *)

LEMMA PasDeSession ==
  ASSUME [NextAcces]_varsAcces
  PROVE  [Next]_vars
<1>1. CASE \E k \in Connexions : OuvrirParEmail(k)  BY <1>1 DEF OuvrirParEmail, Next
<1>2. CASE \E r \in Rafraichissements : OuvrirParID(r)  BY <1>2 DEF OuvrirParID, Next
<1>3. CASE \E a \in Emetteurs : Signer(a) \/ EnregistrerPaire(a)
  BY <1>3 DEF Signer, EnregistrerPaire, Next
<1>4. CASE PasserHeure  BY <1>4 DEF PasserHeure, Next
<1>5. CASE AutreEtape  BY <1>5 DEF AutreEtape, Next
<1>6. CASE UNCHANGED varsAcces  BY <1>6 DEF varsAcces
<1> QED BY <1>1, <1>2, <1>3, <1>4, <1>5, <1>6 DEF NextAcces

LEMMA AccesEstSessions == SpecAcces => Spec
<1>1. InitAcces => Init  BY DEF InitAcces
<1> QED BY <1>1, PasDeSession, PTL DEF SpecAcces, Spec

LEMMA InvariantSessions == SpecAcces => []Invariant
BY AccesEstSessions, InvariantTient, PTL

(* A step of the process leaves a call and its token alone, or is one of   *)
(* the steps of that call.                                                 *)

Meme(a) == ouvertures'[a] = ouvertures[a] /\ acces'[a] = acces[a]

(* The account is read, open, and its role retained.                       *)
Lecture(a, c, phase) ==
  /\ c \in Comptes /\ comptes[c].etat = "visible" /\ comptes[c].actif
  /\ ouvertures'[a].phase = phase /\ ouvertures'[a].compte = c
  /\ ouvertures'[a].reponse = ouvertures[a].reponse /\ ouvertures'[a].jeton = ouvertures[a].jeton
  /\ acces'[a] = [acces[a] EXCEPT !.role = comptes[c].role, !.lu = heure]
  /\ UNCHANGED <<varsComptes, heure, jetons>>

Presente(a, j) ==
  /\ a \in Rafraichissements /\ j \in Donnes /\ Valide(j) /\ ouvertures[a].phase = "recue"
  /\ ouvertures'[a] = [phase |-> "trouvee", jeton |-> j, compte |-> jetons[j].compte, reponse |-> "aucune"]
  /\ acces'[a] = acces[a] /\ UNCHANGED <<varsComptes, jetons>>

Signature(a) ==
  /\ ouvertures[a].phase = "accordee" /\ ~acces[a].signe /\ ouvertures'[a] = ouvertures[a]
  /\ acces'[a] = [acces[a] EXCEPT !.signe = TRUE, !.expire = heure + DureeAcces]
  /\ heure' = heure

Avance(a) ==
  /\ \/ ouvertures[a].phase = "lue" /\ ouvertures'[a].phase = "accordee" /\ jetons' = Revoques(ouvertures[a].jeton)
     \/ /\ ouvertures[a].phase = "accordee" /\ ouvertures'[a].phase = "enregistree" /\ acces[a].signe
        /\ jetons'[a].etat = "valide"
  /\ ouvertures'[a].compte = ouvertures[a].compte /\ ouvertures'[a].jeton = ouvertures[a].jeton
  /\ ouvertures'[a].reponse = ouvertures[a].reponse
  /\ acces'[a] = acces[a] /\ UNCHANGED <<varsComptes, heure>>

Don(a) ==
  /\ ouvertures[a].phase = "enregistree"
  /\ ouvertures'[a] = [ouvertures[a] EXCEPT !.phase = "terminee", !.reponse = "200"]
  /\ acces'[a] = acces[a] /\ UNCHANGED <<varsComptes, heure, jetons>>

Refus(a) ==
  /\ ouvertures[a].phase # "terminee" /\ ouvertures'[a].phase = "terminee"
  /\ ouvertures'[a].reponse \in {"401", "403", "404", "500"} /\ acces'[a] = acces[a]

Pas(a) ==
  \/ Meme(a) \/ Signature(a) \/ Avance(a) \/ Don(a) \/ Refus(a)
  \/ \E c \in Comptes : a \in Connexions /\ ouvertures[a].phase = "recue" /\ Lecture(a, c, "accordee")
  \/ a \in Rafraichissements /\ ouvertures[a].phase = "trouvee" /\ Lecture(a, ouvertures[a].compte, "lue")
  \/ \E j \in Emetteurs : Presente(a, j)

LEMMA RefusVaut ==
  ASSUME ouvertures \in [Emetteurs -> Ouverture], NEW a \in Emetteurs, NEW x, TerminerOuverture(a, x)
  PROVE  /\ ouvertures'[a] = [ouvertures[a] EXCEPT !.phase = "terminee", !.reponse = x]
         /\ ouvertures'[a].phase = "terminee" /\ ouvertures'[a].reponse = x
         /\ \A b \in Emetteurs \ {a} : ouvertures'[b] = ouvertures[b]
BY DEF TerminerOuverture, Ouverture

LEMMA AvancerVaut ==
  ASSUME ouvertures \in [Emetteurs -> Ouverture], NEW a \in Emetteurs, NEW x, Avancer(a, x)
  PROVE  /\ ouvertures'[a].phase = x /\ ouvertures'[a].jeton = ouvertures[a].jeton
         /\ ouvertures'[a].compte = ouvertures[a].compte /\ ouvertures'[a].reponse = ouvertures[a].reponse
         /\ \A b \in Emetteurs \ {a} : ouvertures'[b] = ouvertures[b]
BY DEF Avancer, Ouverture

LEMMA EmailPas ==
  ASSUME Invariant, TypeAcces, NEW k \in Connexions, OuvrirParEmail(k), NEW a \in Emetteurs
  PROVE  Pas(a)
<1>0. /\ ouvertures \in [Emetteurs -> Ouverture] /\ acces \in [Emetteurs -> JetonAcces]
      /\ k \in Emetteurs /\ ouvertures[k] \in Ouverture /\ comptes \in [Comptes -> Compte]
  BY DEF TypeAcces, TypeSessions, TypeComptes, Emetteurs
<1>1. ASSUME NEW x \in {"401", "403"}, TerminerOuverture(k, x)  PROVE Pas(a)
  <2>1. ouvertures'[k].phase = "terminee" /\ ouvertures'[k].reponse = x
        /\ \A b \in Emetteurs \ {k} : ouvertures'[b] = ouvertures[b]
    BY <1>0, <1>1, RefusVaut
  <2>2. UNCHANGED acces  BY <2>1 DEF OuvrirParEmail
  <2>3. ouvertures[k].phase = "recue"  BY DEF OuvrirParEmail, LireParEmail
  <2>4. CASE a = k  BY <2>1, <2>2, <2>3, <2>4 DEF Pas, Refus
  <2>5. CASE a # k  BY <2>1, <2>2, <2>5 DEF Pas, Meme
  <2> QED BY <2>4, <2>5
<1>2. ASSUME NEW c \in Comptes, comptes[c].etat = "visible", comptes[c].actif,
             ouvertures' = [ouvertures EXCEPT ![k].phase = "accordee", ![k].compte = c]
      PROVE  Pas(a)
  <2>1. /\ ouvertures'[k].phase = "accordee" /\ ouvertures'[k].compte = c
        /\ ouvertures'[k].reponse = ouvertures[k].reponse /\ ouvertures'[k].jeton = ouvertures[k].jeton
        /\ \A b \in Emetteurs \ {k} : ouvertures'[b] = ouvertures[b]
    BY <1>0, <1>2 DEF Ouverture
  <2>2. acces' = [acces EXCEPT ![k].role = comptes[c].role, ![k].lu = heure]
    BY <2>1 DEF OuvrirParEmail, Retenir, RoleLu
  <2>3. /\ acces'[k] = [acces[k] EXCEPT !.role = comptes[c].role, !.lu = heure]
        /\ \A b \in Emetteurs \ {k} : acces'[b] = acces[b]
    BY <1>0, <2>2
  <2>4. ouvertures[k].phase = "recue" /\ UNCHANGED <<varsComptes, heure, jetons>>
    BY DEF OuvrirParEmail, LireParEmail
  <2>5. CASE a = k
    <3>1. Lecture(k, c, "accordee")  BY <1>2, <2>1, <2>3, <2>4 DEF Lecture
    <3> QED BY <2>4, <2>5, <3>1 DEF Pas
  <2>6. CASE a # k  BY <2>1, <2>3, <2>6 DEF Pas, Meme
  <2> QED BY <2>5, <2>6
<1> QED BY <1>1, <1>2 DEF OuvrirParEmail, LireParEmail

LEMMA IDPas ==
  ASSUME Invariant, TypeAcces, NEW r \in Rafraichissements, OuvrirParID(r), NEW a \in Emetteurs,
         ouvertures[r].phase = "trouvee" => ouvertures[r].compte \in Comptes
  PROVE  Pas(a)
<1> DEFINE c == ouvertures[r].compte
<1>0. /\ ouvertures \in [Emetteurs -> Ouverture] /\ acces \in [Emetteurs -> JetonAcces]
      /\ r \in Emetteurs /\ ouvertures[r].phase = "trouvee" /\ c \in Comptes
      /\ UNCHANGED <<varsComptes, heure, jetons>>
  BY DEF TypeAcces, TypeSessions, Emetteurs, OuvrirParID, LireParID
<1>1. ASSUME NEW x \in {"403", "404"}, TerminerOuverture(r, x)  PROVE Pas(a)
  <2>1. ouvertures'[r].phase = "terminee" /\ ouvertures'[r].reponse = x
        /\ \A b \in Emetteurs \ {r} : ouvertures'[b] = ouvertures[b]
    BY <1>0, <1>1, RefusVaut
  <2>2. UNCHANGED acces  BY <2>1 DEF OuvrirParID
  <2>4. CASE a = r  BY <1>0, <2>1, <2>2, <2>4 DEF Pas, Refus
  <2>5. CASE a # r  BY <2>1, <2>2, <2>5 DEF Pas, Meme
  <2> QED BY <2>4, <2>5
<1>2. ASSUME comptes[c].etat = "visible", comptes[c].actif, Avancer(r, "lue")  PROVE Pas(a)
  <2>1. /\ ouvertures'[r].phase = "lue" /\ ouvertures'[r].compte = c
        /\ ouvertures'[r].reponse = ouvertures[r].reponse /\ ouvertures'[r].jeton = ouvertures[r].jeton
        /\ \A b \in Emetteurs \ {r} : ouvertures'[b] = ouvertures[b]
    BY <1>0, <1>2, AvancerVaut
  <2>2. acces' = [acces EXCEPT ![r].role = comptes[c].role, ![r].lu = heure]
    BY <2>1 DEF OuvrirParID, Retenir, RoleLu
  <2>3. /\ acces'[r] = [acces[r] EXCEPT !.role = comptes[c].role, !.lu = heure]
        /\ \A b \in Emetteurs \ {r} : acces'[b] = acces[b]
    BY <1>0, <2>2
  <2>5. CASE a = r
    <3>1. Lecture(r, c, "lue")  BY <1>0, <1>2, <2>1, <2>3 DEF Lecture
    <3> QED BY <1>0, <2>5, <3>1 DEF Pas
  <2>6. CASE a # r  BY <2>1, <2>3, <2>6 DEF Pas, Meme
  <2> QED BY <2>5, <2>6
<1> QED BY <1>1, <1>2 DEF OuvrirParID, LireParID

LEMMA EmissionPas ==
  ASSUME Invariant, TypeAcces, NEW e \in Emetteurs, NEW a \in Emetteurs,
         Signer(e) \/ EnregistrerPaire(e) \/ (UNCHANGED acces /\ (RepondreOuverture(e) \/ AnnulerOuverture(e)))
  PROVE  Pas(a)
<1>0. /\ ouvertures \in [Emetteurs -> Ouverture] /\ acces \in [Emetteurs -> JetonAcces]
      /\ jetons \in [Emetteurs -> Jeton]
  BY DEF TypeAcces, TypeSessions
<1>1. CASE Signer(e)
  <2>1. /\ acces'[e] = [acces[e] EXCEPT !.signe = TRUE, !.expire = heure + DureeAcces]
        /\ \A b \in Emetteurs \ {e} : acces'[b] = acces[b]
        /\ UNCHANGED <<ouvertures, heure>> /\ ouvertures[e].phase = "accordee" /\ ~acces[e].signe
    BY <1>0, <1>1 DEF Signer, vars, varsJetons
  <2> QED BY <2>1 DEF Pas, Signature, Meme
<1>2. CASE EnregistrerPaire(e)
  <2>0. UNCHANGED <<acces, varsComptes, heure>> /\ acces[e].signe /\ ouvertures[e].phase = "accordee"
    BY <1>2 DEF EnregistrerPaire, Enregistrer
  <2>1. CASE Avancer(e, "enregistree") /\ jetons'[e].etat = "valide"
    BY <1>0, <2>0, <2>1, AvancerVaut DEF Pas, Avance, Meme
  <2>2. CASE TerminerOuverture(e, "500")
    BY <1>0, <2>0, <2>2, RefusVaut DEF Pas, Refus, Meme
  <2>3. Avancer(e, "enregistree") => jetons'[e].etat = "valide" \/ TerminerOuverture(e, "500")
    BY <1>0, <1>2 DEF EnregistrerPaire, Enregistrer
  <2> QED BY <1>2, <2>1, <2>2, <2>3 DEF EnregistrerPaire, Enregistrer
<1>3. CASE UNCHANGED acces /\ RepondreOuverture(e)
  BY <1>0, <1>3, RefusVaut DEF RepondreOuverture, Pas, Don, Meme
<1>4. CASE UNCHANGED acces /\ AnnulerOuverture(e)
  BY <1>0, <1>4, RefusVaut DEF AnnulerOuverture, Pas, Refus, Meme
<1> QED BY <1>1, <1>2, <1>3, <1>4

LEMMA RotationPas ==
  ASSUME Invariant, TypeAcces, NEW r \in Rafraichissements, NEW a \in Emetteurs, UNCHANGED acces,
         TrouverUtilisateurValide(r) \/ Revoquer(r)
  PROVE  Pas(a)
<1>0. ouvertures \in [Emetteurs -> Ouverture] /\ r \in Emetteurs /\ UNCHANGED <<varsComptes, heure>>
  BY DEF TypeAcces, TypeSessions, Emetteurs, TrouverUtilisateurValide, Revoquer
<1>1. CASE TrouverUtilisateurValide(r)
  <2>1. PICK j \in Donnes :
          ouvertures' = [ouvertures EXCEPT
            ![r] = IF Valide(j)
                   THEN [phase |-> "trouvee", jeton |-> j, compte |-> jetons[j].compte, reponse |-> "aucune"]
                   ELSE [phase |-> "terminee", jeton |-> j, compte |-> Aucun, reponse |-> "401"]]
    BY <1>1 DEF TrouverUtilisateurValide
  <2>2. /\ j \in Emetteurs /\ ouvertures[r].phase = "recue" /\ UNCHANGED jetons
        /\ \A b \in Emetteurs \ {r} : ouvertures'[b] = ouvertures[b]
    BY <1>0, <1>1, <2>1 DEF TrouverUtilisateurValide, Donnes
  <2>3. CASE a # r  BY <2>2, <2>3 DEF Pas, Meme
  <2>4. CASE a = r /\ Valide(j)
    <3>1. Presente(r, j)  BY <1>0, <2>1, <2>2, <2>4 DEF Presente
    <3> QED BY <2>2, <2>4, <3>1 DEF Pas
  <2>5. CASE a = r /\ ~Valide(j)
    BY <1>0, <2>1, <2>2, <2>5 DEF Pas, Refus
  <2> QED BY <2>3, <2>4, <2>5
<1>2. CASE Revoquer(r)
  BY <1>0, <1>2, AvancerVaut DEF Revoquer, Pas, Avance, Meme
<1> QED BY <1>1, <1>2

LEMMA ToutPas ==
  ASSUME Invariant, TypeAcces, NextAcces, NEW a \in Emetteurs,
         \A r \in Rafraichissements : ouvertures[r].phase = "trouvee" => ouvertures[r].compte \in Comptes
  PROVE  Pas(a)
<1>1. CASE UNCHANGED <<ouvertures, acces>>  BY <1>1 DEF Pas, Meme
<1> QED BY <1>1, EmailPas, IDPas, EmissionPas, RotationPas
     DEF NextAcces, PasserHeure, ChangerHeure, AutreEtape, Deconnecter, PurgerJetons, ChangerComptes

-----------------------------------------------------------------------------
(* The accounts                                                            *)

(* An account that a creation has not been answered for is not there; one  *)
(* whose deletion has been acknowledged stays closed.                      *)
Nouveaux == \A i \in Creations : creations[i] = "aucune" => comptes[i].etat = "absent"
FermesClos == \A c \in Fermes : c \in Comptes /\ comptes[c].etat \in {"masque", "efface"}

LEMMA CreationClos ==
  ASSUME TypeComptes, Nouveaux, FermesClos, NEW i \in Creations, NEW role, Inserer(i, role)
  PROVE  Nouveaux' /\ FermesClos'
<1>0. comptes \in [Comptes -> Compte] /\ i \in Comptes /\ creations \in [Creations -> {"aucune", "201", "409", "500"}]
  BY DEF TypeComptes, Comptes
<1>1. comptes[i].etat = "absent" /\ creations'[i] # "aucune" /\ Fermes' = Fermes
  BY <1>0 DEF Inserer, Nouveaux, Accuse, Fermes
<1>2. (\A c \in Comptes \ {i} : comptes'[c] = comptes[c]) /\ \A j \in Creations \ {i} : creations'[j] = creations[j]
  BY <1>0 DEF Inserer
<1>3. i \notin Fermes  BY <1>1 DEF FermesClos
<1> QED BY <1>1, <1>2, <1>3 DEF Nouveaux, FermesClos, Comptes

LEMMA SuppressionClos ==
  ASSUME TypeComptes, Nouveaux, FermesClos, NEW f \in Fermetures, SupprimerLogique(f) \/ SupprimerPhysique(f)
  PROVE  Nouveaux' /\ FermesClos'
<1> DEFINE c == fermetures[f].compte
<1>0. /\ comptes \in [Comptes -> Compte] /\ fermetures \in [Fermetures -> Fermeture] /\ c \in Comptes
      /\ UNCHANGED creations
  BY DEF TypeComptes, Fermeture, SupprimerLogique, SupprimerPhysique
<1>1. ASSUME NEW x, Fermer(f, x)
      PROVE  /\ fermetures'[f].compte = c /\ fermetures'[f].reponse = x
             /\ \A g \in Fermetures \ {f} : fermetures'[g] = fermetures[g]
  BY <1>0, <1>1 DEF Fermer, Fermeture
<1>2. ASSUME NEW x, Fermer(f, x)
      PROVE  Fermes' \subseteq Fermes \cup {c} /\ (x # "204" => Fermes' \subseteq Fermes)
  BY <1>1, <1>2 DEF Fermes
<1>3. CASE \E x : Fermer(f, x) /\ x # "204" /\ UNCHANGED comptes
  BY <1>0, <1>2, <1>3 DEF Nouveaux, FermesClos, Comptes
<1>4. ASSUME NEW x, Fermer(f, x), comptes[c].etat # "absent",
             \/ comptes' = [comptes EXCEPT ![c].etat = "masque", ![c].actif = FALSE]
             \/ comptes' = [comptes EXCEPT ![c].etat = "efface"]
      PROVE  Nouveaux' /\ FermesClos'
  <2>1. comptes'[c].etat \in {"masque", "efface"} /\ \A d \in Comptes \ {c} : comptes'[d] = comptes[d]
    BY <1>0, <1>4 DEF Compte
  <2>2. Nouveaux'  BY <1>0, <1>4, <2>1 DEF Nouveaux, Comptes
  <2>3. Fermes' \subseteq Fermes \cup {c}  BY <1>2, <1>4
  <2> QED BY <1>0, <2>1, <2>2, <2>3 DEF FermesClos, Comptes
<1> QED BY <1>3, <1>4 DEF SupprimerLogique, SupprimerPhysique, Accuse, EnBase

LEMMA ComptesClos ==
  ASSUME TypeComptes, Nouveaux, FermesClos, [NextComptes]_varsComptes
  PROVE  Nouveaux' /\ FermesClos'
<1>0. comptes \in [Comptes -> Compte]  BY DEF TypeComptes
<1>1. ASSUME NEW i \in Creations, NEW role, Inserer(i, role)  PROVE Nouveaux' /\ FermesClos'
  BY <1>1, CreationClos
<1>2. CASE UNCHANGED <<comptes, creations, fermetures>>  BY <1>2 DEF Nouveaux, FermesClos, Fermes, Comptes
<1>3. ASSUME NEW m \in Modifications, EcrireCompte(m)  PROVE Nouveaux' /\ FermesClos'
  <2>1. \A c \in Comptes : comptes'[c].etat = comptes[c].etat
    BY <1>0, <1>3 DEF EcrireCompte, Compte
  <2>2. UNCHANGED <<creations, fermetures>>  BY <1>3 DEF EcrireCompte
  <2> QED BY <2>1, <2>2 DEF Nouveaux, FermesClos, Fermes, Comptes
<1>4. ASSUME NEW m \in Modifications, LireCompte(m) \/ AnnulerModification(m)  PROVE Nouveaux' /\ FermesClos'
  BY <1>2, <1>4 DEF LireCompte, AnnulerModification
<1>5. ASSUME NEW f \in Fermetures, SupprimerLogique(f) \/ SupprimerPhysique(f)  PROVE Nouveaux' /\ FermesClos'
  BY <1>5, SuppressionClos
<1> QED BY <1>1, <1>2, <1>3, <1>4, <1>5 DEF NextComptes, Inscription, CreerCompte, varsComptes

LEMMA EtapeComptes ==
  ASSUME NextAcces
  PROVE  [NextComptes]_varsComptes
<1>1. [Next]_vars  BY PasDeSession
<1> QED BY <1>1
     DEF Next, LireParEmail, TrouverUtilisateurValide, LireParID, Revoquer, Enregistrer, RepondreOuverture,
         AnnulerOuverture, Deconnecter, PurgerJetons, ChangerHeure, ChangerComptes, vars

-----------------------------------------------------------------------------
(* The refresh tokens and what was told of them                            *)

Usage ==
  /\ \A a \in Emetteurs :
       /\ ouvertures[a].phase = "enregistree" \/ ouvertures[a].reponse = "200" => jetons[a].etat # "absent"
       /\ ouvertures[a].phase # "terminee" => ouvertures[a].reponse = "aucune"
       /\ a \in Rafraichissements
            /\ (ouvertures[a].phase \in {"accordee", "enregistree"} \/ ouvertures[a].reponse = "200")
          => Mort(ouvertures[a].jeton)
       /\ ouvertures[a].phase = "trouvee" => ouvertures[a].compte \in Comptes
  /\ \A d \in Deconnexions : deconnexions[d].reponse = "204" => Mort(deconnexions[d].jeton)

LEMMA ConnuReste ==
  ASSUME Invariant, [Next]_vars, NEW i \in Emetteurs, jetons[i].etat # "absent"
  PROVE  jetons'[i].etat # "absent"
<1>0. jetons \in [Emetteurs -> Jeton]  BY DEF Invariant, TypeSessions
<1>1. CASE \E b \in Emetteurs : Enregistrer(b)  BY <1>0, <1>1 DEF Enregistrer
<1>2. CASE Next /\ \A b \in Emetteurs : ~Enregistrer(b)  BY <1>2, LignesGardees
<1>3. CASE UNCHANGED vars  BY <1>3 DEF vars, varsJetons
<1> QED BY <1>1, <1>2, <1>3

(* Mort, of a token named now, after the step.                             *)
MortApres(j) == j \in Emetteurs /\ jetons'[j].etat \in {"revoque", "purge"}

LEMMA MortDemeure ==
  ASSUME Invariant, [Next]_vars, NEW j, Mort(j)
  PROVE  MortApres(j)
<1>1. CASE UNCHANGED vars  BY <1>1 DEF Mort, MortApres, vars, varsJetons
<1>2. CASE Next
  <2>1. Mort(j)'  BY <1>2, MortReste
  <2> QED BY <2>1 DEF Mort, MortApres, Emetteurs
<1> QED BY <1>1, <1>2

LEMMA AppelUsage ==
  ASSUME Invariant, TypeAcces, Usage, [Next]_vars, NEW a \in Emetteurs, Pas(a)
  PROVE  /\ ouvertures'[a].phase = "enregistree" \/ ouvertures'[a].reponse = "200" => jetons'[a].etat # "absent"
         /\ ouvertures'[a].phase # "terminee" => ouvertures'[a].reponse = "aucune"
         /\ a \in Rafraichissements
              /\ (ouvertures'[a].phase \in {"accordee", "enregistree"} \/ ouvertures'[a].reponse = "200")
            => MortApres(ouvertures'[a].jeton)
         /\ ouvertures'[a].phase = "trouvee" => ouvertures'[a].compte \in Comptes
<1> DEFINE o == ouvertures[a]
           p == ouvertures'[a]
<1>0. /\ o \in Ouverture /\ jetons \in [Emetteurs -> Jeton]
      /\ o.phase = "enregistree" \/ o.reponse = "200" => jetons[a].etat # "absent"
      /\ o.phase # "terminee" => o.reponse = "aucune"
      /\ a \in Rafraichissements /\ (o.phase \in {"accordee", "enregistree"} \/ o.reponse = "200") => Mort(o.jeton)
      /\ o.phase = "trouvee" => o.compte \in Comptes
  BY DEF TypeAcces, TypeSessions, Usage
<1>1. jetons[a].etat # "absent" => jetons'[a].etat # "absent"  BY ConnuReste
<1>2. Mort(o.jeton) => MortApres(o.jeton)  BY MortDemeure
<1>3. CASE Meme(a)
  <2>1. p = o  BY <1>3 DEF Meme
  <2> QED BY <1>0, <1>1, <1>2, <2>1
<1>4. CASE Signature(a)
  <2>1. p = o  BY <1>4 DEF Signature
  <2> QED BY <1>0, <1>1, <1>2, <2>1
<1>5. CASE Avance(a)
  <2>1. CASE o.phase = "lue" /\ p.phase = "accordee" /\ jetons' = Revoques(o.jeton)
    <3>1. o.jeton \in Emetteurs /\ jetons[o.jeton].etat # "absent"
      BY <2>1 DEF Invariant, Presentation
    <3>2. MortApres(o.jeton)
      BY <1>0, <2>1, <3>1 DEF MortApres, Revoques, Stockes, Jeton
    <3>3. p.reponse = "aucune" /\ p.jeton = o.jeton  BY <1>0, <1>5, <2>1 DEF Avance
    <3> QED BY <2>1, <3>2, <3>3
  <2>2. CASE o.phase = "accordee" /\ p.phase = "enregistree" /\ jetons'[a].etat = "valide"
    <3>1. p.reponse = "aucune" /\ p.jeton = o.jeton  BY <1>0, <1>5, <2>2 DEF Avance
    <3> QED BY <1>0, <1>2, <2>2, <3>1
  <2> QED BY <1>5, <2>1, <2>2 DEF Avance
<1>6. CASE Don(a)
  <2>1. p.phase = "terminee" /\ p.reponse = "200" /\ p.jeton = o.jeton /\ o.phase = "enregistree"
    BY <1>0, <1>6 DEF Don, Ouverture
  <2> QED BY <1>0, <1>1, <1>2, <2>1
<1>7. CASE Refus(a)  BY <1>7 DEF Refus
<1>8. CASE \E c \in Comptes : a \in Connexions /\ o.phase = "recue" /\ Lecture(a, c, "accordee")
  <2>1. p.phase = "accordee" /\ p.reponse = "aucune" /\ a \notin Rafraichissements
    BY <1>0, <1>8, SessionsAssumption DEF Lecture
  <2> QED BY <2>1
<1>9. CASE o.phase = "trouvee" /\ Lecture(a, o.compte, "lue")
  <2>1. p.phase = "lue" /\ p.reponse = "aucune"  BY <1>0, <1>9 DEF Lecture
  <2> QED BY <2>1
<1>10. CASE \E j \in Emetteurs : Presente(a, j)
  <2>1. PICK j \in Emetteurs : Presente(a, j)  BY <1>10
  <2>2. j \in Stockes  BY <2>1 DEF Presente, Valide, Stockes
  <2>3. jetons[j].compte \in Comptes  BY <2>2 DEF Invariant, JetonsSansOrphelin, EnBase
  <2>4. p.phase = "trouvee" /\ p.reponse = "aucune" /\ p.compte = jetons[j].compte  BY <2>1 DEF Presente
  <2> QED BY <2>3, <2>4
<1> QED BY <1>3, <1>4, <1>5, <1>6, <1>7, <1>8, <1>9, <1>10 DEF Pas

LEMMA UsageEtape ==
  ASSUME Invariant, TypeAcces, Usage, NextAcces
  PROVE  Usage'
<1>0. [Next]_vars  BY PasDeSession
<1>1. \A a \in Emetteurs : Pas(a)  BY ToutPas DEF Usage, Emetteurs
<1>2. ASSUME NEW d \in Deconnexions, deconnexions'[d].reponse = "204"  PROVE MortApres(deconnexions'[d].jeton)
  <2>0. deconnexions \in [Deconnexions -> Deconnexion] /\ jetons \in [Emetteurs -> Jeton]
    BY DEF TypeAcces, TypeSessions
  <2>1. CASE deconnexions'[d] = deconnexions[d]
    <3>1. MortApres(deconnexions[d].jeton)  BY <1>0, <1>2, <2>1, MortDemeure DEF Usage
    <3> QED BY <2>1, <3>1
  <2>2. CASE deconnexions'[d] # deconnexions[d]
    <3>1. Deconnecter(d)
      <4>1. ASSUME NEW e \in Deconnexions, Deconnecter(e)  PROVE e = d
        BY <2>0, <2>2, <4>1 DEF Deconnecter
      <4> QED BY <1>0, <2>2, <4>1
           DEF Next, LireParEmail, TrouverUtilisateurValide, LireParID, Revoquer, Enregistrer, RepondreOuverture,
               AnnulerOuverture, PurgerJetons, ChangerHeure, ChangerComptes, vars, varsJetons
    <3>2. PICK j \in Donnes : jetons' = Revoques(j) /\ deconnexions'[d].jeton = j
      BY <2>0, <3>1 DEF Deconnecter
    <3>3. j \in Emetteurs /\ jetons[j].etat # "absent"  BY DEF Donnes, Usage
    <3>4. MortApres(j)  BY <2>0, <3>2, <3>3 DEF MortApres, Revoques, Stockes, Jeton
    <3> QED BY <3>2, <3>4
  <2> QED BY <2>1, <2>2
<1>3. ASSUME NEW a \in Emetteurs
      PROVE  /\ ouvertures'[a].phase = "enregistree" \/ ouvertures'[a].reponse = "200" => jetons'[a].etat # "absent"
             /\ ouvertures'[a].phase # "terminee" => ouvertures'[a].reponse = "aucune"
             /\ a \in Rafraichissements
                  /\ (ouvertures'[a].phase \in {"accordee", "enregistree"} \/ ouvertures'[a].reponse = "200")
                => MortApres(ouvertures'[a].jeton)
             /\ ouvertures'[a].phase = "trouvee" => ouvertures'[a].compte \in Comptes
  BY <1>0, <1>1, AppelUsage
<1> QED BY <1>2, <1>3 DEF Usage, Emetteurs, Comptes, Mort, MortApres

-----------------------------------------------------------------------------
(* The roles                                                               *)

(* The account was last open with the role no earlier than it was read,    *)
(* and the token expires a unit and DureeAcces after that at the latest.   *)
Detient(a) ==
  /\ ouvertures[a].compte \in Comptes
  /\ vecu[ouvertures[a].compte][acces[a].role] >= acces[a].lu /\ acces[a].lu <= heure
  /\ IF acces[a].signe THEN acces[a].expire <= acces[a].lu + 1 + DureeAcces ELSE heure <= acces[a].lu + 1

Autorite ==
  /\ \A c \in Comptes, role \in Roles : vecu[c][role] <= heure
  /\ \A a \in Emetteurs :
       /\ ouvertures[a].phase \in {"recue", "trouvee", "lue"} => ~acces[a].signe
       /\ ouvertures[a].phase = "enregistree" \/ ouvertures[a].reponse = "200" => acces[a].signe
       /\ ouvertures[a].phase \in {"lue", "accordee", "enregistree"} \/ ouvertures[a].reponse = "200" => Detient(a)

LEMMA HeureAvance ==
  ASSUME TypeAcces, [Next]_vars
  PROVE  heure' \in {heure, heure + 1} /\ heure' \in Nat /\ heure \in Nat
<1>1. heure \in Nat  BY SessionsAssumption DEF TypeAcces, TypeSessions
<1>2. UNCHANGED heure \/ ChangerHeure
  BY DEF Next, LireParEmail, TrouverUtilisateurValide, LireParID, Revoquer, Enregistrer, RepondreOuverture,
         AnnulerOuverture, Deconnecter, PurgerJetons, ChangerComptes, vars, varsJetons
<1>3. UNCHANGED heure \/ heure' = heure + 1  BY <1>2 DEF ChangerHeure
<1> QED BY <1>1, <1>3

LEMMA VecuAvance ==
  ASSUME TypeAcces, Autorite, [Next]_vars, Historique, NEW c \in Comptes, NEW role \in Roles
  PROVE  /\ vecu[c][role] \in Int /\ vecu'[c][role] \in Int
         /\ vecu'[c][role] >= vecu[c][role] /\ vecu'[c][role] <= heure'
         /\ UNCHANGED <<comptes, heure>> /\ comptes[c].etat = "visible" /\ comptes[c].actif /\ comptes[c].role = role
            => vecu'[c][role] = heure
<1>1. heure' \in {heure, heure + 1} /\ heure' \in Nat /\ heure \in Nat  BY HeureAvance
<1>2. vecu[c][role] \in -1..HeureMax /\ vecu[c][role] <= heure  BY DEF TypeAcces, Autorite
<1>3. vecu'[c][role] = IF comptes'[c].etat = "visible" /\ comptes'[c].actif /\ comptes'[c].role = role
                       THEN heure' ELSE vecu[c][role]
  BY DEF Historique, Ouvert
<1> QED BY <1>1, <1>2, <1>3, SessionsAssumption

LEMMA DetientReste ==
  ASSUME TypeAcces, Autorite, [Next]_vars, Historique, NEW a \in Emetteurs, Detient(a),
         ouvertures'[a].compte = ouvertures[a].compte,
         acces'[a].role = acces[a].role, acces'[a].lu = acces[a].lu,
         IF acces'[a].signe THEN acces'[a].expire <= acces[a].lu + 1 + DureeAcces ELSE heure' <= acces[a].lu + 1
  PROVE  Detient(a)'
<1>1. heure' \in {heure, heure + 1} /\ heure \in Nat /\ heure' \in Nat  BY HeureAvance
<1>2. acces[a].role \in Roles /\ acces[a].lu \in Nat  BY DEF TypeAcces, JetonAcces
<1>3. ouvertures[a].compte \in Comptes /\ acces[a].lu <= heure
      /\ vecu[ouvertures[a].compte][acces[a].role] >= acces[a].lu
  BY DEF Detient
<1>4. /\ vecu[ouvertures[a].compte][acces[a].role] \in Int /\ vecu'[ouvertures[a].compte][acces[a].role] \in Int
      /\ vecu'[ouvertures[a].compte][acces[a].role] >= vecu[ouvertures[a].compte][acces[a].role]
  BY <1>2, <1>3, VecuAvance
<1>5. vecu'[ouvertures'[a].compte][acces'[a].role] >= acces'[a].lu /\ acces'[a].lu <= heure'
  BY <1>1, <1>2, <1>3, <1>4
<1> QED BY <1>3, <1>5 DEF Detient, Comptes

LEMMA LectureDetient ==
  ASSUME TypeAcces, Autorite, [Next]_vars, Historique, NEW a \in Emetteurs, NEW c \in Comptes, NEW phase,
         Lecture(a, c, phase), ~acces[a].signe
  PROVE  Detient(a)' /\ ~acces'[a].signe
<1>1. heure \in Nat /\ UNCHANGED <<comptes, heure>>  BY HeureAvance DEF Lecture, varsComptes
<1>2. /\ acces'[a].role = comptes[c].role /\ acces'[a].lu = heure /\ ~acces'[a].signe
      /\ ouvertures'[a].compte = c
  BY DEF Lecture, TypeAcces, JetonAcces
<1>3. comptes[c].role \in Roles  BY DEF TypeAcces, TypeSessions, TypeComptes, Compte
<1>4. vecu'[c][comptes[c].role] = heure  BY <1>1, <1>3, VecuAvance DEF Lecture
<1> QED BY <1>1, <1>2, <1>4 DEF Detient, Comptes

LEMMA AppelAutorite ==
  ASSUME TypeAcces, Usage, Autorite, [Next]_vars, Historique, NEW a \in Emetteurs, Pas(a),
         heure' # heure => heure' = heure + 1 /\ ~LuAvant(a)
  PROVE  /\ ouvertures'[a].phase \in {"recue", "trouvee", "lue"} => ~acces'[a].signe
         /\ ouvertures'[a].phase = "enregistree" \/ ouvertures'[a].reponse = "200" => acces'[a].signe
         /\ ouvertures'[a].phase \in {"lue", "accordee", "enregistree"} \/ ouvertures'[a].reponse = "200" => Detient(a)'
<1> DEFINE o == ouvertures[a]
           p == ouvertures'[a]
           x == acces[a]
           y == acces'[a]
<1>0. /\ o \in Ouverture /\ x \in JetonAcces /\ heure' \in {heure, heure + 1} /\ heure \in Nat /\ heure' \in Nat
      /\ o.phase # "terminee" => o.reponse = "aucune"
      /\ o.phase \in {"recue", "trouvee", "lue"} => ~x.signe
      /\ o.phase = "enregistree" \/ o.reponse = "200" => x.signe
      /\ o.phase \in {"lue", "accordee", "enregistree"} \/ o.reponse = "200" => Detient(a)
      /\ x.lu \in Nat /\ x.expire \in Nat /\ x.signe \in BOOLEAN
  BY HeureAvance DEF TypeAcces, TypeSessions, Usage, Autorite, JetonAcces
<1>1. ASSUME Detient(a), p.compte = o.compte, y = x,
             ~x.signe => o.phase \in {"lue", "accordee"}
      PROVE  Detient(a)'
  <2>1. CASE x.signe
    <3>1. y.expire <= x.lu + 1 + DureeAcces  BY <1>1, <2>1 DEF Detient
    <3> QED BY <1>1, <2>1, <3>1, DetientReste
  <2>2. CASE ~x.signe
    <3>1. heure <= x.lu + 1 /\ x.lu <= heure  BY <1>1, <2>2 DEF Detient
    <3>2. heure' <= x.lu + 1
      BY <1>0, <1>1, <2>2, <3>1 DEF LuAvant
    <3> QED BY <1>1, <2>2, <3>2, DetientReste
  <2> QED BY <1>0, <2>1, <2>2
<1>3. CASE Meme(a)
  <2>1. p = o /\ y = x  BY <1>3 DEF Meme
  <2>2. o.phase \in {"lue", "accordee", "enregistree"} \/ o.reponse = "200" => Detient(a)'
    BY <1>0, <1>1, <2>1
  <2> QED BY <1>0, <2>1, <2>2
<1>4. CASE Signature(a)
  <2>1. /\ p = o /\ o.phase = "accordee" /\ ~x.signe /\ heure' = heure
        /\ y.role = x.role /\ y.lu = x.lu /\ y.signe /\ y.expire = heure + DureeAcces
    BY <1>0, <1>4 DEF Signature, JetonAcces
  <2>2. Detient(a) /\ heure <= x.lu + 1  BY <1>0, <2>1 DEF Detient
  <2>3. y.expire <= x.lu + 1 + DureeAcces  BY <1>0, <2>1, <2>2, AccesAssumption
  <2>4. Detient(a)'  BY <2>1, <2>2, <2>3, DetientReste
  <2> QED BY <2>1, <2>4
<1>5. CASE Avance(a)
  <2>1. /\ y = x /\ p.compte = o.compte /\ p.reponse = o.reponse /\ o.phase \in {"lue", "accordee"}
        /\ p.phase \in {"accordee", "enregistree"}
        /\ p.phase = "enregistree" => x.signe
    BY <1>5 DEF Avance
  <2>2. o.reponse = "aucune"  BY <1>0, <2>1
  <2>3. Detient(a)'  BY <1>0, <1>1, <2>1
  <2> QED BY <2>1, <2>2, <2>3
<1>6. CASE Don(a)
  <2>1. /\ p.phase = "terminee" /\ p.reponse = "200" /\ p.compte = o.compte /\ o.phase = "enregistree" /\ y = x
    BY <1>0, <1>6 DEF Don, Ouverture
  <2>2. Detient(a)'  BY <1>0, <1>1, <2>1
  <2> QED BY <1>0, <2>1, <2>2
<1>7. CASE Refus(a)  BY <1>7 DEF Refus
<1>8. ASSUME NEW c \in Comptes, NEW phase \in {"lue", "accordee"}, Lecture(a, c, phase),
             o.phase \in {"recue", "trouvee"}
      PROVE  /\ p.phase \in {"recue", "trouvee", "lue"} => ~y.signe
             /\ p.phase = "enregistree" \/ p.reponse = "200" => y.signe
             /\ p.phase \in {"lue", "accordee", "enregistree"} \/ p.reponse = "200" => Detient(a)'
  <2>1. Detient(a)' /\ ~y.signe  BY <1>0, <1>8, LectureDetient
  <2>2. p.phase \in {"lue", "accordee"} /\ p.reponse = "aucune"  BY <1>0, <1>8 DEF Lecture
  <2> QED BY <2>1, <2>2
<1>9. CASE \E j \in Emetteurs : Presente(a, j)
  <2>1. p.phase = "trouvee" /\ p.reponse = "aucune" /\ y = x /\ o.phase = "recue"  BY <1>9 DEF Presente
  <2> QED BY <1>0, <2>1
<1>10. CASE \E c \in Comptes : a \in Connexions /\ o.phase = "recue" /\ Lecture(a, c, "accordee")
  BY <1>8, <1>10
<1>11. CASE a \in Rafraichissements /\ o.phase = "trouvee" /\ Lecture(a, o.compte, "lue")
  <2>1. o.compte \in Comptes  BY <1>11 DEF Usage
  <2> QED BY <1>8, <1>11, <2>1
<1> QED BY <1>3, <1>4, <1>5, <1>6, <1>7, <1>9, <1>10, <1>11 DEF Pas

LEMMA HeureLue ==
  ASSUME NextAcces, heure' # heure, NEW a \in Emetteurs
  PROVE  heure' = heure + 1 /\ ~LuAvant(a)
BY DEF NextAcces, OuvrirParEmail, LireParEmail, OuvrirParID, LireParID, Signer, vars, varsJetons, EnregistrerPaire,
       Enregistrer, PasserHeure, ChangerHeure, AutreEtape, TrouverUtilisateurValide, Revoquer, RepondreOuverture,
       AnnulerOuverture, Deconnecter, PurgerJetons, ChangerComptes

LEMMA AutoriteEtape ==
  ASSUME Invariant, TypeAcces, Usage, Autorite, NextAcces
  PROVE  Autorite'
<1>0. [Next]_vars /\ Historique  BY PasDeSession DEF NextAcces
<1>1. \A a \in Emetteurs : Pas(a)  BY ToutPas DEF Usage, Emetteurs
<1>2. \A c \in Comptes, role \in Roles : vecu'[c][role] <= heure'  BY <1>0, VecuAvance
<1>3. ASSUME NEW a \in Emetteurs
      PROVE  /\ ouvertures'[a].phase \in {"recue", "trouvee", "lue"} => ~acces'[a].signe
             /\ ouvertures'[a].phase = "enregistree" \/ ouvertures'[a].reponse = "200" => acces'[a].signe
             /\ ouvertures'[a].phase \in {"lue", "accordee", "enregistree"} \/ ouvertures'[a].reponse = "200"
                  => Detient(a)'
  BY <1>0, <1>1, HeureLue, AppelAutorite
<1> QED BY <1>2, <1>3 DEF Autorite, Emetteurs, Comptes

-----------------------------------------------------------------------------
(* Type correctness                                                        *)

LEMMA AccesType ==
  ASSUME Invariant, TypeAcces, Usage, NextAcces
  PROVE  acces' \in [Emetteurs -> JetonAcces]
<1>0. acces \in [Emetteurs -> JetonAcces] /\ heure \in Nat
  BY SessionsAssumption DEF TypeAcces, TypeSessions
<1>1. acces' = [a \in Emetteurs |-> acces'[a]]
  <2>1. CASE UNCHANGED acces  BY <1>0, <2>1
  <2>2. CASE \E a \in Emetteurs, c \in Comptes : Retenir(a, c)  BY <1>0, <2>2 DEF Retenir
  <2>3. CASE \E a \in Emetteurs : Signer(a)  BY <1>0, <2>3 DEF Signer
  <2>4. ASSUME NEW k \in Connexions, OuvrirParEmail(k)
        PROVE  UNCHANGED acces \/ \E a \in Emetteurs, c \in Comptes : Retenir(a, c)
    <3>1. k \in Emetteurs /\ ouvertures \in [Emetteurs -> Ouverture]  BY DEF Emetteurs, TypeAcces, TypeSessions
    <3>2. ouvertures'[k].phase = "accordee" => ouvertures'[k].compte \in Comptes
      BY <2>4, <3>1, RefusVaut DEF OuvrirParEmail, LireParEmail, Ouverture
    <3> QED BY <2>4, <3>1, <3>2 DEF OuvrirParEmail
  <2>5. ASSUME NEW r \in Rafraichissements, OuvrirParID(r)
        PROVE  UNCHANGED acces \/ \E a \in Emetteurs, c \in Comptes : Retenir(a, c)
    BY <2>5 DEF OuvrirParID, LireParID, Usage, Emetteurs
  <2> QED BY <2>1, <2>2, <2>3, <2>4, <2>5 DEF NextAcces, EnregistrerPaire, PasserHeure, AutreEtape
<1>2. ASSUME NEW a \in Emetteurs  PROVE acces'[a] \in JetonAcces
  <2>0. acces[a] \in JetonAcces /\ Pas(a)  BY <1>0, ToutPas DEF Usage, Emetteurs
  <2>1. ASSUME NEW c \in Comptes, NEW phase, Lecture(a, c, phase)  PROVE acces'[a] \in JetonAcces
    <3>1. comptes[c].role \in Roles  BY DEF TypeAcces, TypeSessions, TypeComptes, Compte
    <3> QED BY <1>0, <2>0, <2>1, <3>1 DEF Lecture, JetonAcces
  <2>2. CASE Signature(a)
    <3>1. heure + DureeAcces \in Nat  BY <1>0, AccesAssumption
    <3> QED BY <2>0, <2>2, <3>1 DEF Signature, JetonAcces
  <2>3. CASE acces'[a] = acces[a]  BY <2>0, <2>3
  <2>4. ouvertures[a].phase = "trouvee" => ouvertures[a].compte \in Comptes  BY DEF Usage
  <2> QED BY <2>0, <2>1, <2>2, <2>3, <2>4 DEF Pas, Meme, Avance, Don, Refus, Presente
<1> QED BY <1>1, <1>2

LEMMA TypeAccesEtape ==
  ASSUME Invariant, TypeAcces, Usage, NextAcces
  PROVE  TypeAcces'
<1>0. TypeSessions'  BY PasDeSession, NextType DEF TypeAcces
<1>1. acces' \in [Emetteurs -> JetonAcces]  BY AccesType
<1>2. vecu' \in [Comptes -> [Roles -> -1..HeureMax]]
  <2>1. heure' \in -1..HeureMax  BY <1>0, SessionsAssumption DEF TypeSessions
  <2> DEFINE v(c, role) == IF comptes'[c].etat = "visible" /\ comptes'[c].actif /\ comptes'[c].role = role
                           THEN heure' ELSE vecu[c][role]
  <2>2. vecu' = [c \in Comptes |-> [role \in Roles |-> v(c, role)]]
    BY DEF NextAcces, Historique, Ouvert
  <2>3. \A c \in Comptes, role \in Roles : v(c, role) \in -1..HeureMax
    BY <2>1 DEF TypeAcces
  <2> HIDE DEF v
  <2> QED BY <2>2, <2>3
<1>3. tard' \in [Emetteurs -> SUBSET {"jeton", "compte"}]
  <2> DEFINE t(a) == IF ouvertures[a].phase = "recue" /\ ouvertures'[a].phase # "recue" THEN DejaFerme(a) ELSE tard[a]
  <2>1. tard' = [a \in Emetteurs |-> t(a)]  BY DEF NextAcces, Historique
  <2>2. \A a \in Emetteurs : t(a) \in SUBSET {"jeton", "compte"}  BY DEF TypeAcces, DejaFerme
  <2> HIDE DEF t
  <2> QED BY <2>1, <2>2
<1> QED BY <1>0, <1>1, <1>2, <1>3 DEF TypeAcces, Emetteurs, Comptes

-----------------------------------------------------------------------------
(* The calls that come too late                                            *)

Tard ==
  \A a \in Emetteurs :
    /\ a \in Rafraichissements /\ "jeton" \in tard[a] =>
         ouvertures[a].phase = "terminee" /\ ouvertures[a].reponse # "200"
    /\ "compte" \in tard[a] =>
         \/ ouvertures[a].phase = "trouvee" /\ ouvertures[a].compte \in Fermes
         \/ ouvertures[a].phase = "terminee" /\ ouvertures[a].reponse # "200"

LEMMA ConsommeInvalide ==
  ASSUME Invariant, TypeAcces, Usage, NEW j \in Consommes
  PROVE  ~Valide(j)
<1>1. CASE Mort(j)  BY <1>1 DEF Mort, Valide
<1>2. CASE j \in Donnes /\ jetons[j].expire <= heure
  <2>1. jetons[j].expire \in Nat /\ heure \in Nat
    BY <1>2, SessionsAssumption DEF TypeAcces, TypeSessions, Jeton, Donnes
  <2> QED BY <1>2, <2>1 DEF Valide
<1>3. ASSUME NEW r \in Donnes \cap Rafraichissements, j = ouvertures[r].jeton  PROVE Mort(j)
  BY <1>3 DEF Usage, Donnes
<1>4. ASSUME NEW d \in Deconnexions, deconnexions[d].reponse = "204", j = deconnexions[d].jeton  PROVE Mort(j)
  BY <1>4 DEF Usage
<1> QED BY <1>1, <1>2, <1>3, <1>4 DEF Consommes

LEMMA FermesCroit ==
  ASSUME TypeComptes, [NextComptes]_varsComptes
  PROVE  Fermes \subseteq Fermes'
<1>0. fermetures \in [Fermetures -> Fermeture]  BY DEF TypeComptes
<1>1. CASE UNCHANGED fermetures  BY <1>1 DEF Fermes
<1>2. ASSUME NEW f \in Fermetures, fermetures[f].reponse = "aucune", NEW x, Fermer(f, x)  PROVE Fermes \subseteq Fermes'
  <2>1. \A g \in Fermetures \ {f} : fermetures'[g] = fermetures[g]  BY <1>0, <1>2 DEF Fermer
  <2> QED BY <1>2, <2>1 DEF Fermes
<1>3. ASSUME NEW f \in Fermetures, SupprimerLogique(f) \/ SupprimerPhysique(f)  PROVE Fermes \subseteq Fermes'
  BY <1>2, <1>3 DEF SupprimerLogique, SupprimerPhysique, Accuse
<1> QED BY <1>1, <1>3
     DEF NextComptes, Inscription, CreerCompte, Inserer, LireCompte, EcrireCompte, AnnulerModification, varsComptes

LEMMA AppelTard ==
  ASSUME Invariant, TypeAcces, Usage, FermesClos, Tard, NEW a \in Emetteurs, Pas(a), Fermes \subseteq Fermes',
         tard'[a] = IF ouvertures[a].phase = "recue" /\ ouvertures'[a].phase # "recue" THEN DejaFerme(a) ELSE tard[a]
  PROVE  /\ a \in Rafraichissements /\ "jeton" \in tard'[a] =>
              ouvertures'[a].phase = "terminee" /\ ouvertures'[a].reponse # "200"
         /\ "compte" \in tard'[a] =>
              \/ ouvertures'[a].phase = "trouvee" /\ ouvertures'[a].compte \in Fermes'
              \/ ouvertures'[a].phase = "terminee" /\ ouvertures'[a].reponse # "200"
<1> DEFINE o == ouvertures[a]
           p == ouvertures'[a]
<1>0. /\ o \in Ouverture /\ o.phase # "terminee" => o.reponse = "aucune"
      /\ a \in Rafraichissements /\ "jeton" \in tard[a] => o.phase = "terminee" /\ o.reponse # "200"
      /\ "compte" \in tard[a] => \/ o.phase = "trouvee" /\ o.compte \in Fermes
                                 \/ o.phase = "terminee" /\ o.reponse # "200"
  BY DEF TypeAcces, TypeSessions, Usage, Tard
<1>1. \A c \in Fermes : comptes[c].etat # "visible"  BY DEF FermesClos
<1>2. CASE Meme(a)
  <2>1. p = o /\ tard'[a] = tard[a]  BY <1>2 DEF Meme
  <2> QED BY <1>0, <2>1
<1>3. CASE Signature(a)
  <2>1. p = o /\ tard'[a] = tard[a] /\ o.phase = "accordee"  BY <1>3 DEF Signature
  <2> QED BY <1>0, <2>1
<1>4. CASE Avance(a) \/ Don(a)
  <2>1. o.phase \in {"lue", "accordee", "enregistree"} /\ tard'[a] = tard[a]  BY <1>4 DEF Avance, Don
  <2> QED BY <1>0, <2>1
<1>5. CASE Refus(a)
  <2>1. p.phase = "terminee" /\ p.reponse # "200"  BY <1>5 DEF Refus
  <2> QED BY <2>1
<1>6. ASSUME NEW c \in Comptes, a \in Connexions, o.phase = "recue", Lecture(a, c, "accordee")
      PROVE  a \notin Rafraichissements /\ "compte" \notin tard'[a]
  <2>1. p.phase = "accordee" /\ p.compte = c /\ c \notin Fermes  BY <1>1, <1>6 DEF Lecture
  <2>2. tard'[a] = DejaFerme(a)  BY <1>6, <2>1
  <2> QED BY <1>6, <2>1, <2>2, SessionsAssumption DEF DejaFerme
<1>7. CASE o.phase = "trouvee" /\ Lecture(a, o.compte, "lue")
  <2>1. tard'[a] = tard[a] /\ o.compte \notin Fermes  BY <1>1, <1>7 DEF Lecture
  <2> QED BY <1>0, <1>7, <2>1
<1>8. ASSUME NEW j \in Emetteurs, Presente(a, j)
      PROVE  "jeton" \notin tard'[a] /\ ("compte" \in tard'[a] => p.phase = "trouvee" /\ p.compte \in Fermes')
  <2>1. o.phase = "recue" /\ p.phase = "trouvee" /\ p.jeton = j /\ Valide(j)  BY <1>8 DEF Presente
  <2>2. j \notin Consommes  BY <2>1, ConsommeInvalide
  <2>3. tard'[a] = DejaFerme(a)  BY <2>1
  <2> QED BY <2>1, <2>2, <2>3 DEF DejaFerme
<1> QED BY <1>2, <1>3, <1>4, <1>5, <1>6, <1>7, <1>8 DEF Pas

LEMMA TardEtape ==
  ASSUME Invariant, TypeAcces, Usage, FermesClos, Tard, NextAcces
  PROVE  Tard'
<1>1. Fermes \subseteq Fermes'  BY EtapeComptes, FermesCroit DEF TypeAcces, TypeSessions
<1>2. ASSUME NEW a \in Emetteurs
      PROVE  /\ a \in Rafraichissements /\ "jeton" \in tard'[a] =>
                  ouvertures'[a].phase = "terminee" /\ ouvertures'[a].reponse # "200"
             /\ "compte" \in tard'[a] =>
                  \/ ouvertures'[a].phase = "trouvee" /\ ouvertures'[a].compte \in Fermes'
                  \/ ouvertures'[a].phase = "terminee" /\ ouvertures'[a].reponse # "200"
  <2>1. Pas(a)  BY ToutPas DEF Usage, Emetteurs
  <2>2. tard'[a] = IF ouvertures[a].phase = "recue" /\ ouvertures'[a].phase # "recue" THEN DejaFerme(a) ELSE tard[a]
    BY DEF NextAcces, Historique
  <2> QED BY <1>1, <2>1, <2>2, AppelTard
<1> QED BY <1>2 DEF Tard, Emetteurs

-----------------------------------------------------------------------------
InvAcces == Invariant /\ TypeAcces /\ Nouveaux /\ FermesClos /\ Usage /\ Autorite /\ Tard

LEMMA InitInvAcces == InitAcces => InvAcces
<1> SUFFICES ASSUME InitAcces  PROVE InvAcces
  OBVIOUS
<1>0. Init  BY DEF InitAcces
<1>1. Invariant  BY <1>0, InitInvariant
<1>2. TypeAcces
  <2>1. TypeSessions  BY <1>0, InitType
  <2>2. [role |-> "membre", lu |-> 0, signe |-> FALSE, expire |-> 0] \in JetonAcces  BY RolesAssumption DEF JetonAcces
  <2> QED BY <2>1, <2>2, SessionsAssumption DEF InitAcces, TypeAcces
<1>3. Nouveaux  BY <1>0 DEF Init, InitComptes, Nouveaux
<1>4. FermesClos
  <2>1. Fermes = {}  BY <1>0 DEF Init, InitComptes, Fermes
  <2> QED BY <2>1 DEF FermesClos
<1>5. /\ \A a \in Emetteurs : ouvertures[a].phase = "recue" /\ ouvertures[a].reponse = "aucune" /\ ~acces[a].signe
      /\ \A d \in Deconnexions : deconnexions[d].reponse = "aucune"
  BY <1>0 DEF Init, InitAcces
<1>6. Usage  BY <1>5 DEF Usage
<1>7. Autorite
  <2>1. heure = 0 /\ \A c \in Comptes, role \in Roles : vecu[c][role] \in {0, -1}
    BY <1>0 DEF Init, InitAcces
  <2> QED BY <1>5, <2>1 DEF Autorite
<1>8. Tard  BY DEF Tard, InitAcces
<1> QED BY <1>1, <1>2, <1>3, <1>4, <1>6, <1>7, <1>8 DEF InvAcces

LEMMA AccesToujours == SpecAcces => []InvAcces
<1>1. InvAcces /\ [NextAcces]_varsAcces => InvAcces'
  <2> SUFFICES ASSUME InvAcces, [NextAcces]_varsAcces  PROVE InvAcces'
    OBVIOUS
  <2>0. Invariant'  BY PasDeSession, NextInvariant DEF InvAcces
  <2>1. CASE NextAcces
    <3>1. Nouveaux' /\ FermesClos'
      BY <2>1, EtapeComptes, ComptesClos DEF InvAcces, TypeAcces, TypeSessions
    <3> QED BY <2>0, <2>1, <3>1, TypeAccesEtape, UsageEtape, AutoriteEtape, TardEtape DEF InvAcces
  <2>2. CASE UNCHANGED varsAcces
    BY <2>0, <2>2
    DEF InvAcces, varsAcces, vars, varsComptes, varsJetons, TypeAcces, TypeSessions, TypeComptes, Nouveaux, FermesClos,
        Fermes, Usage, Mort, Autorite, Detient, Tard, Emetteurs, Comptes
  <2> QED BY <2>1, <2>2
<1> QED BY <1>1, InitInvAcces, PTL DEF SpecAcces

(* Every token bears one of the roles and every row its type.              *)
THEOREM AccesBienTypes == SpecAcces => []TypeAcces
<1>1. InvAcces => TypeAcces  BY DEF InvAcces
<1> QED BY <1>1, AccesToujours, PTL

(* A refresh token that was given back, exchanged or outlived opens        *)
(* nothing to a refresh that comes afterwards (auth_service.go:119-137).   *)
THEOREM JetonsConsommes == SpecAcces => []JetonConsomme
<1>1. InvAcces => JetonConsomme
  BY DEF InvAcces, Tard, JetonConsomme, Donnes, Emetteurs
<1> QED BY <1>1, AccesToujours, PTL

(* An acknowledged deletion is final for the logins and the refreshes that *)
(* come afterwards (utilisateur_repository.go:199-201).                    *)
THEOREM FermeturesTiennent == SpecAcces => []FermetureTient
<1>1. InvAcces => FermetureTient
  BY DEF InvAcces, Tard, Usage, FermetureTient, Donnes
<1> QED BY <1>1, AccesToujours, PTL

(* No role outlives its account by more than the life of a token           *)
(* (middleware/auth.go:37).                                                *)
THEOREM AutoriteToujoursBornee == SpecAcces => []AutoriteBornee
<1>1. InvAcces => AutoriteBornee
  <2> SUFFICES ASSUME InvAcces, NEW a \in Donnes, NEW route \in DOMAIN Exigences, Reponse(a, route) = "handler"
               PROVE  \E role \in Exigences[route] \cap Roles : vecu[ouvertures[a].compte][role] >= heure - DureeAcces
    BY DEF AutoriteBornee
  <2>1. a \in Emetteurs /\ acces[a].signe /\ heure < acces[a].expire /\ acces[a].role \in Exigences[route]
    BY DEF Reponse, Authentifie, ExigerRole, Donnes
  <2>2. Detient(a)  BY <2>1 DEF InvAcces, Autorite, Donnes
  <2>3. /\ acces[a].role \in Roles /\ acces[a].lu \in Nat /\ acces[a].expire \in Nat /\ heure \in Nat
        /\ ouvertures[a].compte \in Comptes
    BY <2>1, <2>2, SessionsAssumption DEF InvAcces, TypeAcces, TypeSessions, JetonAcces, Detient
  <2>4. vecu[ouvertures[a].compte][acces[a].role] \in Int
    BY <2>3 DEF InvAcces, TypeAcces
  <2>5. /\ acces[a].expire <= acces[a].lu + 1 + DureeAcces
        /\ vecu[ouvertures[a].compte][acces[a].role] >= acces[a].lu
    BY <2>1, <2>2 DEF Detient
  <2>6. vecu[ouvertures[a].compte][acces[a].role] >= heure - DureeAcces
    BY <2>1, <2>3, <2>4, <2>5, AccesAssumption
  <2> QED BY <2>1, <2>3, <2>6
<1> QED BY <1>1, AccesToujours, PTL

=============================================================================
