-------------------------- MODULE SessionsPreuves ---------------------------
(***************************************************************************)
(* Proofs about the accounts and the sessions.                             *)
(***************************************************************************)
EXTENDS Sessions, TLAPS

-----------------------------------------------------------------------------
(* Type correctness                                                        *)

LEMMA TerminerModificationType ==
  ASSUME TypeComptes, NEW m \in Modifications,
         NEW x \in {"aucune", "200", "403", "404", "500"}, TerminerModification(m, x)
  PROVE  modifications' \in [Modifications -> Modification]
<1> DEFINE t == [modifications[m] EXCEPT !.phase = "terminee", !.reponse = x]
<1>1. modifications[m] \in Modification
  BY DEF TypeComptes
<1>2. t \in Modification
  BY <1>1 DEF Modification
<1>3. modifications' = [modifications EXCEPT ![m] = t]
  BY DEF TerminerModification, TypeComptes
<1> HIDE DEF t
<1> QED BY <1>2, <1>3 DEF TypeComptes

LEMMA InsererType ==
  ASSUME TypeComptes, NEW i \in Creations, NEW role \in Roles, Inserer(i, role)
  PROVE  TypeComptes'
<1> USE DEF TypeComptes
<1>1. creations' \in [Creations -> {"aucune", "201", "409", "500"}]
  BY DEF Inserer, Accuse
<1>2. comptes' \in [Comptes -> Compte]
  BY DEF Inserer, Comptes, Compte
<1> QED BY <1>1, <1>2 DEF Inserer

LEMMA ModifierType ==
  ASSUME TypeComptes, NEW m \in Modifications,
         LireCompte(m) \/ EcrireCompte(m) \/ AnnulerModification(m)
  PROVE  TypeComptes'
<1> USE DEF TypeComptes
<1> DEFINE c == modifications[m].compte
<1>0. c \in Comptes /\ comptes[c].role \in Roles /\ comptes[c].actif \in BOOLEAN
  BY DEF Modification, Compte
<1>1. CASE LireCompte(m)
  <2>1. CASE TerminerModification(m, "404") \/ TerminerModification(m, "403")
    BY <1>1, <2>1, TerminerModificationType DEF LireCompte
  <2>2. CASE modifications' = [modifications EXCEPT ![m].phase = "lue",
                                  ![m].lu = <<comptes[c].role, comptes[c].actif>>]
    <3> DEFINE t == [modifications[m] EXCEPT !.phase = "lue",
                                             !.lu = <<comptes[c].role, comptes[c].actif>>]
    <3>1. modifications[m] \in Modification
      OBVIOUS
    <3>2. <<comptes[c].role, comptes[c].actif>> \in Roles \X BOOLEAN
      BY <1>0
    <3>3. t \in Modification
      BY <3>1, <3>2 DEF Modification
    <3>4. modifications' = [modifications EXCEPT ![m] = t]
      BY <2>2
    <3>5. modifications' \in [Modifications -> Modification]
      <4> HIDE DEF t
      <4> QED BY <3>3, <3>4
    <3> QED BY <1>1, <3>5 DEF LireCompte
  <2> QED BY <1>1, <2>1, <2>2 DEF LireCompte
<1>2. CASE EcrireCompte(m)
  <2>1. modifications' \in [Modifications -> Modification]
    BY <1>2, TerminerModificationType DEF EcrireCompte, Accuse
  <2>2. RoleEcrit(modifications[m]) \in Roles /\ ActifEcrit(modifications[m]) \in BOOLEAN
    BY DEF RoleEcrit, ActifEcrit, Modification
  <2>3. comptes' \in [Comptes -> Compte]
    BY <1>2, <1>0, <2>2 DEF EcrireCompte, Compte
  <2> QED BY <1>2, <2>1, <2>3 DEF EcrireCompte
<1>3. CASE AnnulerModification(m)
  BY <1>3, TerminerModificationType DEF AnnulerModification
<1> QED BY <1>1, <1>2, <1>3

LEMMA FermerType ==
  ASSUME TypeComptes, NEW f \in Fermetures, SupprimerLogique(f) \/ SupprimerPhysique(f)
  PROVE  TypeComptes'
<1> USE DEF TypeComptes
<1>1. fermetures' \in [Fermetures -> Fermeture]
  BY DEF SupprimerLogique, SupprimerPhysique, Fermer, Fermeture, Accuse
<1>2. comptes' \in [Comptes -> Compte]
  BY DEF SupprimerLogique, SupprimerPhysique, Compte
<1> QED BY <1>1, <1>2 DEF SupprimerLogique, SupprimerPhysique

LEMMA NextComptesType ==
  ASSUME TypeComptes, NextComptes
  PROVE  TypeComptes'
<1>1. CASE \E i \in Creations : Inscription(i) \/ CreerCompte(i)
  BY <1>1, InsererType, RolesAssumption DEF Inscription, CreerCompte
<1>2. CASE \E m \in Modifications : LireCompte(m) \/ EcrireCompte(m) \/ AnnulerModification(m)
  BY <1>2, ModifierType
<1>3. CASE \E f \in Fermetures : SupprimerLogique(f) \/ SupprimerPhysique(f)
  BY <1>3, FermerType
<1> QED BY <1>1, <1>2, <1>3 DEF NextComptes

(* What a step of the sessions does to the calls and to the tokens keeps   *)
(* their types.                                                            *)
LEMMA AppelTypes ==
  ASSUME TypeSessions, NEW a \in Emetteurs
  PROVE  /\ \A x \in {"trouvee", "lue", "accordee", "enregistree"} :
              Avancer(a, x) => ouvertures' \in [Emetteurs -> Ouverture]
         /\ \A x \in {"200", "401", "403", "404", "500"} :
              TerminerOuverture(a, x) => ouvertures' \in [Emetteurs -> Ouverture]
         /\ Revoques(a) \in [Emetteurs -> Jeton]
         /\ \A partis : Retirer(partis) => jetons' \in [Emetteurs -> Jeton]
<1> USE DEF TypeSessions
<1>1. \A x \in {"trouvee", "lue", "accordee", "enregistree"} :
        Avancer(a, x) => ouvertures' \in [Emetteurs -> Ouverture]
  BY DEF Avancer, Ouverture
<1>2. ASSUME NEW x \in {"200", "401", "403", "404", "500"}, TerminerOuverture(a, x)
      PROVE  ouvertures' \in [Emetteurs -> Ouverture]
  <2> DEFINE t == [ouvertures[a] EXCEPT !.phase = "terminee", !.reponse = x]
  <2>1. t \in Ouverture
    BY DEF Ouverture
  <2>2. ouvertures' = [ouvertures EXCEPT ![a] = t]
    BY <1>2 DEF TerminerOuverture
  <2> HIDE DEF t
  <2> QED BY <2>1, <2>2
<1>3. Revoques(a) \in [Emetteurs -> Jeton]
  BY DEF Revoques, Jeton
<1>4. \A partis : Retirer(partis) => jetons' \in [Emetteurs -> Jeton]
  BY DEF Retirer, Jeton
<1> QED BY <1>1, <1>2, <1>3, <1>4

LEMMA InitType == ASSUME Init PROVE TypeSessions
<1>1. TypeComptes
  BY DEF Init, InitComptes, TypeComptes
<1> QED BY <1>1, SessionsAssumption DEF Init, TypeSessions, Jeton, Ouverture, Deconnexion

LEMMA NextType ==
  ASSUME TypeSessions, [Next]_vars
  PROVE  TypeSessions'
<1> USE DEF TypeSessions
<1>1. CASE UNCHANGED vars
  BY <1>1 DEF vars, varsJetons, varsComptes, TypeComptes, Comptes
<1>2. ASSUME UNCHANGED varsComptes PROVE TypeComptes'
  BY <1>2 DEF varsComptes, TypeComptes, Comptes
<1>3. ASSUME NEW k \in Connexions, LireParEmail(k) PROVE TypeSessions'
  <2>1. ouvertures' \in [Emetteurs -> Ouverture]
    BY <1>3, AppelTypes DEF LireParEmail, Emetteurs, Ouverture
  <2> QED BY <1>2, <1>3, <2>1 DEF LireParEmail
<1>4. ASSUME NEW r \in Rafraichissements, TrouverUtilisateurValide(r) PROVE TypeSessions'
  <2>1. PICK j \in Donnes :
          ouvertures' = [ouvertures EXCEPT
            ![r] = IF Valide(j)
                   THEN [phase |-> "trouvee", jeton |-> j, compte |-> jetons[j].compte, reponse |-> "aucune"]
                   ELSE [phase |-> "terminee", jeton |-> j, compte |-> Aucun, reponse |-> "401"]]
    BY <1>4 DEF TrouverUtilisateurValide
  <2>2. j \in Emetteurs /\ jetons[j].compte \in Comptes \cup {Aucun}
    BY DEF Donnes, Jeton
  <2>3. ouvertures' \in [Emetteurs -> Ouverture]
    BY <2>1, <2>2 DEF Ouverture
  <2> QED BY <1>2, <1>4, <2>3 DEF TrouverUtilisateurValide
<1>5. ASSUME NEW r \in Rafraichissements, LireParID(r) PROVE TypeSessions'
  <2>1. ouvertures' \in [Emetteurs -> Ouverture]
    BY <1>5, AppelTypes DEF LireParID, Emetteurs
  <2> QED BY <1>2, <1>5, <2>1 DEF LireParID
<1>6. ASSUME NEW r \in Rafraichissements, Revoquer(r) PROVE TypeSessions'
  <2>1. ouvertures' \in [Emetteurs -> Ouverture]
    BY <1>6, AppelTypes DEF Revoquer, Emetteurs
  <2>2. jetons' \in [Emetteurs -> Jeton]
    BY <1>6 DEF Revoquer, Revoques, Jeton, Stockes
  <2> QED BY <1>2, <1>6, <2>1, <2>2 DEF Revoquer
<1>7. ASSUME NEW a \in Emetteurs, Enregistrer(a) PROVE TypeSessions'
  <2>1. ouvertures' \in [Emetteurs -> Ouverture]
    BY <1>7, AppelTypes DEF Enregistrer
  <2>2. heure + Duree \in Nat /\ ouvertures[a].compte \in Comptes \cup {Aucun}
    BY SessionsAssumption DEF Ouverture
  <2>3. jetons' \in [Emetteurs -> Jeton]
    BY <1>7, <2>2 DEF Enregistrer, Jeton
  <2> QED BY <1>2, <1>7, <2>1, <2>3 DEF Enregistrer
<1>8. ASSUME NEW a \in Emetteurs, RepondreOuverture(a) PROVE TypeSessions'
  BY <1>2, <1>8, AppelTypes DEF RepondreOuverture
<1>9. ASSUME NEW a \in Emetteurs, AnnulerOuverture(a) PROVE TypeSessions'
  BY <1>2, <1>9, AppelTypes DEF AnnulerOuverture
<1>10. ASSUME NEW d \in Deconnexions, Deconnecter(d) PROVE TypeSessions'
  <2>1. PICK j \in Donnes, x \in Accuse("204") :
          /\ jetons' = Revoques(j)
          /\ deconnexions' = [deconnexions EXCEPT ![d] = [jeton |-> j, reponse |-> x]]
    BY <1>10 DEF Deconnecter
  <2>2. j \in Emetteurs
    BY DEF Donnes
  <2>3. jetons' \in [Emetteurs -> Jeton]
    BY <2>1, <2>2, AppelTypes
  <2>4. deconnexions' \in [Deconnexions -> Deconnexion]
    BY <2>1, <2>2 DEF Deconnexion, Accuse
  <2> QED BY <1>2, <1>10, <2>3, <2>4 DEF Deconnecter
<1>11. CASE PurgerJetons
  BY <1>2, <1>11 DEF PurgerJetons, Retirer, Jeton
<1>12. CASE ChangerHeure
  BY <1>2, <1>12, SessionsAssumption DEF ChangerHeure
<1>13. CASE ChangerComptes
  <2>1. TypeComptes'
    BY <1>13, NextComptesType DEF ChangerComptes
  <2>2. jetons' \in [Emetteurs -> Jeton]
    BY <1>13 DEF ChangerComptes, Retirer, Jeton
  <2> QED BY <1>13, <2>1, <2>2 DEF ChangerComptes
<1> QED BY <1>1, <1>3, <1>4, <1>5, <1>6, <1>7, <1>8, <1>9, <1>10, <1>11, <1>12, <1>13 DEF Next

(* The rows of accounts and tokens, and the calls, keep their types: an    *)
(* account never gets a role that is not one of the three, whoever writes  *)
(* back a copy of it.                                                      *)
THEOREM SessionsBienTypees == Spec => []TypeSessions
<1>1. Init => TypeSessions BY InitType
<1>2. TypeSessions /\ [Next]_vars => TypeSessions' BY NextType
<1> QED BY <1>1, <1>2, PTL DEF Spec

-----------------------------------------------------------------------------
(* The rotation and the foreign key                                        *)

(* A call has a row in jetons_rafraichissement only after its INSERT.      *)
Emission ==
  \A a \in Emetteurs : jetons[a].etat # "absent" => ouvertures[a].phase \in {"enregistree", "terminee"}

(* A refresh that goes on was given a token that has been in the table.    *)
Presentation ==
  \A r \in Emetteurs : ouvertures[r].phase \in {"trouvee", "lue"} =>
    ouvertures[r].jeton \in Emetteurs /\ jetons[ouvertures[r].jeton].etat # "absent"

(* From its UPDATE on, that token is out of use, and stays so.             *)
Mort(j) == j \in Emetteurs /\ jetons[j].etat \in {"revoque", "purge"}
Revocation ==
  \A r \in Rafraichissements :
    ouvertures[r].phase = "accordee" \/ r \in Stockes => Mort(ouvertures[r].jeton)

Invariant == TypeSessions /\ Emission /\ Presentation /\ Revocation /\ JetonsSansOrphelin

(* A row once gone never comes back, and a revoked one never serves again: *)
(* the only step that makes a row valid is the INSERT, for a call that has *)
(* none.                                                                   *)
LEMMA MortReste ==
  ASSUME Invariant, Next, NEW j, Mort(j)
  PROVE  Mort(j)'
<1> USE DEF Mort
<1>1. jetons \in [Emetteurs -> Jeton] /\ j \in Emetteurs
  BY DEF Invariant, TypeSessions
<1>2. CASE UNCHANGED jetons
  BY <1>2 DEF Emetteurs
<1>3. ASSUME NEW i, jetons' = Revoques(i) PROVE Mort(j)'
  BY <1>1, <1>3 DEF Revoques, Stockes, Emetteurs
<1>4. ASSUME NEW partis, Retirer(partis) PROVE Mort(j)'
  BY <1>1, <1>4 DEF Retirer, Emetteurs
<1>5. ASSUME NEW a \in Emetteurs, Enregistrer(a) PROVE Mort(j)'
  <2>1. a # j
    BY <1>1, <1>5 DEF Enregistrer, Invariant, Emission
  <2> QED BY <1>1, <1>5, <2>1 DEF Enregistrer, Emetteurs
<1> QED BY <1>2, <1>3, <1>4, <1>5
     DEF Next, LireParEmail, TrouverUtilisateurValide, LireParID, Revoquer, RepondreOuverture,
         AnnulerOuverture, Deconnecter, PurgerJetons, ChangerHeure, ChangerComptes

LEMMA InitInvariant == ASSUME Init PROVE Invariant
<1>1. TypeSessions BY InitType
<1>2. Stockes = {} BY DEF Init, Stockes
<1> QED BY <1>1, <1>2
     DEF Invariant, Emission, Presentation, Revocation, JetonsSansOrphelin, Init, Emetteurs

(* Whatever a step does to the rows, it keeps known those that were, and   *)
(* stores only what an INSERT stores.                                      *)
LEMMA LignesGardees ==
  ASSUME Invariant, Next,
         \A a \in Emetteurs : ~Enregistrer(a)
  PROVE  \A j \in Emetteurs :
           /\ jetons'[j].etat # "absent" <=> jetons[j].etat # "absent"
           /\ jetons'[j].compte = jetons[j].compte
           /\ j \in Stockes' => j \in Stockes
<1> USE DEF Stockes
<1>0. jetons \in [Emetteurs -> Jeton]
  BY DEF Invariant, TypeSessions
<1> SUFFICES ASSUME NEW j \in Emetteurs
             PROVE  /\ jetons'[j].etat # "absent" <=> jetons[j].etat # "absent"
                    /\ jetons'[j].compte = jetons[j].compte
                    /\ j \in Stockes' => j \in Stockes
  OBVIOUS
<1>1. CASE UNCHANGED jetons
  BY <1>1 DEF Emetteurs
<1>2. CASE \E i : jetons' = Revoques(i)
  BY <1>0, <1>2 DEF Revoques, Emetteurs
<1>3. CASE \E partis : partis \subseteq Stockes /\ Retirer(partis)
  BY <1>0, <1>3 DEF Retirer, Emetteurs
<1>4. CASE PurgerJetons
  BY <1>3, <1>4 DEF PurgerJetons, Purgeables
<1>5. CASE ChangerComptes
  BY <1>3, <1>5 DEF ChangerComptes
<1> QED BY <1>1, <1>2, <1>4, <1>5
     DEF Next, LireParEmail, TrouverUtilisateurValide, LireParID, Revoquer, RepondreOuverture,
         AnnulerOuverture, Deconnecter, ChangerHeure

(* A row of utilisateurs does not vanish without a DELETE.                 *)
LEMMA CompteGarde ==
  ASSUME TypeComptes, NextComptes, NEW c \in EnBase
  PROVE  comptes'[c].etat # "absent"
<1> USE DEF EnBase
<1>0. comptes \in [Comptes -> Compte]
  BY DEF TypeComptes
<1>1. ASSUME NEW i \in Creations, NEW role, Inserer(i, role) PROVE comptes'[c].etat # "absent"
  <2>1. CASE comptes' = [comptes EXCEPT ![i].etat = "visible", ![i].role = role]
    BY <1>0, <2>1 DEF Compte
  <2>2. CASE UNCHANGED comptes
    BY <2>2
  <2> QED BY <1>1, <2>1, <2>2 DEF Inserer
<1>2. ASSUME NEW m \in Modifications, EcrireCompte(m) PROVE comptes'[c].etat # "absent"
  BY <1>0, <1>2 DEF EcrireCompte, Compte
<1>3. ASSUME NEW f \in Fermetures, SupprimerLogique(f) PROVE comptes'[c].etat # "absent"
  BY <1>0, <1>3 DEF SupprimerLogique, Compte
<1>4. ASSUME NEW f \in Fermetures, SupprimerPhysique(f) PROVE comptes'[c].etat # "absent"
  BY <1>0, <1>4 DEF SupprimerPhysique, Compte
<1>5. CASE UNCHANGED comptes
  BY <1>5
<1> QED BY <1>1, <1>2, <1>3, <1>4, <1>5
     DEF NextComptes, Inscription, CreerCompte, LireCompte, AnnulerModification

(* ON DELETE CASCADE: an account goes with its tokens.                     *)
LEMMA SansOrphelinReste ==
  ASSUME Invariant, Next
  PROVE  JetonsSansOrphelin'
<1> SUFFICES ASSUME NEW j \in Stockes'
             PROVE  jetons'[j].compte \in EnBase'
  BY DEF JetonsSansOrphelin
<1>0. /\ jetons \in [Emetteurs -> Jeton] /\ ouvertures \in [Emetteurs -> Ouverture]
      /\ comptes \in [Comptes -> Compte] /\ j \in Emetteurs
  BY DEF Invariant, TypeSessions, TypeComptes, Stockes, Emetteurs
<1>1. CASE \E a \in Emetteurs : Enregistrer(a)
  <2>1. PICK a \in Emetteurs : Enregistrer(a)
    BY <1>1
  <2>2. EnBase' = EnBase
    BY <2>1 DEF Enregistrer, varsComptes, EnBase, Comptes
  <2>3. CASE j = a /\ ouvertures[a].compte \in EnBase
    BY <1>0, <2>1, <2>2, <2>3 DEF Enregistrer
  <2>4. CASE j # a \/ ouvertures[a].compte \notin EnBase
    <3>1. jetons'[j] = jetons[j]
      BY <1>0, <2>1, <2>4 DEF Enregistrer
    <3>2. j \in Stockes
      BY <1>0, <3>1 DEF Stockes
    <3> QED BY <2>2, <3>1, <3>2 DEF Invariant, JetonsSansOrphelin
  <2> QED BY <2>3, <2>4
<1>2. CASE \A a \in Emetteurs : ~Enregistrer(a)
  <2>1. j \in Stockes /\ jetons'[j].compte = jetons[j].compte
    BY <1>0, <1>2, LignesGardees
  <2>2. jetons[j].compte \in EnBase
    BY <2>1 DEF Invariant, JetonsSansOrphelin
  <2>3. CASE UNCHANGED comptes
    BY <2>1, <2>2, <2>3 DEF EnBase, Comptes
  <2>4. CASE ChangerComptes
    <3>1. comptes'[jetons[j].compte].etat # "efface"
      BY <1>0, <2>1, <2>4 DEF ChangerComptes, Retirer, Stockes
    <3>2. comptes'[jetons[j].compte].etat \in {"visible", "masque", "efface"}
      <4>1. comptes' \in [Comptes -> Compte]
        BY <2>4, NextComptesType DEF ChangerComptes, Invariant, TypeSessions, TypeComptes, Comptes
      <4>2. comptes'[jetons[j].compte].etat # "absent"
        BY <2>2, <2>4, CompteGarde DEF ChangerComptes, Invariant, TypeSessions
      <4> QED BY <2>2, <4>1, <4>2 DEF Compte, EnBase
    <3> QED BY <2>1, <2>2, <3>1, <3>2 DEF EnBase, Comptes
  <2> QED BY <1>2, <2>3, <2>4
       DEF Next, LireParEmail, TrouverUtilisateurValide, LireParID, Revoquer, RepondreOuverture,
           AnnulerOuverture, Deconnecter, PurgerJetons, ChangerHeure, varsComptes
<1> QED BY <1>1, <1>2

(* A call moves by its own steps only.                                     *)
LEMMA AppelsGardes ==
  ASSUME Invariant, Next, NEW a \in Emetteurs, ouvertures'[a] # ouvertures[a]
  PROVE  \/ LireParEmail(a) /\ a \in Connexions
         \/ /\ a \in Rafraichissements
            /\ TrouverUtilisateurValide(a) \/ LireParID(a) \/ Revoquer(a)
         \/ Enregistrer(a) \/ RepondreOuverture(a) \/ AnnulerOuverture(a)
<1>0. ouvertures \in [Emetteurs -> Ouverture]
  BY DEF Invariant, TypeSessions
<1>1. CASE UNCHANGED ouvertures
  BY <1>1
<1>2. ASSUME NEW k \in Connexions, LireParEmail(k) PROVE k = a
  BY <1>0, <1>2 DEF LireParEmail, TerminerOuverture
<1>3. ASSUME NEW r \in Rafraichissements, TrouverUtilisateurValide(r) PROVE r = a
  BY <1>0, <1>3 DEF TrouverUtilisateurValide
<1>4. ASSUME NEW r \in Rafraichissements, LireParID(r) PROVE r = a
  BY <1>0, <1>4 DEF LireParID, TerminerOuverture, Avancer
<1>5. ASSUME NEW r \in Rafraichissements, Revoquer(r) PROVE r = a
  BY <1>0, <1>5 DEF Revoquer, Avancer
<1>6. ASSUME NEW b \in Emetteurs, Enregistrer(b) PROVE b = a
  BY <1>0, <1>6 DEF Enregistrer, TerminerOuverture, Avancer
<1>7. ASSUME NEW b \in Emetteurs, RepondreOuverture(b) \/ AnnulerOuverture(b) PROVE b = a
  BY <1>0, <1>7 DEF RepondreOuverture, AnnulerOuverture, TerminerOuverture
<1> QED BY <1>1, <1>2, <1>3, <1>4, <1>5, <1>6, <1>7
     DEF Next, Deconnecter, PurgerJetons, ChangerHeure, ChangerComptes

(* The three parts of the invariant about one call, after a step that is   *)
(* its own or another's.                                                   *)
LEMMA AppelReste ==
  ASSUME Invariant, Next, NEW a \in Emetteurs
  PROVE  /\ jetons'[a].etat # "absent" => ouvertures'[a].phase \in {"enregistree", "terminee"}
         /\ ouvertures'[a].phase \in {"trouvee", "lue"} =>
              /\ ouvertures'[a].jeton \in Emetteurs
              /\ jetons'[ouvertures'[a].jeton].etat # "absent"
         /\ a \in Rafraichissements /\ (ouvertures'[a].phase = "accordee" \/ a \in Stockes') =>
              /\ ouvertures'[a].jeton \in Emetteurs
              /\ jetons'[ouvertures'[a].jeton].etat \in {"revoque", "purge"}
<1> DEFINE j == ouvertures[a].jeton
<1>0. jetons \in [Emetteurs -> Jeton] /\ ouvertures \in [Emetteurs -> Ouverture]
  BY DEF Invariant, TypeSessions
<1>10. \A i \in Emetteurs : jetons[i].etat \in {"revoque", "purge"} =>
                              jetons'[i].etat \in {"revoque", "purge"}
  BY MortReste DEF Mort
<1>1. ASSUME NEW i \in Emetteurs, jetons[i].etat # "absent"
      PROVE  jetons'[i].etat # "absent"
  <2>1. CASE \E b \in Emetteurs : Enregistrer(b)
    BY <1>0, <1>1, <2>1 DEF Enregistrer
  <2> QED BY <1>1, <2>1, LignesGardees
<1>2. ASSUME NEW i \in Emetteurs, ~Enregistrer(i)
      PROVE  /\ jetons'[i].etat # "absent" => jetons[i].etat # "absent"
             /\ i \in Stockes' => i \in Stockes
  <2>1. CASE \E b \in Emetteurs : Enregistrer(b)
    <3>1. jetons'[i] = jetons[i]
      BY <1>0, <1>2, <2>1 DEF Enregistrer
    <3> QED BY <3>1 DEF Stockes
  <2> QED BY <1>2, <2>1, LignesGardees
<1>3. CASE Enregistrer(a)
  <2>1. ouvertures'[a].phase \in {"enregistree", "terminee"} /\ ouvertures'[a].jeton = j
    BY <1>0, <1>3 DEF Enregistrer, Avancer, TerminerOuverture, Ouverture
  <2>2. a \in Rafraichissements => j \in Emetteurs /\ jetons'[j].etat \in {"revoque", "purge"}
    BY <1>3, <1>10 DEF Enregistrer, Invariant, Revocation, Mort
  <2> QED BY <2>1, <2>2
<1>4. CASE ouvertures'[a] = ouvertures[a] /\ ~Enregistrer(a)
  <2>1. jetons'[a].etat # "absent" => ouvertures[a].phase \in {"enregistree", "terminee"}
    BY <1>2, <1>4 DEF Invariant, Emission
  <2>2. ouvertures[a].phase \in {"trouvee", "lue"} => j \in Emetteurs /\ jetons'[j].etat # "absent"
    BY <1>1 DEF Invariant, Presentation
  <2>3. a \in Rafraichissements /\ (ouvertures[a].phase = "accordee" \/ a \in Stockes') =>
          j \in Emetteurs /\ jetons'[j].etat \in {"revoque", "purge"}
    BY <1>2, <1>4, <1>10 DEF Invariant, Revocation, Mort
  <2> QED BY <1>4, <2>1, <2>2, <2>3
<1>5. CASE LireParEmail(a) /\ a \in Connexions
  <2>1. ouvertures'[a].phase \in {"accordee", "terminee"} /\ UNCHANGED jetons
    BY <1>0, <1>5 DEF LireParEmail, TerminerOuverture, Ouverture
  <2>2. jetons[a].etat = "absent" /\ a \notin Rafraichissements
    BY <1>5, SessionsAssumption DEF LireParEmail, Invariant, Emission
  <2> QED BY <2>1, <2>2
<1>6. CASE a \in Rafraichissements /\ TrouverUtilisateurValide(a)
  <2>1. PICK i \in Donnes :
          ouvertures' = [ouvertures EXCEPT
            ![a] = IF Valide(i)
                   THEN [phase |-> "trouvee", jeton |-> i, compte |-> jetons[i].compte, reponse |-> "aucune"]
                   ELSE [phase |-> "terminee", jeton |-> i, compte |-> Aucun, reponse |-> "401"]]
    BY <1>6 DEF TrouverUtilisateurValide
  <2>2. i \in Emetteurs /\ UNCHANGED jetons /\ jetons[a].etat = "absent"
    BY <1>6 DEF Donnes, TrouverUtilisateurValide, Invariant, Emission
  <2>3. CASE Valide(i)
    <3>1. ouvertures'[a].phase = "trouvee" /\ ouvertures'[a].jeton = i
      BY <1>0, <2>1, <2>3
    <3> QED BY <2>2, <2>3, <3>1 DEF Valide, Stockes
  <2>4. CASE ~Valide(i)
    <3>1. ouvertures'[a].phase = "terminee"
      BY <1>0, <2>1, <2>4
    <3> QED BY <2>2, <3>1 DEF Stockes
  <2> QED BY <2>3, <2>4
<1>7. CASE LireParID(a)
  <2>1. /\ ouvertures'[a].phase \in {"lue", "terminee"} /\ ouvertures'[a].jeton = j
        /\ UNCHANGED jetons /\ ouvertures[a].phase = "trouvee"
    BY <1>0, <1>7 DEF LireParID, TerminerOuverture, Avancer, Ouverture
  <2>2. jetons[a].etat = "absent" /\ j \in Emetteurs /\ jetons[j].etat # "absent"
    BY <2>1 DEF Invariant, Emission, Presentation
  <2> QED BY <2>1, <2>2 DEF Stockes
<1>8. CASE Revoquer(a)
  <2>1. /\ ouvertures'[a].phase = "accordee" /\ ouvertures'[a].jeton = j
        /\ jetons' = Revoques(j) /\ ouvertures[a].phase = "lue"
    BY <1>0, <1>8 DEF Revoquer, Avancer, Ouverture
  <2>2. jetons[a].etat = "absent" /\ j \in Emetteurs /\ jetons[j].etat # "absent"
    BY <2>1 DEF Invariant, Emission, Presentation
  <2>3. jetons'[a].etat = "absent"
    BY <1>0, <2>1, <2>2 DEF Revoques, Jeton
  <2>4. jetons'[j].etat \in {"revoque", "purge"}
    BY <1>0, <2>1, <2>2 DEF Revoques, Stockes, Jeton
  <2> QED BY <2>1, <2>2, <2>3, <2>4
<1>9. CASE RepondreOuverture(a) \/ AnnulerOuverture(a)
  <2>1. ouvertures'[a].phase = "terminee" /\ ouvertures'[a].jeton = j /\ UNCHANGED jetons
    BY <1>0, <1>9 DEF RepondreOuverture, AnnulerOuverture, TerminerOuverture, Ouverture
  <2>2. a \in Rafraichissements /\ a \in Stockes' =>
          j \in Emetteurs /\ jetons'[j].etat \in {"revoque", "purge"}
    BY <1>10, <2>1 DEF Invariant, Revocation, Mort, Stockes, Emetteurs
  <2>3. jetons'[a].etat # "absent" => ouvertures'[a].phase \in {"enregistree", "terminee"}
    BY <2>1
  <2> QED BY <2>1, <2>2, <2>3
<1> QED BY <1>3, <1>4, <1>5, <1>6, <1>7, <1>8, <1>9, AppelsGardes

LEMMA NextInvariant ==
  ASSUME Invariant, [Next]_vars
  PROVE  Invariant'
<1>1. TypeSessions'
  BY NextType DEF Invariant
<1>2. CASE Next
  <2>1. Emission' /\ Presentation'
    BY <1>2, AppelReste DEF Emission, Presentation, Emetteurs
  <2>2. Revocation'
    BY <1>2, AppelReste DEF Revocation, Mort, Emetteurs
  <2> QED BY <1>1, <1>2, <2>1, <2>2, SansOrphelinReste DEF Invariant
<1>3. CASE UNCHANGED vars
  BY <1>1, <1>3
  DEF vars, varsJetons, varsComptes, Invariant, Emission, Presentation, Revocation, Mort,
      JetonsSansOrphelin, Stockes, EnBase, Emetteurs, Comptes
<1> QED BY <1>2, <1>3

THEOREM InvariantTient == Spec => []Invariant
<1>1. Init => Invariant BY InitInvariant
<1>2. Invariant /\ [Next]_vars => Invariant' BY NextInvariant
<1> QED BY <1>1, <1>2, PTL DEF Spec

(* The token a refresh was given is out of use before the new one is in    *)
(* the table, for any number of concurrent refreshes, logouts and purges.  *)
THEOREM RotationToujoursOrdonnee == Spec => []RotationOrdonnee
<1>1. Invariant => RotationOrdonnee
  BY DEF Invariant, Revocation, Mort, RotationOrdonnee
<1> QED BY <1>1, InvariantTient, PTL

(* No token outlives its account, whatever races with the deletion.        *)
THEOREM JamaisDOrphelin == Spec => []JetonsSansOrphelin
<1>1. Invariant => JetonsSansOrphelin
  BY DEF Invariant
<1> QED BY <1>1, InvariantTient, PTL

=============================================================================
