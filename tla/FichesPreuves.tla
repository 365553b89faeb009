---------------------------- MODULE FichesPreuves ----------------------------
(***************************************************************************)
(* Proofs about the authors, the categories and the books: no book without *)
(* its references, what the editor of a book is told, and when the name of *)
(* a category is refused to a call that gives none.                        *)
(***************************************************************************)
EXTENDS Fiches, TLAPS

-----------------------------------------------------------------------------
(* Type correctness                                                        *)

LEMMA ReponseType ==
  ASSUME TypeFiches, NEW e \in Editions,
         NEW x \in {"aucune", "200", "201", "404", "409", "500", "rejet", "echec"}, Repondre(e, x)
  PROVE  editions' \in [Editions -> Edition]
<1> DEFINE q == [editions[e] EXCEPT !.phase = "terminee", !.reponse = x]
<1>1. q \in Edition  BY DEF TypeFiches, Edition
<1>2. editions' = [editions EXCEPT ![e] = q]  BY DEF TypeFiches, Repondre
<1> HIDE DEF q
<1> QED BY <1>1, <1>2 DEF TypeFiches

LEMMA PassageType ==
  ASSUME TypeFiches, NEW e \in Editions,
         NEW x \in {"recue", "validee", "auteur", "resolue", "ecrite", "terminee"}, Passer(e, x)
  PROVE  editions' \in [Editions -> Edition]
<1> DEFINE q == [editions[e] EXCEPT !.phase = x]
<1>1. q \in Edition  BY DEF TypeFiches, Edition
<1>2. editions' = [editions EXCEPT ![e] = q]  BY DEF TypeFiches, Passer
<1> HIDE DEF q
<1> QED BY <1>1, <1>2 DEF TypeFiches

LEMMA SansType == Sans \in Noms
BY FichesNonVides DEF Sans

LEMMA ConclusionType ==
  ASSUME TypeFiches, NEW m \in Modifs,
         NEW x \in {"aucune", "200", "404", "409", "rejet", "echec"}, Conclure(m, x)
  PROVE  modifications' \in [Modifs -> Modification]
<1>1. ModificationSans("terminee", x) \in Modification  BY SansType DEF ModificationSans, Modification
<1> QED BY <1>1 DEF TypeFiches, Conclure

LEMMA RetenueType ==
  ASSUME TypeFiches, NEW m \in Modifs, NEW x \in Auteurs \cup Categories, NEW nomme \in BOOLEAN,
         NEW lu \in Noms, NEW nom \in Noms, Retenir(m, x, nomme, lu, nom)
  PROVE  modifications' \in [Modifs -> Modification]
<1> DEFINE q == [phase |-> "lue", cible |-> x, nomme |-> nomme, lu |-> lu, nom |-> nom, reponse |-> "aucune"]
<1>1. q \in Modification  BY DEF Modification
<1>2. modifications' = [modifications EXCEPT ![m] = q]  BY DEF Retenir
<1> HIDE DEF q
<1> QED BY <1>1, <1>2 DEF TypeFiches

LEMMA CreationInvType ==
  ASSUME TypeFiches, NEW x \in Creations, (x \in Auteurs /\ CreerAuteur(x)) \/ (x \in Categories /\ CreerCategorie(x))
  PROVE  TypeFiches'
<1>1. CASE CreerAuteur(x) /\ x \in Auteurs
  BY <1>1 DEF CreerAuteur, InsererAuteur, Creer, Accuse, TypeFiches
<1>2. CASE CreerCategorie(x) /\ x \in Categories
  <2>1. creations' \in [Creations -> {"aucune", "201", "409", "rejet", "echec"}]
    BY <1>2 DEF CreerCategorie, InsererCategorie, Creer, Accuse, TypeFiches
  <2>2. categories' \in [Categories -> Categorie]
    BY <1>2 DEF CreerCategorie, InsererCategorie, TypeFiches, Categorie
  <2> QED BY <1>2, <2>1, <2>2 DEF CreerCategorie, TypeFiches
<1> QED BY <1>1, <1>2

LEMMA LireModificationType ==
  ASSUME TypeFiches, NEW m \in Modifs, ModifierAuteur(m) \/ MettreAJourCategorie(m) \/ ModifierCategorie(m)
  PROVE  TypeFiches'
<1>0. UNCHANGED <<auteurs, categories, livres, creations, effacements, editions>>
  BY DEF ModifierAuteur, MettreAJourCategorie, ModifierCategorie, AilleursModifs
<1>1. modifications' \in [Modifs -> Modification]
  <2>0. /\ modifications[m].lu \in Noms /\ modifications[m].nom \in Noms
        /\ \A c \in Categories : categories[c].nom \in Noms
    BY DEF TypeFiches, Modification, Categorie
  <2>1. ASSUME NEW x \in {"404", "rejet"}, Conclure(m, x)  PROVE modifications' \in [Modifs -> Modification]
    BY <2>1, ConclusionType
  <2>2. CASE ModifierAuteur(m)
    BY <2>0, <2>1, <2>2, RetenueType DEF ModifierAuteur, Charger
  <2>3. CASE MettreAJourCategorie(m)
    BY <2>0, <2>1, <2>3, RetenueType DEF MettreAJourCategorie, Charger
  <2>4. CASE ModifierCategorie(m)
    BY <2>0, <2>4, RetenueType DEF ModifierCategorie
  <2> QED BY <2>2, <2>3, <2>4
<1> QED BY <1>0, <1>1 DEF TypeFiches

LEMMA EcrireModificationType ==
  ASSUME TypeFiches, NEW m \in Modifs, EcrireAuteur(m) \/ EcrireCategorie(m) \/ AnnulerModification(m)
  PROVE  TypeFiches'
<1>1. modifications' \in [Modifs -> Modification]
  BY ConclusionType DEF EcrireAuteur, EcrireCategorie, AnnulerModification, Accuse
<1>2. categories' \in [Categories -> Categorie]
  <2>0. modifications[m].nom \in Noms  BY DEF TypeFiches, Modification
  <2> QED BY <2>0 DEF EcrireAuteur, EcrireCategorie, AnnulerModification, rangees, TypeFiches, Categorie
<1>3. UNCHANGED <<auteurs, livres, creations, effacements, editions>>
  BY DEF EcrireAuteur, EcrireCategorie, AnnulerModification, rangees, AilleursModifs
<1> QED BY <1>1, <1>2, <1>3 DEF TypeFiches

LEMMA SuppressionType ==
  ASSUME TypeFiches, NEW e \in Effacements, SupprimerAuteur(e) \/ SupprimerCategorie(e)
  PROVE  TypeFiches'
<1>1. effacements' \in [Effacements -> {"aucune", "204", "404", "409", "echec"}]
  BY DEF SupprimerAuteur, SupprimerCategorie, Effacer, Accuse, TypeFiches
<1>2. auteurs' \in [Auteurs -> {"absent", "present", "efface"}] /\ categories' \in [Categories -> Categorie]
  BY DEF SupprimerAuteur, SupprimerCategorie, TypeFiches, Categorie
<1>3. UNCHANGED <<livres, creations, modifications, editions>>
  BY DEF SupprimerAuteur, SupprimerCategorie
<1> QED BY <1>1, <1>2, <1>3 DEF TypeFiches

LEMMA EcritureType ==
  ASSUME TypeFiches, NEW e \in Editions, NEW l \in Livres, Enregistrer(e, l)
  PROVE  livres' \in [Livres -> Livre] /\ editions' \in [Editions -> Edition]
<1>0. editions[e].ligne \in Ligne  BY DEF TypeFiches, Edition
<1>1. editions' \in [Editions -> Edition]  BY ReponseType, PassageType DEF Enregistrer
<1>2. [etat |-> "present", ligne |-> editions[e].ligne] \in Livre  BY <1>0 DEF Livre
<1>3. livres' \in [Livres -> Livre]  BY <1>2 DEF Enregistrer, TypeFiches
<1> QED BY <1>1, <1>3

LEMMA RecouvrementType ==
  ASSUME TypeFiches, NEW e \in Editions, NEW champs \in SUBSET ChampsLivre, RecouvrirLivre(e, champs)
  PROVE  editions' \in [Editions -> Edition]
<1>1. CASE \E x \in {"rejet", "404"} : Repondre(e, x)  BY <1>1, ReponseType
<1>2. ASSUME NEW l \in Livres, NEW i \in Isbns, NEW a \in Auteurs, NEW c \in Categories,
             editions' = [editions EXCEPT ![e] =
                 [phase |-> "validee", livre |-> l, champs |-> champs, reponse |-> "aucune",
                  ligne |-> [isbn |-> Couvrir("isbn", champs, i, livres[l].ligne.isbn),
                             auteur |-> Couvrir("auteur", champs, a, livres[l].ligne.auteur),
                             categorie |-> Couvrir("categorie", champs, c, livres[l].ligne.categorie)]]]
      PROVE  editions' \in [Editions -> Edition]
  <2> DEFINE g == [isbn |-> Couvrir("isbn", champs, i, livres[l].ligne.isbn),
                   auteur |-> Couvrir("auteur", champs, a, livres[l].ligne.auteur),
                   categorie |-> Couvrir("categorie", champs, c, livres[l].ligne.categorie)]
  <2>1. livres[l].ligne \in Ligne  BY DEF TypeFiches, Livre
  <2>2. g \in Ligne  BY <2>1 DEF Ligne, Couvrir
  <2> HIDE DEF g
  <2> DEFINE q == [phase |-> "validee", livre |-> l, champs |-> champs, reponse |-> "aucune", ligne |-> g]
  <2>3. q \in Edition  BY <2>2 DEF Edition, ChampsLivre
  <2>4. editions' = [editions EXCEPT ![e] = q]  BY <1>2 DEF g
  <2> HIDE DEF q
  <2> QED BY <2>3, <2>4 DEF TypeFiches
<1> QED BY <1>1, <1>2 DEF RecouvrirLivre

LEMMA CreationLivreType ==
  ASSUME TypeFiches, NEW e \in Livres \ Presents, CreerLivre(e)
  PROVE  editions' \in [Editions -> Edition]
<1>0. e \in Editions  BY DEF Editions
<1> DEFINE q == [phase |-> "validee", livre |-> e, champs |-> ChampsLivre, ligne |-> livres[e].ligne,
                 reponse |-> "aucune"]
<1>1. q \in Edition  BY DEF Edition, ChampsLivre, TypeFiches, Livre
<1>2. CASE editions' = [editions EXCEPT ![e] = q]
  <2> HIDE DEF q
  <2> QED BY <1>0, <1>1, <1>2 DEF TypeFiches
<1>3. CASE Repondre(e, "rejet")  BY <1>0, <1>3, ReponseType
<1> QED BY <1>2, <1>3 DEF CreerLivre

LEMMA EditionType ==
  ASSUME TypeFiches, NEW e \in Editions,
         \/ e \in Livres \ Presents /\ (CreerLivre(e) \/ InsererLivre(e))
         \/ e \in ModifsLivre /\ (MettreAJourLivre(e) \/ ModifierLivre(e) \/ EcrireLivre(e))
         \/ ResoudreAuteur(e) \/ ResoudreCategorie(e) \/ RelireLivre(e) \/ AnnulerEdition(e)
  PROVE  TypeFiches'
<1>0. Ailleurs
  BY DEF CreerLivre, InsererLivre, MettreAJourLivre, ModifierLivre, RecouvrirLivre, EcrireLivre,
         ResoudreAuteur, ResoudreCategorie, RelireLivre, AnnulerEdition
<1>1. livres' \in [Livres -> Livre] /\ editions' \in [Editions -> Edition]
  <2>0. editions[e].livre \in Livres  BY DEF TypeFiches, Edition
  <2>1. CASE e \in Livres \ Presents /\ CreerLivre(e)  BY <2>1, CreationLivreType DEF CreerLivre, TypeFiches
  <2>2. CASE e \in Livres \ Presents /\ InsererLivre(e)  BY <2>2, EcritureType DEF InsererLivre
  <2>3. CASE MettreAJourLivre(e) \/ ModifierLivre(e)
    <3>1. PICK champs \in SUBSET ChampsLivre : RecouvrirLivre(e, champs)
      BY <2>3 DEF MettreAJourLivre, ModifierLivre
    <3> QED BY <3>1, RecouvrementType DEF RecouvrirLivre, TypeFiches
  <2>4. CASE EcrireLivre(e)  BY <2>0, <2>4, EcritureType, ReponseType DEF EcrireLivre, TypeFiches
  <2>5. CASE ResoudreAuteur(e) \/ ResoudreCategorie(e)
    BY <2>5, ReponseType, PassageType DEF ResoudreAuteur, ResoudreCategorie, TypeFiches
  <2>6. CASE RelireLivre(e)  BY <2>6, ReponseType DEF RelireLivre, TypeFiches
  <2>7. CASE AnnulerEdition(e)  BY <2>7, ReponseType DEF AnnulerEdition, TypeFiches
  <2> QED BY <2>1, <2>2, <2>3, <2>4, <2>5, <2>6, <2>7
<1> QED BY <1>0, <1>1 DEF TypeFiches, Ailleurs

LEMMA RetraitType ==
  ASSUME TypeFiches, NEW l \in Livres, RetirerLivre(l)
  PROVE  TypeFiches'
<1>1. livres' \in [Livres -> Livre]  BY DEF RetirerLivre, TypeFiches, Livre
<1> QED BY <1>1 DEF RetirerLivre, Ailleurs, TypeFiches

LEMMA InitType == InitFiches => TypeFiches
<1> SUFFICES ASSUME InitFiches  PROVE TypeFiches
  OBVIOUS
<1>1. auteurs \in [Auteurs -> {"absent", "present", "efface"}] /\ categories \in [Categories -> Categorie]
  <2>1. [etat : {"absent", "present"}, nom : Noms] \subseteq Categorie  BY DEF Categorie
  <2>2. auteurs \in [Auteurs -> {"absent", "present", "efface"}]  BY DEF InitFiches, EtatInitial
  <2>3. categories \in [Categories -> [etat : {"absent", "present"}, nom : Noms]]  BY DEF InitFiches
  <2> QED BY <2>1, <2>2, <2>3
<1>2. livres \in [Livres -> Livre]
  <2>1. [etat : {"absent", "present"}, ligne : Ligne] \subseteq Livre  BY DEF Livre
  <2> QED BY <2>1 DEF InitFiches
<1>3. modifications \in [Modifs -> Modification]
  <2>1. ModificationSans("recue", "aucune") \in Modification  BY SansType DEF ModificationSans, Modification
  <2> QED BY <2>1 DEF InitFiches
<1>4. editions \in [Editions -> Edition]
  <2>1. (CHOOSE l \in Livres : TRUE) \in Livres  BY FichesNonVides
  <2>2. \A l \in Livres : EditionNeuve(l) \in Edition
    BY <1>2 DEF EditionNeuve, Edition, Livre
  <2> QED BY <2>1, <2>2 DEF InitFiches
<1> QED BY <1>1, <1>2, <1>3, <1>4 DEF InitFiches, TypeFiches

LEMMA EtapeType ==
  ASSUME TypeFiches, [NextFiches]_varsFiches
  PROVE  TypeFiches'
<1>1. CASE \/ \E a \in Creations \cap Auteurs : CreerAuteur(a)
           \/ \E c \in Creations \cap Categories : CreerCategorie(c)
  BY <1>1, CreationInvType
<1>2. CASE \/ \E m \in ModifsAuteur : ModifierAuteur(m) \/ EcrireAuteur(m)
           \/ \E m \in ModifsCategorie : MettreAJourCategorie(m) \/ ModifierCategorie(m) \/ EcrireCategorie(m)
           \/ \E m \in Modifs : AnnulerModification(m)
  BY <1>2, LireModificationType, EcrireModificationType DEF Modifs
<1>3. CASE \E e \in Effacements : SupprimerAuteur(e) \/ SupprimerCategorie(e)  BY <1>3, SuppressionType
<1>4. CASE \/ \E e \in Livres \ Presents : CreerLivre(e) \/ InsererLivre(e)
           \/ \E e \in ModifsLivre : MettreAJourLivre(e) \/ ModifierLivre(e) \/ EcrireLivre(e)
           \/ \E e \in Editions : ResoudreAuteur(e) \/ ResoudreCategorie(e) \/ RelireLivre(e) \/ AnnulerEdition(e)
  BY <1>4, EditionType DEF Editions
<1>5. CASE \E l \in Livres : RetirerLivre(l)  BY <1>5, RetraitType
<1>6. CASE UNCHANGED varsFiches  BY <1>6 DEF varsFiches, rangees, TypeFiches
<1> QED BY <1>1, <1>2, <1>3, <1>4, <1>5, <1>6 DEF NextFiches

(* Every row and every call stays in its domain.                           *)
THEOREM FichesBienTypees == SpecFiches => []TypeFiches
BY InitType, EtapeType, PTL DEF SpecFiches

-----------------------------------------------------------------------------
(* The invariant                                                           *)

(* A row that no POST has been answered for is not there yet.              *)
Neufs ==
  /\ \A a \in Creations \cap Auteurs : creations[a] = "aucune" => auteurs[a] = "absent"
  /\ \A c \in Creations \cap Categories : creations[c] = "aucune" => categories[c].etat = "absent"

(* What an edition has resolved has been there.                            *)
Resolus ==
  \A e \in Editions :
    /\ \/ editions[e].phase \in {"auteur", "resolue", "ecrite"}
       \/ editions[e].phase = "validee" /\ "auteur" \notin editions[e].champs
       => auteurs[editions[e].ligne.auteur] # "absent"
    /\ \/ editions[e].phase \in {"resolue", "ecrite"}
       \/ editions[e].phase \in {"validee", "auteur"} /\ "categorie" \notin editions[e].champs
       => categories[editions[e].ligne.categorie].etat # "absent"
    /\ editions[e].reponse = "500" =>
         auteurs[editions[e].ligne.auteur] = "efface" \/ categories[editions[e].ligne.categorie].etat = "efface"
    /\ editions[e].phase # "terminee" => editions[e].reponse = "aucune"

(* How far the POST of a book has gone, and the row.                       *)
Suivi ==
  \A e \in Livres \ Presents :
    /\ \/ editions[e].phase \in {"recue", "validee", "auteur", "resolue"}
       \/ editions[e].reponse \in {"409", "500", "rejet"}
       => livres[e].etat = "absent"
    /\ editions[e].phase \in {"validee", "auteur", "resolue", "ecrite"} => editions[e].livre = e
    /\ editions[e].phase = "ecrite" \/ editions[e].reponse = "201" => livres[e].etat # "absent"
    /\ editions[e].reponse = "404" => livres[e].etat \in {"masque", "efface"}

NomsLus ==
  \A m \in ModifsCategorie :
    modifications[m].phase = "lue" =>
      /\ modifications[m].cible \in Categories
      /\ modifications[m].nomme \/ modifications[m].nom = modifications[m].lu
      /\ modifications[m].reponse = "aucune"

InvFiches ==
  TypeFiches /\ LivreComplet /\ NomsUniques /\ Neufs /\ Resolus /\ Suivi /\ NomsLus

LEMMA InitInv == InitFiches => InvFiches
<1> SUFFICES ASSUME InitFiches  PROVE InvFiches
  OBVIOUS
<1>1. TypeFiches  BY InitType
<1>2. /\ \A a \in Auteurs : auteurs[a] = IF a \in Presents THEN "present" ELSE "absent"
      /\ \A c \in Categories : categories[c].etat = IF c \in Presents THEN "present" ELSE "absent"
      /\ \A l \in Livres : livres[l].etat = IF l \in Presents THEN "present" ELSE "absent"
  BY DEF InitFiches, EtatInitial
<1>3. LivreComplet
  <2>1. \A l \in Livres : livres[l].ligne.auteur \in Auteurs /\ livres[l].ligne.categorie \in Categories
    BY <1>1 DEF TypeFiches, Livre, Ligne
  <2> QED BY <1>2, <2>1 DEF LivreComplet, EnBase, Complet, InitFiches
<1>4. NomsUniques  BY <1>2 DEF NomsUniques, InitFiches
<1>5. Neufs  BY <1>2 DEF Neufs, Creations
<1>6. \A e \in Editions : editions[e].phase = "recue" /\ editions[e].reponse = "aucune"
  BY DEF InitFiches, EditionNeuve
<1>7. Resolus  BY <1>6 DEF Resolus
<1>8. Suivi  BY <1>2, <1>6 DEF Suivi, Editions
<1>9. NomsLus  BY DEF NomsLus, InitFiches, ModificationSans, Modifs
<1> QED BY <1>1, <1>3, <1>4, <1>5, <1>7, <1>8, <1>9 DEF InvFiches

(* A row that has been there does not become new, and an erased row does   *)
(* not come back.                                                          *)
Garde ==
  /\ \A a \in Auteurs : /\ auteurs[a] # "absent" => auteurs'[a] # "absent"
                        /\ auteurs[a] = "efface" => auteurs'[a] = "efface"
  /\ \A c \in Categories : /\ categories[c].etat # "absent" => categories'[c].etat # "absent"
                           /\ categories[c].etat = "efface" => categories'[c].etat = "efface"

(* The same of the books, but for the one a POST inserts.                  *)
GardeLivres(sauf) ==
  \A l \in Livres : /\ livres[l].etat = "absent" /\ l \notin sauf => livres'[l].etat = "absent"
                    /\ livres[l].etat # "absent" => livres'[l].etat # "absent"
                    /\ livres[l].etat \in {"masque", "efface"} => livres'[l].etat \in {"masque", "efface"}

-----------------------------------------------------------------------------
(* The rows of auteurs and of categories                                   *)

ActionFiche ==
  \/ \E a \in Creations \cap Auteurs : CreerAuteur(a)
  \/ \E c \in Creations \cap Categories : CreerCategorie(c)
  \/ \E m \in ModifsAuteur : ModifierAuteur(m) \/ EcrireAuteur(m)
  \/ \E m \in ModifsCategorie : MettreAJourCategorie(m) \/ ModifierCategorie(m) \/ EcrireCategorie(m)
  \/ \E m \in Modifs : AnnulerModification(m)
  \/ \E e \in Effacements : SupprimerAuteur(e) \/ SupprimerCategorie(e)

(* A step that leaves these tables alone, or what it does to them.         *)
LEMMA FicheChange ==
  ASSUME InvFiches, ActionFiche
  PROVE  /\ Garde
         /\ \A a \in Auteurs : auteurs[a] = "present" /\ auteurs'[a] # "present" => ~Reference(a)
         /\ \A c \in Categories : categories[c].etat = "present" /\ categories'[c].etat # "present" => ~Reference(c)
<1> USE DEF InvFiches, TypeFiches, Garde
<1>1. ASSUME NEW a \in Creations \cap Auteurs, CreerAuteur(a)
      PROVE  UNCHANGED categories
               /\ (UNCHANGED auteurs \/ (auteurs[a] = "absent" /\ auteurs' = [auteurs EXCEPT ![a] = "present"]))
  BY <1>1 DEF CreerAuteur, InsererAuteur, Neufs
<1>2. ASSUME NEW c \in Creations \cap Categories, CreerCategorie(c)
      PROVE  /\ UNCHANGED auteurs
             /\ \/ UNCHANGED categories
                \/ categories[c].etat = "absent" /\ categories' = [categories EXCEPT ![c].etat = "present"]
  BY <1>2 DEF CreerCategorie, InsererCategorie, Neufs
<1>3. ASSUME NEW m \in Modifs,
             ModifierAuteur(m) \/ EcrireAuteur(m) \/ MettreAJourCategorie(m) \/ ModifierCategorie(m)
             \/ AnnulerModification(m)
      PROVE  UNCHANGED <<auteurs, categories>>
  BY <1>3 DEF ModifierAuteur, EcrireAuteur, MettreAJourCategorie, ModifierCategorie, AnnulerModification, rangees
<1>4. ASSUME NEW m \in ModifsCategorie, EcrireCategorie(m)
      PROVE  UNCHANGED auteurs /\ \A c \in Categories : categories'[c].etat = categories[c].etat
  <2>1. UNCHANGED auteurs
          /\ (UNCHANGED categories \/ categories' = [categories EXCEPT ![modifications[m].cible].nom = modifications[m].nom])
    BY <1>4 DEF EcrireCategorie
  <2>2. \A c \in Categories : categories[c] \in Categorie  OBVIOUS
  <2> QED BY <2>1, <2>2 DEF Categorie
<1>5. ASSUME NEW e \in Effacements, SupprimerAuteur(e) \/ SupprimerCategorie(e)
      PROVE  \/ UNCHANGED <<auteurs, categories>>
             \/ /\ UNCHANGED categories
                /\ \E a \in Auteurs : auteurs[a] = "present" /\ ~Reference(a)
                     /\ auteurs' = [auteurs EXCEPT ![a] = "efface"]
             \/ /\ UNCHANGED auteurs
                /\ \E c \in Categories : /\ categories[c].etat = "present" /\ ~Reference(c)
                                         /\ categories' = [categories EXCEPT ![c].etat = "efface"]
  BY <1>5 DEF SupprimerAuteur, SupprimerCategorie
<1>6. \A c \in Categories : categories[c] \in Categorie  OBVIOUS
<1>7. CASE \E a \in Creations \cap Auteurs : CreerAuteur(a)  BY <1>1, <1>7
<1>8. CASE \E c \in Creations \cap Categories : CreerCategorie(c)
  BY <1>2, <1>6, <1>8 DEF Categorie
<1>9. CASE \/ \E m \in ModifsAuteur : ModifierAuteur(m) \/ EcrireAuteur(m)
           \/ \E m \in ModifsCategorie : MettreAJourCategorie(m) \/ ModifierCategorie(m)
           \/ \E m \in Modifs : AnnulerModification(m)
  BY <1>3, <1>9 DEF Modifs
<1>10. CASE \E m \in ModifsCategorie : EcrireCategorie(m)  BY <1>4, <1>10
<1>11. CASE \E e \in Effacements : SupprimerAuteur(e) \/ SupprimerCategorie(e)
  BY <1>5, <1>6, <1>11 DEF Categorie
<1> QED BY <1>7, <1>8, <1>9, <1>10, <1>11 DEF ActionFiche

LEMMA FicheReste ==
  ASSUME ActionFiche
  PROVE  UNCHANGED <<livres, editions>>
BY DEF ActionFiche, CreerAuteur, CreerCategorie, ModifierAuteur, EcrireAuteur, MettreAJourCategorie,
       ModifierCategorie, EcrireCategorie, AnnulerModification, SupprimerAuteur, SupprimerCategorie,
       AilleursModifs, rangees

LEMMA FicheComplet ==
  ASSUME InvFiches, ActionFiche
  PROVE  LivreComplet'
<1>1. UNCHANGED livres  BY FicheReste
<1>2. \A l \in Livres : livres[l].ligne.auteur \in Auteurs /\ livres[l].ligne.categorie \in Categories
  BY DEF InvFiches, TypeFiches, Livre, Ligne
<1>3. \A l \in Livres : EnBase(l) => Reference(livres[l].ligne.auteur) /\ Reference(livres[l].ligne.categorie)
  BY DEF Reference
<1> QED BY <1>1, <1>2, <1>3, FicheChange DEF InvFiches, LivreComplet, EnBase, Complet

-----------------------------------------------------------------------------
(* The books and their editions                                            *)

ActionLivre(e) ==
  \/ e \in Livres \ Presents /\ (CreerLivre(e) \/ InsererLivre(e))
  \/ e \in ModifsLivre /\ (MettreAJourLivre(e) \/ ModifierLivre(e) \/ EcrireLivre(e))
  \/ ResoudreAuteur(e) \/ ResoudreCategorie(e) \/ RelireLivre(e) \/ AnnulerEdition(e)

(* What the INSERT or the UPDATE of a book changes.                        *)
LEMMA EcritureChange ==
  ASSUME InvFiches, NEW e \in Editions, NEW l \in Livres, Enregistrer(e, l)
  PROVE  \/ /\ UNCHANGED livres /\ editions'[e].phase = "terminee" /\ editions'[e].ligne = editions[e].ligne
            /\ editions'[e].reponse \in {"409", "500"}
            /\ editions'[e].reponse = "500" => ~ReferencesPresentes(editions[e].ligne)
         \/ /\ livres' = [livres EXCEPT ![l] = [etat |-> "present", ligne |-> editions[e].ligne]]
            /\ ReferencesPresentes(editions[e].ligne)
            /\ editions' = [editions EXCEPT ![e].phase = "ecrite"]
<1>1. editions[e] \in Edition /\ editions \in [Editions -> Edition]  BY DEF InvFiches, TypeFiches
<1>2. ASSUME NEW x \in {"409", "500"}, Repondre(e, x)
      PROVE  editions'[e].phase = "terminee" /\ editions'[e].ligne = editions[e].ligne /\ editions'[e].reponse = x
  BY <1>1, <1>2 DEF Repondre, Edition
<1> QED BY <1>2 DEF Enregistrer, Passer

LEMMA LivreAutres ==
  ASSUME InvFiches, NEW e \in Editions, ActionLivre(e)
  PROVE  /\ Ailleurs /\ \A f \in Editions \ {e} : editions'[f] = editions[f]
         /\ editions[e].phase # "terminee"
<1>1. Ailleurs
  BY DEF ActionLivre, CreerLivre, InsererLivre, MettreAJourLivre, ModifierLivre, RecouvrirLivre, EcrireLivre,
         ResoudreAuteur, ResoudreCategorie, RelireLivre, AnnulerEdition
<1>2. \A f \in Editions \ {e} : editions'[f] = editions[f]
  <2>1. ASSUME \E x : editions' = [editions EXCEPT ![e] = x]
        PROVE  \A f \in Editions \ {e} : editions'[f] = editions[f]
    BY <2>1 DEF InvFiches, TypeFiches
  <2>2. ASSUME NEW x, Repondre(e, x)  PROVE \A f \in Editions \ {e} : editions'[f] = editions[f]
    BY <2>2 DEF Repondre, InvFiches, TypeFiches
  <2>3. ASSUME NEW x, Passer(e, x)  PROVE \A f \in Editions \ {e} : editions'[f] = editions[f]
    BY <2>3 DEF Passer, InvFiches, TypeFiches
  <2>4. CASE e \in Livres \ Presents /\ CreerLivre(e)  BY <2>1, <2>2, <2>4 DEF CreerLivre
  <2>5. CASE e \in Livres \ Presents /\ InsererLivre(e)  BY <2>2, <2>3, <2>5 DEF InsererLivre, Enregistrer
  <2>6. CASE MettreAJourLivre(e) \/ ModifierLivre(e)
    BY <2>1, <2>2, <2>6 DEF MettreAJourLivre, ModifierLivre, RecouvrirLivre
  <2>7. CASE EcrireLivre(e)  BY <2>2, <2>3, <2>7 DEF EcrireLivre, Enregistrer
  <2>8. CASE ResoudreAuteur(e) \/ ResoudreCategorie(e)
    BY <2>2, <2>3, <2>8 DEF ResoudreAuteur, ResoudreCategorie
  <2>9. CASE RelireLivre(e) \/ AnnulerEdition(e)  BY <2>2, <2>9 DEF RelireLivre, AnnulerEdition
  <2> QED BY <2>4, <2>5, <2>6, <2>7, <2>8, <2>9 DEF ActionLivre
<1>3. editions[e].phase # "terminee"
  BY DEF ActionLivre, CreerLivre, InsererLivre, MettreAJourLivre, ModifierLivre, RecouvrirLivre, EcrireLivre,
         ResoudreAuteur, ResoudreCategorie, RelireLivre, AnnulerEdition
<1> QED BY <1>1, <1>2, <1>3

(* A book that is written has its references.                              *)
LEMMA EcritureComplet ==
  ASSUME InvFiches, NEW e \in Editions, NEW l \in Livres, Enregistrer(e, l), Ailleurs
  PROVE  LivreComplet'
<1>1. CASE UNCHANGED livres
  BY <1>1 DEF InvFiches, LivreComplet, EnBase, Complet, Ailleurs
<1>2. CASE /\ livres' = [livres EXCEPT ![l] = [etat |-> "present", ligne |-> editions[e].ligne]]
           /\ ReferencesPresentes(editions[e].ligne)
  BY <1>2 DEF InvFiches, TypeFiches, LivreComplet, EnBase, Complet, ReferencesPresentes, Ailleurs
<1> QED BY <1>1, <1>2, EcritureChange

LEMMA LivreComplete ==
  ASSUME InvFiches, NEW e \in Editions, ActionLivre(e)
  PROVE  LivreComplet'
<1>0. Ailleurs  BY LivreAutres
<1>1. CASE UNCHANGED livres
  BY <1>0, <1>1 DEF InvFiches, LivreComplet, EnBase, Complet, Ailleurs
<1>2. CASE e \in Livres \ Presents /\ InsererLivre(e)
  BY <1>0, <1>2, EcritureComplet DEF InsererLivre
<1>3. CASE EcrireLivre(e)
  <2>1. editions[e].livre \in Livres  BY DEF InvFiches, TypeFiches, Edition
  <2> QED BY <1>0, <1>1, <1>3, <2>1, EcritureComplet DEF EcrireLivre
<1> QED BY <1>1, <1>2, <1>3
     DEF ActionLivre, CreerLivre, MettreAJourLivre, ModifierLivre, RecouvrirLivre, ResoudreAuteur,
         ResoudreCategorie, RelireLivre, AnnulerEdition

(* Only the POST of a book makes it.                                       *)
LEMMA LivreGarde ==
  ASSUME InvFiches, NEW e \in Editions, ActionLivre(e)
  PROVE  /\ ~(e \in Livres /\ editions'[e].phase = "ecrite") => GardeLivres({})
         /\ e \in Livres => GardeLivres({e})
<1> USE DEF InvFiches, TypeFiches
<1>1. CASE UNCHANGED livres  BY <1>1 DEF GardeLivres
<1>2. CASE e \in Livres \ Presents /\ InsererLivre(e)
  <2>1. livres[e].etat = "absent"  BY <1>2 DEF InsererLivre, Suivi
  <2>2. CASE livres' = [livres EXCEPT ![e] = [etat |-> "present", ligne |-> editions[e].ligne]]
    <3>0. livres'[e].etat = "present" /\ livres[e].etat # "present"  BY <1>2, <2>1, <2>2
    <3>1. editions' = [editions EXCEPT ![e].phase = "ecrite"]
      BY <1>2, <3>0, EcritureChange DEF InsererLivre
    <3>2. editions'[e].phase = "ecrite"  BY <3>1 DEF Edition
    <3> QED BY <1>2, <2>1, <2>2, <3>2 DEF GardeLivres
  <2> QED BY <1>1, <1>2, <2>2, EcritureChange DEF InsererLivre
<1>3. CASE e \in ModifsLivre /\ EcrireLivre(e)
  <2> DEFINE l == editions[e].livre
  <2>0. l \in Livres /\ e \notin Livres  BY <1>3, FichesDistinctes DEF Edition
  <2>1. CASE livres[l].etat = "present" /\ Enregistrer(e, l)
    <3>1. CASE livres' = [livres EXCEPT ![l] = [etat |-> "present", ligne |-> editions[e].ligne]]
      BY <2>0, <2>1, <3>1 DEF GardeLivres
    <3> QED BY <1>1, <2>0, <2>1, <3>1, EcritureChange
  <2> QED BY <1>1, <1>3, <2>1 DEF EcrireLivre
<1> QED BY <1>1, <1>2, <1>3
     DEF ActionLivre, CreerLivre, MettreAJourLivre, ModifierLivre, RecouvrirLivre, ResoudreAuteur,
         ResoudreCategorie, RelireLivre, AnnulerEdition

LEMMA RepondreValeur ==
  ASSUME TypeFiches, NEW e \in Editions, NEW x, Repondre(e, x)
  PROVE  /\ editions'[e].phase = "terminee" /\ editions'[e].reponse = x
         /\ editions'[e].ligne = editions[e].ligne
<1>1. editions[e] \in Edition /\ editions \in [Editions -> Edition]  BY DEF TypeFiches
<1> QED BY <1>1 DEF Repondre, Edition

LEMMA PasserValeur ==
  ASSUME TypeFiches, NEW e \in Editions, NEW x, Passer(e, x)
  PROVE  /\ editions'[e].phase = x /\ editions'[e].reponse = editions[e].reponse
         /\ editions'[e].ligne = editions[e].ligne /\ editions'[e].livre = editions[e].livre
         /\ editions'[e].champs = editions[e].champs
<1>1. editions[e] \in Edition /\ editions \in [Editions -> Edition]  BY DEF TypeFiches
<1> QED BY <1>1 DEF Passer, Edition

LEMMA LivreResolu ==
  ASSUME InvFiches, NEW e \in Editions, ActionLivre(e)
  PROVE  Resolus'
<1> DEFINE R(E) ==
      /\ \/ E.phase \in {"auteur", "resolue", "ecrite"}
         \/ E.phase = "validee" /\ "auteur" \notin E.champs
         => auteurs[E.ligne.auteur] # "absent"
      /\ \/ E.phase \in {"resolue", "ecrite"}
         \/ E.phase \in {"validee", "auteur"} /\ "categorie" \notin E.champs
         => categories[E.ligne.categorie].etat # "absent"
      /\ E.reponse = "500" => auteurs[E.ligne.auteur] = "efface" \/ categories[E.ligne.categorie].etat = "efface"
      /\ E.phase # "terminee" => E.reponse = "aucune"
<1>0. /\ UNCHANGED <<auteurs, categories>> /\ \A f \in Editions \ {e} : editions'[f] = editions[f]
      /\ TypeFiches /\ editions[e] \in Edition
  BY LivreAutres DEF Ailleurs, InvFiches, TypeFiches
<1>1. R(editions[e]) /\ editions[e].reponse = "aucune"
  BY LivreAutres DEF InvFiches, Resolus
<1>2. R(editions'[e])
  <2>1. ASSUME NEW x \in {"aucune", "200", "201", "404", "409", "rejet", "echec"}, Repondre(e, x)
        PROVE  R(editions'[e])
    BY <1>0, <2>1, RepondreValeur
  <2>2. CASE e \in Livres \ Presents /\ CreerLivre(e)
    <3>1. CASE editions' = [editions EXCEPT ![e] = [phase |-> "validee", livre |-> e, champs |-> ChampsLivre,
                                                    ligne |-> livres[e].ligne, reponse |-> "aucune"]]
      BY <1>0, <3>1 DEF TypeFiches, ChampsLivre
    <3> QED BY <2>1, <2>2, <3>1 DEF CreerLivre
  <2>3. CASE MettreAJourLivre(e) \/ ModifierLivre(e)
    <3>1. PICK champs \in SUBSET ChampsLivre : RecouvrirLivre(e, champs)
      BY <2>3 DEF MettreAJourLivre, ModifierLivre
    <3>2. ASSUME NEW l \in Livres, livres[l].etat = "present",
                 NEW i \in Isbns, NEW a \in Auteurs, NEW c \in Categories,
                 editions' = [editions EXCEPT ![e] =
                 [phase |-> "validee", livre |-> l, champs |-> champs, reponse |-> "aucune",
                  ligne |-> [isbn |-> Couvrir("isbn", champs, i, livres[l].ligne.isbn),
                             auteur |-> Couvrir("auteur", champs, a, livres[l].ligne.auteur),
                             categorie |-> Couvrir("categorie", champs, c, livres[l].ligne.categorie)]]]
          PROVE  R(editions'[e])
      <4>1. /\ editions'[e].phase = "validee" /\ editions'[e].champs = champs /\ editions'[e].reponse = "aucune"
            /\ editions'[e].ligne.auteur = Couvrir("auteur", champs, a, livres[l].ligne.auteur)
            /\ editions'[e].ligne.categorie = Couvrir("categorie", champs, c, livres[l].ligne.categorie)
        BY <1>0, <3>2 DEF TypeFiches
      <4>2. auteurs[livres[l].ligne.auteur] = "present" /\ categories[livres[l].ligne.categorie].etat = "present"
        BY <3>2 DEF InvFiches, LivreComplet, EnBase, Complet
      <4> QED BY <4>1, <4>2 DEF Couvrir
    <3> QED BY <2>1, <3>1, <3>2 DEF RecouvrirLivre
  <2>4. CASE ResoudreAuteur(e)
    <3>1. CASE Passer(e, "auteur")
            /\ ~("auteur" \in editions[e].champs /\ auteurs[editions[e].ligne.auteur] # "present")
      BY <1>0, <1>1, <2>4, <3>1, PasserValeur DEF ResoudreAuteur
    <3> QED BY <2>1, <2>4, <3>1 DEF ResoudreAuteur
  <2>5. CASE ResoudreCategorie(e)
    <3>1. CASE /\ Passer(e, "resolue")
               /\ ~("categorie" \in editions[e].champs /\ categories[editions[e].ligne.categorie].etat # "present")
      BY <1>0, <1>1, <2>5, <3>1, PasserValeur DEF ResoudreCategorie
    <3> QED BY <2>1, <2>5, <3>1 DEF ResoudreCategorie
  <2>6. ASSUME NEW l \in Livres, editions[e].phase = "resolue", Enregistrer(e, l)  PROVE R(editions'[e])
    <3>1. auteurs[editions[e].ligne.auteur] # "absent" /\ categories[editions[e].ligne.categorie].etat # "absent"
      BY <1>1, <2>6
    <3>2. CASE Passer(e, "ecrite")  BY <1>0, <1>1, <3>1, <3>2, PasserValeur
    <3>3. CASE Repondre(e, "500") /\ ~ReferencesPresentes(editions[e].ligne)
      <4>1. /\ editions'[e].phase = "terminee" /\ editions'[e].reponse = "500"
            /\ editions'[e].ligne = editions[e].ligne
        BY <1>0, <3>3, RepondreValeur
      <4>2. /\ auteurs[editions[e].ligne.auteur] \in {"absent", "present", "efface"}
            /\ categories[editions[e].ligne.categorie].etat \in {"absent", "present", "efface"}
        BY <1>0 DEF TypeFiches, Edition, Ligne, Categorie
      <4>3. auteurs[editions[e].ligne.auteur] = "efface" \/ categories[editions[e].ligne.categorie].etat = "efface"
        BY <3>1, <3>3, <4>2 DEF ReferencesPresentes
      <4> QED BY <4>1, <4>3
    <3> QED BY <2>1, <2>6, <3>2, <3>3 DEF Enregistrer
  <2>7. CASE e \in Livres \ Presents /\ InsererLivre(e)  BY <2>6, <2>7 DEF InsererLivre
  <2>8. CASE EcrireLivre(e)
    <3>1. editions[e].livre \in Livres  BY <1>0 DEF Edition
    <3> QED BY <2>1, <2>6, <2>8, <3>1 DEF EcrireLivre
  <2>9. CASE RelireLivre(e) \/ AnnulerEdition(e)  BY <2>1, <2>9 DEF RelireLivre, AnnulerEdition
  <2> QED BY <2>2, <2>3, <2>4, <2>5, <2>7, <2>8, <2>9 DEF ActionLivre
<1>3. \A f \in Editions : R(editions'[f])
  <2>1. \A f \in Editions : R(editions[f])  BY DEF InvFiches, Resolus
  <2> HIDE DEF R
  <2> QED BY <1>0, <1>2, <2>1
<1> QED BY <1>0, <1>3 DEF Resolus

LEMMA LivreSuivi ==
  ASSUME InvFiches, NEW e \in Editions, ActionLivre(e)
  PROVE  Suivi'
<1> DEFINE S(E, etat, f) ==
      /\ \/ E.phase \in {"recue", "validee", "auteur", "resolue"}
         \/ E.reponse \in {"409", "500", "rejet"}
         => etat = "absent"
      /\ E.phase \in {"validee", "auteur", "resolue", "ecrite"} => E.livre = f
      /\ E.phase = "ecrite" \/ E.reponse = "201" => etat # "absent"
      /\ E.reponse = "404" => etat \in {"masque", "efface"}
<1>0. /\ \A f \in Editions \ {e} : editions'[f] = editions[f]
      /\ TypeFiches /\ editions[e] \in Edition /\ editions[e].reponse = "aucune"
      /\ \A f \in Livres \ Presents : f \in Editions /\ S(editions[f], livres[f].etat, f)
  BY LivreAutres DEF InvFiches, TypeFiches, Resolus, Suivi, Editions
<1>1. ASSUME NEW f \in Livres \ Presents, f # e  PROVE S(editions'[f], livres'[f].etat, f)
  <2>1. editions'[f] = editions[f] /\ S(editions[f], livres[f].etat, f)  BY <1>0, <1>1
  <2>2. /\ livres[f].etat = "absent" => livres'[f].etat = "absent"
        /\ livres[f].etat # "absent" => livres'[f].etat # "absent"
        /\ livres[f].etat \in {"masque", "efface"} => livres'[f].etat \in {"masque", "efface"}
    BY <1>1, LivreGarde DEF GardeLivres
  <2> QED BY <2>1, <2>2
<1>2. ASSUME e \in Livres \ Presents  PROVE S(editions'[e], livres'[e].etat, e)
  <2>0. e \notin ModifsLivre /\ S(editions[e], livres[e].etat, e)  BY <1>0, <1>2, FichesDistinctes
  <2>1. ASSUME NEW x, Repondre(e, x), UNCHANGED livres,
               x \in {"409", "500", "rejet"} => livres[e].etat = "absent",
               x = "201" => livres[e].etat # "absent", x = "404" => livres[e].etat \in {"masque", "efface"}
        PROVE  S(editions'[e], livres'[e].etat, e)
    BY <1>0, <2>1, RepondreValeur
  <2>2. CASE CreerLivre(e)
    <3>1. CASE editions' = [editions EXCEPT ![e] = [phase |-> "validee", livre |-> e, champs |-> ChampsLivre,
                                                    ligne |-> livres[e].ligne, reponse |-> "aucune"]]
      BY <1>0, <2>0, <2>2, <3>1 DEF TypeFiches, CreerLivre
    <3> QED BY <2>0, <2>1, <2>2, <3>1 DEF CreerLivre
  <2>3. CASE ResoudreAuteur(e) \/ ResoudreCategorie(e)
    <3>1. ASSUME NEW x \in {"auteur", "resolue"}, Passer(e, x)  PROVE S(editions'[e], livres'[e].etat, e)
      BY <1>0, <2>0, <2>3, <3>1, PasserValeur DEF ResoudreAuteur, ResoudreCategorie
    <3> QED BY <2>0, <2>1, <2>3, <3>1 DEF ResoudreAuteur, ResoudreCategorie
  <2>4. CASE InsererLivre(e)
    <3>1. livres[e].etat = "absent" /\ editions[e].phase = "resolue" /\ editions[e].livre = e
      BY <2>0, <2>4 DEF InsererLivre
    <3>2. CASE livres' = [livres EXCEPT ![e] = [etat |-> "present", ligne |-> editions[e].ligne]] /\ Passer(e, "ecrite")
      <4>1. livres'[e].etat = "present"  BY <1>2, <3>2, <1>0 DEF TypeFiches
      <4> QED BY <1>0, <3>1, <3>2, <4>1, PasserValeur
    <3> QED BY <2>1, <2>4, <3>1, <3>2 DEF InsererLivre, Enregistrer
  <2>5. CASE RelireLivre(e)
    <3>1. editions[e].livre = e /\ livres[e].etat \in {"present", "masque", "efface"}
      BY <1>0, <1>2, <2>0, <2>5 DEF RelireLivre, TypeFiches, Livre
    <3> QED BY <1>2, <2>1, <2>5, <3>1 DEF RelireLivre
  <2>6. CASE AnnulerEdition(e)  BY <2>1, <2>6 DEF AnnulerEdition
  <2> QED BY <2>0, <2>2, <2>3, <2>4, <2>5, <2>6 DEF ActionLivre, MettreAJourLivre, ModifierLivre, RecouvrirLivre,
      EcrireLivre
<1>3. \A f \in Livres \ Presents : S(editions'[f], livres'[f].etat, f)
  <2> HIDE DEF S
  <2> QED BY <1>1, <1>2
<1> QED BY <1>3 DEF Suivi

-----------------------------------------------------------------------------
(* The names of the categories                                             *)

LEMMA NomsEtape ==
  ASSUME InvFiches, ActionFiche
  PROVE  NomsUniques'
<1> USE DEF InvFiches, TypeFiches
<1>0. \A c \in Categories : categories[c] \in Categorie  OBVIOUS
<1>1. CASE UNCHANGED categories  BY <1>1 DEF NomsUniques, NomPris
<1>2. ASSUME NEW c \in Categories, ~NomPris(categories[c].nom, c),
             categories' = [categories EXCEPT ![c].etat = "present"]
      PROVE  NomsUniques'
  BY <1>0, <1>2 DEF NomsUniques, NomPris, Categorie
<1>3. ASSUME NEW c \in Categories, NEW nom \in Noms, ~NomPris(nom, c),
             categories' = [categories EXCEPT ![c].nom = nom]
      PROVE  NomsUniques'
  BY <1>0, <1>3 DEF NomsUniques, NomPris, Categorie
<1>4. ASSUME NEW c \in Categories, categories' = [categories EXCEPT ![c].etat = "efface"]
      PROVE  NomsUniques'
  BY <1>0, <1>4 DEF NomsUniques, NomPris, Categorie
<1>5. CASE \E c \in Creations \cap Categories : CreerCategorie(c)
  BY <1>1, <1>2, <1>5 DEF CreerCategorie, InsererCategorie
<1>6. CASE \E m \in ModifsCategorie : EcrireCategorie(m)
  <2>1. PICK m \in ModifsCategorie : EcrireCategorie(m)  BY <1>6
  <2>2. modifications[m].cible \in Categories /\ modifications[m].nom \in Noms
    BY <2>1 DEF EcrireCategorie, NomsLus, Modification, Modifs
  <2> QED BY <1>1, <1>3, <2>1, <2>2 DEF EcrireCategorie, NomRefuse
<1>7. CASE \E e \in Effacements : SupprimerAuteur(e) \/ SupprimerCategorie(e)
  BY <1>1, <1>4, <1>7 DEF SupprimerAuteur, SupprimerCategorie
<1>8. CASE UNCHANGED <<auteurs, categories>>  BY <1>1, <1>8
<1> QED BY <1>1, <1>5, <1>6, <1>7, <1>8
     DEF ActionFiche, CreerAuteur, ModifierAuteur, EcrireAuteur, MettreAJourCategorie, ModifierCategorie,
         AnnulerModification, rangees

LEMMA NomsLusEtape ==
  ASSUME InvFiches, ActionFiche
  PROVE  NomsLus'
<1> USE DEF InvFiches, TypeFiches
<1>1. CASE UNCHANGED modifications  BY <1>1 DEF NomsLus
<1>2. ASSUME NEW m \in Modifs, NEW x, Conclure(m, x)  PROVE NomsLus'
  BY <1>2 DEF Conclure, ModificationSans, NomsLus, Modifs
<1>3. ASSUME NEW m \in Modifs, NEW x, NEW nomme, NEW lu, NEW nom, Retenir(m, x, nomme, lu, nom),
             m \in ModifsCategorie => x \in Categories /\ (nomme \/ nom = lu)
      PROVE  NomsLus'
  <2>1. ASSUME NEW d \in ModifsCategorie, modifications'[d].phase = "lue"
        PROVE  /\ modifications'[d].cible \in Categories
               /\ modifications'[d].nomme \/ modifications'[d].nom = modifications'[d].lu
               /\ modifications'[d].reponse = "aucune"
    <3>1. CASE d = m  BY <1>3, <2>1, <3>1 DEF Retenir, Modifs
    <3>2. CASE d # m
      <4>1. modifications'[d] = modifications[d]  BY <1>3, <3>2 DEF Retenir, Modifs
      <4> QED BY <2>1, <4>1 DEF NomsLus
    <3> QED BY <3>1, <3>2
  <2> QED BY <2>1 DEF NomsLus
<1>4. ASSUME NEW m \in ModifsAuteur, ModifierAuteur(m)  PROVE NomsLus'
  <2>1. m \in Modifs /\ m \notin ModifsCategorie  BY FichesDistinctes DEF Modifs
  <2> QED BY <1>2, <1>3, <1>4, <2>1 DEF ModifierAuteur, Charger
<1>5. ASSUME NEW m \in ModifsCategorie, MettreAJourCategorie(m) \/ ModifierCategorie(m)  PROVE NomsLus'
  <2>1. m \in Modifs  BY DEF Modifs
  <2>2. CASE \E x : Conclure(m, x)  BY <1>2, <2>1, <2>2
  <2>3. ASSUME NEW c \in Categories, NEW nom \in Noms, Retenir(m, c, TRUE, categories[c].nom, nom)
        PROVE  NomsLus'
    BY <1>3, <2>1, <2>3
  <2>4. ASSUME NEW c \in Categories, Retenir(m, c, FALSE, categories[c].nom, categories[c].nom)
        PROVE  NomsLus'
    BY <1>3, <2>1, <2>4
  <2> QED BY <1>5, <2>2, <2>3, <2>4 DEF MettreAJourCategorie, ModifierCategorie, Charger
<1>6. ASSUME NEW m \in Modifs, EcrireAuteur(m) \/ EcrireCategorie(m) \/ AnnulerModification(m)  PROVE NomsLus'
  BY <1>2, <1>6 DEF EcrireAuteur, EcrireCategorie, AnnulerModification
<1>7. CASE \/ \E a \in Creations \cap Auteurs : CreerAuteur(a)
           \/ \E c \in Creations \cap Categories : CreerCategorie(c)
           \/ \E e \in Effacements : SupprimerAuteur(e) \/ SupprimerCategorie(e)
  BY <1>1, <1>7 DEF CreerAuteur, CreerCategorie, SupprimerAuteur, SupprimerCategorie
<1> QED BY <1>4, <1>5, <1>6, <1>7 DEF ActionFiche, Modifs

LEMMA NeufsEtape ==
  ASSUME InvFiches, ActionFiche
  PROVE  Neufs'
<1> USE DEF InvFiches, TypeFiches
<1>0. /\ \A c \in Categories : categories[c] \in Categorie
      /\ creations \in [Creations -> {"aucune", "201", "409", "rejet", "echec"}]
  OBVIOUS
<1>1. ASSUME UNCHANGED creations,
             \A a \in Auteurs : auteurs[a] = "absent" => auteurs'[a] = "absent",
             \A c \in Categories : categories[c].etat = "absent" => categories'[c].etat = "absent"
      PROVE  Neufs'
  BY <1>1 DEF Neufs
<1>2. CASE UNCHANGED <<auteurs, categories, creations>>  BY <1>1, <1>2
<1>3. ASSUME NEW a \in Creations \cap Auteurs, CreerAuteur(a)  PROVE Neufs'
  <2>1. /\ creations'[a] # "aucune" /\ \A x \in Creations \ {a} : creations'[x] = creations[x]
        /\ \A b \in Auteurs \ {a} : auteurs'[b] = auteurs[b]
        /\ UNCHANGED categories
    BY <1>0, <1>3 DEF CreerAuteur, InsererAuteur, Creer, Accuse
  <2> QED BY <2>1 DEF Neufs
<1>4. ASSUME NEW c \in Creations \cap Categories, CreerCategorie(c)  PROVE Neufs'
  <2>1. /\ creations'[c] # "aucune" /\ \A x \in Creations \ {c} : creations'[x] = creations[x]
        /\ \A b \in Categories \ {c} : categories'[b] = categories[b]
        /\ UNCHANGED auteurs
    BY <1>0, <1>4 DEF CreerCategorie, InsererCategorie, Creer, Accuse
  <2> QED BY <2>1 DEF Neufs
<1>5. ASSUME NEW m \in Modifs, EcrireCategorie(m)  PROVE Neufs'
  <2>1. /\ UNCHANGED <<auteurs, creations>>
        /\ UNCHANGED categories
             \/ categories' = [categories EXCEPT ![modifications[m].cible].nom = modifications[m].nom]
    BY <1>5 DEF EcrireCategorie, AilleursModifs
  <2>2. \A c \in Categories : categories'[c].etat = categories[c].etat  BY <1>0, <2>1 DEF Categorie
  <2> QED BY <1>1, <2>1, <2>2
<1>6. ASSUME NEW e \in Effacements, SupprimerAuteur(e) \/ SupprimerCategorie(e)  PROVE Neufs'
  <2>1. UNCHANGED creations  BY <1>6 DEF SupprimerAuteur, SupprimerCategorie
  <2>2. \A a \in Auteurs : auteurs[a] = "absent" => auteurs'[a] = "absent"
    BY <1>6 DEF SupprimerAuteur, SupprimerCategorie
  <2>3. \A c \in Categories : categories[c].etat = "absent" => categories'[c].etat = "absent"
    BY <1>0, <1>6 DEF SupprimerAuteur, SupprimerCategorie, Categorie
  <2> QED BY <1>1, <2>1, <2>2, <2>3
<1>7. ASSUME NEW m \in Modifs,
             ModifierAuteur(m) \/ EcrireAuteur(m) \/ MettreAJourCategorie(m) \/ ModifierCategorie(m)
             \/ AnnulerModification(m)
      PROVE  Neufs'
  BY <1>2, <1>7 DEF ModifierAuteur, EcrireAuteur, MettreAJourCategorie, ModifierCategorie, AnnulerModification,
     rangees, AilleursModifs
<1> QED BY <1>3, <1>4, <1>5, <1>6, <1>7 DEF ActionFiche, Modifs

-----------------------------------------------------------------------------
LEMMA FicheInv ==
  ASSUME InvFiches, ActionFiche, TypeFiches'
  PROVE  InvFiches'
<1>0. UNCHANGED <<livres, editions>> /\ Garde  BY FicheReste, FicheChange
<1>1. Suivi'  BY <1>0 DEF Suivi, InvFiches
<1>2. Resolus'
  <2>1. \A e \in Editions : /\ editions[e].ligne.auteur \in Auteurs
                            /\ editions[e].ligne.categorie \in Categories
    BY DEF InvFiches, TypeFiches, Edition, Ligne
  <2>2. ASSUME NEW e \in Editions
        PROVE  LET E == editions[e] IN
               /\ auteurs[E.ligne.auteur] # "absent" => auteurs'[E.ligne.auteur] # "absent"
               /\ auteurs[E.ligne.auteur] = "efface" => auteurs'[E.ligne.auteur] = "efface"
               /\ categories[E.ligne.categorie].etat # "absent" => categories'[E.ligne.categorie].etat # "absent"
               /\ categories[E.ligne.categorie].etat = "efface" => categories'[E.ligne.categorie].etat = "efface"
    BY <1>0, <2>1 DEF Garde
  <2> QED BY <1>0, <2>2 DEF InvFiches, Resolus
<1> QED BY <1>1, <1>2, FicheComplet, NomsEtape, NomsLusEtape, NeufsEtape DEF InvFiches

LEMMA LivreInv ==
  ASSUME InvFiches, NEW e \in Editions, ActionLivre(e), TypeFiches'
  PROVE  InvFiches'
<1>1. UNCHANGED <<auteurs, categories, creations, modifications>>  BY LivreAutres DEF Ailleurs
<1>2. NomsUniques' /\ NomsLus' /\ Neufs'
  BY <1>1 DEF InvFiches, NomsUniques, NomPris, NomsLus, Neufs
<1> QED BY <1>2, LivreComplete, LivreResolu, LivreSuivi DEF InvFiches

LEMMA RetraitInv ==
  ASSUME InvFiches, NEW l \in Livres, RetirerLivre(l), TypeFiches'
  PROVE  InvFiches'
<1>1. UNCHANGED <<auteurs, categories, creations, modifications, editions>>
  BY DEF RetirerLivre, Ailleurs
<1>2. NomsUniques' /\ NomsLus' /\ Neufs' /\ Resolus'
  BY <1>1 DEF InvFiches, NomsUniques, NomPris, NomsLus, Neufs, Resolus
<1>3. /\ \A k \in Livres : livres'[k].ligne = livres[k].ligne
      /\ \A k \in Livres : EnBase(k)' => EnBase(k)
      /\ GardeLivres({})
  <2>1. \A k \in Livres : livres[k] \in Livre  BY DEF InvFiches, TypeFiches
  <2>2. \E etat \in {"masque", "efface"} : livres' = [livres EXCEPT ![l].etat = etat]
    BY DEF RetirerLivre
  <2>3. livres[l].etat \in {"present", "masque"}  BY DEF RetirerLivre, EnBase
  <2>4. livres[l].etat # "present" => livres' = [livres EXCEPT ![l].etat = "efface"]
    BY DEF RetirerLivre
  <2> QED BY <2>1, <2>2, <2>3, <2>4 DEF Livre, EnBase, GardeLivres, InvFiches, TypeFiches
<1>4. LivreComplet'  BY <1>1, <1>3 DEF InvFiches, LivreComplet, EnBase, Complet
<1>5. Suivi'  BY <1>1, <1>3 DEF InvFiches, Suivi, GardeLivres
<1> QED BY <1>2, <1>4, <1>5 DEF InvFiches

LEMMA EtapeInv ==
  ASSUME InvFiches, [NextFiches]_varsFiches
  PROVE  InvFiches'
<1>0. TypeFiches'  BY EtapeType DEF InvFiches
<1>1. CASE ActionFiche  BY <1>0, <1>1, FicheInv
<1>2. CASE \E e \in Editions : ActionLivre(e)  BY <1>0, <1>2, LivreInv
<1>3. CASE \E l \in Livres : RetirerLivre(l)  BY <1>0, <1>3, RetraitInv
<1>4. CASE UNCHANGED varsFiches
  BY <1>0, <1>4 DEF varsFiches, rangees, InvFiches, LivreComplet, EnBase, Complet, NomsUniques, NomPris, Neufs,
     Resolus, Suivi, NomsLus
<1>5. NextFiches => ActionFiche \/ (\E e \in Editions : ActionLivre(e)) \/ \E l \in Livres : RetirerLivre(l)
  BY DEF NextFiches, ActionFiche, ActionLivre, Editions
<1> QED BY <1>1, <1>2, <1>3, <1>4, <1>5

LEMMA FichesToujours == SpecFiches => []InvFiches
BY InitInv, EtapeInv, PTL DEF SpecFiches

(* No book, masked or not, without its author and its category             *)
(* (livre_service.go:58-80, 109-135, 189-204).                             *)
THEOREM LivresComplets == SpecFiches => []LivreComplet
<1>1. InvFiches => LivreComplet  BY DEF InvFiches
<1> QED BY <1>1, FichesToujours, PTL

(* What the POST or the PUT of a book answers is true of the rows          *)
(* (livre_service.go:58-80).                                               *)
THEOREM ReponsesVraies == SpecFiches => []ReponsesFideles
<1>1. InvFiches => ReponsesFideles
  <2> SUFFICES ASSUME InvFiches, NEW e \in Editions
               PROVE  /\ e \in Livres /\ editions[e].reponse \in {"409", "500", "rejet"} => livres[e].etat = "absent"
                      /\ e \in Livres /\ editions[e].reponse = "201" => livres[e].etat # "absent"
                      /\ e \in Livres /\ editions[e].reponse = "404" => livres[e].etat \in {"masque", "efface"}
                      /\ editions[e].reponse = "500" => ~Complet(editions[e].ligne)
    BY DEF ReponsesFideles
  <2>1. e \in Livres => e \in Livres \ Presents  BY FichesDistinctes DEF Editions
  <2>2. editions[e].reponse = "500" => ~Complet(editions[e].ligne)
    BY DEF InvFiches, Resolus, Complet
  <2> QED BY <2>1, <2>2 DEF InvFiches, Suivi
<1> QED BY <1>1, FichesToujours, PTL

(* The name of a category is refused to a call that gives none only when   *)
(* another has renamed it since it was read (categorie_service.go:81-101). *)
THEOREM NomsRefuses == SpecFiches => ConflitSansNom
<1>1. ASSUME InvFiches, [NextFiches]_varsFiches, NEW m \in ModifsCategorie,
             modifications[m].phase = "lue", modifications'[m].reponse = "409", ~modifications[m].nomme
      PROVE  categories[modifications[m].cible].nom # modifications[m].lu
  <2>0. /\ modifications \in [Modifs -> Modification] /\ m \in Modifs /\ m \notin ModifsAuteur
        /\ modifications[m].reponse = "aucune" /\ modifications[m].cible \in Categories
        /\ modifications[m].nom = modifications[m].lu
    BY <1>1, FichesDistinctes DEF InvFiches, TypeFiches, NomsLus, Modifs
  <2>1. ~UNCHANGED modifications  BY <1>1, <2>0
  <2>2. ASSUME NEW d \in Modifs, NEW x, x # "409", Conclure(d, x)  PROVE FALSE
    BY <1>1, <2>0, <2>2 DEF Conclure, ModificationSans
  <2>3. ASSUME NEW d \in Modifs, NEW x, NEW nomme, NEW lu, NEW nom, Retenir(d, x, nomme, lu, nom)  PROVE FALSE
    BY <1>1, <2>0, <2>3 DEF Retenir
  <2>4. ASSUME NEW d \in Modifs, EcrireCategorie(d)
          PROVE d = m /\ NomRefuse(m) /\ categories[modifications[m].cible].etat = "present"
    <3>1. Conclure(d, "409") /\ NomRefuse(d) /\ categories[modifications[d].cible].etat = "present"
      BY <2>2, <2>4 DEF EcrireCategorie, Accuse
    <3>2. d = m  BY <1>1, <2>0, <3>1 DEF Conclure
    <3> QED BY <3>1, <3>2
  <2>5. ~\E e \in Editions : ActionLivre(e)  BY <2>1, LivreAutres, <1>1 DEF Ailleurs
  <2>6. ~\E l \in Livres : RetirerLivre(l)  BY <2>1 DEF RetirerLivre, Ailleurs
  <2>7. ActionFiche
    BY <1>1, <2>1, <2>5, <2>6 DEF NextFiches, ActionFiche, ActionLivre, Editions, varsFiches
  <2>8. \A d \in Modifs : ~(ModifierAuteur(d) \/ MettreAJourCategorie(d) \/ ModifierCategorie(d))
    BY <2>2, <2>3 DEF ModifierAuteur, MettreAJourCategorie, ModifierCategorie, Charger
  <2>9. \A d \in Modifs : ~(EcrireAuteur(d) \/ AnnulerModification(d))
    BY <2>2 DEF EcrireAuteur, AnnulerModification, Accuse
  <2>10. \E d \in ModifsCategorie : EcrireCategorie(d)
    BY <2>1, <2>7, <2>8, <2>9 DEF ActionFiche, Modifs, CreerAuteur, CreerCategorie, SupprimerAuteur, SupprimerCategorie
  <2>11. NomRefuse(m) /\ categories[modifications[m].cible].etat = "present"  BY <2>4, <2>10 DEF Modifs
  <2>12. ~NomPris(categories[modifications[m].cible].nom, modifications[m].cible)
    BY <1>1, <2>0, <2>11 DEF InvFiches, NomsUniques
  <2> QED BY <2>0, <2>11, <2>12 DEF NomRefuse
<1>2. InvFiches /\ [NextFiches]_varsFiches =>
        [\A m \in ModifsCategorie :
           modifications[m].phase = "lue" /\ modifications'[m].reponse = "409" /\ ~modifications[m].nomme
           => categories[modifications[m].cible].nom # modifications[m].lu]_varsFiches
  BY <1>1
<1> QED BY <1>2, FichesToujours, PTL DEF SpecFiches, ConflitSansNom

=============================================================================
