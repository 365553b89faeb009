------------------------------- MODULE Fiches -------------------------------
(***************************************************************************)
(* The rows of auteurs and of categories, and the references the rows of   *)
(* livres hold to them (foreign keys ON DELETE RESTRICT).  Every statement *)
(* is a transaction of its own: a PUT or a PATCH reads the row in one and  *)
(* writes all its columns back in another; a book is written after two     *)
(* statements that resolve its references, and read again by a fourth.     *)
(*                                                                         *)
(* A row that a POST inserts bears the name of the call, and has its       *)
(* content from the start.  Of a category only the name is kept, of an     *)
(* author only whether the row is there.  An answer "rejet" is that of a   *)
(* call refused before it writes: 400, 413, 422, or the 500 of an          *)
(* identifier PostgreSQL cannot read as a uuid (no PUT, PATCH or DELETE    *)
(* checks it).  An answer "echec" is the 500 of a call its deadline cuts.  *)
(***************************************************************************)
EXTENDS Integers, FiniteSets

CONSTANTS
  Auteurs, Categories, Livres,   \* rows, each there at the start or to be created
  Presents,                      \* the rows there are at the start
  ModifsAuteur,                  \* calls of PUT and PATCH /auteurs/{id}
  ModifsCategorie,               \* calls of PUT and PATCH /categories/{id}
  ModifsLivre,                   \* calls of PUT and PATCH /livres/{id}
  Effacements,                   \* calls of DELETE on an author or a category
  Noms,                          \* names of categories
  Isbns

ASSUME FichesDistinctes ==
  /\ Auteurs \cap Categories = {} /\ Auteurs \cap Livres = {} /\ Categories \cap Livres = {}
  /\ ModifsAuteur \cap ModifsCategorie = {} /\ ModifsLivre \cap Livres = {}
ASSUME FichesNonVides ==
  Auteurs # {} /\ Categories # {} /\ Livres # {} /\ Noms # {} /\ Isbns # {} /\ Noms \subseteq Nat

VARIABLES
  auteurs, categories,   \* the rows
  livres,                \* the rows: their references and their isbn
  creations,             \* the answers to the POST of authors and categories
  modifications,         \* the PUT and the PATCH of authors and categories
  effacements,           \* the answers to the DELETE
  editions               \* the POST, the PUT and the PATCH of books

rangees == <<auteurs, categories, livres>>
varsFiches == <<rangees, creations, modifications, effacements, editions>>

Creations == (Auteurs \cup Categories) \ Presents
Modifs == ModifsAuteur \cup ModifsCategorie
Editions == (Livres \ Presents) \cup ModifsLivre

Categorie == [etat : {"absent", "present", "efface"}, nom : Noms]
Ligne == [isbn : Isbns, auteur : Auteurs, categorie : Categories]
Livre == [etat : {"absent", "present", "masque", "efface"}, ligne : Ligne]

(* nom is what the call will write once it has read the row, lu what it    *)
(* has read, nomme whether the client has given a name.                    *)
Modification == [phase : {"recue", "lue", "terminee"}, cible : Auteurs \cup Categories \cup {"aucune"},
                 nomme : BOOLEAN, lu : Noms, nom : Noms,
                 reponse : {"aucune", "200", "404", "409", "rejet", "echec"}]
Edition == [phase : {"recue", "validee", "auteur", "resolue", "ecrite", "terminee"},
            livre : Livres, champs : SUBSET {"isbn", "auteur", "categorie"}, ligne : Ligne,
            reponse : {"aucune", "200", "201", "404", "409", "500", "rejet", "echec"}]

TypeFiches ==
  /\ auteurs \in [Auteurs -> {"absent", "present", "efface"}]
  /\ categories \in [Categories -> Categorie]
  /\ livres \in [Livres -> Livre]
  /\ creations \in [Creations -> {"aucune", "201", "409", "rejet", "echec"}]
  /\ modifications \in [Modifs -> Modification]
  /\ effacements \in [Effacements -> {"aucune", "204", "404", "409", "echec"}]
  /\ editions \in [Editions -> Edition]

EnBase(l) == livres[l].etat \in {"present", "masque"}
NomPris(n, sauf) == \E c \in Categories \ {sauf} : categories[c].etat = "present" /\ categories[c].nom = n
IsbnPris(i, sauf) == \E l \in Livres \ {sauf} : EnBase(l) /\ livres[l].ligne.isbn = i
EtatInitial(x) == IF x \in Presents THEN "present" ELSE "absent"

Sans == CHOOSE n \in Noms : TRUE
ModificationSans(phase, reponse) ==
  [phase |-> phase, cible |-> "aucune", nomme |-> FALSE, lu |-> Sans, nom |-> Sans, reponse |-> reponse]
EditionNeuve(l) ==
  [phase |-> "recue", livre |-> l, champs |-> {}, ligne |-> livres[l].ligne, reponse |-> "aucune"]

InitFiches ==
  /\ auteurs = [a \in Auteurs |-> EtatInitial(a)]
  /\ categories \in {f \in [Categories -> [etat : {"absent", "present"}, nom : Noms]] :
                        \A c \in Categories : f[c].etat = EtatInitial(c)}
  /\ \A c \in Categories \cap Presents : ~NomPris(categories[c].nom, c)
  /\ livres \in {f \in [Livres -> [etat : {"absent", "present"}, ligne : Ligne]] :
                    \A l \in Livres : f[l].etat = EtatInitial(l)}
  /\ \A l \in Livres \cap Presents :
       /\ ~IsbnPris(livres[l].ligne.isbn, l)
       /\ {livres[l].ligne.auteur, livres[l].ligne.categorie} \subseteq Presents
  /\ creations = [x \in Creations |-> "aucune"]
  /\ modifications = [m \in Modifs |-> ModificationSans("recue", "aucune")]
  /\ effacements = [e \in Effacements |-> "aucune"]
  /\ editions = [e \in Editions |-> EditionNeuve(CHOOSE l \in Livres : TRUE)]

(* What a client may be told of a statement that is committed.             *)
Accuse(reponse) == {reponse, "echec"}

-----------------------------------------------------------------------------
(* POST /auteurs, POST /categories                                         *)

Creer(x, reponse) == creations' = [creations EXCEPT ![x] = reponse]
Reference(x) == \E l \in Livres : EnBase(l) /\ x \in {livres[l].ligne.auteur, livres[l].ligne.categorie}

InsererAuteur(a) ==
  /\ auteurs' = [auteurs EXCEPT ![a] = "present"]
  /\ \E r \in Accuse("201") : Creer(a, r)

CreerAuteur(a) ==
  /\ creations[a] = "aucune"
  /\ \/ Creer(a, "rejet") /\ UNCHANGED auteurs
     \/ InsererAuteur(a)
  /\ UNCHANGED <<categories, livres, modifications, effacements, editions>>

InsererCategorie(c) ==
  \/ NomPris(categories[c].nom, c) /\ Creer(c, "409") /\ UNCHANGED categories
  \/ /\ ~NomPris(categories[c].nom, c)
     /\ categories' = [categories EXCEPT ![c].etat = "present"]
     /\ \E r \in Accuse("201") : Creer(c, r)

CreerCategorie(c) ==
  /\ creations[c] = "aucune"
  /\ \/ Creer(c, "rejet") /\ UNCHANGED categories
     \/ InsererCategorie(c)
  /\ UNCHANGED <<auteurs, livres, modifications, effacements, editions>>

-----------------------------------------------------------------------------
(* PUT and PATCH of authors and of categories                              *)

Conclure(m, reponse) ==
  modifications' = [modifications EXCEPT ![m] = ModificationSans("terminee", reponse)]
AilleursModifs == UNCHANGED <<livres, creations, effacements, editions>>

(* ParUUID and the validation of the body: the call stops or has the row.  *)
Charger(m, present) ==
  /\ modifications[m].phase = "recue"
  /\ \/ Conclure(m, "rejet")
     \/ ~present /\ Conclure(m, "404")

Retenir(m, x, nomme, lu, nom) ==
  /\ modifications[m].phase = "recue"
  /\ modifications' = [modifications EXCEPT ![m] =
       [phase |-> "lue", cible |-> x, nomme |-> nomme, lu |-> lu, nom |-> nom, reponse |-> "aucune"]]

(* PUT and PATCH of an author: the columns written are not told apart.     *)
ModifierAuteur(m) ==
  /\ \E a \in Auteurs :
       \/ Charger(m, auteurs[a] = "present")
       \/ auteurs[a] = "present" /\ Retenir(m, a, TRUE, modifications[m].lu, modifications[m].nom)
  /\ UNCHANGED <<auteurs, categories>> /\ AilleursModifs

MettreAJourCategorie(m) ==
  /\ \E c \in Categories :
       \/ Charger(m, categories[c].etat = "present")
       \/ /\ categories[c].etat = "present"
          /\ \E nom \in Noms : Retenir(m, c, TRUE, categories[c].nom, nom)
  /\ UNCHANGED <<auteurs, categories>> /\ AilleursModifs

(* A PATCH without a name (with one it is a PUT): the name read is kept.   *)
ModifierCategorie(m) ==
  /\ \E c \in Categories :
       /\ categories[c].etat = "present"
       /\ Retenir(m, c, FALSE, categories[c].nom, categories[c].nom)
  /\ UNCHANGED <<auteurs, categories>> /\ AilleursModifs

EcrireAuteur(m) ==
  /\ modifications[m].phase = "lue"
  /\ \/ auteurs[modifications[m].cible] # "present" /\ Conclure(m, "404")
     \/ auteurs[modifications[m].cible] = "present" /\ \E r \in Accuse("200") : Conclure(m, r)
  /\ UNCHANGED <<auteurs, categories>> /\ AilleursModifs

(* Mutant: the row's own name counts as taken. *)
NomPrisPartout(m) == \E c \in Categories : categories[c].etat = "present" /\ categories[c].nom = modifications[m].nom

(* uq_categories_nom refuses the name of another row.                      *)
NomRefuse(m) == NomPris(modifications[m].nom, modifications[m].cible)

EcrireCategorie(m) ==
  LET c == modifications[m].cible IN
  /\ modifications[m].phase = "lue"
  /\ \/ categories[c].etat # "present" /\ Conclure(m, "404") /\ UNCHANGED categories
     \/ categories[c].etat = "present" /\ NomRefuse(m) /\ Conclure(m, "409") /\ UNCHANGED categories
     \/ /\ categories[c].etat = "present" /\ ~NomRefuse(m)
        /\ categories' = [categories EXCEPT ![c].nom = modifications[m].nom]
        /\ \E r \in Accuse("200") : Conclure(m, r)
  /\ UNCHANGED auteurs /\ AilleursModifs

AnnulerModification(m) ==
  /\ modifications[m].phase = "lue"
  /\ Conclure(m, "echec")
  /\ UNCHANGED <<rangees, creations, effacements, editions>>

-----------------------------------------------------------------------------
(* DELETE /auteurs/{id}, DELETE /categories/{id}                           *)

Effacer(e, reponse) == effacements' = [effacements EXCEPT ![e] = reponse]

SupprimerAuteur(e) ==
  /\ effacements[e] = "aucune"
  /\ \E a \in Auteurs :
       \/ auteurs[a] # "present" /\ Effacer(e, "404") /\ UNCHANGED auteurs
       \/ auteurs[a] = "present" /\ Reference(a) /\ Effacer(e, "409") /\ UNCHANGED auteurs
       \/ /\ auteurs[a] = "present" /\ ~Reference(a)
          /\ auteurs' = [auteurs EXCEPT ![a] = "efface"]
          /\ \E r \in Accuse("204") : Effacer(e, r)
  /\ UNCHANGED <<categories, livres, creations, modifications, editions>>

SupprimerCategorie(e) ==
  /\ effacements[e] = "aucune"
  /\ \E c \in Categories :
       \/ categories[c].etat # "present" /\ Effacer(e, "404") /\ UNCHANGED categories
       \/ categories[c].etat = "present" /\ Reference(c) /\ Effacer(e, "409") /\ UNCHANGED categories
       \/ /\ categories[c].etat = "present" /\ ~Reference(c)
          /\ categories' = [categories EXCEPT ![c].etat = "efface"]
          /\ \E r \in Accuse("204") : Effacer(e, r)
  /\ UNCHANGED <<auteurs, livres, creations, modifications, editions>>

-----------------------------------------------------------------------------
(* POST /livres, PUT and PATCH /livres/{id}                                *)

ChampsLivre == {"isbn", "auteur", "categorie"}
Repondre(e, reponse) == editions' = [editions EXCEPT ![e].phase = "terminee", ![e].reponse = reponse]
Passer(e, phase) == editions' = [editions EXCEPT ![e].phase = phase]
Ailleurs == UNCHANGED <<auteurs, categories, creations, modifications, effacements>>

CreerLivre(e) ==
  /\ editions[e].phase = "recue"
  /\ \/ Repondre(e, "rejet")
     \/ editions' = [editions EXCEPT ![e] = [phase |-> "validee", livre |-> e, champs |-> ChampsLivre,
                                             ligne |-> livres[e].ligne, reponse |-> "aucune"]]
  /\ UNCHANGED livres /\ Ailleurs

(* Mutant: what the body leaves out is written as a zero value. *)
CouvrirZero(champ, champs, donnee, lue) == IF champ \in champs THEN donnee ELSE ""

(* A field of the body, or the one that was read.                          *)
Couvrir(champ, champs, donnee, lue) == IF champ \in champs THEN donnee ELSE lue

(* ParUUIDInterne, then the body laid over the row.                        *)
RecouvrirLivre(e, champs) ==
  /\ editions[e].phase = "recue"
  /\ \E l \in Livres :
       \/ Repondre(e, "rejet")
       \/ livres[l].etat # "present" /\ Repondre(e, "404")
       \/ /\ livres[l].etat = "present"
          /\ \E i \in Isbns, a \in Auteurs, c \in Categories :
               editions' = [editions EXCEPT ![e] =
                 [phase |-> "validee", livre |-> l, champs |-> champs, reponse |-> "aucune",
                  ligne |-> [isbn |-> Couvrir("isbn", champs, i, livres[l].ligne.isbn),
                             auteur |-> Couvrir("auteur", champs, a, livres[l].ligne.auteur),
                             categorie |-> Couvrir("categorie", champs, c, livres[l].ligne.categorie)]]]
  /\ UNCHANGED livres /\ Ailleurs

MettreAJourLivre(e) == RecouvrirLivre(e, ChampsLivre)
ModifierLivre(e) == \E champs \in SUBSET ChampsLivre : RecouvrirLivre(e, champs)

ResoudreAuteur(e) ==
  LET E == editions[e] IN
  /\ E.phase = "validee"
  /\ IF "auteur" \in E.champs /\ auteurs[E.ligne.auteur] # "present"
     THEN Repondre(e, "rejet") ELSE Passer(e, "auteur")
  /\ UNCHANGED livres /\ Ailleurs

ResoudreCategorie(e) ==
  LET E == editions[e] IN
  /\ E.phase = "auteur"
  /\ IF "categorie" \in E.champs /\ categories[E.ligne.categorie].etat # "present"
     THEN Repondre(e, "rejet") ELSE Passer(e, "resolue")
  /\ UNCHANGED livres /\ Ailleurs

(* Mutant: no foreign key to auteurs. *)
CategoriePresente(ligne) == categories[ligne.categorie].etat = "present"

(* fk_livres_auteur, fk_livres_categorie.                                  *)
ReferencesPresentes(ligne) ==
  auteurs[ligne.auteur] = "present" /\ categories[ligne.categorie].etat = "present"

(* Mutant: the duplicate is not told from another error. *)
EnregistrerSansTraduction(e, l) ==
  LET ligne == editions[e].ligne IN
  \/ /\ IsbnPris(ligne.isbn, l) \/ ~ReferencesPresentes(ligne)
     /\ Repondre(e, "500") /\ UNCHANGED livres
  \/ /\ ~IsbnPris(ligne.isbn, l) /\ ReferencesPresentes(ligne)
     /\ livres' = [livres EXCEPT ![l] = [etat |-> "present", ligne |-> ligne]]
     /\ Passer(e, "ecrite")

(* The statement fails on the isbn (409) before it fails on a key (500).   *)
Enregistrer(e, l) ==
  LET ligne == editions[e].ligne IN
  \/ IsbnPris(ligne.isbn, l) /\ Repondre(e, "409") /\ UNCHANGED livres
  \/ /\ ~IsbnPris(ligne.isbn, l) /\ ~ReferencesPresentes(ligne)
     /\ Repondre(e, "500") /\ UNCHANGED livres
  \/ /\ ~IsbnPris(ligne.isbn, l) /\ ReferencesPresentes(ligne)
     /\ livres' = [livres EXCEPT ![l] = [etat |-> "present", ligne |-> ligne]]
     /\ Passer(e, "ecrite")

InsererLivre(e) ==
  /\ editions[e].phase = "resolue"
  /\ Enregistrer(e, e)
  /\ Ailleurs

EcrireLivre(e) ==
  LET l == editions[e].livre IN
  /\ editions[e].phase = "resolue"
  /\ IF livres[l].etat # "present" THEN Repondre(e, "404") /\ UNCHANGED livres ELSE Enregistrer(e, l)
  /\ Ailleurs

(* vue_livres_details shows the books that are not masked.                 *)
RelireLivre(e) ==
  /\ editions[e].phase = "ecrite"
  /\ IF livres[editions[e].livre].etat = "present"
     THEN Repondre(e, IF e \in Livres THEN "201" ELSE "200")
     ELSE Repondre(e, "404")
  /\ UNCHANGED livres /\ Ailleurs

AnnulerEdition(e) ==
  /\ editions[e].phase \notin {"recue", "terminee"}
  /\ Repondre(e, "echec")
  /\ UNCHANGED livres /\ Ailleurs

(* DELETE /livres/{id}, logical or physical: module Suppressions has the   *)
(* loans that may hold it back.                                            *)
RetirerLivre(l) ==
  /\ \/ livres[l].etat = "present" /\ livres' = [livres EXCEPT ![l].etat = "masque"]
     \/ EnBase(l) /\ livres' = [livres EXCEPT ![l].etat = "efface"]
  /\ UNCHANGED editions /\ Ailleurs

-----------------------------------------------------------------------------
NextFiches ==
  \/ \E a \in Creations \cap Auteurs : CreerAuteur(a)
  \/ \E c \in Creations \cap Categories : CreerCategorie(c)
  \/ \E m \in ModifsAuteur : ModifierAuteur(m) \/ EcrireAuteur(m)
  \/ \E m \in ModifsCategorie : MettreAJourCategorie(m) \/ ModifierCategorie(m) \/ EcrireCategorie(m)
  \/ \E m \in Modifs : AnnulerModification(m)
  \/ \E e \in Effacements : SupprimerAuteur(e) \/ SupprimerCategorie(e)
  \/ \E e \in Livres \ Presents : CreerLivre(e) \/ InsererLivre(e)
  \/ \E e \in ModifsLivre : MettreAJourLivre(e) \/ ModifierLivre(e) \/ EcrireLivre(e)
  \/ \E e \in Editions : ResoudreAuteur(e) \/ ResoudreCategorie(e) \/ RelireLivre(e) \/ AnnulerEdition(e)
  \/ \E l \in Livres : RetirerLivre(l)

SpecFiches == InitFiches /\ [][NextFiches]_varsFiches

-----------------------------------------------------------------------------
(* No book, masked or not, without its author and its category, although   *)
(* they are resolved in earlier statements than the one that writes it     *)
(* (livre_service.go:58-80, 109-135, 189-204).                             *)
Complet(ligne) == auteurs[ligne.auteur] = "present" /\ categories[ligne.categorie].etat = "present"
LivreComplet == \A l \in Livres : EnBase(l) => Complet(livres[l].ligne)

NomsUniques == \A c \in Categories : categories[c].etat = "present" => ~NomPris(categories[c].nom, c)

(* What the client of a POST or a PUT of a book is told is true of the     *)
(* rows: a refused book is not there, an accepted one has been, a 404 to a *)
(* POST means that it was written and withdrawn since, and a 500 that an   *)
(* author or a category has gone after it was resolved.                    *)
ReponsesFideles ==
  \A e \in Editions :
    /\ e \in Livres /\ editions[e].reponse \in {"409", "500", "rejet"} => livres[e].etat = "absent"
    /\ e \in Livres /\ editions[e].reponse = "201" => livres[e].etat # "absent"
    /\ e \in Livres /\ editions[e].reponse = "404" => livres[e].etat \in {"masque", "efface"}
    /\ editions[e].reponse = "500" => ~Complet(editions[e].ligne)

(* "Une categorie porte deja ce nom" (categorie_repository.go:103), to a   *)
(* PATCH that gives no name: only when another call has renamed the        *)
(* category after it was read, so that the UPDATE brings an old name back. *)
ConflitSansNom ==
  [][\A m \in ModifsCategorie :
       modifications[m].phase = "lue" /\ modifications'[m].reponse = "409" /\ ~modifications[m].nomme
       => categories[modifications[m].cible].nom # modifications[m].lu]_varsFiches

=============================================================================
