------------------------------ MODULE Saisies ------------------------------
(***************************************************************************)
(* What a client sends, met twice: by the rules of the services and by     *)
(* those of the tables.  A call goes through the first (422, 400), then    *)
(* the hashing of a password, then the statement, whose refusal is a 500.  *)
(* The body is decoded, the references of a book are resolved, no deadline *)
(* passes: the other modules have these.                                   *)
(***************************************************************************)
EXTENDS Integers, Sequences

CONSTANTS Utilisateurs, Livres, Auteurs, Categories, Emprunts, Chemins   \* the inputs of each route

(* longueur and rogne count characters, before and after TrimSpace; nul is *)
(* the character U+0000, which JSON may carry and a text of PostgreSQL may *)
(* not.                                                                    *)
Texte == {t \in [longueur : Nat, rogne : Nat, nul : BOOLEAN] :
            t.rogne <= t.longueur /\ (t.nul => t.rogne > 0)}

(* In UTF-8 a character takes one to four bytes.                           *)
Secret == {m \in [caracteres : Nat, octets : Nat, blanc : BOOLEAN] :
             m.caracteres <= m.octets /\ m.octets <= 4 * m.caracteres}

(* adresse: net/mail reads it and finds nothing else; pointe: it has the   *)
(* form that the SQL domain courriel asks for, whose host has a dot.       *)
Adresse == [adresse : BOOLEAN, pointe : BOOLEAN, octets : Nat]

(* "canonique" is what EstUUIDValide takes, "toleree" another form that    *)
(* PostgreSQL reads as a uuid.                                             *)
Identifiants == {"canonique", "toleree", "illisible"}

Isbn13 == [1..13 -> 0..9]

(* The ISBN printed on a book typed with a digit mistaken for another,     *)
(* with two neighbours exchanged, or without its key.                      *)
Fautes(s) == {[s EXCEPT ![i] = d] : i \in 1..13, d \in 0..9}
Echanges(s) == {[s EXCEPT ![i] = s[i + 1], ![i + 1] = s[i]] : i \in 1..12}
Frappes(s) == Fautes(s) \cup Echanges(s) \cup {SubSeq(s, 1, 12)}

(* resume and biographie tell whether the text bears a U+0000, auteur is   *)
(* the worse of the two references of a book, the price is in thousandths, *)
(* reelle tells whether the date of birth is one of the calendar.          *)
Utilisateur == [email : Adresse, mot_de_passe : Secret, nom : Texte, prenom : Texte, role : {"connu", "inconnu"}]
Livre == {l \in [titre : Texte, imprime : Isbn13, isbn : Seq(0..9), auteur : Identifiants, annee : Int,
                 nombre : Int, prix : Int, langue : Texte, resume : BOOLEAN] : l.isbn \in Frappes(l.imprime)}
Auteur == [nom : Texte, prenom : Texte, nationalite : Texte, reelle : BOOLEAN, annee : 0..9999,
           biographie : BOOLEAN]
Categorie == [nom : Texte, description : Texte]
Emprunt == [livre : Identifiants, utilisateur : Identifiants, duree : Int]
Chemin == [id : Identifiants]

ASSUME SaisiesAssumption ==
  /\ Utilisateurs \subseteq Utilisateur /\ Livres \subseteq Livre /\ Auteurs \subseteq Auteur
  /\ Categories \subseteq Categorie /\ Emprunts \subseteq Emprunt /\ Chemins \subseteq Chemin

VARIABLES route, saisie, phase, reponse

vars == <<route, saisie, phase, reponse>>

-----------------------------------------------------------------------------
(* The rules of the services                                               *)

ChampRequis(t) == t.rogne > 0
LongueurMax(t, max) == t.longueur <= max
EntierDans(n, min, max) == min <= n /\ n <= max

EstUUIDValide(id) == id = "canonique"

EstEmailValide(e) == e.adresse /\ e.octets <= 254

(* Mutant: the weights are 1 and 2. *)
SommeDeLuhn(s) ==
  (s[1] + s[3] + s[5] + s[7] + s[9] + s[11]) + 2 * (s[2] + s[4] + s[6] + s[8] + s[10] + s[12])

Somme(s) == (s[1] + s[3] + s[5] + s[7] + s[9] + s[11]) + 3 * (s[2] + s[4] + s[6] + s[8] + s[10] + s[12])

EstISBN13Valide(s) == s \in Isbn13 /\ (10 - (Somme(s) % 10)) % 10 = s[13]

UtilisateurAdmis(u) ==
  /\ EstEmailValide(u.email)
  /\ ~u.mot_de_passe.blanc /\ EntierDans(u.mot_de_passe.caracteres, 8, 72)
  /\ \A champ \in {"nom", "prenom"} : ChampRequis(u[champ]) /\ LongueurMax(u[champ], 100)
  /\ u.role # "inconnu"

(* Mutant: the year is not bounded below. *)
LivreAdmisSansMin(l) ==
  /\ ChampRequis(l.titre) /\ LongueurMax(l.titre, 255)
  /\ EstISBN13Valide(l.isbn) /\ EstUUIDValide(l.auteur)
  /\ l.annee <= 2200 /\ EntierDans(l.nombre, 1, 100000)
  /\ l.prix >= 0 /\ LongueurMax(l.langue, 50)

LivreAdmis(l) ==
  /\ ChampRequis(l.titre) /\ LongueurMax(l.titre, 255)
  /\ EstISBN13Valide(l.isbn) /\ EstUUIDValide(l.auteur)
  /\ EntierDans(l.annee, 1400, 2200) /\ EntierDans(l.nombre, 1, 100000)
  /\ l.prix >= 0 /\ LongueurMax(l.langue, 50)

AuteurAdmis(a) ==
  /\ ChampRequis(a.nom)
  /\ \A champ \in {"nom", "prenom", "nationalite"} : LongueurMax(a[champ], 100)
  /\ a.reelle

CategorieAdmise(c) == ChampRequis(c.nom) /\ LongueurMax(c.nom, 100) /\ LongueurMax(c.description, 500)

EmpruntAdmis(e) == EstUUIDValide(e.livre) /\ (e.duree # 0 => EntierDans(e.duree, 1, 90))

-----------------------------------------------------------------------------
(* The rules of the tables                                                 *)

Varchar(t, max) == t.rogne <= max /\ ~t.nul
Uuid(id) == id # "illisible"

(* numeric(8, 2): rounded to the cent, it must be below a million.         *)
Numeric(prix) == (prix + 5) \div 10 < 10^8

LigneUtilisateur(u) == u.email.pointe /\ Varchar(u.nom, 100) /\ Varchar(u.prenom, 100) /\ u.role # "inconnu"

LigneLivre(l) ==
  /\ Varchar(l.titre, 255) /\ Varchar(l.langue, 50) /\ ~l.resume
  /\ l.isbn \in Isbn13
  /\ EntierDans(l.annee, 1400, 2200) /\ l.nombre >= 0
  /\ l.prix >= 0 /\ Numeric(l.prix)

(* There is no year 0.                                                     *)
LigneAuteur(a) ==
  /\ \A champ \in {"nom", "prenom", "nationalite"} : Varchar(a[champ], 100)
  /\ ~a.biographie
  /\ a.reelle /\ a.annee > 0

LigneCategorie(c) == Varchar(c.nom, 100) /\ Varchar(c.description, 500)

-----------------------------------------------------------------------------
(* The calls                                                               *)

Saisie ==
  \/ route = "utilisateur" /\ saisie \in Utilisateurs
  \/ route = "livre" /\ saisie \in Livres
  \/ route = "auteur" /\ saisie \in Auteurs
  \/ route = "categorie" /\ saisie \in Categories
  \/ route = "emprunt" /\ saisie \in Emprunts
  \/ route \in {"obtenir", "modifier"} /\ saisie \in Chemins

Init == Saisie /\ phase = "recue" /\ reponse = "aucune"

Conclure(r) == phase' = "terminee" /\ reponse' = r /\ UNCHANGED <<route, saisie>>
Poursuivre(etape) == phase' = etape /\ UNCHANGED <<route, saisie, reponse>>

Entrer(r) == route = r /\ phase = "recue"
Valider(admise) == IF admise THEN Poursuivre("validee") ELSE Conclure("422")

(* POST /auth/inscription, POST /utilisateurs *)
CreerUtilisateur == Entrer("utilisateur") /\ Valider(UtilisateurAdmis(saisie))
CreerLivre == Entrer("livre") /\ Valider(LivreAdmis(saisie))
CreerAuteur == Entrer("auteur") /\ Valider(AuteurAdmis(saisie))
CreerCategorie == Entrer("categorie") /\ Valider(CategorieAdmise(saisie))
Emprunter == Entrer("emprunt") /\ Valider(EmpruntAdmis(saisie))

(* GET .../{id}, POST /emprunts/{id}/retour *)
Obtenir ==
  /\ Entrer("obtenir")
  /\ IF EstUUIDValide(saisie.id) THEN Poursuivre("validee") ELSE Conclure("400")

(* PUT, PATCH and DELETE .../{id}: the row is looked for at once; a body   *)
(* then meets the rules above, which is left out here.                     *)
Modifier == Entrer("modifier") /\ Poursuivre("validee")

(* bcrypt refuses more than 72 bytes. *)
HacherMotDePasse ==
  /\ route = "utilisateur" /\ phase = "validee"
  /\ IF saisie.mot_de_passe.octets <= 72 THEN Poursuivre("hachee") ELSE Conclure("500")

(* What the statement answers: a 404 and a 409 are about the rows, and 200 *)
(* stands for every success on a row that exists.                          *)
Executer(r, etape, acceptee, reponses) ==
  /\ route = r /\ phase = etape
  /\ IF acceptee THEN \E x \in reponses : Conclure(x) ELSE Conclure("500")

InsererUtilisateur == Executer("utilisateur", "hachee", LigneUtilisateur(saisie), {"201", "409"})
InsererLivre == Executer("livre", "validee", LigneLivre(saisie), {"201", "409"})
InsererAuteur == Executer("auteur", "validee", LigneAuteur(saisie), {"201"})
InsererCategorie == Executer("categorie", "validee", LigneCategorie(saisie), {"201", "409"})
AppelerProcedure ==
  Executer("emprunt", "validee", Uuid(saisie.utilisateur) /\ Uuid(saisie.livre), {"201", "404", "409"})
ParUUID ==
  \/ Executer("obtenir", "validee", Uuid(saisie.id), {"200", "404", "409"})
  \/ Executer("modifier", "validee", Uuid(saisie.id), {"200", "404", "409"})

Next ==
  \/ CreerUtilisateur \/ CreerLivre \/ CreerAuteur \/ CreerCategorie \/ Emprunter \/ Obtenir \/ Modifier
  \/ HacherMotDePasse
  \/ InsererUtilisateur \/ InsererLivre \/ InsererAuteur \/ InsererCategorie \/ AppelerProcedure \/ ParUUID

Spec == Init /\ [][Next]_vars

-----------------------------------------------------------------------------
(* A call is answered once, when it ends.                                  *)
TypeSaisies ==
  /\ Saisie
  /\ phase \in {"recue", "validee", "hachee", "terminee"}
  /\ reponse \in {"aucune", "200", "201", "400", "404", "409", "422", "500"}
  /\ phase = "terminee" <=> reponse # "aucune"

(* What the services let through and the tables, or bcrypt, refuse.        *)
Imprevue ==
  \/ /\ route = "utilisateur"
     /\ saisie.mot_de_passe.octets > 72 \/ ~saisie.email.pointe \/ saisie.nom.nul \/ saisie.prenom.nul
  \/ /\ route = "livre"
     /\ saisie.prix >= 999999995 \/ saisie.titre.nul \/ saisie.langue.nul \/ saisie.resume
  \/ /\ route = "auteur"
     /\ saisie.annee = 0 \/ saisie.biographie
        \/ saisie.nom.nul \/ saisie.prenom.nul \/ saisie.nationalite.nul
  \/ route = "categorie" /\ (saisie.nom.nul \/ saisie.description.nul)
  \/ route = "emprunt" /\ saisie.utilisateur = "illisible"
  \/ route = "modifier" /\ saisie.id = "illisible"

(* The services repeat the constraints of the tables (03_tables.sql:32-124,*)
(* livre_service.go:43-53): they agree but for a U+0000, a password of     *)
(* more bytes than characters, a domain without a dot, a price that the    *)
(* column cannot hold, the year 0 and an identifier that is not checked.   *)
(* Nothing else that is let through is a 500, and all of these are.        *)
EcartsConnus ==
  phase = "terminee" /\ reponse \notin {"400", "422"} => (reponse = "500" <=> Imprevue)

(* A book that has been created does not bear the ISBN of its cover with   *)
(* one digit wrong, nor with two neighbours exchanged unless they differ   *)
(* by 5: the key gives the mistake away (validation.go:83-107).            *)
FauteDetectee ==
  route = "livre" /\ reponse = "201" /\ EstISBN13Valide(saisie.imprime) =>
    \/ saisie.isbn = saisie.imprime
    \/ \E i \in 1..12 :
         /\ saisie.isbn = [saisie.imprime EXCEPT ![i] = saisie.imprime[i + 1], ![i + 1] = saisie.imprime[i]]
         /\ saisie.imprime[i] - saisie.imprime[i + 1] \in {-5, 5}

=============================================================================
