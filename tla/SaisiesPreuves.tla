--------------------------- MODULE SaisiesPreuves ---------------------------
(***************************************************************************)
(* For every set of inputs: a call is answered once, the mistakes that the *)
(* key of an ISBN gives away never reach the table, and the rules of the   *)
(* services and of the tables disagree on the six known points only.       *)
(***************************************************************************)
EXTENDS Saisies, SequenceTheorems, TLAPS

(* A call that has gone past the rules of its service met them.            *)
Passees == phase \in {"validee", "hachee"} \/ (phase = "terminee" /\ reponse \notin {"400", "422"})

Admise ==
  /\ route = "utilisateur" => UtilisateurAdmis(saisie)
  /\ route = "livre" => LivreAdmis(saisie)
  /\ route = "auteur" => AuteurAdmis(saisie)
  /\ route = "categorie" => CategorieAdmise(saisie)
  /\ route = "emprunt" => EmpruntAdmis(saisie)
  /\ route = "obtenir" => EstUUIDValide(saisie.id)

(* A call that has gone past bcrypt has a password that it takes.          *)
Hachee == route = "utilisateur" /\ saisie.mot_de_passe.octets <= 72

(* What the statement, or bcrypt, makes of the input.                      *)
Acceptee ==
  /\ route = "utilisateur" => saisie.mot_de_passe.octets <= 72 /\ LigneUtilisateur(saisie)
  /\ route = "livre" => LigneLivre(saisie)
  /\ route = "auteur" => LigneAuteur(saisie)
  /\ route = "categorie" => LigneCategorie(saisie)
  /\ route = "emprunt" => Uuid(saisie.utilisateur) /\ Uuid(saisie.livre)
  /\ route \in {"obtenir", "modifier"} => Uuid(saisie.id)

InvSaisies ==
  /\ TypeSaisies
  /\ Passees => Admise
  /\ phase = "hachee" => Hachee
  /\ phase = "terminee" /\ reponse \notin {"400", "422"} => (reponse = "500" <=> ~Acceptee)

-----------------------------------------------------------------------------
(* Initially nothing has been judged.                                      *)
LEMMA Depart == Init => InvSaisies
  BY DEF Init, InvSaisies, TypeSaisies, Passees

(* Every step keeps the invariant: the input never changes, and an answer  *)
(* is given where the call ends.                                           *)
LEMMA Pas == InvSaisies /\ [Next]_vars => InvSaisies'
<1> SUFFICES ASSUME InvSaisies, [Next]_vars
             PROVE  InvSaisies'
  OBVIOUS
<1> USE DEF InvSaisies, TypeSaisies, Passees, Admise, Hachee, Acceptee, Saisie
<1> USE DEF Entrer, Valider, Conclure, Poursuivre, Executer
<1>1. CASE CreerUtilisateur
  BY <1>1 DEF CreerUtilisateur
<1>2. CASE CreerLivre
  BY <1>2 DEF CreerLivre
<1>3. CASE CreerAuteur
  BY <1>3 DEF CreerAuteur
<1>4. CASE CreerCategorie
  BY <1>4 DEF CreerCategorie
<1>5. CASE Emprunter
  BY <1>5 DEF Emprunter
<1>6. CASE Obtenir
  BY <1>6 DEF Obtenir
<1>7. CASE Modifier
  BY <1>7 DEF Modifier
<1>8. CASE HacherMotDePasse
  BY <1>8 DEF HacherMotDePasse
<1>9. CASE InsererUtilisateur
  BY <1>9 DEF InsererUtilisateur
<1>10. CASE InsererLivre
  BY <1>10 DEF InsererLivre
<1>11. CASE InsererAuteur
  BY <1>11 DEF InsererAuteur
<1>12. CASE InsererCategorie
  BY <1>12 DEF InsererCategorie
<1>13. CASE AppelerProcedure
  BY <1>13 DEF AppelerProcedure
<1>14. CASE ParUUID
  BY <1>14 DEF ParUUID
<1>15. CASE UNCHANGED vars
  BY <1>15 DEF vars
<1>16. QED
  BY <1>1, <1>2, <1>3, <1>4, <1>5, <1>6, <1>7, <1>8, <1>9, <1>10, <1>11, <1>12, <1>13, <1>14, <1>15 DEF Next

(* The invariant holds throughout.                                         *)
LEMMA InvariantSaisies == Spec => []InvSaisies
<1>1. Init => InvSaisies
  BY Depart
<1>2. InvSaisies /\ [Next]_vars => InvSaisies'
  BY Pas
<1>3. QED
  BY <1>1, <1>2, PTL DEF Spec

(* A call is answered once, when it ends (the handlers' return after each  *)
(* error).                                                                 *)
THEOREM SaisiesBienTypees == Spec => []TypeSaisies
<1>1. InvSaisies => TypeSaisies
  BY DEF InvSaisies
<1>2. QED
  BY <1>1, InvariantSaisies, PTL

-----------------------------------------------------------------------------
(* The key                                                                 *)

(* The key is the digit that makes the weighted sum a multiple of ten.     *)
LEMMA CleComplete ==
  ASSUME NEW n \in Nat, NEW c \in 0..9, (10 - (n % 10)) % 10 = c
  PROVE  \E q \in Int : n + c = 10 * q
<1>1. n % 10 \in 0..9 /\ n = 10 * (n \div 10) + (n % 10)
  OBVIOUS
<1>2. (n % 10 = 0 /\ c = 0) \/ (n % 10 # 0 /\ c = 10 - (n % 10))
  BY <1>1
<1>3. n + c = 10 * (n \div 10) \/ n + c = 10 * ((n \div 10) + 1)
  BY <1>1, <1>2
<1>4. QED
  BY <1>3

LEMMA SommeMultiple ==
  ASSUME NEW s \in Isbn13, EstISBN13Valide(s)
  PROVE  /\ Somme(s) + s[13] \in Int
         /\ \E q \in Int : Somme(s) + s[13] = 10 * q
<1>1. /\ s[1] \in Nat /\ s[2] \in Nat /\ s[3] \in Nat /\ s[4] \in Nat /\ s[5] \in Nat /\ s[6] \in Nat
      /\ s[7] \in Nat /\ s[8] \in Nat /\ s[9] \in Nat /\ s[10] \in Nat /\ s[11] \in Nat /\ s[12] \in Nat
  BY DEF Isbn13
<1>2. Somme(s) \in Nat
  BY <1>1 DEF Somme
<1>3. (10 - (Somme(s) % 10)) % 10 = s[13] /\ s[13] \in 0..9
  BY DEF EstISBN13Valide, Isbn13
<1>4. Somme(s) + s[13] \in Int
  BY <1>2, <1>3
<1>5. \E q \in Int : Somme(s) + s[13] = 10 * q
  BY <1>2, <1>3, CleComplete
<1>6. QED
  BY <1>4, <1>5

(* Two multiples of ten are apart by a multiple of ten.                    *)
LEMMA Dizaines ==
  ASSUME NEW a \in Int, NEW b \in Int,
         \E q \in Int : a = 10 * q, \E q \in Int : b = 10 * q
  PROVE  \E q \in Int : b - a = 10 * q
<1>1. PICK p \in Int : a = 10 * p
  OBVIOUS
<1>2. PICK r \in Int : b = 10 * r
  OBVIOUS
<1>3. b - a = 10 * (r - p) /\ r - p \in Int
  BY <1>1, <1>2
<1>4. QED
  BY <1>3

(* One digit changed changes the sum by once or three times what it is     *)
(* changed by: two valid numbers never differ by one digit.                *)
LEMMA UnChiffre ==
  ASSUME NEW s \in Isbn13, NEW i \in 1..13, NEW d \in 0..9,
         EstISBN13Valide(s), EstISBN13Valide([s EXCEPT ![i] = d])
  PROVE  s[i] = d
<1> DEFINE t == [s EXCEPT ![i] = d]
           ecart == (Somme(t) + t[13]) - (Somme(s) + s[13])
<1>1. t \in Isbn13 /\ t[i] = d /\ \A j \in 1..13 : j # i => t[j] = s[j]
  BY DEF Isbn13
<1>2. \A j \in 1..13 : s[j] \in Int /\ t[j] \in Int
  BY <1>1 DEF Isbn13
<1>3. EstISBN13Valide(t)
  OBVIOUS
<1> HIDE DEF t
<1>4. ecart = d - s[i] \/ ecart = 3 * (d - s[i])
  <2>1. CASE i = 1
    BY <2>1, <1>1, <1>2 DEF Somme
  <2>2. CASE i = 2
    BY <2>2, <1>1, <1>2 DEF Somme
  <2>3. CASE i = 3
    BY <2>3, <1>1, <1>2 DEF Somme
  <2>4. CASE i = 4
    BY <2>4, <1>1, <1>2 DEF Somme
  <2>5. CASE i = 5
    BY <2>5, <1>1, <1>2 DEF Somme
  <2>6. CASE i = 6
    BY <2>6, <1>1, <1>2 DEF Somme
  <2>7. CASE i = 7
    BY <2>7, <1>1, <1>2 DEF Somme
  <2>8. CASE i = 8
    BY <2>8, <1>1, <1>2 DEF Somme
  <2>9. CASE i = 9
    BY <2>9, <1>1, <1>2 DEF Somme
  <2>10. CASE i = 10
    BY <2>10, <1>1, <1>2 DEF Somme
  <2>11. CASE i = 11
    BY <2>11, <1>1, <1>2 DEF Somme
  <2>12. CASE i = 12
    BY <2>12, <1>1, <1>2 DEF Somme
  <2>13. CASE i = 13
    BY <2>13, <1>1, <1>2 DEF Somme
  <2>14. QED
    BY <2>1, <2>2, <2>3, <2>4, <2>5, <2>6, <2>7, <2>8, <2>9, <2>10, <2>11, <2>12, <2>13
<1>5. \E q \in Int : ecart = 10 * q
  BY <1>1, <1>3, SommeMultiple, Dizaines
<1>6. s[i] \in 0..9
  BY DEF Isbn13
<1> HIDE DEF ecart
<1>7. QED
  BY <1>4, <1>5, <1>6

(* Two neighbours exchanged change the sum by twice their difference: two  *)
(* valid numbers differ by such an exchange only when it is of 0 or 5.     *)
LEMMA DeuxVoisins ==
  ASSUME NEW s \in Isbn13, NEW i \in 1..12,
         EstISBN13Valide(s), EstISBN13Valide([s EXCEPT ![i] = s[i + 1], ![i + 1] = s[i]])
  PROVE  s[i] - s[i + 1] \in {-5, 0, 5}
<1> DEFINE t == [s EXCEPT ![i] = s[i + 1], ![i + 1] = s[i]]
           ecart == (Somme(t) + t[13]) - (Somme(s) + s[13])
<1>1. /\ t \in Isbn13 /\ t[i] = s[i + 1] /\ t[i + 1] = s[i]
      /\ \A j \in 1..13 : j # i /\ j # i + 1 => t[j] = s[j]
  BY DEF Isbn13
<1>2. \A j \in 1..13 : s[j] \in Int /\ t[j] \in Int
  BY <1>1 DEF Isbn13
<1>3. EstISBN13Valide(t)
  OBVIOUS
<1> HIDE DEF t
<1>4. ecart = 2 * (s[i] - s[i + 1]) \/ ecart = 2 * (s[i + 1] - s[i])
  <2>1. CASE i = 1
    BY <2>1, <1>1, <1>2 DEF Somme
  <2>2. CASE i = 2
    BY <2>2, <1>1, <1>2 DEF Somme
  <2>3. CASE i = 3
    BY <2>3, <1>1, <1>2 DEF Somme
  <2>4. CASE i = 4
    BY <2>4, <1>1, <1>2 DEF Somme
  <2>5. CASE i = 5
    BY <2>5, <1>1, <1>2 DEF Somme
  <2>6. CASE i = 6
    BY <2>6, <1>1, <1>2 DEF Somme
  <2>7. CASE i = 7
    BY <2>7, <1>1, <1>2 DEF Somme
  <2>8. CASE i = 8
    BY <2>8, <1>1, <1>2 DEF Somme
  <2>9. CASE i = 9
    BY <2>9, <1>1, <1>2 DEF Somme
  <2>10. CASE i = 10
    BY <2>10, <1>1, <1>2 DEF Somme
  <2>11. CASE i = 11
    BY <2>11, <1>1, <1>2 DEF Somme
  <2>12. CASE i = 12
    BY <2>12, <1>1, <1>2 DEF Somme
  <2>13. QED
    BY <2>1, <2>2, <2>3, <2>4, <2>5, <2>6, <2>7, <2>8, <2>9, <2>10, <2>11, <2>12
<1>5. \E q \in Int : ecart = 10 * q
  BY <1>1, <1>3, SommeMultiple, Dizaines
<1>6. s[i] \in 0..9 /\ s[i + 1] \in 0..9
  BY DEF Isbn13
<1> HIDE DEF ecart
<1>7. QED
  BY <1>4, <1>5, <1>6

(* Of the numbers that a typist makes of a valid one, the valid ones are   *)
(* itself and the exchanges of two neighbours that differ by 5.            *)
LEMMA FrappesAdmises ==
  ASSUME NEW s \in Isbn13, NEW t \in Frappes(s), EstISBN13Valide(s), EstISBN13Valide(t)
  PROVE  \/ t = s
         \/ \E i \in 1..12 : t = [s EXCEPT ![i] = s[i + 1], ![i + 1] = s[i]] /\ s[i] - s[i + 1] \in {-5, 5}
<1>1. t # SubSeq(s, 1, 12)
  <2>1. s \in Seq(0..9)
    BY SeqDef DEF Isbn13
  <2>2. DOMAIN s = 1..13 /\ DOMAIN t = 1..13
    BY DEF Isbn13, EstISBN13Valide
  <2>3. Len(s) = 13
    BY <2>1, <2>2, LenProperties
  <2>4. DOMAIN SubSeq(s, 1, 12) = 1..12
    BY <2>1, <2>3
  <2>5. 13 \in 1..13 /\ 13 \notin 1..12
    OBVIOUS
  <2>6. QED
    BY <2>2, <2>4, <2>5
<1>2. CASE t \in Fautes(s)
  <2>1. \E i \in 1..13, d \in 0..9 : t = [s EXCEPT ![i] = d]
    BY <1>2 DEF Fautes
  <2>2. PICK i \in 1..13, d \in 0..9 : t = [s EXCEPT ![i] = d]
    BY <2>1
  <2>3. s[i] = d
    BY <2>2, UnChiffre
  <2>4. QED
    BY <2>2, <2>3 DEF Isbn13
<1>3. CASE t \in Echanges(s)
  <2>1. \E i \in 1..12 : t = [s EXCEPT ![i] = s[i + 1], ![i + 1] = s[i]]
    BY <1>3 DEF Echanges
  <2>2. PICK i \in 1..12 : t = [s EXCEPT ![i] = s[i + 1], ![i + 1] = s[i]]
    BY <2>1
  <2>3. s[i] - s[i + 1] \in {-5, 0, 5}
    BY <2>2, DeuxVoisins
  <2>4. s[i] \in Int /\ s[i + 1] \in Int
    BY DEF Isbn13
  <2>5. CASE s[i] = s[i + 1]
    BY <2>2, <2>5 DEF Isbn13
  <2>6. CASE s[i] # s[i + 1]
    <3>1. s[i] - s[i + 1] \in {-5, 5}
      BY <2>3, <2>4, <2>6
    <3>2. QED
      BY <2>2, <3>1
  <2>7. QED
    BY <2>5, <2>6
<1>4. QED
  BY <1>1, <1>2, <1>3 DEF Frappes

(* The mistakes of one digit, and the exchanges of neighbours that do not  *)
(* differ by 5, are never stored (EstISBN13Valide).                        *)
THEOREM FautesDetectees == Spec => []FauteDetectee
<1>1. InvSaisies => FauteDetectee
  <2> SUFFICES ASSUME InvSaisies, route = "livre", reponse = "201", EstISBN13Valide(saisie.imprime)
               PROVE  \/ saisie.isbn = saisie.imprime
                      \/ \E i \in 1..12 :
                           /\ saisie.isbn = [saisie.imprime EXCEPT ![i] = saisie.imprime[i + 1],
                                                                   ![i + 1] = saisie.imprime[i]]
                           /\ saisie.imprime[i] - saisie.imprime[i + 1] \in {-5, 5}
    BY DEF FauteDetectee
  <2>1. saisie \in Livre
    BY SaisiesAssumption DEF InvSaisies, TypeSaisies, Saisie
  <2>2. saisie.imprime \in Isbn13 /\ saisie.isbn \in Frappes(saisie.imprime)
    BY <2>1 DEF Livre
  <2>3. EstISBN13Valide(saisie.isbn)
    BY DEF InvSaisies, TypeSaisies, Passees, Admise, LivreAdmis
  <2>4. QED
    BY <2>2, <2>3, FrappesAdmises
<1>2. QED
  BY <1>1, InvariantSaisies, PTL

-----------------------------------------------------------------------------
(* The two sets of rules                                                   *)

(* The services repeat the constraints of the tables: nothing but the six  *)
(* known differences is an internal error (03_tables.sql:32-124).          *)
THEOREM ReglesAccordees == Spec => []EcartsConnus
<1>1. InvSaisies => EcartsConnus
  <2> SUFFICES ASSUME InvSaisies, phase = "terminee", reponse \notin {"400", "422"}
               PROVE  ~Acceptee <=> Imprevue
    BY DEF EcartsConnus, InvSaisies
  <2>1. Admise
    BY DEF InvSaisies, Passees
  <2>2. \A t \in Texte : \A max \in Nat : LongueurMax(t, max) => (Varchar(t, max) <=> ~t.nul)
    BY DEF Texte, LongueurMax, Varchar
  <2> USE SaisiesAssumption DEF InvSaisies, TypeSaisies, Saisie
  <2>3. CASE route = "utilisateur"
    <3>1. saisie \in Utilisateur
      BY <2>3
    <3>2. Varchar(saisie.nom, 100) <=> ~saisie.nom.nul
      BY <2>1, <2>2, <2>3, <3>1 DEF Utilisateur, Admise, UtilisateurAdmis
    <3>3. Varchar(saisie.prenom, 100) <=> ~saisie.prenom.nul
      BY <2>1, <2>2, <2>3, <3>1 DEF Utilisateur, Admise, UtilisateurAdmis
    <3>4. saisie.role # "inconnu" /\ saisie.mot_de_passe.octets \in Nat
      BY <2>1, <2>3, <3>1 DEF Utilisateur, Secret, Admise, UtilisateurAdmis
    <3>5. QED
      BY <2>3, <3>2, <3>3, <3>4 DEF Acceptee, LigneUtilisateur, Imprevue
  <2>4. CASE route = "livre"
    <3>1. saisie \in Livre
      BY <2>4
    <3>2. LivreAdmis(saisie)
      BY <2>1, <2>4 DEF Admise
    <3>3. Varchar(saisie.titre, 255) <=> ~saisie.titre.nul
      BY <2>2, <3>1, <3>2 DEF Livre, LivreAdmis
    <3>4. Varchar(saisie.langue, 50) <=> ~saisie.langue.nul
      BY <2>2, <3>1, <3>2 DEF Livre, LivreAdmis
    <3>5. saisie.prix \in Int /\ saisie.nombre \in Int
      BY <3>1 DEF Livre
    <3>6. Numeric(saisie.prix) <=> ~(saisie.prix >= 999999995)
      <4>1. 10^8 = 100000000
        OBVIOUS
      <4>2. QED
        BY <3>5, <4>1 DEF Numeric
    <3>7. saisie.isbn \in Isbn13 /\ EntierDans(saisie.annee, 1400, 2200) /\ saisie.nombre >= 0 /\ saisie.prix >= 0
      BY <3>2, <3>5 DEF LivreAdmis, EstISBN13Valide, EntierDans
    <3>8. QED
      BY <2>4, <3>3, <3>4, <3>6, <3>7 DEF Acceptee, LigneLivre, Imprevue
  <2>5. CASE route = "auteur"
    <3>1. saisie \in Auteur
      BY <2>5
    <3>2. AuteurAdmis(saisie)
      BY <2>1, <2>5 DEF Admise
    <3>3. Varchar(saisie.nom, 100) <=> ~saisie.nom.nul
      BY <2>2, <3>1, <3>2 DEF Auteur, AuteurAdmis
    <3>4. Varchar(saisie.prenom, 100) <=> ~saisie.prenom.nul
      BY <2>2, <3>1, <3>2 DEF Auteur, AuteurAdmis
    <3>5. Varchar(saisie.nationalite, 100) <=> ~saisie.nationalite.nul
      BY <2>2, <3>1, <3>2 DEF Auteur, AuteurAdmis
    <3>6. saisie.annee > 0 <=> saisie.annee # 0
      <4> DEFINE annee == saisie.annee
      <4>1. annee \in 0..9999
        BY <3>1 DEF Auteur
      <4> HIDE DEF annee
      <4>2. annee > 0 <=> annee # 0
        BY <4>1
      <4>3. QED
        BY <4>2 DEF annee
    <3>7. LigneAuteur(saisie) <=>
            /\ Varchar(saisie.nom, 100) /\ Varchar(saisie.prenom, 100) /\ Varchar(saisie.nationalite, 100)
            /\ ~saisie.biographie /\ saisie.annee > 0
      BY <3>2 DEF LigneAuteur, AuteurAdmis
    <3>8. QED
      BY <2>5, <3>3, <3>4, <3>5, <3>6, <3>7 DEF Acceptee, Imprevue
  <2>6. CASE route = "categorie"
    <3>1. saisie \in Categorie
      BY <2>6
    <3>2. CategorieAdmise(saisie)
      BY <2>1, <2>6 DEF Admise
    <3>3. Varchar(saisie.nom, 100) <=> ~saisie.nom.nul
      BY <2>2, <3>1, <3>2 DEF Categorie, CategorieAdmise
    <3>4. Varchar(saisie.description, 500) <=> ~saisie.description.nul
      BY <2>2, <3>1, <3>2 DEF Categorie, CategorieAdmise
    <3>5. QED
      BY <2>6, <3>3, <3>4 DEF Acceptee, LigneCategorie, Imprevue
  <2>7. CASE route = "emprunt"
    BY <2>1, <2>7 DEF Admise, EmpruntAdmis, EstUUIDValide, Uuid, Acceptee, Imprevue
  <2>8. CASE route = "obtenir"
    BY <2>1, <2>8 DEF Admise, EstUUIDValide, Uuid, Acceptee, Imprevue
  <2>9. CASE route = "modifier"
    BY <2>9 DEF Uuid, Acceptee, Imprevue
  <2>10. QED
    BY <2>3, <2>4, <2>5, <2>6, <2>7, <2>8, <2>9
<1>2. QED
  BY <1>1, InvariantSaisies, PTL

=============================================================================
