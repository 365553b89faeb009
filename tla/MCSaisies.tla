----------------------------- MODULE MCSaisies -----------------------------
(* The inputs at each bound of each rule.                                  *)
EXTENDS Saisies

Bornes == {50, 100, 255, 500}

Mot(n) == [longueur |-> n, rogne |-> n, nul |-> FALSE]

Textes ==
  {Mot(n) : n \in {0, 1} \cup Bornes \cup {b + 1 : b \in Bornes}}
  \cup {[longueur |-> b + 1, rogne |-> b, nul |-> FALSE] : b \in {0} \cup Bornes}
  \cup {[longueur |-> 1, rogne |-> 1, nul |-> TRUE]}

Secrets ==
  {[caracteres |-> m[1], octets |-> m[2], blanc |-> FALSE] : m \in
     {<<7, 7>>, <<7, 28>>, <<8, 8>>, <<36, 72>>, <<36, 73>>, <<72, 72>>, <<72, 73>>, <<72, 288>>, <<73, 73>>}}
  \cup {[caracteres |-> 8, octets |-> 8, blanc |-> TRUE]}

Adresses == [adresse : BOOLEAN, pointe : BOOLEAN, octets : {254, 255}]

(* The rules bear on one field each: not all the fields vary at once.      *)
UtilisateursMC ==
  [email : Adresses, mot_de_passe : Secrets, nom : {Mot(1)}, prenom : {Mot(1)}, role : {"connu"}]
  \cup [email : {[adresse |-> TRUE, pointe |-> p, octets |-> 254] : p \in BOOLEAN},
        mot_de_passe : {[caracteres |-> 8, octets |-> 8, blanc |-> FALSE]},
        nom : Textes, prenom : Textes, role : {"connu", "inconnu"}]

(* Valid numbers whose neighbours differ by 0 to 9, 5 included, and one    *)
(* whose key is wrong.  In the fourth the digits of even rank sum to a     *)
(* multiple of ten, so that its key does not tell their weight.            *)
Imprimes ==
  {<<9, 7, 8, 2, 0, 7, 0, 3, 6, 8, 2, 2, 8>>, <<9, 7, 8, 0, 2, 6, 2, 5, 1, 0, 8, 7, 5>>,
   <<9, 7, 8, 0, 0, 5, 1, 6, 9, 4, 9, 0, 8>>, <<9, 7, 8, 2, 0, 7, 0, 3, 6, 0, 8, 1, 9>>,
   <<9, 7, 8, 2, 0, 7, 0, 3, 6, 8, 2, 2, 9>>}

Exemplaire(s, t) ==
  [titre |-> Mot(1), imprime |-> s, isbn |-> t, auteur |-> "canonique", annee |-> 1400,
   nombre |-> 1, prix |-> 0, langue |-> Mot(0), resume |-> FALSE]

LivresMC ==
  LET s == CHOOSE s \in Imprimes : TRUE
  IN  [titre : Textes, imprime : {s}, isbn : {s}, auteur : {"canonique"}, annee : {1400}, nombre : {1},
       prix : {999999994}, langue : Textes, resume : BOOLEAN]
      \cup [titre : {Mot(1)}, imprime : {s}, isbn : {s}, auteur : Identifiants, annee : {1399, 1400, 2200, 2201},
            nombre : {0, 1, 100000, 100001}, prix : {-1, 0, 999999994, 999999995}, langue : {Mot(0)},
            resume : {FALSE}]
      \cup UNION {{Exemplaire(x, t) : t \in Frappes(x)} : x \in Imprimes}

AuteursMC ==
  [nom : Textes, prenom : Textes, nationalite : {Mot(0), Mot(100), Mot(101)},
   reelle : BOOLEAN, annee : {0, 1}, biographie : BOOLEAN]

CategoriesMC == [nom : Textes, description : Textes]
EmpruntsMC == [livre : Identifiants, utilisateur : Identifiants, duree : {-1, 0, 1, 90, 91}]
CheminsMC == Chemin

=============================================================================
