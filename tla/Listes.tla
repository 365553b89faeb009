------------------------------- MODULE Listes -------------------------------
(***************************************************************************)
(* GET /categories, page after page, while categories are created, renamed *)
(* and deleted.  Each page is two statements: COUNT, then SELECT ... ORDER *)
(* BY nom LIMIT OFFSET.  The client goes on to the next page as long as    *)
(* the answer announces one.                                               *)
(***************************************************************************)
EXTENDS Fiches, SequencesExt

CONSTANTS
  Lecteurs,           \* clients that go through the list
  PagesDemandees,     \* values of ?page= in the first request
  TaillesDemandees,   \* values of ?taille=
  Recherches,         \* the sets of names that a ?recherche= matches
  TailleParDefaut, TailleMax,
  IntMax              \* the largest int

PageParDefaut == 1

ASSUME ListesAssumption ==
  /\ PagesDemandees \cup TaillesDemandees \subseteq Int
  /\ Recherches \subseteq SUBSET Noms /\ Noms \in Recherches    \* without ?recherche=
  /\ TailleMax \in Nat /\ TailleParDefaut \in 1..TailleMax
ASSUME CompteAssumption ==    \* a COUNT fits in an int
  IntMax \in Nat /\ IsFiniteSet(Categories) /\ Cardinality(Categories) <= IntMax

VARIABLES lectures

vars == <<varsFiches, lectures>>

ParametresListe == [page : Nat \ {0}, taille : 1..TailleMax, ordre : {"ASC", "DESC"}, motif : Recherches]

(* premiere is the page asked first, depart the rows that matched then;    *)
(* entree, sortie and glisse tell whether a row has come in, gone out, or  *)
(* come in between a COUNT and its SELECT since.                           *)
Lecture == [phase : {"libre", "analysee", "comptee", "finie", "echouee"}, params : ParametresListe,
            premiere : Nat, depart : SUBSET Categories, total : Nat, vus : Seq(Categories),
            entree : BOOLEAN, sortie : BOOLEAN, glisse : BOOLEAN]

TypeListes == TypeFiches /\ lectures \in [Lecteurs -> Lecture]

Init ==
  /\ InitFiches
  /\ lectures = [x \in Lecteurs |->
       [phase |-> "libre", params |-> [page |-> 1, taille |-> 1, ordre |-> "ASC", motif |-> Noms],
        premiere |-> 1, depart |-> {}, total |-> 0, vus |-> <<>>,
        entree |-> FALSE, sortie |-> FALSE, glisse |-> FALSE]]

-----------------------------------------------------------------------------
(* The parameters of a list                                                *)

(* Mutant: page is not raised to 1. *)
NormaliserSansPage(page, taille, ordre, motif) ==
  [page |-> page, motif |-> motif, ordre |-> IF ordre = "DESC" THEN "DESC" ELSE "ASC",
   taille |-> IF taille < 1 THEN TailleParDefaut ELSE IF taille > TailleMax THEN TailleMax ELSE taille]

Normaliser(page, taille, ordre, motif) ==
  [page |-> IF page < 1 THEN PageParDefaut ELSE page,
   taille |-> IF taille < 1 THEN TailleParDefaut ELSE IF taille > TailleMax THEN TailleMax ELSE taille,
   ordre |-> IF ordre = "DESC" THEN "DESC" ELSE "ASC",
   motif |-> motif]

EntierMachine(n, max) == ((n + max + 1) % (2 * (max + 1))) - (max + 1)

(* Mutants: the first page is 0; the pages are counted as rows; a narrower int. *)
OffsetSuivant(p) == EntierMachine(p.page * p.taille, IntMax)
OffsetEnPages(p) == EntierMachine(p.page - 1, IntMax)
OffsetEtroit(p) == EntierMachine((p.page - 1) * p.taille, IntMax \div 2)

Offset(p) == EntierMachine((p.page - 1) * p.taille, IntMax)

Correspondants(motif) == {c \in Categories : categories[c].etat = "present" /\ categories[c].nom \in motif}

Avant(c, d, ordre) ==
  IF ordre = "ASC" THEN categories[c].nom < categories[d].nom ELSE categories[c].nom > categories[d].nom

ClauseTri(S, ordre) ==
  CHOOSE s \in SetToSeqs(S) : \A i, j \in DOMAIN s : i < j => Avant(s[i], s[j], ordre)

(* LIMIT taille OFFSET decalage. *)
Fenetre(suite, decalage, taille) ==
  SubSeq(suite, decalage + 1, Min({decalage + taille, Len(suite)}))

(* Mutant: the last page is left out when it is not full. *)
TotalPagesTronque(total, taille) == total \div taille

TotalPages(total, taille) == (total + taille - 1) \div taille

-----------------------------------------------------------------------------
(* GET /categories?page=&taille=&ordre=&recherche=                         *)

AnalyserParametresListe(x) ==
  /\ lectures[x].phase = "libre"
  /\ \E page \in PagesDemandees, taille \in TaillesDemandees, ordre \in {"", "DESC"}, motif \in Recherches :
       LET p == Normaliser(page, taille, ordre, motif) IN
       lectures' = [lectures EXCEPT ![x].phase = "analysee", ![x].params = p, ![x].premiere = p.page,
                                    ![x].depart = Correspondants(motif)]
  /\ UNCHANGED varsFiches

Compter(x) ==
  LET n == Cardinality(Correspondants(lectures[x].params.motif)) IN
  /\ lectures[x].phase = "analysee"
  /\ lectures' = [lectures EXCEPT ![x].total = n, ![x].phase = IF n = 0 THEN "finie" ELSE "comptee"]
  /\ UNCHANGED varsFiches

(* PostgreSQL refuses a negative OFFSET.                                   *)
ListerCategories(x) ==
  LET p == lectures[x].params
      suite == ClauseTri(Correspondants(p.motif), p.ordre) IN
  /\ lectures[x].phase = "comptee"
  /\ \/ Offset(p) < 0 /\ lectures' = [lectures EXCEPT ![x].phase = "echouee"]
     \/ /\ Offset(p) >= 0
        /\ lectures' = [lectures EXCEPT
             ![x].vus = @ \o Fenetre(suite, Offset(p), p.taille),
             ![x].params.page = IF p.page < TotalPages(lectures[x].total, p.taille) THEN p.page + 1 ELSE p.page,
             ![x].phase = IF p.page < TotalPages(lectures[x].total, p.taille) THEN "analysee" ELSE "finie"]
  /\ UNCHANGED varsFiches

AnnulerLecture(x) ==
  /\ lectures[x].phase \in {"analysee", "comptee"}
  /\ lectures' = [lectures EXCEPT ![x].phase = "echouee"]
  /\ UNCHANGED varsFiches

-----------------------------------------------------------------------------
(* What the others do, and what a reader in the middle of the list missed. *)

Suivre(lecture) ==
  LET m == lecture.params.motif
      avant == Correspondants(m)
      apres == {c \in Categories : categories'[c].etat = "present" /\ categories'[c].nom \in m}
      renommes == {c \in avant \cap apres : categories'[c].nom # categories[c].nom}
      arrives == (apres \ avant) \cup renommes
      partis == (avant \ apres) \cup renommes
  IN IF lecture.phase \notin {"analysee", "comptee"} THEN lecture
     ELSE [lecture EXCEPT !.entree = @ \/ arrives # {}, !.sortie = @ \/ partis # {},
                          !.glisse = @ \/ (lecture.phase = "comptee" /\ arrives # {})]

ChangerFiches == NextFiches /\ lectures' = [x \in Lecteurs |-> Suivre(lectures[x])]

Next ==
  \/ ChangerFiches
  \/ \E x \in Lecteurs :
       AnalyserParametresListe(x) \/ Compter(x) \/ ListerCategories(x) \/ AnnulerLecture(x)

Spec == Init /\ [][Next]_vars

-----------------------------------------------------------------------------
(* Paging by OFFSET (liste.go:62-64): a reader sees no row twice as long   *)
(* as none comes in behind his back, whatever goes out.                    *)
SansDoublon == \A x \in Lecteurs : ~lectures[x].entree => IsInjective(lectures[x].vus)

(* From page 1 to the last, he sees every row that was there when he began *)
(* and that nobody has deleted or renamed; rows that come in between two   *)
(* pages are no obstacle, those that come in between a COUNT and its       *)
(* SELECT are (categorie_repository.go:68-78).                             *)
SansOubli ==
  \A x \in Lecteurs :
    lectures[x].phase = "finie" /\ lectures[x].premiere = 1 /\ ~lectures[x].sortie /\ ~lectures[x].glisse
    => lectures[x].depart \subseteq Range(lectures[x].vus)

(* A page beyond the end is empty, or refused when the product overflows   *)
(* into a negative OFFSET; a product that wraps all the way around (2^64   *)
(* in the program) is out of the guarantee.                                *)
PageHorsBornes ==
  \A x \in Lecteurs :
    LET decalage == (lectures[x].premiere - 1) * lectures[x].params.taille IN
    /\ ~lectures[x].entree
    /\ Cardinality(lectures[x].depart) <= decalage /\ decalage <= 2 * IntMax + 1
    => lectures[x].vus = <<>>

=============================================================================
