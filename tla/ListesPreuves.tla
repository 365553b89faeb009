---------------------------- MODULE ListesPreuves ----------------------------
(***************************************************************************)
(* Proofs about the pages of GET /categories: for any number of readers,   *)
(* of categories and of calls that change them, what a reader who goes     *)
(* from page to page sees twice, misses, or finds beyond the end.          *)
(***************************************************************************)
EXTENDS Listes, FichesPreuves, FunctionTheorems, FiniteSetTheorems

-----------------------------------------------------------------------------
(* The position of a row in ORDER BY nom: the rows up to it, counted.      *)
Jusqua(c, motif, ordre) == {d \in Correspondants(motif) : d = c \/ Avant(d, c, ordre)}
Rang(c, motif, ordre) == Cardinality(Jusqua(c, motif, ordre))

EnCours(x) == lectures[x].phase \in {"analysee", "comptee"}
Page(x) == lectures[x].params.page
Decalage(x) == (Page(x) - 1) * lectures[x].params.taille
Depassement(x) == (lectures[x].premiere - 1) * lectures[x].params.taille
Reste(x) == Correspondants(lectures[x].params.motif)
Position(c, x) == Rang(c, lectures[x].params.motif, lectures[x].params.ordre)

(* A reader goes on only to a page that rows of the table fill.            *)
Suite(x) ==
  /\ lectures[x].phase = "libre" => lectures[x].vus = <<>>
  /\ EnCours(x) => \/ Page(x) = lectures[x].premiere /\ lectures[x].vus = <<>>
                   \/ Page(x) > lectures[x].premiere /\ Decalage(x) <= Cardinality(Categories)

(* What a COUNT is worth when its SELECT comes.                            *)
Compte(x) ==
  lectures[x].phase = "comptee" =>
    /\ lectures[x].total <= Cardinality(Categories)
    /\ ~lectures[x].glisse => Cardinality(Reste(x)) <= lectures[x].total
    /\ ~lectures[x].entree => lectures[x].total <= Cardinality(lectures[x].depart)

(* As long as no row has come in, those already seen that are still there  *)
(* are before the next page, and beyond the end there is no next page.     *)
Derriere(x) ==
  EnCours(x) /\ ~lectures[x].entree =>
    /\ Reste(x) \subseteq lectures[x].depart
    /\ \A c \in Range(lectures[x].vus) \cap Reste(x) : Position(c, x) <= Decalage(x)
    /\ Cardinality(lectures[x].depart) <= Depassement(x) => Page(x) = lectures[x].premiere

(* As long as no row has gone out, those not seen yet are ahead.           *)
Devant(x) ==
  EnCours(x) /\ lectures[x].premiere = 1 /\ ~lectures[x].sortie =>
    \A c \in lectures[x].depart :
      c \in Reste(x) /\ (c \in Range(lectures[x].vus) \/ Position(c, x) > Decalage(x))

(* What the properties say of one reader.                                  *)
SansDoublonPour(x) == ~lectures[x].entree => IsInjective(lectures[x].vus)
SansOubliPour(x) ==
  lectures[x].phase = "finie" /\ lectures[x].premiere = 1 /\ ~lectures[x].sortie /\ ~lectures[x].glisse
  => lectures[x].depart \subseteq Range(lectures[x].vus)
PageHorsBornesPour(x) ==
  ~lectures[x].entree /\ Cardinality(lectures[x].depart) <= Depassement(x) /\ Depassement(x) <= 2 * IntMax + 1
  => lectures[x].vus = <<>>

EnOrdre(x) ==
  /\ Suite(x) /\ Compte(x) /\ Derriere(x) /\ Devant(x)
  /\ SansDoublonPour(x) /\ SansOubliPour(x) /\ PageHorsBornesPour(x)

InvListes == InvFiches /\ lectures \in [Lecteurs -> Lecture] /\ \A x \in Lecteurs : EnOrdre(x)

-----------------------------------------------------------------------------
(* Sorting                                                                 *)

NomsDistincts(S) == \A c, d \in S : categories[c].nom = categories[d].nom => c = d

(* On rows with distinct names the order is total and strict.              *)
LEMMA OrdreStrict ==
  ASSUME TypeFiches, NEW S \in SUBSET Categories, NomsDistincts(S), NEW ordre,
         NEW c \in S, NEW d \in S, NEW e \in S
  PROVE  /\ ~Avant(c, c, ordre)
         /\ Avant(c, d, ordre) => ~Avant(d, c, ordre)
         /\ Avant(c, d, ordre) /\ Avant(d, e, ordre) => Avant(c, e, ordre)
         /\ c # d => Avant(c, d, ordre) \/ Avant(d, c, ordre)
<1>1. \A x \in S : categories[x].nom \in Nat
  BY FichesNonVides DEF TypeFiches, Categorie
<1>2. \A x, y \in S : Avant(x, y, ordre) <=>
        IF ordre = "ASC" THEN categories[x].nom < categories[y].nom ELSE categories[x].nom > categories[y].nom
  BY DEF Avant
<1>3. c # d => categories[c].nom # categories[d].nom
  BY DEF NomsDistincts
<1> QED BY <1>1, <1>2, <1>3

Premiers(c, S, ordre) == {d \in S : d = c \/ Avant(d, c, ordre)}

(* The rows up to c are more than those up to a row before it.             *)
LEMMA PremiersCroissants ==
  ASSUME TypeFiches, NEW S \in SUBSET Categories, NomsDistincts(S), NEW ordre,
         NEW c \in S, NEW d \in S, Avant(c, d, ordre)
  PROVE  Cardinality(Premiers(c, S, ordre)) < Cardinality(Premiers(d, S, ordre))
<1>1. IsFiniteSet(S)
  BY CompteAssumption, FS_Subset
<1>2. IsFiniteSet(Premiers(d, S, ordre))
  BY <1>1, FS_Subset DEF Premiers
<1>3. Premiers(c, S, ordre) \subseteq Premiers(d, S, ordre)
  BY OrdreStrict DEF Premiers
<1>4. d \in Premiers(d, S, ordre) /\ d \notin Premiers(c, S, ordre)
  BY OrdreStrict DEF Premiers
<1>5. /\ Cardinality(Premiers(c, S, ordre)) <= Cardinality(Premiers(d, S, ordre))
      /\ Cardinality(Premiers(c, S, ordre)) # Cardinality(Premiers(d, S, ordre))
  BY <1>2, <1>3, <1>4, FS_Subset
<1>6. IsFiniteSet(Premiers(c, S, ordre))
  BY <1>2, <1>3, FS_Subset
<1> QED BY <1>2, <1>5, <1>6, FS_CardinalityType

LEMMA RangsBornes ==
  ASSUME NEW S \in SUBSET Categories, NEW c \in S, NEW ordre
  PROVE  Cardinality(Premiers(c, S, ordre)) \in 1..Cardinality(S)
<1>1. IsFiniteSet(S) /\ Cardinality(S) \in Nat
  BY CompteAssumption, FS_Subset, FS_CardinalityType
<1>2. Premiers(c, S, ordre) \in SUBSET S /\ c \in Premiers(c, S, ordre)
  BY DEF Premiers
<1>3. IsFiniteSet(Premiers(c, S, ordre)) /\ Cardinality(Premiers(c, S, ordre)) <= Cardinality(S)
  BY <1>1, <1>2, FS_Subset
<1>4. Cardinality(Premiers(c, S, ordre)) \in Nat
  BY <1>3, FS_CardinalityType
<1>5. Cardinality(Premiers(c, S, ordre)) # 0
  BY <1>2, <1>3, FS_EmptySet
<1> QED BY <1>1, <1>3, <1>4, <1>5

(* To number the rows by how many there are up to each is to sort them.    *)
LEMMA RangBijection ==
  ASSUME TypeFiches, NEW S \in SUBSET Categories, NomsDistincts(S), NEW ordre
  PROVE  [c \in S |-> Cardinality(Premiers(c, S, ordre))] \in Bijection(S, 1..Cardinality(S))
<1> DEFINE r == [c \in S |-> Cardinality(Premiers(c, S, ordre))]
           n == Cardinality(S)
<1>1. IsFiniteSet(S) /\ n \in Nat
  BY CompteAssumption, FS_Subset, FS_CardinalityType
<1>2. r \in [S -> 1..n]
  BY RangsBornes
<1>3. ASSUME NEW c \in S, NEW d \in S, r[c] = r[d]
      PROVE  c = d
  <2>1. r[c] \in Int /\ r[d] \in Int
    BY <1>2
  <2>2. ~Avant(c, d, ordre)
    BY <1>3, <2>1, PremiersCroissants
  <2>3. ~Avant(d, c, ordre)
    BY <1>3, <2>1, PremiersCroissants
  <2> QED BY <2>2, <2>3, OrdreStrict
<1> HIDE DEF r
<1>4. r \in Injection(S, 1..n)
  BY <1>2, <1>3, Fun_IsInj
<1>5. IsFiniteSet(1..n) /\ Cardinality(1..n) = n
  BY <1>1, FS_Interval
<1>6. r \in Surjection(S, 1..n)
  BY <1>4, <1>5, FS_Injection
<1> QED BY <1>4, <1>6, Fun_IsBij DEF r

LEMMA Bijective ==
  ASSUME NEW S, NEW T, NEW f \in Bijection(S, T)
  PROVE  /\ f \in [S -> T]
         /\ \A a, b \in S : f[a] = f[b] => a = b
         /\ \A t \in T : \E a \in S : f[a] = t
BY DEF Bijection, Injection, Surjection, IsInjective

Trie(s, ordre) == \A i, j \in DOMAIN s : i < j => Avant(s[i], s[j], ordre)

(* The rows of a result can be put in the order asked for, so that ClauseTri *)
(* is a sequence of them all, each once.                                   *)
LEMMA TriExiste ==
  ASSUME TypeFiches, NEW S \in SUBSET Categories, NomsDistincts(S), NEW ordre
  PROVE  \E s \in SetToSeqs(S) : Trie(s, ordre)
<1> DEFINE n == Cardinality(S)
           r == [c \in S |-> Cardinality(Premiers(c, S, ordre))]
           s == Inverse(r, S, 1..n)
<1>1. r \in Bijection(S, 1..n)
  BY RangBijection
<1> HIDE DEF r
<1>a. s \in Bijection(1..n, S) /\ \A c \in S : s[r[c]] = c
  BY <1>1, Fun_BijInverse
<1> HIDE DEF s
<1>2. s \in [1..n -> S] /\ \A i, j \in 1..n : s[i] = s[j] => i = j
  BY <1>a, Bijective
<1>3. ASSUME NEW i \in 1..n  PROVE r[s[i]] = i
  <2>1. PICK c \in S : r[c] = i
    BY <1>1 DEF Bijection, Surjection
  <2>2. s[r[c]] = c
    BY <1>a
  <2> QED BY <2>1, <2>2
<1>4. n \in Nat
  BY CompteAssumption, FS_Subset, FS_CardinalityType
<1>5. ASSUME NEW i \in 1..n, NEW j \in 1..n, i < j
      PROVE  Avant(s[i], s[j], ordre)
  <2>1. s[i] \in S /\ s[j] \in S /\ s[i] # s[j]
    BY <1>2, <1>5, <1>4
  <2>2. CASE Avant(s[j], s[i], ordre)
    <3>1. r[s[j]] < r[s[i]]
      BY <2>1, <2>2, PremiersCroissants DEF r
    <3> QED BY <3>1, <1>3, <1>4, <1>5
  <2> QED BY <2>1, <2>2, OrdreStrict
<1>6. DOMAIN s = 1..n
  BY <1>2
<1>7. s \in SetToSeqs(S)
  BY <1>2 DEF SetToSeqs
<1> QED BY <1>5, <1>6, <1>7 DEF Trie

LEMMA TriDefini ==
  ASSUME TypeFiches, NEW S \in SUBSET Categories, NomsDistincts(S), NEW ordre
  PROVE  /\ ClauseTri(S, ordre) \in [1..Cardinality(S) -> S]
         /\ \A i, j \in 1..Cardinality(S) : i # j => ClauseTri(S, ordre)[i] # ClauseTri(S, ordre)[j]
         /\ \A i, j \in 1..Cardinality(S) : i < j => Avant(ClauseTri(S, ordre)[i], ClauseTri(S, ordre)[j], ordre)
<1> DEFINE s == ClauseTri(S, ordre)
<1>1. s \in SetToSeqs(S) /\ Trie(s, ordre)
  BY TriExiste DEF ClauseTri, Trie
<1>2. s \in [1..Cardinality(S) -> S] /\ \A i, j \in 1..Cardinality(S) : i # j => s[i] # s[j]
  BY <1>1 DEF SetToSeqs
<1>3. DOMAIN s = 1..Cardinality(S)
  BY <1>2
<1> HIDE DEF s
<1>4. \A i, j \in 1..Cardinality(S) : i < j => Avant(s[i], s[j], ordre)
  BY <1>1, <1>3 DEF Trie
<1> QED BY <1>2, <1>4 DEF s

(* The row at place i is the one that has i rows up to it.                 *)
LEMMA PlaceRang ==
  ASSUME TypeFiches, NEW S \in SUBSET Categories, NomsDistincts(S), NEW ordre, NEW i \in 1..Cardinality(S)
  PROVE  Cardinality(Premiers(ClauseTri(S, ordre)[i], S, ordre)) = i
<1> DEFINE s == ClauseTri(S, ordre)
           n == Cardinality(S)
           f == [k \in 1..i |-> s[k]]
           P == Premiers(s[i], S, ordre)
<1>0. n \in Nat /\ IsFiniteSet(S)
  BY CompteAssumption, FS_Subset, FS_CardinalityType
<1>1. /\ s \in [1..n -> S]
      /\ \A j, k \in 1..n : j # k => s[j] # s[k]
      /\ \A j, k \in 1..n : j < k => Avant(s[j], s[k], ordre)
  BY TriDefini
<1> HIDE DEF s
<1>2. IsFiniteSet(1..n) /\ Cardinality(1..n) = n
  BY <1>0, FS_Interval
<1>3. s \in Surjection(1..n, S)
  <2>1. s \in Injection(1..n, S)
    BY <1>1, Fun_IsInj
  <2> QED BY <2>1, <1>0, <1>2, FS_Injection
<1>4. \A d \in S : \E k \in 1..n : s[k] = d
  BY <1>3 DEF Surjection
<1>5. ASSUME NEW k \in 1..i  PROVE s[k] \in P
  <2>1. k \in 1..n /\ s[k] \in S /\ s[i] \in S
    BY <1>0, <1>1
  <2>2. k = i \/ k < i
    BY <1>0
  <2> QED BY <1>1, <2>1, <2>2 DEF Premiers
<1>6. ASSUME NEW d \in P  PROVE \E k \in 1..i : f[k] = d
  <2>1. d \in S /\ s[i] \in S /\ (d = s[i] \/ Avant(d, s[i], ordre))
    BY <1>1 DEF Premiers
  <2>2. PICK k \in 1..n : s[k] = d
    BY <2>1, <1>4
  <2>3. CASE k > i
    <3>1. Avant(s[i], d, ordre)
      BY <1>0, <1>1, <2>2, <2>3
    <3> QED BY <3>1, <2>1, OrdreStrict
  <2> QED BY <1>0, <2>2, <2>3
<1>7. f \in [1..i -> P]
  BY <1>5
<1>8. f \in Bijection(1..i, P)
  <2>1. \A j, k \in 1..i : f[j] = f[k] => j = k
    BY <1>0, <1>1
  <2> QED BY <2>1, <1>6, <1>7, Fun_IsBij
<1>9. IsFiniteSet(1..i) /\ Cardinality(1..i) = i
  BY <1>0, FS_Interval
<1> HIDE DEF f, P
<1>10. ExistsBijection(1..i, P)
  BY <1>8 DEF ExistsBijection
<1>11. Cardinality(P) = i
  BY <1>9, <1>10, FS_Bijection
<1> QED BY <1>11 DEF P, s

-----------------------------------------------------------------------------
(* Pages                                                                   *)

LEMMA MinDeux ==
  ASSUME NEW a \in Int, NEW b \in Int
  PROVE  Min({a, b}) = IF a <= b THEN a ELSE b
BY DEF Min

LEMMA TriSuite ==
  ASSUME TypeFiches, NomsUniques, NEW motif, NEW ordre
  PROVE  LET S == Correspondants(motif)
             s == ClauseTri(S, ordre)
             n == Cardinality(S)
         IN  /\ s \in Seq(Categories) /\ Len(s) = n /\ n \in Nat
             /\ \A i \in 1..n : s[i] \in S /\ Rang(s[i], motif, ordre) = i
             /\ \A c \in S : Rang(c, motif, ordre) \in 1..n /\ s[Rang(c, motif, ordre)] = c
<1> DEFINE S == Correspondants(motif)
           s == ClauseTri(S, ordre)
           n == Cardinality(S)
<1>1. S \in SUBSET Categories /\ NomsDistincts(S)
  BY DEF Correspondants, NomsDistincts, NomsUniques, NomPris
<1>2. \A c \in S : Premiers(c, S, ordre) = Jusqua(c, motif, ordre)
  BY DEF Premiers, Jusqua
<1> HIDE DEF S
<1>3. s \in [1..n -> S] /\ n \in Nat
  BY <1>1, TriDefini, CompteAssumption, FS_Subset, FS_CardinalityType
<1>4. \A i \in 1..n : Cardinality(Premiers(s[i], S, ordre)) = i
  BY <1>1, PlaceRang
<1>5. \A i, j \in 1..n : i # j => s[i] # s[j]
  BY <1>1, TriDefini
<1> HIDE DEF s
<1>6. \A i \in 1..n : s[i] \in S /\ Rang(s[i], motif, ordre) = i
  BY <1>2, <1>3, <1>4 DEF Rang
<1>7. ASSUME NEW c \in S
      PROVE  Rang(c, motif, ordre) \in 1..n /\ s[Rang(c, motif, ordre)] = c
  <2>1. Rang(c, motif, ordre) \in 1..n
    BY <1>1, <1>2, RangsBornes DEF Rang
  <2>2. \E i \in 1..n : s[i] = c
    <3>1. s \in Injection(1..n, S)
      BY <1>3, <1>5, Fun_IsInj
    <3>2. IsFiniteSet(1..n) /\ Cardinality(1..n) = n
      BY <1>3, FS_Interval
    <3>3. IsFiniteSet(S)
      BY <1>1, CompteAssumption, FS_Subset
    <3>4. s \in Surjection(1..n, S)
      BY <3>1, <3>2, <3>3, FS_Injection
    <3> QED BY <3>4 DEF Surjection
  <2> QED BY <1>6, <2>1, <2>2
<1>8. s \in Seq(Categories) /\ Len(s) = n
  BY <1>1, <1>3
<1> QED BY <1>3, <1>6, <1>7, <1>8 DEF s, S

(* A page holds the rows whose places it covers, each once.                *)
EstPage(F, motif, ordre, o, t) ==
  /\ F \in Seq(Categories) /\ IsInjective(F)
  /\ Range(F) = {c \in Correspondants(motif) : o < Rang(c, motif, ordre) /\ Rang(c, motif, ordre) <= o + t}

LEMMA FenetreTriee ==
  ASSUME TypeFiches, NomsUniques, NEW motif, NEW ordre, NEW o \in Nat, NEW t \in Nat \ {0}
  PROVE  EstPage(Fenetre(ClauseTri(Correspondants(motif), ordre), o, t), motif, ordre, o, t)
<1> DEFINE S == Correspondants(motif)
           s == ClauseTri(S, ordre)
           n == Cardinality(S)
           h == Min({o + t, Len(s)})
           F == Fenetre(s, o, t)
<1>1. /\ s \in Seq(Categories) /\ Len(s) = n /\ n \in Nat
      /\ \A i \in 1..n : s[i] \in S /\ Rang(s[i], motif, ordre) = i
      /\ \A c \in S : Rang(c, motif, ordre) \in 1..n /\ s[Rang(c, motif, ordre)] = c
  BY TriSuite
<1> HIDE DEF s, S, n
<1>2. h = IF o + t <= n THEN o + t ELSE n
  BY <1>1, MinDeux
<1>3. F = SubSeq(s, o + 1, h)
  BY DEF Fenetre
<1> HIDE DEF h, F
<1>4. h \in Nat /\ h <= n /\ h <= o + t
  BY <1>1, <1>2
<1>5. F \in Seq(Categories) /\ DOMAIN F = 1..(h - o) /\ \A i \in 1..(h - o) : F[i] = s[o + i]
  BY <1>1, <1>3, <1>4
<1>6. \A i \in 1..(h - o) : o + i \in 1..n /\ o + i <= o + t
  BY <1>1, <1>4
<1>7. IsInjective(F)
  BY <1>1, <1>5, <1>6 DEF IsInjective
<1>8. ASSUME NEW c \in Range(F)
      PROVE  c \in S /\ o < Rang(c, motif, ordre) /\ Rang(c, motif, ordre) <= o + t
  <2>1. PICK i \in 1..(h - o) : c = s[o + i]
    BY <1>5 DEF Range
  <2> QED BY <1>1, <1>6, <2>1
<1>9. ASSUME NEW c \in S, o < Rang(c, motif, ordre), Rang(c, motif, ordre) <= o + t
      PROVE  c \in Range(F)
  <2>1. Rang(c, motif, ordre) \in 1..n /\ s[Rang(c, motif, ordre)] = c
    BY <1>1
  <2>2. Rang(c, motif, ordre) - o \in 1..(h - o)
    BY <1>1, <1>2, <1>9, <2>1
  <2>3. F[Rang(c, motif, ordre) - o] = c
    BY <1>5, <2>1, <2>2
  <2> QED BY <1>5, <2>2, <2>3 DEF Range
<1>10. Range(F) = {c \in S : o < Rang(c, motif, ordre) /\ Rang(c, motif, ordre) <= o + t}
  BY <1>8, <1>9
<1> QED BY <1>5, <1>7, <1>10 DEF F, s, S, EstPage

(* What a reader has seen and a page, one after the other.                 *)
LEMMA PagesBoutABout ==
  ASSUME NEW s \in Seq(Categories), NEW f \in Seq(Categories)
  PROVE  /\ s \o f \in Seq(Categories)
         /\ Range(s \o f) = Range(s) \cup Range(f)
         /\ IsInjective(s) /\ IsInjective(f) /\ Range(s) \cap Range(f) = {} => IsInjective(s \o f)
<1> DEFINE v == s \o f
           m == Len(s)
           n == Len(f)
<1>1. /\ v \in Seq(Categories) /\ m \in Nat /\ n \in Nat /\ DOMAIN v = 1..(m + n)
      /\ DOMAIN s = 1..m /\ DOMAIN f = 1..n
      /\ \A i \in 1..m : v[i] = s[i]
      /\ \A i \in 1..n : v[m + i] = f[i]
  OBVIOUS
<1> HIDE DEF v, m, n
<1>2. \A i \in 1..(m + n) : i \in 1..m \/ \E k \in 1..n : i = m + k
  <2>1. TAKE i \in 1..(m + n)
  <2>2. CASE i > m
    <3>1. i - m \in 1..n /\ i = m + (i - m)
      BY <1>1, <2>2
    <3> QED BY <3>1
  <2> QED BY <1>1, <2>2
<1>3. \A k \in 1..n : m + k \in 1..(m + n)
  BY <1>1
<1>4. \A k \in 1..m : k \in 1..(m + n)
  BY <1>1
<1>5. ASSUME NEW i \in 1..(m + n)  PROVE v[i] \in Range(s) \cup Range(f)
  <2>1. CASE i \in 1..m
    BY <1>1, <2>1 DEF Range
  <2>2. ASSUME NEW k \in 1..n, i = m + k  PROVE v[i] \in Range(f)
    <3>1. v[i] = f[k] /\ k \in DOMAIN f
      BY <1>1, <2>2
    <3> QED BY <3>1 DEF Range
  <2> QED BY <1>2, <2>1, <2>2
<1>6. Range(s) \subseteq Range(v)
  BY <1>1, <1>4 DEF Range
<1>7. ASSUME NEW k \in 1..n  PROVE f[k] \in Range(v)
  <2>1. v[m + k] = f[k] /\ m + k \in DOMAIN v
    BY <1>1, <1>3
  <2> QED BY <2>1 DEF Range
<1>8. ASSUME IsInjective(s), IsInjective(f), Range(s) \cap Range(f) = {},
             NEW i \in 1..(m + n), NEW j \in 1..(m + n), v[i] = v[j]
      PROVE  i = j
  <2>1. CASE i \in 1..m /\ j \in 1..m
    BY <1>1, <1>8, <2>1 DEF IsInjective
  <2>2. ASSUME NEW k \in 1..n, NEW l \in 1..n, i = m + k, j = m + l  PROVE i = j
    <3>1. f[k] = f[l]
      BY <1>1, <1>8, <2>2
    <3> QED BY <1>1, <1>8, <2>2, <3>1 DEF IsInjective
  <2>3. ASSUME NEW a \in 1..m, NEW k \in 1..n  PROVE v[a] # v[m + k]
    <3>1. v[a] \in Range(s) /\ v[m + k] \in Range(f)
      BY <1>1 DEF Range
    <3> QED BY <1>8, <3>1
  <2> QED BY <1>2, <1>8, <2>1, <2>2, <2>3
<1>9. IsInjective(s) /\ IsInjective(f) /\ Range(s) \cap Range(f) = {} => IsInjective(v)
  BY <1>1, <1>8 DEF IsInjective
<1>10. Range(v) = Range(s) \cup Range(f)
  BY <1>1, <1>5, <1>6, <1>7 DEF Range
<1> QED BY <1>1, <1>9, <1>10 DEF v

(* The arithmetic of OFFSET on machine integers.                           *)
LEMMA EntierExact ==
  ASSUME NEW n \in Nat, n <= IntMax
  PROVE  EntierMachine(n, IntMax) = n
BY CompteAssumption DEF EntierMachine

LEMMA EntierDeborde ==
  ASSUME NEW n \in Nat, n > IntMax, n <= 2 * IntMax + 1
  PROVE  EntierMachine(n, IntMax) < 0
<1> DEFINE h == IntMax + 1
<1>1. h \in Nat \ {0} /\ n + h \in Nat /\ n + h >= 2 * h /\ n + h < 4 * h
  BY CompteAssumption
<1>2. n + h - 2 * h \in Nat /\ n + h - 2 * h < h
  BY CompteAssumption
<1>3. (n + h) % (2 * h) = n + h - 2 * h
  BY <1>1, <1>2
<1>4. EntierMachine(n, IntMax) = ((n + h) % (2 * h)) - h
  BY CompteAssumption DEF EntierMachine
<1> QED BY <1>1, <1>2, <1>3, <1>4

LEMMA EntierType ==
  ASSUME NEW n \in Int
  PROVE  EntierMachine(n, IntMax) \in Int
BY CompteAssumption DEF EntierMachine

(* Page p is followed by another exactly when the rows counted fill more.  *)
LEMMA PagesEtLignes ==
  ASSUME NEW p \in Nat \ {0}, NEW n \in Nat, NEW t \in Nat \ {0}
  PROVE  /\ TotalPages(n, t) \in Nat
         /\ p < TotalPages(n, t) <=> p * t < n
<1> DEFINE q == (n + t - 1) \div t
<1>1. q \in Nat /\ q * t <= n + t - 1 /\ n + t - 1 < (q + 1) * t
  BY Z3
<1>2. ASSUME p < q  PROVE p * t < n
  <2>1. (p + 1) * t <= q * t
    BY <1>1, <1>2
  <2>2. (p + 1) * t = p * t + t
    BY Z3
  <2> QED BY <1>1, <2>1, <2>2
<1>3. ASSUME p >= q  PROVE p * t >= n
  <2>1. p * t >= q * t
    BY <1>1, <1>3
  <2>2. (q + 1) * t = q * t + t
    BY <1>1
  <2> QED BY <1>1, <2>1, <2>2
<1> HIDE DEF q
<1>4. p * t \in Nat
  OBVIOUS
<1> QED BY <1>1, <1>2, <1>3, <1>4 DEF TotalPages, q

-----------------------------------------------------------------------------
(* Type correctness                                                        *)

LEMMA NormaliserType ==
  ASSUME NEW page \in PagesDemandees, NEW taille \in TaillesDemandees, NEW ordre, NEW motif \in Recherches
  PROVE  Normaliser(page, taille, ordre, motif) \in ParametresListe
<1>1. page \in Int /\ taille \in Int
  BY ListesAssumption
<1> QED BY <1>1, ListesAssumption DEF Normaliser, ParametresListe, PageParDefaut

LEMMA CorrespondantsType ==
  ASSUME NEW motif
  PROVE  /\ Correspondants(motif) \in SUBSET Categories
         /\ Cardinality(Correspondants(motif)) \in Nat
         /\ Cardinality(Correspondants(motif)) <= Cardinality(Categories)
         /\ IsFiniteSet(Correspondants(motif))
<1>1. Correspondants(motif) \in SUBSET Categories
  BY DEF Correspondants
<1> QED BY <1>1, CompteAssumption, FS_Subset, FS_CardinalityType

LEMMA SuivreType ==
  ASSUME NEW q \in Lecture
  PROVE  Suivre(q) \in Lecture
<1> DEFINE m == q.params.motif
           avant == Correspondants(m)
           apres == {c \in Categories : categories'[c].etat = "present" /\ categories'[c].nom \in m}
           renommes == {c \in avant \cap apres : categories'[c].nom # categories[c].nom}
           arrives == (apres \ avant) \cup renommes
           partis == (avant \ apres) \cup renommes
           e == q.entree \/ arrives # {}
           s == q.sortie \/ partis # {}
           g == q.glisse \/ (q.phase = "comptee" /\ arrives # {})
<1>1. Suivre(q) = IF q.phase \notin {"analysee", "comptee"} THEN q
                  ELSE [q EXCEPT !.entree = e, !.sortie = s, !.glisse = g]
  BY DEF Suivre
<1>2. e \in BOOLEAN /\ s \in BOOLEAN /\ g \in BOOLEAN
  BY DEF Lecture
<1> HIDE DEF e, s, g
<1> QED BY <1>1, <1>2 DEF Lecture

-----------------------------------------------------------------------------
(* What a statement of a reader does to him                                *)

LEMMA AnalyseValeurs ==
  ASSUME InvListes, NEW x \in Lecteurs, AnalyserParametresListe(x)
  PROVE  /\ lectures' \in [Lecteurs -> Lecture] /\ UNCHANGED varsFiches
         /\ \A y \in Lecteurs \ {x} : lectures'[y] = lectures[y]
         /\ lectures[x].phase = "libre"
         /\ \E p \in ParametresListe :
              lectures'[x] = [lectures[x] EXCEPT !.phase = "analysee", !.params = p, !.premiere = p.page,
                                                 !.depart = Correspondants(p.motif)]
<1>1. PICK page \in PagesDemandees, taille \in TaillesDemandees, ordre \in {"", "DESC"}, motif \in Recherches :
        LET p == Normaliser(page, taille, ordre, motif) IN
        lectures' = [lectures EXCEPT ![x].phase = "analysee", ![x].params = p, ![x].premiere = p.page,
                                     ![x].depart = Correspondants(motif)]
  BY DEF AnalyserParametresListe
<1> DEFINE p == Normaliser(page, taille, ordre, motif)
           q == [lectures[x] EXCEPT !.phase = "analysee", !.params = p, !.premiere = p.page,
                                    !.depart = Correspondants(p.motif)]
<1>2. p \in ParametresListe /\ p.motif = motif
  BY NormaliserType DEF Normaliser
<1> HIDE DEF p
<1>3. lectures \in [Lecteurs -> Lecture]
  BY DEF InvListes
<1>4. lectures' = [lectures EXCEPT ![x] = q]
  BY <1>1, <1>2, <1>3 DEF p
<1>5. q \in Lecture
  BY <1>2, <1>3, CorrespondantsType DEF Lecture, ParametresListe
<1>6. lectures[x].phase = "libre" /\ UNCHANGED varsFiches
  BY DEF AnalyserParametresListe
<1>7. lectures'[x] = q /\ \A y \in Lecteurs \ {x} : lectures'[y] = lectures[y]
  BY <1>3, <1>4
<1> HIDE DEF q
<1>8. lectures' \in [Lecteurs -> Lecture]
  BY <1>3, <1>4, <1>5
<1> QED BY <1>2, <1>6, <1>7, <1>8 DEF q

LEMMA CompteValeurs ==
  ASSUME InvListes, NEW x \in Lecteurs, Compter(x)
  PROVE  /\ lectures' \in [Lecteurs -> Lecture] /\ UNCHANGED varsFiches
         /\ \A y \in Lecteurs \ {x} : lectures'[y] = lectures[y]
         /\ lectures[x].phase = "analysee"
         /\ LET n == Cardinality(Reste(x)) IN
            lectures'[x] = [lectures[x] EXCEPT !.total = n, !.phase = IF n = 0 THEN "finie" ELSE "comptee"]
<1> DEFINE n == Cardinality(Reste(x))
           q == [lectures[x] EXCEPT !.total = n, !.phase = IF n = 0 THEN "finie" ELSE "comptee"]
<1>1. n \in Nat
  BY CorrespondantsType DEF Reste
<1>2. lectures \in [Lecteurs -> Lecture]
  BY DEF InvListes
<1>3. /\ lectures[x].phase = "analysee" /\ UNCHANGED varsFiches
      /\ lectures' = [lectures EXCEPT ![x].total = n, ![x].phase = IF n = 0 THEN "finie" ELSE "comptee"]
  BY DEF Compter, Reste
<1> HIDE DEF n
<1>4. lectures' = [lectures EXCEPT ![x] = q]
  BY <1>2, <1>3
<1>5. q \in Lecture
  BY <1>1, <1>2 DEF Lecture
<1>6. lectures'[x] = q /\ \A y \in Lecteurs \ {x} : lectures'[y] = lectures[y]
  BY <1>2, <1>4
<1> HIDE DEF q
<1>7. lectures' \in [Lecteurs -> Lecture]
  BY <1>2, <1>4, <1>5
<1> QED BY <1>3, <1>6, <1>7 DEF q, n

(* The page a SELECT returns.                                              *)
Rendue(x) == Fenetre(ClauseTri(Reste(x), lectures[x].params.ordre), Offset(lectures[x].params), lectures[x].params.taille)
Suivante(x) == Page(x) < TotalPages(lectures[x].total, lectures[x].params.taille)

LEMMA RendueValeur ==
  ASSUME InvListes, NEW x \in Lecteurs, Offset(lectures[x].params) >= 0
  PROVE  /\ Rendue(x) \in Seq(Categories) /\ IsInjective(Rendue(x))
         /\ Range(Rendue(x)) = {c \in Reste(x) :
              /\ Offset(lectures[x].params) < Position(c, x)
              /\ Position(c, x) <= Offset(lectures[x].params) + lectures[x].params.taille}
<1> DEFINE p == lectures[x].params
           o == Offset(p)
<1>1. /\ p.page \in Nat \ {0} /\ p.taille \in 1..TailleMax /\ TailleMax \in Nat
      /\ TypeFiches /\ NomsUniques
  BY ListesAssumption DEF InvListes, InvFiches, Lecture, ParametresListe
<1>2. (p.page - 1) * p.taille \in Int
  BY <1>1
<1>3. o \in Int
  BY <1>2, EntierType DEF Offset
<1> HIDE DEF o
<1>4. o \in Nat /\ p.taille \in Nat \ {0}
  BY <1>1, <1>3 DEF o
<1>5. EstPage(Fenetre(ClauseTri(Correspondants(p.motif), p.ordre), o, p.taille), p.motif, p.ordre, o, p.taille)
  <2> HIDE DEF p
  <2> QED BY <1>1, <1>4, FenetreTriee
<1> QED BY <1>5 DEF EstPage, Rendue, Reste, Position, o

LEMMA ListeValeurs ==
  ASSUME InvListes, NEW x \in Lecteurs, ListerCategories(x)
  PROVE  /\ lectures' \in [Lecteurs -> Lecture] /\ UNCHANGED varsFiches
         /\ \A y \in Lecteurs \ {x} : lectures'[y] = lectures[y]
         /\ lectures[x].phase = "comptee"
         /\ \/ lectures'[x] = [lectures[x] EXCEPT !.phase = "echouee"]
            \/ /\ Offset(lectures[x].params) >= 0
               /\ lectures'[x] = [lectures[x] EXCEPT
                    !.vus = @ \o Rendue(x),
                    !.params.page = IF Suivante(x) THEN Page(x) + 1 ELSE Page(x),
                    !.phase = IF Suivante(x) THEN "analysee" ELSE "finie"]
<1>2. lectures \in [Lecteurs -> Lecture]
  BY DEF InvListes
<1>3. lectures[x].phase = "comptee" /\ UNCHANGED varsFiches
  BY DEF ListerCategories
<1>4. CASE lectures' = [lectures EXCEPT ![x].phase = "echouee"]
  <2>1. lectures'[x] = [lectures[x] EXCEPT !.phase = "echouee"] /\ \A y \in Lecteurs \ {x} : lectures'[y] = lectures[y]
    BY <1>2, <1>4
  <2>2. lectures' \in [Lecteurs -> Lecture]
    BY <1>2, <1>4 DEF Lecture
  <2> QED BY <1>3, <2>1, <2>2
<1>5. CASE /\ Offset(lectures[x].params) >= 0
           /\ lectures' = [lectures EXCEPT
                ![x].vus = @ \o Rendue(x),
                ![x].params.page = IF Suivante(x) THEN Page(x) + 1 ELSE Page(x),
                ![x].phase = IF Suivante(x) THEN "analysee" ELSE "finie"]
  <2> DEFINE f == Rendue(x)
             suite == Suivante(x)
             q == [lectures[x] EXCEPT !.vus = @ \o f, !.params.page = IF suite THEN Page(x) + 1 ELSE Page(x),
                                      !.phase = IF suite THEN "analysee" ELSE "finie"]
  <2>1. f \in Seq(Categories)
    BY <1>5, RendueValeur
  <2> HIDE DEF f, suite
  <2>2. q \in Lecture
    <3>1. lectures[x].vus \o f \in Seq(Categories)
      BY <1>2, <2>1 DEF Lecture
    <3>2. lectures[x].params \in ParametresListe
      BY <1>2 DEF Lecture
    <3>3. (IF suite THEN Page(x) + 1 ELSE Page(x)) \in Nat \ {0}
      BY <3>2 DEF ParametresListe, Page
    <3>4. [lectures[x].params EXCEPT !.page = IF suite THEN Page(x) + 1 ELSE Page(x)] \in ParametresListe
      BY <3>2, <3>3 DEF ParametresListe
    <3> QED BY <1>2, <3>1, <3>4 DEF Lecture
  <2>3. lectures' = [lectures EXCEPT ![x] = q]
    BY <1>2, <1>5 DEF f, suite
  <2>4. lectures'[x] = q /\ \A y \in Lecteurs \ {x} : lectures'[y] = lectures[y]
    BY <1>2, <2>3
  <2> HIDE DEF q
  <2>5. lectures' \in [Lecteurs -> Lecture]
    BY <1>2, <2>2, <2>3
  <2> QED BY <1>3, <1>5, <2>4, <2>5 DEF f, suite, q
<1> QED BY <1>4, <1>5 DEF ListerCategories, Rendue, Reste, Suivante, Page

LEMMA AnnulationValeurs ==
  ASSUME InvListes, NEW x \in Lecteurs, AnnulerLecture(x)
  PROVE  /\ lectures' \in [Lecteurs -> Lecture] /\ UNCHANGED varsFiches
         /\ \A y \in Lecteurs \ {x} : lectures'[y] = lectures[y]
         /\ lectures'[x] = [lectures[x] EXCEPT !.phase = "echouee"]
<1>1. lectures \in [Lecteurs -> Lecture] /\ UNCHANGED varsFiches
  BY DEF InvListes, AnnulerLecture
<1>2. lectures' = [lectures EXCEPT ![x].phase = "echouee"]
  BY DEF AnnulerLecture
<1> QED BY <1>1, <1>2 DEF Lecture

-----------------------------------------------------------------------------
(* The invariant, statement by statement                                   *)

LEMMA VueFigee ==
  ASSUME categories' = categories
  PROVE  /\ \A y : Reste(y)' = Correspondants(lectures'[y].params.motif)
         /\ \A y, c : Position(c, y)' = Rang(c, lectures'[y].params.motif, lectures'[y].params.ordre)
BY DEF Reste, Position, Correspondants, Rang, Jusqua, Avant

(* A reader nothing happens to, while the rows stay as they are.           *)
LEMMA LecteurFige ==
  ASSUME NEW y \in Lecteurs, EnOrdre(y), categories' = categories, lectures'[y] = lectures[y]
  PROVE  EnOrdre(y)'
<1>1. Reste(y)' = Reste(y) /\ \A c : Position(c, y)' = Position(c, y)
  BY VueFigee DEF Reste, Position
<1>2. /\ Suite(y)' /\ Compte(y)' /\ SansDoublonPour(y)' /\ SansOubliPour(y)' /\ PageHorsBornesPour(y)'
  BY <1>1 DEF EnOrdre, Suite, Compte, SansDoublonPour, SansOubliPour, PageHorsBornesPour, EnCours, Page,
     Decalage, Depassement
<1>3. Derriere(y)' /\ Devant(y)'
  BY <1>1 DEF EnOrdre, Derriere, Devant, EnCours, Page, Decalage, Depassement
<1> QED BY <1>2, <1>3 DEF EnOrdre

(* One who is done keeps what he has.                                      *)
LEMMA LecteurFini ==
  ASSUME NEW y \in Lecteurs, EnOrdre(y), lectures'[y].phase \in {"finie", "echouee"},
         lectures'[y].vus = lectures[y].vus, lectures'[y].entree = lectures[y].entree,
         lectures'[y].premiere = lectures[y].premiere, lectures'[y].depart = lectures[y].depart,
         lectures'[y].params = lectures[y].params, SansOubliPour(y)'
  PROVE  EnOrdre(y)'
<1>1. Suite(y)' /\ Compte(y)' /\ Derriere(y)' /\ Devant(y)'
  BY DEF Suite, Compte, Derriere, Devant, EnCours
<1>2. SansDoublonPour(y)' /\ PageHorsBornesPour(y)'
  BY DEF EnOrdre, SansDoublonPour, PageHorsBornesPour, Depassement
<1> QED BY <1>1, <1>2 DEF EnOrdre

LEMMA RangPositif ==
  ASSUME NEW motif, NEW ordre, NEW c \in Correspondants(motif)
  PROVE  Rang(c, motif, ordre) \in 1..Cardinality(Correspondants(motif))
<1> DEFINE S == Correspondants(motif)
<1>1. S \in SUBSET Categories
  BY DEF Correspondants
<1>2. Premiers(c, S, ordre) = Jusqua(c, motif, ordre)
  BY DEF Premiers, Jusqua
<1> HIDE DEF S
<1> QED BY <1>1, <1>2, RangsBornes DEF Rang, S

LEMMA AnalyseOrdre ==
  ASSUME InvListes, NEW x \in Lecteurs, AnalyserParametresListe(x)
  PROVE  EnOrdre(x)'
<1>1. PICK p \in ParametresListe :
        lectures'[x] = [lectures[x] EXCEPT !.phase = "analysee", !.params = p, !.premiere = p.page,
                                           !.depart = Correspondants(p.motif)]
  BY AnalyseValeurs
<1>2. lectures[x] \in Lecture /\ lectures[x].phase = "libre" /\ EnOrdre(x) /\ categories' = categories
  BY AnalyseValeurs DEF InvListes, varsFiches, rangees
<1>3. lectures[x].vus = <<>>
  BY <1>2 DEF EnOrdre, Suite
<1>4. /\ lectures'[x].phase = "analysee" /\ lectures'[x].params = p /\ lectures'[x].premiere = p.page
      /\ lectures'[x].depart = Correspondants(p.motif) /\ lectures'[x].vus = <<>>
  BY <1>1, <1>2, <1>3 DEF Lecture
<1>5. Reste(x)' = Correspondants(p.motif) /\ \A c : Position(c, x)' = Rang(c, p.motif, p.ordre)
  BY <1>2, <1>4, VueFigee
<1>6. p.page \in Nat \ {0} /\ p.taille \in Nat
  BY ListesAssumption DEF ParametresListe
<1>7. Suite(x)' /\ Compte(x)' /\ SansDoublonPour(x)' /\ SansOubliPour(x)' /\ PageHorsBornesPour(x)'
  BY <1>4 DEF Suite, Compte, SansDoublonPour, SansOubliPour, PageHorsBornesPour, EnCours, Page, IsInjective
<1>8. Derriere(x)'
  BY <1>4, <1>5 DEF Derriere, Page, Range
<1>9. Devant(x)'
  <2>1. ASSUME p.page = 1, NEW c \in Correspondants(p.motif)  PROVE Rang(c, p.motif, p.ordre) > (p.page - 1) * p.taille
    <3>1. (p.page - 1) * p.taille = 0
      BY <1>6, <2>1
    <3> QED BY <3>1, RangPositif, CorrespondantsType
  <2> QED BY <1>4, <1>5, <2>1 DEF Devant, Decalage, Page
<1> QED BY <1>7, <1>8, <1>9 DEF EnOrdre

LEMMA CompteOrdre ==
  ASSUME InvListes, NEW x \in Lecteurs, Compter(x)
  PROVE  EnOrdre(x)'
<1> DEFINE n == Cardinality(Reste(x))
<1>1. lectures'[x] = [lectures[x] EXCEPT !.total = n, !.phase = IF n = 0 THEN "finie" ELSE "comptee"]
  BY CompteValeurs
<1>2. lectures[x] \in Lecture /\ lectures[x].phase = "analysee" /\ EnOrdre(x) /\ categories' = categories
  BY CompteValeurs DEF InvListes, varsFiches, rangees
<1>3. n \in Nat /\ n <= Cardinality(Categories) /\ IsFiniteSet(Reste(x))
  BY CorrespondantsType DEF Reste
<1>4. n = 0 <=> Reste(x) = {}
  BY <1>3, FS_EmptySet
<1>5. ASSUME ~lectures[x].entree  PROVE n <= Cardinality(lectures[x].depart)
  <2>1. Reste(x) \subseteq lectures[x].depart /\ lectures[x].depart \in SUBSET Categories
    BY <1>2, <1>5 DEF EnOrdre, Derriere, EnCours, Lecture
  <2>2. IsFiniteSet(lectures[x].depart)
    BY <2>1, CompteAssumption, FS_Subset
  <2> QED BY <2>1, <2>2, FS_Subset
<1> HIDE DEF n
<1>6. CASE n = 0
  <2>1. SansOubliPour(x)'
    BY <1>1, <1>2, <1>4, <1>6 DEF SansOubliPour, EnOrdre, Devant, EnCours, Lecture
  <2> QED BY <1>1, <1>2, <1>6, <2>1, LecteurFini DEF Lecture
<1>7. CASE n # 0
  <2>1. lectures'[x] = [lectures[x] EXCEPT !.total = n, !.phase = "comptee"]
    BY <1>1, <1>7
  <2>2. /\ lectures'[x].phase = "comptee" /\ lectures'[x].total = n
        /\ lectures'[x].params = lectures[x].params /\ lectures'[x].premiere = lectures[x].premiere
        /\ lectures'[x].depart = lectures[x].depart /\ lectures'[x].vus = lectures[x].vus
        /\ lectures'[x].entree = lectures[x].entree /\ lectures'[x].sortie = lectures[x].sortie
    BY <1>2, <2>1 DEF Lecture
  <2>3. Reste(x)' = Reste(x) /\ \A c : Position(c, x)' = Position(c, x)
    BY <1>2, <2>2, VueFigee DEF Reste, Position
  <2>4. Suite(x)' /\ SansDoublonPour(x)' /\ SansOubliPour(x)' /\ PageHorsBornesPour(x)'
    BY <1>2, <2>2 DEF EnOrdre, Suite, SansDoublonPour, SansOubliPour, PageHorsBornesPour, EnCours, Page,
       Decalage, Depassement
  <2>5. Compte(x)'
    BY <1>3, <1>5, <2>2, <2>3 DEF Compte, n
  <2>6. Derriere(x)' /\ Devant(x)'
    BY <1>2, <2>2, <2>3 DEF EnOrdre, Derriere, Devant, EnCours, Page, Decalage, Depassement
  <2> QED BY <2>4, <2>5, <2>6 DEF EnOrdre
<1> QED BY <1>6, <1>7

(* Of an OFFSET: p pages of t rows, and the next.                          *)
LEMMA DecalageSuivant ==
  ASSUME NEW p \in Nat \ {0}, NEW t \in Nat
  PROVE  (p - 1) * t \in Nat /\ ((p + 1) - 1) * t = (p - 1) * t + t /\ p * t = (p - 1) * t + t
<1>1. PICK n \in Nat : p = n + 1
  <2>1. p - 1 \in Nat /\ p = (p - 1) + 1
    OBVIOUS
  <2> QED BY <2>1
<1>2. n * t \in Nat /\ (n + 1) * t = n * t + t
  BY Z3
<1>3. p - 1 = n /\ (p + 1) - 1 = n + 1
  BY <1>1
<1> QED BY <1>1, <1>2, <1>3

(* Where the OFFSET is what the page asks for: wherever it matters.        *)
LEMMA OffsetExact ==
  ASSUME InvListes, NEW x \in Lecteurs, lectures[x].phase = "comptee", Offset(lectures[x].params) >= 0
  PROVE  /\ Page(x) \in Nat \ {0} /\ Decalage(x) \in Nat /\ lectures[x].params.taille \in Nat \ {0}
         /\ lectures[x].premiere <= Page(x)
         /\ \/ Suivante(x) \/ lectures[x].vus # <<>> \/ lectures[x].premiere = 1 \/ Decalage(x) <= 2 * IntMax + 1
            => Offset(lectures[x].params) = Decalage(x)
         /\ Suivante(x) <=> Decalage(x) + lectures[x].params.taille < lectures[x].total
<1> DEFINE p == Page(x)
           t == lectures[x].params.taille
           N == lectures[x].total
           d == Decalage(x)
           o == Offset(lectures[x].params)
           C == Cardinality(Categories)
<1>1. lectures[x] \in Lecture /\ EnOrdre(x)
  BY DEF InvListes
<1>2. p \in Nat \ {0} /\ t \in Nat \ {0} /\ N \in Nat /\ lectures[x].premiere \in Nat
  BY <1>1, ListesAssumption DEF Lecture, ParametresListe, Page
<1>3. d = (p - 1) * t /\ o = EntierMachine(d, IntMax)
  BY DEF Decalage, Page, Offset
<1>4. C \in Nat /\ C <= IntMax /\ IntMax \in Nat
  BY CompteAssumption, FS_CardinalityType
<1>5. N <= C
  BY <1>1 DEF EnOrdre, Compte
<1>6. \/ p = lectures[x].premiere /\ lectures[x].vus = <<>>
      \/ p > lectures[x].premiere /\ d <= C
  BY <1>1 DEF EnOrdre, Suite, EnCours
<1> HIDE DEF p, t, N, d, o, C
<1>7. d \in Nat /\ p * t = d + t
  BY <1>2, <1>3, DecalageSuivant
<1>8. Suivante(x) <=> d + t < N
  <2>1. Suivante(x) <=> p < TotalPages(N, t)
    BY DEF Suivante, p, t, N
  <2> QED BY <1>2, <1>7, <2>1, PagesEtLignes
<1>9. d <= IntMax => o = d
  BY <1>3, <1>7, EntierExact
<1>10. d <= 2 * IntMax + 1 => d <= IntMax \/ o < 0
  BY <1>3, <1>4, <1>7, EntierDeborde
<1>11. p = 1 => d = 0
  BY <1>2, <1>3
<1>12. o \in Int /\ o >= 0
  BY <1>3, <1>7, EntierType DEF o
<1>13. Suivante(x) \/ lectures[x].vus # <<>> \/ lectures[x].premiere = 1 => d <= IntMax
  BY <1>2, <1>4, <1>5, <1>6, <1>7, <1>8, <1>11
<1>14. Suivante(x) \/ lectures[x].vus # <<>> \/ lectures[x].premiere = 1 \/ d <= 2 * IntMax + 1 => o = d
  BY <1>9, <1>10, <1>12, <1>13
<1>15. lectures[x].premiere <= p
  BY <1>2, <1>6
<1> QED BY <1>2, <1>7, <1>8, <1>14, <1>15 DEF p, t, N, d, o

LEMMA ListeOrdre ==
  ASSUME InvListes, NEW x \in Lecteurs, ListerCategories(x)
  PROVE  EnOrdre(x)'
<1>1. lectures[x] \in Lecture /\ lectures[x].phase = "comptee" /\ EnOrdre(x) /\ categories' = categories
  BY ListeValeurs DEF InvListes, varsFiches, rangees
<1>2. CASE lectures'[x] = [lectures[x] EXCEPT !.phase = "echouee"]
  BY <1>1, <1>2, LecteurFini DEF Lecture, SansOubliPour
<1>3. ASSUME Offset(lectures[x].params) >= 0,
             lectures'[x] = [lectures[x] EXCEPT
               !.vus = @ \o Rendue(x),
               !.params.page = IF Suivante(x) THEN Page(x) + 1 ELSE Page(x),
               !.phase = IF Suivante(x) THEN "analysee" ELSE "finie"]
      PROVE  EnOrdre(x)'
  <2> DEFINE S == Reste(x)
             f == Rendue(x)
             t == lectures[x].params.taille
             d == Decalage(x)
             o == Offset(lectures[x].params)
             N == lectures[x].total
             vus == lectures[x].vus
             depart == lectures[x].depart
             premiere == lectures[x].premiere
  <2>1. /\ Page(x) \in Nat \ {0} /\ d \in Nat /\ t \in Nat \ {0} /\ premiere <= Page(x)
        /\ Suivante(x) \/ vus # <<>> \/ premiere = 1 \/ d <= 2 * IntMax + 1 => o = d
        /\ Suivante(x) <=> d + t < N
    BY <1>1, <1>3, OffsetExact
  <2>2. /\ f \in Seq(Categories) /\ IsInjective(f)
        /\ Range(f) = {c \in S : o < Position(c, x) /\ Position(c, x) <= o + t}
    BY <1>3, RendueValeur
  <2>3. /\ vus \in Seq(Categories) /\ N \in Nat /\ premiere \in Nat /\ depart \in SUBSET Categories
        /\ lectures[x].params \in ParametresListe
    BY <1>1 DEF Lecture
  <2>4. /\ lectures'[x].vus = vus \o f
        /\ lectures'[x].params.page = (IF Suivante(x) THEN Page(x) + 1 ELSE Page(x))
        /\ lectures'[x].phase = (IF Suivante(x) THEN "analysee" ELSE "finie")
        /\ lectures'[x].params.taille = t /\ lectures'[x].params.motif = lectures[x].params.motif
        /\ lectures'[x].params.ordre = lectures[x].params.ordre
        /\ lectures'[x].premiere = premiere /\ lectures'[x].depart = depart
        /\ lectures'[x].entree = lectures[x].entree /\ lectures'[x].sortie = lectures[x].sortie
        /\ lectures'[x].glisse = lectures[x].glisse
    <3> HIDE DEF f
    <3> QED BY <1>1, <1>3, <2>3 DEF Lecture, ParametresListe, f
  <2>5. Reste(x)' = S /\ \A c : Position(c, x)' = Position(c, x)
    BY <1>1, <2>4, VueFigee DEF Reste, Position
  <2>6. /\ Cardinality(S) \in Nat /\ \A c \in S : Position(c, x) \in 1..Cardinality(S)
        /\ IsFiniteSet(depart) /\ Cardinality(depart) \in Nat
    BY <2>3, RangPositif, CorrespondantsType, CompteAssumption, FS_Subset, FS_CardinalityType DEF Reste, Position
  <2>7. Depassement(x)' = Depassement(x)
    BY <2>4 DEF Depassement
  <2>8. Page(x) = premiere => Depassement(x) = d
    BY DEF Depassement, Decalage
  <2>9. ~lectures[x].entree =>
          /\ S \subseteq depart /\ \A c \in Range(vus) \cap S : Position(c, x) <= d
          /\ Cardinality(depart) <= Depassement(x) => Page(x) = premiere
          /\ N <= Cardinality(depart) /\ IsInjective(vus)
    BY <1>1 DEF EnOrdre, Derriere, Compte, SansDoublonPour, EnCours
  <2>10. premiere = 1 /\ ~lectures[x].sortie =>
           \A c \in depart : c \in S /\ (c \in Range(vus) \/ Position(c, x) > d)
    BY <1>1 DEF EnOrdre, Devant, EnCours
  <2> HIDE DEF S, f, t, d, o, N, vus, depart, premiere
  <2>11. /\ Range(vus \o f) = Range(vus) \cup Range(f)
         /\ IsInjective(vus) /\ Range(vus) \cap Range(f) = {} => IsInjective(vus \o f)
    BY <2>2, <2>3, PagesBoutABout
  <2>12. SansDoublonPour(x)'
    <3>1. ASSUME ~lectures[x].entree, NEW c \in Range(vus), c \in Range(f)  PROVE FALSE
      <4>1. vus # <<>>
        BY <3>1 DEF Range
      <4>2. o = d /\ c \in S /\ o < Position(c, x) /\ Position(c, x) <= d /\ Position(c, x) \in Nat
        BY <2>1, <2>2, <2>6, <2>9, <3>1, <4>1
      <4> QED BY <2>1, <4>2
    <3> QED BY <2>4, <2>9, <2>11, <3>1 DEF SansDoublonPour
  <2>13. CASE Suivante(x)
    <3>1. o = d /\ lectures'[x].phase = "analysee" /\ Page(x)' = Page(x) + 1
      BY <2>1, <2>4, <2>13 DEF Page
    <3>2. Decalage(x)' = d + t
      <4>1. Decalage(x)' = ((Page(x) + 1) - 1) * t
        BY <2>4, <3>1 DEF Decalage, Page
      <4>2. d = (Page(x) - 1) * t
        BY DEF d, t, Decalage
      <4> QED BY <2>1, <4>1, <4>2, DecalageSuivant
    <3>3. d + t < N /\ N <= Cardinality(Categories) /\ Cardinality(Categories) \in Nat
      BY <1>1, <2>1, <2>13, CompteAssumption, FS_CardinalityType DEF EnOrdre, Compte, N
    <3>4. ~lectures[x].entree => Cardinality(depart) > Depassement(x)
      <4>1. ASSUME ~lectures[x].entree, Cardinality(depart) <= Depassement(x)  PROVE FALSE
        <5>1. Depassement(x) = d /\ N <= Cardinality(depart)
          BY <2>8, <2>9, <4>1
        <5> QED BY <2>1, <2>3, <2>6, <3>3, <4>1, <5>1
      <4>2. Depassement(x) \in Int
        BY <1>1, ListesAssumption DEF Depassement, Lecture, ParametresListe
      <4> QED BY <2>6, <4>1, <4>2
    <3>5. Suite(x)' /\ Compte(x)' /\ SansOubliPour(x)'
      BY <2>1, <2>3, <2>4, <3>1, <3>2, <3>3 DEF Suite, Compte, SansOubliPour, EnCours
    <3>6. PageHorsBornesPour(x)'
      <4>1. Depassement(x) \in Int
        BY <1>1, ListesAssumption DEF Depassement, Lecture, ParametresListe
      <4> QED BY <2>4, <2>6, <2>7, <3>4, <4>1 DEF PageHorsBornesPour
    <3>7. Derriere(x)'
      <4>1. ASSUME ~lectures[x].entree, NEW c \in Range(vus \o f) \cap S  PROVE Position(c, x) <= d + t
        BY <2>1, <2>2, <2>6, <2>9, <2>11, <3>1, <4>1
      <4>2. Depassement(x) \in Int
        BY <1>1, ListesAssumption DEF Depassement, Lecture, ParametresListe
      <4> QED BY <2>4, <2>5, <2>6, <2>7, <2>9, <3>2, <3>4, <4>1, <4>2 DEF Derriere
    <3>8. Devant(x)'
      <4>1. ASSUME premiere = 1, ~lectures[x].sortie, NEW c \in depart
            PROVE  c \in S /\ (c \in Range(vus \o f) \/ Position(c, x) > d + t)
        <5>1. c \in S /\ (c \in Range(vus) \/ Position(c, x) > d) /\ Position(c, x) \in Nat
          BY <2>6, <2>10, <4>1
        <5> QED BY <2>1, <2>2, <2>11, <3>1, <5>1
      <4> QED BY <2>4, <2>5, <3>2, <4>1 DEF Devant
    <3> QED BY <2>12, <3>5, <3>6, <3>7, <3>8 DEF EnOrdre
  <2>14. CASE ~Suivante(x)
    <3>1. lectures'[x].phase = "finie" /\ N <= d + t
      BY <2>1, <2>3, <2>4, <2>14
    <3>2. Suite(x)' /\ Compte(x)' /\ Derriere(x)' /\ Devant(x)'
      BY <3>1 DEF Suite, Compte, Derriere, Devant, EnCours
    <3>3. SansOubliPour(x)'
      <4>1. ASSUME premiere = 1, ~lectures[x].sortie, ~lectures[x].glisse, NEW c \in depart
            PROVE  c \in Range(vus \o f)
        <5>1. Cardinality(S) <= N
          BY <1>1, <4>1 DEF EnOrdre, Compte, S, N
        <5>2. c \in S /\ (c \in Range(vus) \/ Position(c, x) > d) /\ Position(c, x) \in 1..Cardinality(S)
          BY <2>6, <2>10, <4>1
        <5>3. o = d
          BY <2>1, <4>1
        <5>4. Position(c, x) <= d + t
          BY <2>1, <2>3, <2>6, <3>1, <5>1, <5>2
        <5> QED BY <2>2, <2>11, <5>2, <5>3, <5>4
      <4> QED BY <2>4, <4>1 DEF SansOubliPour
    <3>4. PageHorsBornesPour(x)'
      <4>1. ASSUME ~lectures[x].entree, Cardinality(depart) <= Depassement(x), Depassement(x) <= 2 * IntMax + 1
            PROVE  vus \o f = <<>>
        <5>1. vus = <<>>
          BY <1>1, <4>1 DEF EnOrdre, PageHorsBornesPour, vus, depart
        <5>2. Depassement(x) = d
          BY <2>8, <2>9, <4>1
        <5>3. o = d
          BY <2>1, <4>1, <5>2
        <5>4. Cardinality(S) <= Cardinality(depart)
          BY <2>6, <2>9, <4>1, FS_Subset
        <5>5. Range(f) = {}
          BY <2>1, <2>2, <2>6, <4>1, <5>2, <5>3, <5>4
        <5>6. f = <<>>
          BY <2>2, <5>5 DEF Range
        <5> QED BY <5>1, <5>6
      <4> QED BY <2>4, <2>7, <4>1 DEF PageHorsBornesPour
    <3> QED BY <2>12, <3>2, <3>3, <3>4 DEF EnOrdre
  <2> QED BY <2>13, <2>14
<1> QED BY <1>2, <1>3, ListeValeurs

-----------------------------------------------------------------------------
(* The invariant, when the rows change                                     *)

(* The rows a reader's search matches after the step.                      *)
LEMMA SuivreValeurs ==
  ASSUME InvListes, ChangerFiches, NEW x \in Lecteurs
  PROVE  /\ ~EnCours(x) => lectures'[x] = lectures[x]
         /\ lectures'[x].phase = lectures[x].phase /\ lectures'[x].params = lectures[x].params
         /\ lectures'[x].premiere = lectures[x].premiere /\ lectures'[x].depart = lectures[x].depart
         /\ lectures'[x].total = lectures[x].total /\ lectures'[x].vus = lectures[x].vus
         /\ Reste(x)' = {c \in Categories : categories'[c].etat = "present"
                                              /\ categories'[c].nom \in lectures[x].params.motif}
         /\ EnCours(x) /\ ~lectures'[x].entree =>
              /\ ~lectures[x].entree /\ Reste(x)' \subseteq Reste(x)
              /\ \A c \in Reste(x)' : categories'[c].nom = categories[c].nom
         /\ EnCours(x) /\ ~lectures'[x].sortie =>
              /\ ~lectures[x].sortie /\ Reste(x) \subseteq Reste(x)'
              /\ \A c \in Reste(x) : categories'[c].nom = categories[c].nom
         /\ lectures[x].phase = "comptee" /\ ~lectures'[x].glisse =>
              ~lectures[x].glisse /\ Reste(x)' \subseteq Reste(x)
<1> DEFINE q == lectures[x]
           m == q.params.motif
           avant == Correspondants(m)
           apres == {c \in Categories : categories'[c].etat = "present" /\ categories'[c].nom \in m}
           renommes == {c \in avant \cap apres : categories'[c].nom # categories[c].nom}
           arrives == (apres \ avant) \cup renommes
           partis == (avant \ apres) \cup renommes
           e == q.entree \/ arrives # {}
           s == q.sortie \/ partis # {}
           g == q.glisse \/ (q.phase = "comptee" /\ arrives # {})
<1>1. lectures'[x] = Suivre(q) /\ q \in Lecture
  BY DEF ChangerFiches, InvListes
<1>2. Suivre(q) = IF q.phase \notin {"analysee", "comptee"} THEN q
                  ELSE [q EXCEPT !.entree = e, !.sortie = s, !.glisse = g]
  BY DEF Suivre
<1>3. e \in BOOLEAN /\ s \in BOOLEAN /\ g \in BOOLEAN
  BY <1>1 DEF Lecture
<1>4. ~e => ~q.entree /\ apres \subseteq avant /\ \A c \in apres : categories'[c].nom = categories[c].nom
  OBVIOUS
<1>5. ~s => ~q.sortie /\ avant \subseteq apres /\ \A c \in avant : categories'[c].nom = categories[c].nom
  OBVIOUS
<1>6. q.phase = "comptee" /\ ~g => ~q.glisse /\ apres \subseteq avant
  OBVIOUS
<1> HIDE DEF q, avant, apres, e, s, g
<1>7. /\ lectures'[x].phase = q.phase /\ lectures'[x].params = q.params
      /\ lectures'[x].premiere = q.premiere /\ lectures'[x].depart = q.depart
      /\ lectures'[x].total = q.total /\ lectures'[x].vus = q.vus
      /\ q.phase \notin {"analysee", "comptee"} => lectures'[x] = q
      /\ q.phase \in {"analysee", "comptee"} =>
           (lectures'[x].entree <=> e) /\ (lectures'[x].sortie <=> s) /\ (lectures'[x].glisse <=> g)
  BY <1>1, <1>2, <1>3 DEF Lecture
<1>8. Reste(x) = avant
  BY DEF Reste, avant, q
<1>9. Reste(x)' = apres
  BY <1>7 DEF Reste, Correspondants, apres, q
<1>10. EnCours(x) <=> q.phase \in {"analysee", "comptee"}
  BY DEF EnCours, q
<1>11. EnCours(x) /\ ~lectures'[x].entree =>
              /\ ~q.entree /\ Reste(x)' \subseteq Reste(x)
              /\ \A c \in Reste(x)' : categories'[c].nom = categories[c].nom
  BY <1>4, <1>7, <1>8, <1>9, <1>10
<1>12. EnCours(x) /\ ~lectures'[x].sortie =>
              /\ ~q.sortie /\ Reste(x) \subseteq Reste(x)'
              /\ \A c \in Reste(x) : categories'[c].nom = categories[c].nom
  BY <1>5, <1>7, <1>8, <1>9, <1>10
<1>13. q.phase = "comptee" /\ ~lectures'[x].glisse => ~q.glisse /\ Reste(x)' \subseteq Reste(x)
  BY <1>6, <1>7, <1>8, <1>9
<1> QED BY <1>7, <1>9, <1>10, <1>11, <1>12, <1>13 DEF q, apres

(* The positions when no row comes in, and when none goes out.             *)
LEMMA RangsBougent ==
  ASSUME InvListes, ChangerFiches, NEW x \in Lecteurs, EnCours(x)
  PROVE  /\ ~lectures'[x].entree => \A c \in Reste(x)' : Position(c, x)' <= Position(c, x)
         /\ ~lectures'[x].sortie => \A c \in Reste(x) : Position(c, x) <= Position(c, x)'
<1> DEFINE o == lectures[x].params.ordre
           S == Reste(x)
           T == {c \in Categories : categories'[c].etat = "present" /\ categories'[c].nom \in lectures[x].params.motif}
           J(c) == {d \in S : d = c \/ IF o = "ASC" THEN categories[d].nom < categories[c].nom
                                                    ELSE categories[d].nom > categories[c].nom}
           K(c) == {d \in T : d = c \/ IF o = "ASC" THEN categories'[d].nom < categories'[c].nom
                                                    ELSE categories'[d].nom > categories'[c].nom}
<1>1. Reste(x)' = T /\ lectures'[x].params = lectures[x].params
  BY SuivreValeurs
<1>2. \A c : Position(c, x) = Cardinality(J(c))
  BY DEF Position, Rang, Jusqua, Avant, Reste
<1>3. \A c : Position(c, x)' = Cardinality(K(c))
  BY <1>1 DEF Position, Rang, Jusqua, Avant, Correspondants
<1>4. S \in SUBSET Categories /\ T \in SUBSET Categories
  BY DEF Reste, Correspondants
<1>5. \A c : IsFiniteSet(J(c)) /\ IsFiniteSet(K(c))
  BY <1>4, CompteAssumption, FS_Subset
<1> HIDE DEF S, T
<1>6. ASSUME ~lectures'[x].entree, NEW c \in T  PROVE Cardinality(K(c)) <= Cardinality(J(c))
  <2>1. T \subseteq S /\ \A d \in T : categories'[d].nom = categories[d].nom
    BY <1>1, <1>6, SuivreValeurs DEF S
  <2>2. K(c) \subseteq J(c)
    BY <1>6, <2>1
  <2> QED BY <1>5, <2>2, FS_Subset
<1>7. ASSUME ~lectures'[x].sortie, NEW c \in S  PROVE Cardinality(J(c)) <= Cardinality(K(c))
  <2>1. S \subseteq T /\ \A d \in S : categories'[d].nom = categories[d].nom
    BY <1>1, <1>7, SuivreValeurs DEF S
  <2>2. J(c) \subseteq K(c)
    BY <1>7, <2>1
  <2> QED BY <1>5, <2>2, FS_Subset
<1> QED BY <1>1, <1>2, <1>3, <1>6, <1>7 DEF S

LEMMA FichesOrdre ==
  ASSUME InvListes, ChangerFiches, NEW x \in Lecteurs
  PROVE  EnOrdre(x)'
<1>1. lectures[x] \in Lecture /\ EnOrdre(x)
  BY DEF InvListes
<1>2. CASE ~EnCours(x)
  <2>1. lectures'[x] = lectures[x] /\ lectures[x].phase \notin {"analysee", "comptee"}
    BY <1>2, SuivreValeurs DEF EnCours
  <2>2. Compte(x)' /\ Derriere(x)' /\ Devant(x)'
    BY <2>1 DEF Compte, Derriere, Devant, EnCours
  <2>3. Suite(x)' /\ SansDoublonPour(x)' /\ SansOubliPour(x)' /\ PageHorsBornesPour(x)'
    BY <1>1, <2>1 DEF EnOrdre, Suite, SansDoublonPour, SansOubliPour, PageHorsBornesPour, EnCours, Page,
       Decalage, Depassement
  <2> QED BY <2>2, <2>3 DEF EnOrdre
<1>3. CASE EnCours(x)
  <2>1. /\ lectures'[x].phase = lectures[x].phase /\ lectures'[x].params = lectures[x].params
        /\ lectures'[x].premiere = lectures[x].premiere /\ lectures'[x].depart = lectures[x].depart
        /\ lectures'[x].total = lectures[x].total /\ lectures'[x].vus = lectures[x].vus
        /\ Reste(x)' \in SUBSET Categories
    BY SuivreValeurs
  <2>2. /\ ~lectures'[x].entree => /\ ~lectures[x].entree /\ Reste(x)' \subseteq Reste(x)
                                   /\ \A c \in Reste(x)' : Position(c, x)' <= Position(c, x)
        /\ ~lectures'[x].sortie => /\ ~lectures[x].sortie /\ Reste(x) \subseteq Reste(x)'
                                   /\ \A c \in Reste(x) : Position(c, x) <= Position(c, x)'
        /\ lectures[x].phase = "comptee" /\ ~lectures'[x].glisse =>
             ~lectures[x].glisse /\ Reste(x)' \subseteq Reste(x)
    BY <1>3, SuivreValeurs, RangsBougent
  <2>3. /\ Page(x)' = Page(x) /\ Decalage(x)' = Decalage(x) /\ Depassement(x)' = Depassement(x)
        /\ EnCours(x)'
    BY <1>3, <2>1 DEF Page, Decalage, Depassement, EnCours
  <2>4. Suite(x)' /\ SansOubliPour(x)'
    BY <1>1, <1>3, <2>1, <2>3 DEF EnOrdre, Suite, SansOubliPour, EnCours
  <2>5. SansDoublonPour(x)' /\ PageHorsBornesPour(x)'
    BY <1>1, <2>1, <2>2, <2>3 DEF EnOrdre, SansDoublonPour, PageHorsBornesPour
  <2>6. Compte(x)'
    <3>1. ASSUME lectures[x].phase = "comptee", ~lectures'[x].glisse
          PROVE  Cardinality(Reste(x)') <= lectures[x].total
      <4>1. Cardinality(Reste(x)) <= lectures[x].total /\ Reste(x)' \subseteq Reste(x)
        BY <1>1, <2>2, <3>1 DEF EnOrdre, Compte
      <4>2. IsFiniteSet(Reste(x)) /\ Cardinality(Reste(x)) \in Nat
        BY CorrespondantsType DEF Reste
      <4>3. IsFiniteSet(Reste(x)') /\ Cardinality(Reste(x)') <= Cardinality(Reste(x))
        BY <4>1, <4>2, FS_Subset
      <4>4. Cardinality(Reste(x)') \in Nat /\ lectures[x].total \in Nat
        BY <1>1, <4>3, FS_CardinalityType DEF Lecture
      <4> QED BY <4>1, <4>2, <4>3, <4>4
    <3>2. Cardinality(Reste(x))' = Cardinality(Reste(x)')
      OBVIOUS
    <3> QED BY <1>1, <2>1, <2>2, <3>1, <3>2 DEF EnOrdre, Compte
  <2>7. \A c \in Reste(x) : Position(c, x) \in Nat
    BY RangPositif DEF Position, Reste
  <2>8. Decalage(x) \in Int
    BY <1>1, ListesAssumption DEF Decalage, Page, Lecture, ParametresListe
  <2>9. \A c \in Reste(x)' : Position(c, x)' \in Nat
    <3>1. TypeFiches' /\ lectures'[x].params = lectures[x].params
      BY <2>1, EtapeType DEF ChangerFiches, InvListes, InvFiches
    <3>2. \A c : Jusqua(c, lectures[x].params.motif, lectures[x].params.ordre)' \in SUBSET Categories
      BY DEF Jusqua, Correspondants
    <3> QED BY <3>1, <3>2, CompteAssumption, FS_Subset, FS_CardinalityType DEF Position, Rang
  <2>10. Derriere(x)'
    <3>1. ASSUME ~lectures'[x].entree, NEW c \in Range(lectures[x].vus) \cap Reste(x)'
          PROVE  Position(c, x)' <= Decalage(x)
      <4>1. c \in Reste(x) /\ Position(c, x) <= Decalage(x) /\ Position(c, x)' <= Position(c, x)
        BY <1>1, <1>3, <2>2, <3>1 DEF EnOrdre, Derriere
      <4> QED BY <2>7, <2>8, <2>9, <3>1, <4>1
    <3> QED BY <1>1, <1>3, <2>1, <2>2, <2>3, <3>1 DEF EnOrdre, Derriere
  <2>11. Devant(x)'
    <3>1. ASSUME lectures[x].premiere = 1, ~lectures'[x].sortie, NEW c \in lectures[x].depart
          PROVE  c \in Reste(x)' /\ (c \in Range(lectures[x].vus) \/ Position(c, x)' > Decalage(x))
      <4>1. /\ c \in Reste(x) /\ (c \in Range(lectures[x].vus) \/ Position(c, x) > Decalage(x))
            /\ c \in Reste(x)' /\ Position(c, x) <= Position(c, x)'
        BY <1>1, <1>3, <2>2, <3>1 DEF EnOrdre, Devant
      <4> QED BY <2>7, <2>8, <2>9, <4>1
    <3> QED BY <2>1, <2>3, <3>1 DEF Devant
  <2> QED BY <2>4, <2>5, <2>6, <2>10, <2>11 DEF EnOrdre
<1> QED BY <1>2, <1>3

-----------------------------------------------------------------------------
(* The theorems                                                            *)

LEMMA ListesInit ==
  ASSUME Init
  PROVE  InvListes
<1>1. InvFiches
  BY InitInv DEF Init
<1>2. lectures \in [Lecteurs -> Lecture]
  BY ListesAssumption DEF Init, Lecture, ParametresListe
<1>3. ASSUME NEW x \in Lecteurs  PROVE EnOrdre(x)
  <2>1. lectures[x].phase = "libre" /\ lectures[x].vus = <<>>
    BY DEF Init
  <2> QED BY <2>1 DEF EnOrdre, Suite, Compte, Derriere, Devant, SansDoublonPour, SansOubliPour, PageHorsBornesPour,
             EnCours, IsInjective
<1> QED BY <1>1, <1>2, <1>3 DEF InvListes

LEMMA ListesEtape ==
  ASSUME InvListes, [Next]_vars
  PROVE  InvListes'
<1>1. InvFiches'
  <2>1. [NextFiches]_varsFiches
    BY DEF Next, vars, ChangerFiches, AnalyserParametresListe, Compter, ListerCategories, AnnulerLecture
  <2> QED BY <2>1, EtapeInv DEF InvListes
<1>2. CASE ChangerFiches
  <2>1. lectures' \in [Lecteurs -> Lecture]
    BY <1>2, SuivreType DEF ChangerFiches, InvListes
  <2>2. \A x \in Lecteurs : EnOrdre(x)'
    BY <1>2, FichesOrdre
  <2> QED BY <1>1, <2>1, <2>2 DEF InvListes
<1>3. ASSUME NEW x \in Lecteurs,
             AnalyserParametresListe(x) \/ Compter(x) \/ ListerCategories(x) \/ AnnulerLecture(x)
      PROVE  InvListes'
  <2>1. /\ lectures' \in [Lecteurs -> Lecture] /\ UNCHANGED varsFiches
        /\ \A y \in Lecteurs \ {x} : lectures'[y] = lectures[y]
    BY <1>3, AnalyseValeurs, CompteValeurs, ListeValeurs, AnnulationValeurs
  <2>2. EnOrdre(x)'
    <3>1. CASE AnnulerLecture(x)
      <4>1. lectures[x] \in Lecture /\ EnOrdre(x) /\ lectures'[x] = [lectures[x] EXCEPT !.phase = "echouee"]
        BY <3>1, AnnulationValeurs DEF InvListes
      <4> QED BY <4>1, LecteurFini DEF Lecture, SansOubliPour
    <3> QED BY <1>3, <3>1, AnalyseOrdre, CompteOrdre, ListeOrdre
  <2>3. ASSUME NEW y \in Lecteurs \ {x}  PROVE EnOrdre(y)'
    BY <2>1, LecteurFige DEF InvListes, varsFiches, rangees
  <2> QED BY <1>1, <2>1, <2>2, <2>3 DEF InvListes
<1>4. CASE UNCHANGED vars
  <2>1. ASSUME NEW y \in Lecteurs  PROVE EnOrdre(y)'
    BY <1>4, LecteurFige DEF InvListes, vars, varsFiches, rangees
  <2> QED BY <1>1, <1>4, <2>1 DEF InvListes, vars
<1> QED BY <1>2, <1>3, <1>4 DEF Next

LEMMA ListesToujours == Spec => []InvListes
BY ListesInit, ListesEtape, PTL DEF Spec

(* Rows, calls and readers keep their types (liste.go:18-64).              *)
THEOREM ListesBienTypees == Spec => []TypeListes
<1>1. InvListes => TypeListes
  BY DEF InvListes, InvFiches, TypeListes
<1> QED BY <1>1, ListesToujours, PTL

(* Whatever goes out, a reader behind whose back nothing comes in sees no  *)
(* row twice, on any number of pages (liste.go:62-64).                     *)
THEOREM JamaisDeDoublon == Spec => []SansDoublon
<1>1. InvListes => SansDoublon
  BY DEF InvListes, EnOrdre, SansDoublonPour, SansDoublon
<1> QED BY <1>1, ListesToujours, PTL

(* Whatever comes in between two pages, a reader who has gone from page 1  *)
(* to the last misses none of the rows that have stayed                    *)
(* (categorie_repository.go:68-78).                                        *)
THEOREM JamaisDOubli == Spec => []SansOubli
<1>1. InvListes => SansOubli
  BY DEF InvListes, EnOrdre, SansOubliPour, SansOubli
<1> QED BY <1>1, ListesToujours, PTL

(* A page beyond the end is empty or refused, for any page and size whose  *)
(* product does not wrap all the way around (liste.go:62-64).              *)
THEOREM HorsBornesVide == Spec => []PageHorsBornes
<1>1. InvListes => PageHorsBornes
  BY DEF InvListes, EnOrdre, PageHorsBornesPour, PageHorsBornes, Depassement
<1> QED BY <1>1, ListesToujours, PTL

(* The readers change nothing to what a PATCH without a name is told       *)
(* (categorie_service.go:81-101).                                          *)
THEOREM NomsRefusesAvecLecteurs == Spec => ConflitSansNom
<1>1. Init => InitFiches
  BY DEF Init
<1>2. [Next]_vars => [NextFiches]_varsFiches
  BY DEF Next, vars, ChangerFiches, AnalyserParametresListe, Compter, ListerCategories, AnnulerLecture
<1> QED BY <1>1, <1>2, NomsRefuses, PTL DEF Spec, SpecFiches

=============================================================================
