--------------------------- MODULE ServeurPreuves ---------------------------
(***************************************************************************)
(* Proofs about the rate limiter and the process around it: the bucket     *)
(* that is never forgotten, what the requests hold, the gauge, the pool    *)
(* that goes on, and what the base is closed on.                           *)
(***************************************************************************)
EXTENDS Serveur, FiniteSetTheorems, TLAPS

-----------------------------------------------------------------------------
(* The limiter of the code, alone, implements the bucket that is never     *)
(* forgotten, for every set of clients, rate, burst and idle time that     *)
(* OubliAssumption relates.                                                *)

(* What an idle entry has regained: after Oubli units it is full, so that  *)
(* to drop it and to make it again changes nothing.                        *)
Regagne ==
  \A c \in Clients : clients[c].present =>
    clients[c].jetons = Rafale \/ clients[c].jetons >= Debit * clients[c].inactif

InvLimiteur == TypeLimiteur /\ Regagne

(* A unit more of idle time is worth Debit tokens.                         *)
LEMMA UniteDePlus == \A d, n \in Nat : d * (n + 1) = d * n + d
<1>1. TAKE d, n \in Nat
<1> QED BY SMT

LEMMA JetonsType ==
  ASSUME TypeLimiteur, NEW c \in Clients
  PROVE  JetonsPour(c) \in 0..Rafale
BY LimiteurAssumption DEF TypeLimiteur, Entree, JetonsPour

(* An entry that is dropped is full.                                       *)
LEMMA OublieePleine ==
  ASSUME InvLimiteur, NEW c \in Oubliees
  PROVE  c \in Clients /\ clients[c].present /\ clients[c].jetons = Rafale
<1>1. c \in Clients /\ clients[c].present /\ clients[c].inactif > Oubli  BY DEF Oubliees
<1>2. clients[c].jetons \in 0..Rafale /\ clients[c].inactif \in 0..(Oubli + 1)
  BY <1>1 DEF InvLimiteur, TypeLimiteur, Entree
<1>3. clients[c].inactif = Oubli + 1  BY <1>1, <1>2, LimiteurAssumption
<1>4. clients[c].jetons = Rafale \/ clients[c].jetons >= Debit * (Oubli + 1)
  BY <1>1, <1>3 DEF InvLimiteur, Regagne
<1>5. Debit * (Oubli + 1) \in Nat  BY LimiteurAssumption
<1>6. clients[c].jetons = Rafale  BY <1>2, <1>4, <1>5, LimiteurAssumption, OubliAssumption
<1> QED BY <1>1, <1>6

-----------------------------------------------------------------------------
LEMMA InitInv == InitLimiteur => InvLimiteur
BY LimiteurAssumption DEF InitLimiteur, InvLimiteur, TypeLimiteur, Entree, Regagne

LEMMA VueInv ==
  ASSUME InvLimiteur, NEW c \in Clients, NEW n \in 0..Rafale, Vue(c, n),
         verdict' \in [Clients -> {"aucun", "admise", "refusee"}]
  PROVE  InvLimiteur'
<1>1. TypeLimiteur'
  <2>1. [present |-> TRUE, jetons |-> n, inactif |-> 0] \in Entree  BY LimiteurAssumption DEF Entree
  <2> QED BY <2>1 DEF InvLimiteur, TypeLimiteur, Vue
<1>2. ASSUME NEW d \in Clients, clients'[d].present
      PROVE  clients'[d].jetons = Rafale \/ clients'[d].jetons >= Debit * clients'[d].inactif
  <2>1. CASE d = c
    <3>1. clients'[d].inactif = 0 /\ clients'[d].jetons = n  BY <2>1 DEF InvLimiteur, TypeLimiteur, Vue
    <3>2. Debit * 0 = 0  BY LimiteurAssumption
    <3> QED BY <3>1, <3>2
  <2>2. CASE d # c
    <3>1. clients'[d] = clients[d]  BY <2>2 DEF InvLimiteur, TypeLimiteur, Vue
    <3> QED BY <1>2, <3>1 DEF InvLimiteur, Regagne
  <2> QED BY <2>1, <2>2
<1> QED BY <1>1, <1>2 DEF InvLimiteur, Regagne

LEMMA RequeteInv ==
  ASSUME InvLimiteur, NEW c \in Clients, Admettre(c) \/ Refuser(c)
  PROVE  InvLimiteur'
<1>1. JetonsPour(c) \in 0..Rafale  BY JetonsType DEF InvLimiteur
<1>2. CASE Admettre(c)
  <2>1. JetonsPour(c) - 1 \in 0..Rafale  BY <1>1, <1>2, LimiteurAssumption DEF Admettre
  <2>2. verdict' \in [Clients -> {"aucun", "admise", "refusee"}]
    BY <1>2 DEF Admettre, InvLimiteur, TypeLimiteur
  <2> QED BY <1>2, <2>1, <2>2, VueInv DEF Admettre
<1>3. CASE Refuser(c)
  <2>1. 0 \in 0..Rafale  BY LimiteurAssumption
  <2>2. verdict' \in [Clients -> {"aucun", "admise", "refusee"}]
    BY <1>3 DEF Refuser, InvLimiteur, TypeLimiteur
  <2> QED BY <1>3, <2>1, <2>2, VueInv DEF Refuser
<1> QED BY <1>2, <1>3

LEMMA NettoyerInv ==
  ASSUME InvLimiteur, Nettoyer
  PROVE  InvLimiteur'
<1>1. TypeLimiteur'  BY LimiteurAssumption DEF InvLimiteur, TypeLimiteur, Entree, Nettoyer
<1>2. Regagne'  BY DEF InvLimiteur, TypeLimiteur, Regagne, Nettoyer
<1> QED BY <1>1, <1>2 DEF InvLimiteur

LEMMA RemplirInv ==
  ASSUME InvLimiteur, Remplir
  PROVE  InvLimiteur'
<1>1. ASSUME NEW c \in Clients, clients[c].present
      PROVE  /\ clients'[c].present
             /\ clients'[c].jetons = Borne(clients[c].jetons + Debit, Rafale)
             /\ clients'[c].inactif = Borne(clients[c].inactif + 1, Oubli + 1)
             /\ clients[c].jetons \in 0..Rafale /\ clients[c].inactif \in 0..(Oubli + 1)
             /\ clients'[c] \in Entree
  <2>1. clients[c].jetons \in 0..Rafale /\ clients[c].inactif \in 0..(Oubli + 1)
    BY DEF InvLimiteur, TypeLimiteur, Entree
  <2>2. clients'[c] = [present |-> TRUE, jetons |-> Borne(clients[c].jetons + Debit, Rafale),
                       inactif |-> Borne(clients[c].inactif + 1, Oubli + 1)]
    BY <1>1 DEF Remplir
  <2>3. Borne(clients[c].jetons + Debit, Rafale) \in 0..Rafale
    BY <2>1, LimiteurAssumption DEF Borne
  <2>4. Borne(clients[c].inactif + 1, Oubli + 1) \in 0..(Oubli + 1)
    BY <2>1, LimiteurAssumption DEF Borne
  <2> QED BY <2>1, <2>2, <2>3, <2>4 DEF Entree
<1>2. TypeLimiteur'
  <2>1. ASSUME NEW c \in Clients  PROVE  clients'[c] \in Entree
    <3>1. CASE clients[c].present  BY <1>1, <3>1
    <3>2. CASE ~clients[c].present
      <4>1. clients'[c] = clients[c]  BY <3>2 DEF Remplir
      <4> QED BY <4>1 DEF InvLimiteur, TypeLimiteur
    <3> QED BY <3>1, <3>2
  <2>2. \E f : clients' = [c \in Clients |-> f[c]]
    <3>1. clients' = [c \in Clients |-> clients'[c]]  BY DEF Remplir
    <3> QED BY <3>1
  <2>3. verdict' \in [Clients -> {"aucun", "admise", "refusee"}]  BY DEF Remplir, InvLimiteur, TypeLimiteur
  <2> QED BY <2>1, <2>2, <2>3 DEF TypeLimiteur
<1>3. ASSUME NEW c \in Clients, clients'[c].present
      PROVE  clients'[c].jetons = Rafale \/ clients'[c].jetons >= Debit * clients'[c].inactif
  <2>1. clients[c].present  BY <1>3 DEF Remplir
  <2> DEFINE j == clients[c].jetons
             i == clients[c].inactif
  <2>2. /\ clients'[c].jetons = Borne(j + Debit, Rafale)
        /\ clients'[c].inactif = Borne(i + 1, Oubli + 1)
        /\ j \in 0..Rafale /\ i \in 0..(Oubli + 1)
    BY <1>1, <2>1
  <2>3. j = Rafale \/ j >= Debit * i  BY <2>1 DEF InvLimiteur, Regagne
  <2> HIDE DEF j, i
  <2>4. CASE j + Debit >= Rafale
    <3>1. Borne(j + Debit, Rafale) = Rafale  BY <2>2, <2>4, LimiteurAssumption DEF Borne
    <3> QED BY <2>2, <3>1
  <2>5. CASE j + Debit < Rafale
    <3>1. Borne(j + Debit, Rafale) = j + Debit  BY <2>2, <2>5, LimiteurAssumption DEF Borne
    <3>2. j >= Debit * i  BY <2>2, <2>3, <2>5, LimiteurAssumption
    <3>3. Debit * (i + 1) = Debit * i + Debit  BY <2>2, LimiteurAssumption, UniteDePlus
    <3>4. Debit * i \in Nat  BY <2>2, LimiteurAssumption
    <3>5. j + Debit >= Debit * (i + 1)  BY <2>2, <3>2, <3>3, <3>4, LimiteurAssumption
    <3>6. CASE i <= Oubli
      <4>1. Borne(i + 1, Oubli + 1) = i + 1  BY <2>2, <3>6, LimiteurAssumption DEF Borne
      <4> QED BY <2>2, <3>1, <3>5, <4>1
    <3>7. CASE i = Oubli + 1
      <4>1. Borne(i + 1, Oubli + 1) = i  BY <2>2, <3>7, LimiteurAssumption DEF Borne
      <4>2. j + Debit >= Debit * i  BY <2>2, <3>2, <3>4, LimiteurAssumption
      <4> QED BY <2>2, <3>1, <4>1, <4>2
    <3> QED BY <2>2, <3>6, <3>7, LimiteurAssumption
  <2> QED BY <2>2, <2>4, <2>5, LimiteurAssumption
<1> QED BY <1>2, <1>3 DEF InvLimiteur, Regagne

LEMMA EtapeInv ==
  ASSUME InvLimiteur, [NextLimiteur]_varsLimiteur
  PROVE  InvLimiteur'
<1>1. CASE Nettoyer  BY <1>1, NettoyerInv
<1>2. CASE Remplir  BY <1>2, RemplirInv
<1>3. CASE \E c \in Clients : Admettre(c) \/ Refuser(c)  BY <1>3, RequeteInv
<1>4. CASE UNCHANGED varsLimiteur
  BY <1>4 DEF varsLimiteur, InvLimiteur, TypeLimiteur, Regagne
<1> QED BY <1>1, <1>2, <1>3, <1>4 DEF NextLimiteur

-----------------------------------------------------------------------------
(* Every step of the limiter is a step of the ideal bucket, or nothing.    *)

LEMMA RemplirIdeal ==
  ASSUME InvLimiteur, Remplir
  PROVE  Ideal!Remplir
<1>1. ASSUME NEW c \in Clients
      PROVE  JetonsPour(c)' = Ideal!Plafonner(JetonsPour(c) + Debit)
  <2>1. CASE clients[c].present
    BY <2>1 DEF Remplir, JetonsPour, Borne, Ideal!Plafonner
  <2>2. CASE ~clients[c].present
    <3>1. JetonsPour(c)' = Rafale /\ JetonsPour(c) = Rafale  BY <2>2 DEF Remplir, JetonsPour
    <3>2. Ideal!Plafonner(Rafale + Debit) = Rafale  BY LimiteurAssumption DEF Ideal!Plafonner
    <3> QED BY <3>1, <3>2
  <2> QED BY <2>1, <2>2
<1> QED BY <1>1 DEF Remplir, Ideal!Remplir

LEMMA NettoyerIdeal ==
  ASSUME InvLimiteur, Nettoyer
  PROVE  UNCHANGED <<[c \in Clients |-> JetonsPour(c)], verdict>>
<1>1. ASSUME NEW c \in Clients  PROVE  JetonsPour(c)' = JetonsPour(c)
  <2>1. CASE c \in Oubliees
    <3>1. clients[c].present /\ clients[c].jetons = Rafale  BY <2>1, OublieePleine
    <3>2. ~clients'[c].present  BY <2>1 DEF Nettoyer
    <3> QED BY <3>1, <3>2 DEF JetonsPour
  <2>2. CASE c \notin Oubliees
    <3>1. clients'[c] = clients[c]  BY <2>2 DEF Nettoyer
    <3> QED BY <3>1 DEF JetonsPour
  <2> QED BY <2>1, <2>2
<1> QED BY <1>1 DEF Nettoyer

LEMMA VueIdeal ==
  ASSUME InvLimiteur, NEW c \in Clients, NEW n, Vue(c, n)
  PROVE  /\ JetonsPour(c)' = n
         /\ \A d \in Clients \ {c} : JetonsPour(d)' = JetonsPour(d)
BY DEF InvLimiteur, TypeLimiteur, Vue, JetonsPour

LEMMA AdmettreIdeal ==
  ASSUME InvLimiteur, NEW c \in Clients, Admettre(c)
  PROVE  Ideal!Admettre(c)
<1>1. /\ JetonsPour(c)' = JetonsPour(c) - 1
      /\ \A d \in Clients \ {c} : JetonsPour(d)' = JetonsPour(d)
  BY VueIdeal DEF Admettre
<1> QED BY <1>1 DEF Admettre, Ideal!Admettre

LEMMA RefuserIdeal ==
  ASSUME InvLimiteur, NEW c \in Clients, Refuser(c)
  PROVE  Ideal!Refuser(c)
<1>1. JetonsPour(c)' = 0 /\ JetonsPour(c) = 0
  BY VueIdeal DEF Refuser
<1>2. \A d \in Clients \ {c} : JetonsPour(d)' = JetonsPour(d)  BY VueIdeal DEF Refuser
<1> QED BY <1>1, <1>2 DEF Refuser, Ideal!Refuser

-----------------------------------------------------------------------------
(* The entries stay what the map holds: no bucket over its burst.          *)
THEOREM LimiteurBienType == SpecLimiteur => []TypeLimiteur
<1>1. InvLimiteur => TypeLimiteur  BY DEF InvLimiteur
<1> QED BY <1>1, InitInv, EtapeInv, PTL DEF SpecLimiteur

(* The limiter implements the bucket that is never forgotten               *)
(* (rate_limiter.go:57-89).                                                *)
THEOREM LimiteurRaffine == SpecLimiteur => SeauIdeal
<1>1. InitLimiteur => Ideal!Init  BY DEF InitLimiteur, Ideal!Init, JetonsPour
<1>2. InvLimiteur /\ [NextLimiteur]_varsLimiteur => [Ideal!Next]_(Ideal!vars)
  <2> SUFFICES ASSUME InvLimiteur, [NextLimiteur]_varsLimiteur  PROVE [Ideal!Next]_(Ideal!vars)
    OBVIOUS
  <2>1. CASE Nettoyer  BY <2>1, NettoyerIdeal DEF Ideal!vars
  <2>2. CASE Remplir  BY <2>2, RemplirIdeal DEF Ideal!Next
  <2>3. ASSUME NEW c \in Clients, Admettre(c) \/ Refuser(c)  PROVE Ideal!Next
    BY <2>3, AdmettreIdeal, RefuserIdeal DEF Ideal!Next
  <2>4. CASE UNCHANGED varsLimiteur  BY <2>4 DEF varsLimiteur, Ideal!vars, JetonsPour
  <2> QED BY <2>1, <2>2, <2>3, <2>4 DEF NextLimiteur
<1> QED BY <1>1, <1>2, InitInv, EtapeInv, PTL DEF SpecLimiteur, SeauIdeal, Ideal!Spec

-----------------------------------------------------------------------------
(* What the requests hold                                                  *)

(* Where the connections, the row lock and the ages are.                   *)
Tenues ==
  /\ \A r \in Requetes : r \in connexions <=> requetes[r].phase \in {"connectee", "verrouillee"}
  /\ \A r \in Requetes : verrou = r <=> requetes[r].phase = "verrouillee"
  /\ \A r \in Requetes : requetes[r].phase \in {"lecture", "corps"} => requetes[r].age <= DelaiLecture

InvRessources == InvLimiteur /\ TypeServeur /\ Tenues

-----------------------------------------------------------------------------
(* The limiter inside the process                                          *)

LEMMA PasDeLimiteur ==
  ASSUME [NextServeur]_vars
  PROVE  [NextLimiteur]_varsLimiteur
<1>1. CASE Tic  BY <1>1 DEF Tic, NextLimiteur
<1>2. CASE NettoyerClients  BY <1>2 DEF NettoyerClients, NextLimiteur
<1>3. ASSUME NEW r \in Requetes, EtapeRequete(r)  PROVE [NextLimiteur]_varsLimiteur
  <2>1. CASE Limiter(r)  BY <2>1 DEF Limiter, NextLimiteur
  <2>2. CASE Entrer(r)  BY <2>2 DEF Entrer, NextLimiteur
  <2>3. CASE Accepter(r) \/ Interrompre(r) \/ PreVol(r) \/ Trancher(r) \/ Appeler(r)
    BY <2>3 DEF Accepter, Interrompre, PreVol, Trancher, Appeler, varsLimiteur
  <2>4. CASE Attribuer(r) \/ Verrouiller(r) \/ Valider(r) \/ Enchainer(r) \/ Echouer(r) \/ Paniquer(r)
    BY <2>4 DEF Attribuer, Verrouiller, Valider, Enchainer, Echouer, Paniquer, varsLimiteur
  <2> QED BY <1>3, <2>1, <2>2, <2>3, <2>4 DEF EtapeRequete
<1>4. CASE \E t \in Taches : EtapeTache(t)  BY <1>4 DEF EtapeTache, varsLimiteur
<1>5. CASE UNCHANGED <<clients, verdict, varsRequetes, taches>>  BY <1>5 DEF varsLimiteur
<1>6. CASE UNCHANGED vars  BY <1>6 DEF vars, varsLimiteur
<1> QED BY <1>1, <1>2, <1>3, <1>4, <1>5, <1>6 DEF NextServeur

LEMMA LimiteurEtape ==
  ASSUME InvLimiteur, [NextServeur]_vars
  PROVE  InvLimiteur'
BY PasDeLimiteur, EtapeInv

-----------------------------------------------------------------------------
(* A step of a request: its slot changes, and the sets that follow.        *)

LEMMA EnVolFini ==
  ASSUME TypeServeur
  PROVE  /\ IsFiniteSet(Interieur) /\ Interieur \subseteq EnVol /\ EnVol \subseteq Requetes
         /\ IsFiniteSet(connexions) /\ Cardinality(connexions) \in Nat /\ Cardinality(Interieur) \in Nat
<1>1. Interieur \subseteq EnVol /\ EnVol \subseteq Requetes  BY DEF Interieur, EnVol
<1>2. connexions \subseteq Requetes  BY <1>1 DEF TypeServeur
<1>3. IsFiniteSet(Interieur) /\ IsFiniteSet(connexions)
  BY <1>1, <1>2, ServeurAssumption, FS_Subset
<1> QED BY <1>1, <1>3, FS_CardinalityType

LEMMA Changement ==
  ASSUME TypeServeur, NEW r \in Requetes, NEW q \in Requete, requetes' = [requetes EXCEPT ![r] = q]
  PROVE  /\ requetes' \in [Requetes -> Requete]
         /\ requetes'[r] = q /\ \A s \in Requetes \ {r} : requetes'[s] = requetes[s]
         /\ EnVol' = IF q.phase = "aucune" THEN EnVol \ {r} ELSE EnVol \cup {r}
         /\ Interieur' = IF q.phase \in {"aucune", "lecture"} THEN Interieur \ {r} ELSE Interieur \cup {r}
<1>1. requetes' \in [Requetes -> Requete]  BY DEF TypeServeur
<1>2. requetes'[r] = q /\ \A s \in Requetes \ {r} : requetes'[s] = requetes[s]  BY DEF TypeServeur
<1>3. EnVol' = IF q.phase = "aucune" THEN EnVol \ {r} ELSE EnVol \cup {r}
  BY <1>2 DEF EnVol
<1>4. Interieur' = IF q.phase \in {"aucune", "lecture"} THEN Interieur \ {r} ELSE Interieur \cup {r}
  BY <1>2, <1>3 DEF Interieur, EnVol
<1> QED BY <1>1, <1>2, <1>3, <1>4

LEMMA ReposType == Repos \in Requete
BY ServeurAssumption DEF Repos, Requete, DelaiMax

(* The rest of TypeServeur, for the steps of a request.                    *)
AutresVars == UNCHANGED <<taches, varsMain>>

LEMMA AbandonInv ==
  ASSUME InvRessources, NEW r \in Requetes, requetes[r].phase = "lecture", Achever(r),
         UNCHANGED <<connexions, verrou, enCours>>, AutresVars, InvLimiteur'
  PROVE  InvRessources'
<1> USE DEF InvRessources
<1>0. Repos.phase = "aucune" /\ Repos.age = 0 /\ requetes' = [requetes EXCEPT ![r] = Repos]
  BY DEF Repos, Achever
<1>1. /\ requetes' \in [Requetes -> Requete]
      /\ requetes'[r] = Repos /\ \A s \in Requetes \ {r} : requetes'[s] = requetes[s]
      /\ EnVol' = EnVol \ {r} /\ Interieur' = Interieur \ {r}
  BY <1>0, ReposType, Changement
<1>2. r \notin Interieur /\ r \notin connexions  BY DEF Interieur, EnVol, Tenues
<1>3. Interieur' = Interieur /\ connexions \subseteq EnVol'  BY <1>1, <1>2 DEF TypeServeur
<1>4. TypeServeur'  BY <1>1, <1>3 DEF TypeServeur, AutresVars, varsMain, InvLimiteur
<1>5. Tenues'  BY <1>0, <1>1, <1>2 DEF Tenues
<1> QED BY <1>4, <1>5

LEMMA RepondreInv ==
  ASSUME InvRessources, NEW r \in Interieur, Repondre(r), AutresVars, InvLimiteur'
  PROVE  InvRessources'
<1> USE DEF InvRessources
<1>0. /\ r \in Requetes /\ requetes[r].phase # "lecture" /\ r # Libre
      /\ Repos.phase = "aucune" /\ Repos.age = 0 /\ requetes' = [requetes EXCEPT ![r] = Repos]
  BY ServeurAssumption DEF Interieur, EnVol, Repos, Repondre, Achever
<1>1. /\ requetes' \in [Requetes -> Requete]
      /\ requetes'[r] = Repos /\ \A s \in Requetes \ {r} : requetes'[s] = requetes[s]
      /\ EnVol' = EnVol \ {r} /\ Interieur' = Interieur \ {r}
  BY <1>0, ReposType, Changement
<1>2. connexions' = connexions \ {r} /\ verrou' = (IF verrou = r THEN Libre ELSE verrou) /\ enCours' = enCours - 1
  BY DEF Repondre, Rendre, Sortir
<1>3. enCours' = Cardinality(Interieur')
  BY <1>1, <1>2, EnVolFini, FS_RemoveElement DEF TypeServeur
<1>4. connexions' \subseteq EnVol' /\ Cardinality(connexions') <= MaxConnexions
  <2>1. connexions' \subseteq EnVol'  BY <1>1, <1>2 DEF TypeServeur
  <2>2. Cardinality(connexions') <= Cardinality(connexions)
    BY <1>2, EnVolFini, FS_Subset
  <2>3. Cardinality(connexions') \in Nat  BY <1>2, EnVolFini, FS_RemoveElement, FS_CardinalityType
  <2> QED BY <2>1, <2>2, <2>3, EnVolFini, ServeurAssumption DEF TypeServeur
<1>5. verrou' \in connexions' \cup {Libre}  BY <1>2 DEF TypeServeur
<1>6. TypeServeur'  BY <1>1, <1>3, <1>4, <1>5 DEF TypeServeur, AutresVars, varsMain, InvLimiteur
<1>7. Tenues'  BY <1>0, <1>1, <1>2, ServeurAssumption DEF Tenues
<1> QED BY <1>6, <1>7

LEMMA AccepterInv ==
  ASSUME InvRessources, NEW r \in Requetes, Accepter(r), AutresVars, InvLimiteur'
  PROVE  InvRessources'
<1> USE DEF InvRessources
<1> DEFINE q == [Repos EXCEPT !.phase = "lecture"]
<1>0. q \in Requete /\ q.phase = "lecture" /\ q.age = 0 /\ requetes' = [requetes EXCEPT ![r] = q]
  BY ServeurAssumption DEF Repos, Requete, DelaiMax, Accepter
<1> HIDE DEF q
<1>1. /\ requetes' \in [Requetes -> Requete]
      /\ requetes'[r] = q /\ \A s \in Requetes \ {r} : requetes'[s] = requetes[s]
      /\ EnVol' = EnVol \cup {r} /\ Interieur' = Interieur \ {r}
  BY <1>0, Changement
<1>2. r \notin Interieur /\ r \notin connexions /\ UNCHANGED <<connexions, verrou, enCours>>
  BY DEF Interieur, EnVol, Accepter, TypeServeur
<1>3. Interieur' = Interieur /\ connexions \subseteq EnVol'  BY <1>1, <1>2 DEF TypeServeur
<1>4. TypeServeur'  BY <1>1, <1>2, <1>3 DEF TypeServeur, AutresVars, varsMain, InvLimiteur
<1>5. requetes[r].phase = "aucune"  BY DEF Accepter, EnVol
<1>6. Tenues'  BY <1>0, <1>1, <1>2, <1>5, ServeurAssumption DEF Tenues
<1> QED BY <1>4, <1>6

LEMMA EntrerInv ==
  ASSUME InvRessources, NEW r \in Requetes, Entrer(r), AutresVars, InvLimiteur'
  PROVE  InvRessources'
<1> USE DEF InvRessources
<1> DEFINE q == [requetes[r] EXCEPT !.phase = "corps", !.echeance = requetes[r].age + DelaiTraitement]
<1>0. /\ requetes[r] \in Requete /\ requetes[r].phase = "lecture" /\ requetes[r].age \in 0..DelaiLecture
      /\ requetes[r].age \in 0..DelaiMax
  BY ServeurAssumption DEF TypeServeur, Requete, Tenues, Entrer
<1>1. q \in Requete /\ q.phase = "corps" /\ q.age = requetes[r].age
  <2>1. requetes[r].age + DelaiTraitement \in 0..DelaiMax  BY <1>0, ServeurAssumption DEF DelaiMax
  <2> HIDE DEF DelaiMax
  <2> QED BY <1>0, <2>1 DEF Requete
<1>2. requetes' = [requetes EXCEPT ![r] = q]  BY DEF Entrer, TypeServeur
<1> HIDE DEF q
<1>3. /\ requetes' \in [Requetes -> Requete]
      /\ requetes'[r] = q /\ \A s \in Requetes \ {r} : requetes'[s] = requetes[s]
      /\ EnVol' = EnVol \cup {r} /\ Interieur' = Interieur \cup {r}
  BY <1>1, <1>2, Changement
<1>4. r \notin Interieur /\ r \notin connexions /\ UNCHANGED <<connexions, verrou>> /\ enCours' = enCours + 1
  BY <1>0 DEF Interieur, Entrer, Tenues
<1>5. enCours' = Cardinality(Interieur')
  BY <1>3, <1>4, EnVolFini, FS_AddElement DEF TypeServeur
<1>6. TypeServeur'  BY <1>3, <1>4, <1>5 DEF TypeServeur, AutresVars, varsMain, InvLimiteur
<1>7. Tenues'  BY <1>0, <1>1, <1>3, <1>4 DEF Tenues
<1> QED BY <1>6, <1>7

(* Appeler, Attribuer, Verrouiller and Enchainer move a request inside.    *)
LEMMA InterieurInv ==
  ASSUME InvRessources, NEW r \in Interieur, NEW q \in Requete, requetes' = [requetes EXCEPT ![r] = q],
         q.phase \in {"attente", "connectee", "verrouillee"}, enCours' = enCours,
         connexions' = IF q.phase = "attente" THEN connexions \ {r} ELSE connexions \cup {r},
         Cardinality(connexions') <= MaxConnexions,
         verrou' = IF q.phase = "verrouillee" THEN r ELSE IF verrou = r THEN Libre ELSE verrou,
         q.phase = "verrouillee" => verrou \in {Libre, r},
         AutresVars, InvLimiteur'
  PROVE  InvRessources'
<1> USE DEF InvRessources
<1>0. r \in EnVol /\ r \in Requetes /\ r # Libre  BY ServeurAssumption DEF Interieur, EnVol
<1>1. /\ requetes' \in [Requetes -> Requete]
      /\ requetes'[r] = q /\ \A s \in Requetes \ {r} : requetes'[s] = requetes[s]
      /\ EnVol' = EnVol \cup {r} /\ Interieur' = Interieur \cup {r}
  BY <1>0, Changement
<1>2. EnVol' = EnVol /\ Interieur' = Interieur  BY <1>0, <1>1
<1>3. connexions' \subseteq EnVol' /\ verrou' \in connexions' \cup {Libre}
  BY <1>0, <1>2 DEF TypeServeur
<1>4. TypeServeur'  BY <1>1, <1>2, <1>3 DEF TypeServeur, AutresVars, varsMain, InvLimiteur
<1>5. Tenues'
  <2>1. \A s \in Requetes : s \in connexions' <=> requetes'[s].phase \in {"connectee", "verrouillee"}
    BY <1>0, <1>1 DEF Tenues
  <2>2. \A s \in Requetes : verrou' = s <=> requetes'[s].phase = "verrouillee"
    BY <1>0, <1>1, ServeurAssumption DEF Tenues
  <2>3. \A s \in Requetes : requetes'[s].phase \in {"lecture", "corps"} => requetes'[s].age <= DelaiLecture
    BY <1>1 DEF Tenues
  <2> QED BY <2>1, <2>2, <2>3 DEF Tenues
<1> QED BY <1>4, <1>5

LEMMA RequeteInvariante ==
  ASSUME InvRessources, NEW r \in Requetes, EtapeRequete(r), InvLimiteur'
  PROVE  InvRessources'
<1> USE DEF InvRessources
<1>0. /\ AutresVars
      /\ requetes[r] \in Requete
      /\ requetes[r].phase \in {"corps", "attente", "connectee", "verrouillee"} => r \in Interieur
      /\ r \in Interieur => r \in EnVol /\ r # Libre
  BY ServeurAssumption DEF EtapeRequete, AutresVars, TypeServeur, Interieur, EnVol
<1>1. CASE Accepter(r)  BY <1>0, <1>1, AccepterInv
<1>2. CASE Interrompre(r) \/ PreVol(r) \/ Limiter(r)
  BY <1>0, <1>2, AbandonInv DEF Interrompre, PreVol, Limiter
<1>3. CASE Entrer(r)  BY <1>0, <1>3, EntrerInv
<1>4. CASE Trancher(r) \/ Valider(r) \/ Echouer(r) \/ Paniquer(r)
  BY <1>0, <1>4, RepondreInv DEF Trancher, Valider, Echouer, Paniquer
<1>5. CASE Appeler(r)
  <2> DEFINE ech == IF r \in Sondes THEN Borne(requetes[r].age + DelaiSonde, requetes[r].echeance)
                                    ELSE requetes[r].echeance
             q == [requetes[r] EXCEPT !.phase = "attente", !.echeance = ech]
  <2>1. requetes[r].phase = "corps" /\ r \in Interieur /\ r \notin connexions /\ verrou # r
    BY <1>0, <1>5 DEF Appeler, Tenues
  <2>2. requetes[r].age \in 0..DelaiMax /\ requetes[r].echeance \in 0..DelaiMax  BY <1>0 DEF Requete
  <2>3. ech \in 0..DelaiMax  BY <2>2, ServeurAssumption DEF Borne, DelaiMax
  <2>4. requetes' = [requetes EXCEPT ![r] = q]  BY <1>5 DEF Appeler, TypeServeur
  <2> HIDE DEF ech
  <2>5. q \in Requete /\ q.phase = "attente"  BY <1>0, <2>3 DEF Requete
  <2> HIDE DEF q
  <2>6. connexions' = connexions \ {r} /\ verrou' = verrou /\ enCours' = enCours
    BY <1>5, <2>1 DEF Appeler
  <2>7. Cardinality(connexions') <= MaxConnexions  BY <1>5 DEF Appeler, TypeServeur
  <2> QED BY <1>0, <2>1, <2>4, <2>5, <2>6, <2>7, InterieurInv
<1>6. CASE Attribuer(r)
  <2> DEFINE q == [requetes[r] EXCEPT !.phase = "connectee"]
  <2>1. requetes[r].phase = "attente" /\ r \in Interieur /\ r \notin connexions /\ verrou # r
    BY <1>0, <1>6 DEF Attribuer, Tenues
  <2>2. requetes' = [requetes EXCEPT ![r] = q]  BY <1>6 DEF Attribuer, Aller, TypeServeur
  <2>3. q \in Requete /\ q.phase = "connectee"  BY <1>0 DEF Requete
  <2> HIDE DEF q
  <2>4. connexions' = connexions \cup {r} /\ verrou' = verrou /\ enCours' = enCours  BY <1>6 DEF Attribuer
  <2>5. Cardinality(connexions') = Cardinality(connexions) + 1  BY <2>1, <2>4, EnVolFini, FS_AddElement
  <2>6. Cardinality(connexions') <= MaxConnexions
    BY <1>6, <2>5, EnVolFini, ServeurAssumption DEF Attribuer, Disponible
  <2> QED BY <1>0, <2>1, <2>2, <2>3, <2>4, <2>6, InterieurInv
<1>7. CASE Verrouiller(r)
  <2> DEFINE q == [requetes[r] EXCEPT !.phase = "verrouillee"]
  <2>1. requetes[r].phase = "connectee" /\ r \in Interieur /\ r \in connexions /\ verrou = Libre
    BY <1>0, <1>7 DEF Verrouiller, Tenues
  <2>2. requetes' = [requetes EXCEPT ![r] = q]  BY <1>7 DEF Verrouiller, Aller, TypeServeur
  <2>3. q \in Requete /\ q.phase = "verrouillee"  BY <1>0 DEF Requete
  <2> HIDE DEF q
  <2>4. connexions' = connexions \cup {r} /\ verrou' = r /\ enCours' = enCours  BY <1>7, <2>1 DEF Verrouiller
  <2>5. Cardinality(connexions') <= MaxConnexions  BY <1>7 DEF Verrouiller, TypeServeur
  <2> QED BY <1>0, <2>1, <2>2, <2>3, <2>4, <2>5, InterieurInv
<1>8. CASE Enchainer(r)
  <2> DEFINE q == [requetes[r] EXCEPT !.phase = "attente"]
  <2>1. requetes[r].phase = "connectee" /\ r \in Interieur  BY <1>0, <1>8 DEF Enchainer
  <2>2. requetes' = [requetes EXCEPT ![r] = q]  BY <1>8 DEF Enchainer, Aller, TypeServeur
  <2>3. q \in Requete /\ q.phase = "attente"  BY <1>0 DEF Requete
  <2> HIDE DEF q
  <2>4. /\ connexions' = connexions \ {r} /\ enCours' = enCours
        /\ verrou' = IF verrou = r THEN Libre ELSE verrou
    BY <1>8 DEF Enchainer, Rendre
  <2>5. Cardinality(connexions') <= Cardinality(connexions) /\ Cardinality(connexions') \in Nat
    BY <2>4, EnVolFini, FS_Subset, FS_CardinalityType
  <2>6. Cardinality(connexions') <= MaxConnexions
    BY <2>5, EnVolFini, ServeurAssumption DEF TypeServeur
  <2> QED BY <1>0, <2>1, <2>2, <2>3, <2>4, <2>6, InterieurInv
<1> QED BY <1>1, <1>2, <1>3, <1>4, <1>5, <1>6, <1>7, <1>8 DEF EtapeRequete

-----------------------------------------------------------------------------
(* The other steps                                                         *)

LEMMA RessourcesInchangees ==
  ASSUME InvRessources, UNCHANGED varsRequetes, InvLimiteur',
         taches' \in [Taches -> {"attend", "execute", "arretee"}],
         contexte' \in {"actif", "annule"}, ecoute' \in {"ouverte", "erreur", "fermee"},
         principal' \in {"sert", "arret", "attente", "sortie", "fermeture", "termine"},
         ageArret' \in 0..DelaiArret, coupees' \subseteq Requetes, base' \in {"ouverte", "fermee"}
  PROVE  InvRessources'
<1>1. EnVol' = EnVol /\ Interieur' = Interieur  BY DEF EnVol, Interieur, varsRequetes
<1>2. TypeServeur'  BY <1>1 DEF InvRessources, InvLimiteur, TypeServeur, varsRequetes
<1>3. Tenues'  BY DEF InvRessources, Tenues, varsRequetes
<1> QED BY <1>2, <1>3 DEF InvRessources

LEMMA TicInv ==
  ASSUME InvRessources, Tic, InvLimiteur'
  PROVE  InvRessources'
<1> USE DEF InvRessources
<1>1. ASSUME NEW r \in Requetes
      PROVE  /\ requetes'[r] \in Requete /\ requetes'[r].phase = requetes[r].phase
             /\ requetes[r].phase \in {"lecture", "corps"} => requetes'[r].age <= DelaiLecture
  <2>0. /\ requetes[r] \in Requete /\ ~Echue(r)
        /\ requetes[r].age \in 0..DelaiMax /\ requetes[r].echeance \in 0..DelaiMax
        /\ DelaiMax \in Nat /\ DelaiLecture <= DelaiMax
    BY ServeurAssumption DEF TypeServeur, Requete, Tic, DelaiMax
  <2>1. CASE r \notin EnVol
    <3>1. requetes'[r] = requetes[r]  BY <2>1 DEF Tic
    <3> QED BY <2>0, <3>1 DEF Tenues
  <2>2. CASE r \in EnVol
    <3>1. requetes'[r] = [requetes[r] EXCEPT !.age = requetes[r].age + 1]  BY <2>2 DEF Tic
    <3>2. requetes[r].phase \in {"lecture", "corps"} => requetes[r].age + 1 <= DelaiLecture
      BY <2>0, ServeurAssumption DEF Echue
    <3>3. requetes[r].phase \in {"attente", "connectee", "verrouillee"} => requetes[r].age + 1 <= requetes[r].echeance
      BY <2>0, ServeurAssumption DEF Echue
    <3>4. requetes[r].phase \in {"lecture", "corps", "attente", "connectee", "verrouillee"}
      BY <2>0, <2>2 DEF Requete, EnVol
    <3>5. requetes[r].age + 1 \in 0..DelaiMax
      BY <2>0, <3>2, <3>3, <3>4, ServeurAssumption
    <3> HIDE DEF DelaiMax
    <3>6. /\ requetes'[r] \in Requete /\ requetes'[r].phase = requetes[r].phase
          /\ requetes'[r].age = requetes[r].age + 1
      BY <2>0, <3>1, <3>5 DEF Requete
    <3> QED BY <3>2, <3>6
  <2> QED BY <2>1, <2>2
<1>2. requetes' \in [Requetes -> Requete]
  <2>1. requetes' = [r \in Requetes |-> requetes'[r]]  BY DEF Tic
  <2> QED BY <1>1, <2>1
<1>3. EnVol' = EnVol /\ Interieur' = Interieur  BY <1>1 DEF EnVol, Interieur
<1>4. ageArret' \in 0..DelaiArret
  BY ServeurAssumption DEF Tic, TypeServeur
<1>5. TypeServeur'  BY <1>2, <1>3, <1>4 DEF TypeServeur, Tic, InvLimiteur
<1>6. Tenues'  BY <1>1 DEF Tenues, Tic
<1> QED BY <1>5, <1>6

LEMMA RessourcesEtape ==
  ASSUME InvRessources, [NextServeur]_vars
  PROVE  InvRessources'
<1> USE DEF InvRessources
<1>0. InvLimiteur'  BY LimiteurEtape
<1>1. CASE Tic  BY <1>0, <1>1, TicInv
<1>2. CASE NettoyerClients
  BY <1>0, <1>2, RessourcesInchangees DEF NettoyerClients, varsMain, TypeServeur
<1>3. CASE \E r \in Requetes : EtapeRequete(r)  BY <1>0, <1>3, RequeteInvariante
<1>4. ASSUME NEW t \in Taches, EtapeTache(t)  PROVE InvRessources'
  <2>1. taches' \in [Taches -> {"attend", "execute", "arretee"}]
    BY <1>4 DEF EtapeTache, Executer, Finir, Arreter, TypeServeur
  <2> QED BY <1>0, <1>4, <2>1, RessourcesInchangees DEF EtapeTache, varsMain, TypeServeur
<1>5. CASE (Signaler \/ TomberEcoute \/ EtapeMain) /\ UNCHANGED <<clients, verdict, varsRequetes, taches>>
  <2>1. /\ contexte' \in {"actif", "annule"} /\ ecoute' \in {"ouverte", "erreur", "fermee"}
        /\ principal' \in {"sert", "arret", "attente", "sortie", "fermeture", "termine"}
        /\ ageArret' \in 0..DelaiArret /\ base' \in {"ouverte", "fermee"}
    BY <1>5 DEF Signaler, TomberEcoute, EtapeMain, SortirSurErreur, CommencerArret, FinirArret, ForcerArret,
                Attendre, FermerBase, Terminer, TypeServeur
  <2>2. coupees' \subseteq Requetes
    BY <1>5, EnVolFini DEF Signaler, TomberEcoute, EtapeMain, SortirSurErreur, CommencerArret, FinirArret,
                ForcerArret, Attendre, FermerBase, Terminer, TypeServeur
  <2> QED BY <1>0, <1>5, <2>1, <2>2, RessourcesInchangees DEF TypeServeur
<1>6. CASE UNCHANGED vars
  BY <1>0, <1>6, RessourcesInchangees DEF vars, varsMain, TypeServeur
<1> QED BY <1>1, <1>2, <1>3, <1>4, <1>5, <1>6 DEF NextServeur

LEMMA InitRessources == InitServeur => InvRessources
<1> SUFFICES ASSUME InitServeur  PROVE InvRessources
  OBVIOUS
<1>1. InvLimiteur  BY InitInv DEF InitServeur
<1>2. \A r \in Requetes : requetes[r].phase = "aucune"  BY DEF InitServeur, Repos
<1>3. EnVol = {} /\ Interieur = {}  BY <1>2 DEF EnVol, Interieur
<1>4. Cardinality({}) = 0  BY FS_EmptySet
<1>5. TypeServeur
  BY <1>1, <1>3, <1>4, ReposType, ServeurAssumption DEF InitServeur, TypeServeur, InvLimiteur
<1>6. Tenues  BY <1>2, ServeurAssumption DEF InitServeur, Tenues
<1> QED BY <1>1, <1>5, <1>6 DEF InvRessources

LEMMA RessourcesToujours == Spec => []InvRessources
BY InitRessources, RessourcesEtape, PTL DEF Spec

-----------------------------------------------------------------------------
(* The gauge is the number of the requests inside the middleware, and the  *)
(* connections and the row lock belong to requests in flight, whichever    *)
(* way the requests leave (metrics.go:22-24, transaction.go:53-66).        *)
THEOREM ServeurBienType == Spec => []TypeServeur
<1>1. InvRessources => TypeServeur  BY DEF InvRessources
<1> QED BY <1>1, RessourcesToujours, PTL

(* Some holder of a full pool needs nothing that another one holds         *)
(* (transaction.go:53-66).                                                 *)
THEOREM PoolSansBlocage == Spec => []PoolAvance
<1>1. InvRessources => PoolAvance
  <2> SUFFICES ASSUME InvRessources, Cardinality(connexions) = MaxConnexions  PROVE
        \E r \in connexions :
          requetes[r].phase = "verrouillee" \/ (requetes[r].phase = "connectee" /\ verrou = Libre)
    BY DEF PoolAvance
  <2>1. connexions \subseteq Requetes /\ verrou \in connexions \cup {Libre}
    BY EnVolFini DEF InvRessources, TypeServeur
  <2>2. connexions # {}  BY FS_EmptySet, ServeurAssumption
  <2>3. CASE verrou \in connexions  BY <2>1, <2>3 DEF InvRessources, Tenues
  <2>4. CASE verrou = Libre
    <3>1. PICK r \in connexions : TRUE  BY <2>2
    <3>2. requetes[r].phase \in {"connectee", "verrouillee"}  BY <2>1 DEF InvRessources, Tenues
    <3> QED BY <2>4, <3>1, <3>2
  <2> QED BY <2>1, <2>3, <2>4
<1> QED BY <1>1, RessourcesToujours, PTL

(* Inside the process too, where the cleaning stops with the context, the  *)
(* limiter is the bucket that is never forgotten (rate_limiter.go:57-104). *)
THEOREM ServeurSeauIdeal == Spec => SeauIdeal
<1>1. InitServeur => InitLimiteur  BY DEF InitServeur
<1>2. [NextServeur]_vars => [NextLimiteur]_varsLimiteur  BY PasDeLimiteur
<1>3. Spec => SpecLimiteur  BY <1>1, <1>2, PTL DEF Spec, SpecLimiteur
<1> QED BY <1>3, LimiteurRaffine

-----------------------------------------------------------------------------
(* The graceful shutdown                                                   *)

(* What main has made sure of at each point of executer.                   *)
Etapes ==
  /\ principal = "sert" => ageArret = 0 /\ ecoute # "fermee"
  /\ principal \in {"arret", "attente"} => ecoute = "fermee"
  /\ base = "fermee" <=> principal \in {"fermeture", "termine"}
  /\ coupees # {} => ecoute = "fermee" /\ principal \notin {"sert", "arret"}
  /\ ecoute = "fermee" /\ principal \in {"sortie", "fermeture", "termine"} =>
       \A t \in Taches : taches[t] = "arretee"

Ages ==
  /\ principal = "arret" => \A r \in EnVol : requetes[r].age >= ageArret
  /\ ecoute = "fermee" /\ principal \in {"attente", "sortie", "fermeture", "termine"} => EnVol \subseteq coupees
  /\ \A r \in coupees \cap EnVol : requetes[r].age >= DelaiArret

InvArret == InvRessources /\ Etapes /\ Ages

LEMMA EtapesEtape ==
  ASSUME InvArret, NextServeur
  PROVE  Etapes'
<1> USE DEF InvArret, Etapes
<1>1. CASE Tic  BY <1>1 DEF Tic
<1>2. CASE NettoyerClients  BY <1>2 DEF NettoyerClients, varsMain
<1>3. CASE \E r \in Requetes : EtapeRequete(r)  BY <1>3 DEF EtapeRequete, varsMain
<1>4. ASSUME NEW t \in Taches, EtapeTache(t)  PROVE Etapes'
  <2>1. UNCHANGED <<contexte, ecoute, principal, ageArret, coupees, base>>  BY <1>4 DEF EtapeTache, varsMain
  <2>2. ASSUME NEW u \in Taches, taches[u] = "arretee"  PROVE taches'[u] = "arretee"
    BY <1>4, <2>2 DEF EtapeTache, Executer, Finir, Arreter, InvRessources, TypeServeur
  <2> QED BY <2>1, <2>2
<1>5. CASE UNCHANGED taches /\ (Signaler \/ TomberEcoute \/ SortirSurErreur \/ CommencerArret \/ FinirArret)
  BY <1>5 DEF Signaler, TomberEcoute, SortirSurErreur, CommencerArret, FinirArret
<1>6. CASE UNCHANGED taches /\ (ForcerArret \/ Attendre \/ FermerBase \/ Terminer)
  BY <1>6 DEF ForcerArret, Attendre, FermerBase, Terminer
<1> QED BY <1>1, <1>2, <1>3, <1>4, <1>5, <1>6 DEF NextServeur, EtapeMain

(* A step of a request puts it in flight only while the listener is open,  *)
(* and changes no age.                                                     *)
LEMMA RequeteAges ==
  ASSUME InvRessources, NEW r \in Requetes, EtapeRequete(r)
  PROVE  /\ EnVol' \subseteq EnVol \/ (ecoute # "fermee" /\ EnVol' \subseteq EnVol \cup {r})
         /\ \A s \in EnVol \cap EnVol' : requetes'[s].age = requetes[s].age
<1> USE DEF InvRessources, TypeServeur
<1>1. CASE Accepter(r)
  BY <1>1 DEF Accepter, EnVol
<1>2. CASE Achever(r)
  BY <1>2 DEF Achever, Repos, EnVol
<1>3. CASE Entrer(r) \/ Appeler(r) \/ Attribuer(r) \/ Verrouiller(r) \/ Enchainer(r)
  <2>0. requetes[r] \in Requete  OBVIOUS
  <2>1. requetes'[r].age = requetes[r].age /\ requetes[r].phase # "aucune"
    <3>1. CASE Entrer(r)  BY <2>0, <3>1 DEF Entrer, Requete
    <3>2. CASE Appeler(r)  BY <2>0, <3>2 DEF Appeler, Requete
    <3>3. CASE Attribuer(r) \/ Verrouiller(r) \/ Enchainer(r)
      BY <2>0, <3>3 DEF Attribuer, Verrouiller, Enchainer, Aller, Requete
    <3> QED BY <1>3, <3>1, <3>2, <3>3
  <2>2. \A s \in Requetes \ {r} : requetes'[s] = requetes[s]
    BY <1>3 DEF Entrer, Appeler, Attribuer, Verrouiller, Enchainer, Aller
  <2> QED BY <2>1, <2>2 DEF EnVol
<1> QED BY <1>1, <1>2, <1>3
     DEF EtapeRequete, Interrompre, PreVol, Limiter, Trancher, Valider, Echouer, Paniquer, Repondre

LEMMA AgesEtape ==
  ASSUME InvArret, NextServeur
  PROVE  Ages'
<1> USE DEF InvArret
<1>0. EnVol \subseteq Requetes /\ \A r \in Requetes : requetes[r].age \in Nat
  <2>1. \A r \in Requetes : requetes[r] \in Requete  BY DEF InvRessources, TypeServeur
  <2>2. 0..DelaiMax \subseteq Nat  BY ServeurAssumption DEF DelaiMax
  <2> QED BY <2>1, <2>2 DEF Requete, EnVol
<1>1. CASE Tic
  <2>1. \A r \in EnVol : requetes'[r].age = requetes[r].age + 1 /\ requetes'[r].phase = requetes[r].phase
    <3>1. ASSUME NEW r \in EnVol
          PROVE  requetes'[r].age = requetes[r].age + 1 /\ requetes'[r].phase = requetes[r].phase
      <4>1. requetes[r] \in Requete /\ requetes'[r] = [requetes[r] EXCEPT !.age = requetes[r].age + 1]
        BY <1>0, <1>1 DEF Tic, InvRessources, TypeServeur
      <4> QED BY <4>1 DEF Requete
    <3> QED BY <3>1
  <2>2. EnVol' = EnVol
    BY <1>0, <1>1, <2>1 DEF Tic, EnVol
  <2> QED BY <1>0, <1>1, <2>1, <2>2, ServeurAssumption DEF Ages, Tic, InvRessources, TypeServeur
<1>2. CASE UNCHANGED <<requetes, varsMain>>
  BY <1>2 DEF Ages, EnVol, varsMain
<1>3. ASSUME NEW r \in Requetes, EtapeRequete(r)  PROVE Ages'
  <2>1. UNCHANGED varsMain  BY <1>3 DEF EtapeRequete
  <2>2. \A s \in EnVol \cap EnVol' : requetes'[s].age = requetes[s].age  BY <1>3, RequeteAges
  <2>3. CASE EnVol' \subseteq EnVol  BY <2>1, <2>2, <2>3 DEF Ages, varsMain
  <2>4. CASE ecoute # "fermee"
    <3>1. principal \notin {"arret", "attente"} /\ coupees = {}  BY <2>4 DEF Etapes
    <3> QED BY <2>1, <2>4, <3>1 DEF Ages, varsMain
  <2> QED BY <1>3, <2>3, <2>4, RequeteAges
<1>4. CASE UNCHANGED varsRequetes /\ (Signaler \/ TomberEcoute \/ EtapeMain)
  <2>0. EnVol' = EnVol /\ requetes' = requetes  BY <1>4 DEF EnVol, varsRequetes
  <2>1. CASE Signaler \/ TomberEcoute \/ SortirSurErreur
    BY <2>0, <2>1 DEF Signaler, TomberEcoute, SortirSurErreur, Ages, Etapes
  <2>2. CASE CommencerArret
    BY <1>0, <2>0, <2>2 DEF CommencerArret, Ages, Etapes
  <2>3. CASE FinirArret \/ Attendre \/ FermerBase \/ Terminer
    BY <2>0, <2>3 DEF FinirArret, Attendre, FermerBase, Terminer, Ages, Etapes
  <2>4. CASE ForcerArret
    <3>1. \A r \in EnVol : requetes[r].age >= DelaiArret
      BY <1>0, <2>4, ServeurAssumption DEF ForcerArret, Ages, InvRessources, TypeServeur
    <3> QED BY <2>0, <2>4, <3>1 DEF ForcerArret, Ages
  <2> QED BY <1>4, <2>1, <2>2, <2>3, <2>4 DEF EtapeMain
<1> QED BY <1>1, <1>2, <1>3, <1>4 DEF NextServeur, NettoyerClients, EtapeTache, varsRequetes

LEMMA ArretToujours == Spec => []InvArret
<1>1. InitServeur => InvArret
  <2> SUFFICES ASSUME InitServeur  PROVE InvArret
    OBVIOUS
  <2>1. InvRessources  BY InitRessources
  <2>2. EnVol = {}  BY DEF InitServeur, Repos, EnVol
  <2> QED BY <2>1, <2>2 DEF InitServeur, InvArret, Etapes, Ages
<1>2. InvArret /\ [NextServeur]_vars => InvArret'
  <2> SUFFICES ASSUME InvArret, [NextServeur]_vars  PROVE InvArret'
    OBVIOUS
  <2>1. InvRessources'  BY RessourcesEtape DEF InvArret
  <2>2. CASE NextServeur  BY <2>1, <2>2, EtapesEtape, AgesEtape DEF InvArret
  <2>3. CASE UNCHANGED vars
    BY <2>1, <2>3 DEF InvArret, Etapes, Ages, EnVol, vars, varsMain, varsRequetes
  <2> QED BY <2>2, <2>3
<1> QED BY <1>1, <1>2, PTL DEF Spec

(* After a signal the base is closed on a stopped scheduler, and on no     *)
(* request but those that had the whole of DelaiArretGracieux              *)
(* (main.go:189-196).                                                      *)
THEOREM ArretSansCoupure == Spec => []ArretGracieux
<1>1. InvArret => ArretGracieux
  BY DEF InvArret, Etapes, Ages, ArretGracieux
<1> QED BY <1>1, ArretToujours, PTL

=============================================================================
