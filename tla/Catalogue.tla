----------------------------- MODULE Catalogue ------------------------------
(***************************************************************************)
(* The catalogue as the lending code meets it: books created, edited (PUT  *)
(* and PATCH /livres/{id}) and masked.  An edit reads the row without a    *)
(* lock, works on that copy, then writes the two stock columns as absolute *)
(* values, in another transaction.                                         *)
(***************************************************************************)
EXTENDS Base

CONSTANT Editions   \* calls of PUT and PATCH /livres/{id}

VARIABLE edition    \* the edits in progress, each with the row it has read

varsCatalogue == <<varsBase, edition>>

TypeCatalogue ==
  edition \in [Editions -> [phase : {"recue", "lue", "ecrite", "terminee"}, livre : Livres,
                            lu : Livre, reponse : {"aucune", "200", "404", "409", "422", "500"}]]

InitCatalogue ==
  edition \in [Editions -> [phase : {"recue"}, livre : Livres, lu : {LivreAbsent},
                            reponse : {"aucune"}]]

TerminerEdition(m, reponse) ==
  edition' = [edition EXCEPT ![m].phase = "terminee", ![m].reponse = reponse]

(* The copies the row says are out.                                        *)
Empruntes(ligne) == ligne.nombre - ligne.dispo

(* Mutant: the copies that are out are forgotten. *)
AjusterStockEntier(ligne, n) == n

(* ajusterStock: the free copies once the total is n; the edit is refused  *)
(* below the copies that are out.                                          *)
AjusterRefuse(ligne, n) == n < Empruntes(ligne)
AjusterStock(ligne, n) == n - Empruntes(ligne)

(* LivreRepository.ParUUIDInterne. *)
LireLivre(m) ==
  LET l == edition[m].livre IN
  /\ edition[m].phase = "recue"
  /\ \/ /\ livres[l].etat = "visible"
        /\ edition' = [edition EXCEPT ![m].phase = "lue", ![m].lu = livres[l]]
     \/ /\ livres[l].etat # "visible"
        /\ TerminerEdition(m, "404")
  /\ UNCHANGED varsBase

(* ajusterStock, then the UPDATE of LivreRepository.MettreAJour.  A PATCH  *)
(* that leaves the total alone writes back the total it has read.          *)
(* The trigger on the stock accepts whatever ajusterStock has computed.    *)
EcrireLivre(m) ==
  LET l == edition[m].livre
      lu == edition[m].lu
  IN
  /\ edition[m].phase = "lue"
  /\ \E n \in Totaux \cup {lu.nombre} :
       \/ /\ AjusterRefuse(lu, n)
          /\ TerminerEdition(m, "409")
          /\ UNCHANGED livres
       \/ /\ ~ AjusterRefuse(lu, n) /\ livres[l].etat # "visible"
          /\ TerminerEdition(m, "404")
          /\ UNCHANGED livres
       \/ /\ ~ AjusterRefuse(lu, n) /\ livres[l].etat = "visible" /\ verrouLivre[l] = Libre
          /\ livres' = [livres EXCEPT ![l].nombre = n, ![l].dispo = AjusterStock(lu, n)]
          /\ edition' = [edition EXCEPT ![m].phase = "ecrite"]
  /\ UNCHANGED <<jour, utilisateurs, emprunts, verrous>>

(* The service reads the book back (vue_livres_details) and answers.       *)
RelireLivre(m) ==
  /\ edition[m].phase = "ecrite"
  /\ TerminerEdition(m, IF livres[edition[m].livre].etat = "visible" THEN "200" ELSE "404")
  /\ UNCHANGED varsBase

(* The input, a reference or a duplicate ISBN is refused before the row    *)
(* changes, or the deadline cuts the call, before its UPDATE or after it.  *)
AnnulerEdition(m) ==
  /\ edition[m].phase \in {"lue", "ecrite"}
  /\ \E reponse \in (IF edition[m].phase = "lue" THEN {"409", "422", "500"} ELSE {"500"}) :
       TerminerEdition(m, reponse)
  /\ UNCHANGED varsBase

(* POST /livres: every copy of a new book is free. *)
CreerLivre(l) ==
  /\ livres[l].etat = "absent"
  /\ \E n \in Totaux : livres' = [livres EXCEPT ![l] = LivreNeuf(n)]
  /\ UNCHANGED <<jour, utilisateurs, emprunts, verrous, edition>>

(* DELETE /livres/{id}: the row is masked, its loans go on. *)
MasquerLivre(l) ==
  /\ livres[l].etat = "visible" /\ verrouLivre[l] = Libre
  /\ livres' = [livres EXCEPT ![l].etat = "masque"]
  /\ UNCHANGED <<jour, utilisateurs, emprunts, verrous, edition>>

EtapeEdition(m) == LireLivre(m) \/ EcrireLivre(m) \/ RelireLivre(m)

NextCatalogue ==
  \/ \E m \in Editions : EtapeEdition(m) \/ AnnulerEdition(m)
  \/ \E l \in Livres : CreerLivre(l) \/ MasquerLivre(l)

=============================================================================
