SPECIFICATION Spec
CHECK_DEADLOCK FALSE
CONSTANTS
  Auteurs = {a1}
  Categories = {c1, c2, c3}
  Livres = {l1}
  Presents = {a1, c1, c2, l1}
  ModifsAuteur = {}
  ModifsCategorie = {m1}
  ModifsLivre = {}
  Effacements = {d1}
  Noms = {1, 2, 3}
  Isbns = {i1}
  Lecteurs = {x1}
  PagesDemandees = {0, 5}
  TaillesDemandees = {0, 3}
  Recherches = {{1, 2, 3}}
  TailleParDefaut = 1
  TailleMax = 2
  IntMax = 7
INVARIANTS TypeListes   PageHorsBornes
 
SYMMETRY Symetrie
