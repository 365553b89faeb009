SPECIFICATION SpecFiches
CHECK_DEADLOCK FALSE
CONSTANTS
  Auteurs = {a1, a2}
  Categories = {c1}
  Livres = {l1, l2}
  Presents = {a1, c1, l1}
  ModifsAuteur = {m1}
  ModifsCategorie = {}
  ModifsLivre = {p1}
  Effacements = {d1}
  Noms = {1}
  Isbns = {i1, i2}
SYMMETRY Symetrie
INVARIANTS LivreComplet 
