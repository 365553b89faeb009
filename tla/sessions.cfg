SPECIFICATION SpecMC
SYMMETRY Symetrie
CHECK_DEADLOCK FALSE
CONSTANTS
  Anciens = {u1}
  Creations = {i1}
  Modifications = {m1}
  Fermetures = {f1}
  Emails = {e1}
  Roles = {"membre", "bibliothecaire"}
  Connexions = {k1}
  Rafraichissements = {r1, r2}
  Deconnexions = {x1}
  Duree = 1
  DureeAcces = 1
  HeureMax = 2
  Aucun = Aucun
INVARIANTS TypeAcces JetonConsomme FermetureTient AutoriteBornee JetonsSansOrphelin RotationOrdonnee
