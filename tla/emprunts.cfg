SPECIFICATION SpecEmprunts
SYMMETRY Symetrie
CHECK_DEADLOCK FALSE
CONSTANTS
  Livres = {l1, l2}
  Utilisateurs = {u1, u2}
  Demandes = {d1, d2, d3}
  Retours = {r1, r2}
  Retraits = {}
  Radiations = {}
  Totaux = {1, 2}
  Durees = {1}
  Quota = 1
  Retention = 1
  JourMax = 0
  Libre = Libre
INVARIANTS DepassementBorne StockCoherent VerrousTenus RetourUnique ReponsesVraies
