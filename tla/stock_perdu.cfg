SPECIFICATION Spec
CHECK_DEADLOCK FALSE
CONSTANTS
  Livres = {l1}
  Utilisateurs = {u1}
  Demandes = {d1}
  Retours = {r1}
  Retraits = {}
  Radiations = {}
  Editions = {m1}
  Totaux = {1, 2}
  Durees = {1}
  Quota = 2
  Retention = 0
  JourMax = 0
  Libre = Libre
INVARIANT
  StockCoherent
