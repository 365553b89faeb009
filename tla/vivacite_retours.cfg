SPECIFICATION Spec
CHECK_DEADLOCK FALSE
CONSTANTS
  Livres = {l1}
  Utilisateurs = {u1}
  Demandes = {d1, d2}
  Retours = {r1, r2}
  Retraits = {s1}
  Radiations = {}
  Editions = {}
  Totaux = {1}
  Durees = {1}
  Quota = 2
  Retention = 1
  JourMax = 0
  Libre = Libre
INVARIANTS IntegriteReferentielle 
PROPERTIES TientPromesse DemandesRepondues RetoursRepondus RetraitsRepondus
