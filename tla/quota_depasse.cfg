SPECIFICATION SpecEmprunts
CHECK_DEADLOCK FALSE
CONSTANTS
  Livres = {l1, l2}
  Utilisateurs = {u1}
  Demandes = {d1, d2}
  Retours = {}
  Retraits = {}
  Radiations = {}
  Totaux = {1}
  Durees = {1}
  Quota = 1
  Retention = 1
  JourMax = 0
  Libre = Libre
INVARIANT
  QuotaRespecte
