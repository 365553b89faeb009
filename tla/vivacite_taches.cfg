SPECIFICATION Spec
CHECK_DEADLOCK FALSE
CONSTANTS
  Livres = {l1}
  Utilisateurs = {u1}
  Demandes = {d1, d2}
  Retours = {r1}
  Retraits = {}
  Radiations = {s2}
  Editions = {}
  Totaux = {2}
  Durees = {1}
  Quota = 2
  Retention = 2
  JourMax = 2
  Libre = Libre
INVARIANTS TypeOK RadiationSansPret VerrousRendus
PROPERTIES StatutProgresse RetardSignale RadiationsRepondues
