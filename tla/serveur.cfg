SPECIFICATION Spec
CHECK_DEADLOCK FALSE
CONSTANTS
  Clients = {c1}
  Debit = 1
  Rafale = 2
  Oubli = 1
  Requetes = {r1, r2, s1}
  Sondes = {s1}
  Taches = {t1}
  MaxConnexions = 2
  DelaiLecture = 1
  DelaiTraitement = 1
  DelaiSonde = 1
  DelaiArret = 1
  Libre = Libre
INVARIANTS TypeServeur  PoolAvance
PROPERTIES SeauIdeal SignalTermine
