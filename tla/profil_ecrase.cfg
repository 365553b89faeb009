SPECIFICATION SpecComptes
CHECK_DEADLOCK FALSE
CONSTANTS
  Anciens = {u1}
  Creations = {}
  Modifications = {m1, m2}
  Fermetures = {}
  Emails = {e1}
  Roles = {"membre", "bibliothecaire"}
PROPERTY
  ProfilSansDroits
