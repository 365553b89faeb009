SPECIFICATION Spec
CHECK_DEADLOCK FALSE
CONSTANTS
  Utilisateurs <- UtilisateursMC
  Livres <- LivresMC
  Auteurs <- AuteursMC
  Categories <- CategoriesMC
  Emprunts <- EmpruntsMC
  Chemins <- CheminsMC
INVARIANTS EcartsConnus FauteDetectee
