--------------------------- MODULE MCBibliotheque ---------------------------
EXTENDS Bibliotheque, TLC

Symetrie == Permutations(Livres) \cup Permutations(Utilisateurs)
            \cup Permutations(Demandes) \cup Permutations(Retours)
            \cup Permutations(Editions)

=============================================================================
