----------------------------- MODULE MCEmprunts -----------------------------
EXTENDS Emprunts, TLC

Symetrie == Permutations(Livres) \cup Permutations(Utilisateurs)
            \cup Permutations(Demandes) \cup Permutations(Retours)

=============================================================================
