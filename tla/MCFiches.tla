------------------------------ MODULE MCFiches ------------------------------
(* The rows there are at the start play the same part, and so do the isbn. *)
EXTENDS Fiches, TLC

Symetrie ==
  Permutations(Auteurs \cap Presents) \cup Permutations(Categories \cap Presents) \cup Permutations(Isbns)

=============================================================================
