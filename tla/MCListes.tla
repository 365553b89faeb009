------------------------------ MODULE MCListes ------------------------------
(* The categories there are at the start play the same part. *)
EXTENDS Listes

Symetrie == Permutations(Categories \cap Presents)

=============================================================================
