------------------------- MODULE MCOneTimeExecution -------------------------
(* Instances of OneTimeExecution for TLC. *)
EXTENDS OneTimeExecution, TLC

Symmetry == Permutations(Hashes) \cup Permutations(Workers)
=============================================================================
