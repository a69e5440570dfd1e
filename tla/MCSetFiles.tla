----------------------------- MODULE MCSetFiles -----------------------------
(***************************************************************************)
(* SetFiles for TLC: two users, sets of two blocks of which the second is  *)
(* not full, one file that is saved atomically and its copy.               *)
(***************************************************************************)
EXTENDS SetFiles

CONSTANTS a, b

Symmetry == Permutations({a, b})

=============================================================================
