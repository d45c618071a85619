----------------------------- MODULE MCUserVlob -----------------------------
(* Model-checking instance of UserVlob: the constants come from the .cfg. *)
EXTENDS UserVlob, TLC

\* user ids and writers are interchangeable model values
Symmetry == Permutations(Users) \cup Permutations(Writers)
=============================================================================
