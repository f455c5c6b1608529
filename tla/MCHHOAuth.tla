------------------------------- MODULE MCHHOAuth -------------------------------
(* Instances of HHOAuth for TLC. *)
EXTENDS HHOAuth, TLC

Symmetry == Permutations(States) \cup Permutations(Callbacks) \cup Permutations(Callers)
=============================================================================
