------------------------------ MODULE MCCoverLetter ------------------------------
(* Instances of CoverLetter for TLC. *)
EXTENDS CoverLetter, TLC

Symmetry == Permutations(Handlers) \cup Permutations(Generated) \cup Permutations(Drafts)
=============================================================================
