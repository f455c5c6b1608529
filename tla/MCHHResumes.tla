------------------------------ MODULE MCHHResumes ------------------------------
(* Instances of HHResumes for TLC. *)
EXTENDS HHResumes, TLC

Symmetry == Permutations(Resumes) \cup Permutations(Tasks)
=============================================================================
