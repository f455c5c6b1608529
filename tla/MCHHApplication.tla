--------------------------- MODULE MCHHApplication ---------------------------
(* Instances of HHApplication for TLC. *)
EXTENDS HHApplication, TLC

CONSTANTS a1, a2, v1

\* One application of one vacancy, or two resumes for the same vacancy.
OneApplication == {a1}
TwoApplications == {a1, a2}
SameVacancy == [a \in Applications |-> v1]

Symmetry == Permutations(Handlers) \cup Permutations(Tokens)
=============================================================================
