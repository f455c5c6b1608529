-------------------------- MODULE MCVacancyLifecycle --------------------------
(* Instances of VacancyLifecycle for TLC. *)
EXTENDS VacancyLifecycle, TLC

Symmetry == Permutations(Handlers)
=============================================================================
