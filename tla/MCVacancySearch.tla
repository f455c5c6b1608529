---------------------------- MODULE MCVacancySearch ----------------------------
(* Instances of VacancySearch for TLC. *)
EXTENDS VacancySearch, TLC

\* A new resume keeps the scope.
Configurations == {"first", "new_resume"}
Scopes == [c \in Configurations |-> "v1"]

\* One configuration, for the instance about the pool.
FixedConfiguration == {"first"}

Symmetry == Permutations(Vacancies) \cup Permutations(Workers)
=============================================================================
