-------------------------- MODULE LifecycleContract --------------------------
(***************************************************************************)
(* A vacancy's lifecycle as ARCHITECTURE.md describes it, one current row  *)
(* and an append-only trail of every transition, as if each change         *)
(* happened in one step.  The transitions allowed are those of the code's  *)
(* own table (app/vacancy_status.py), of which the diagram in              *)
(* ARCHITECTURE.md shows only a part.  An application that HeadHunter      *)
(* accepted is authoritative and may override the table.                   *)
(***************************************************************************)
EXTENDS LifecycleRecord, Sequences

VARIABLES row, trail

contractVars == <<row, trail>>

ContractInit == row = NoLifeRow /\ trail = <<>>

Record(from, to) ==
  trail' = IF from = to THEN trail ELSE Append(trail, [from |-> from, to |-> to])

Move(target) ==
  /\ target \in Transitions[row.status]
  /\ row' = TransitionRow(row, target)
  /\ Record(row.status, target)

Register(throughBot) ==
  /\ row' = FinalizedRow(row, throughBot)
  /\ Record(row.status, row'.status)

ContractNext ==
  \/ \E target \in VacancyStatuses : Move(target)
  \/ \E throughBot \in BOOLEAN : Register(throughBot)

Contract == ContractInit /\ [][ContractNext]_contractVars
=============================================================================
