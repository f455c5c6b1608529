--------------------------- MODULE LifecycleRecord ---------------------------
(***************************************************************************)
(* One row of the `applications` table (the lifecycle of a vacancy) and    *)
(* the two ways the repositories rewrite it: ApplicationRepository         *)
(* .transition and HHApplicationRepository.finalize_submitted.             *)
(*                                                                         *)
(* Both read the row, compute a new one and commit.  The session flushes   *)
(* only the columns whose value differs from the loaded one, and inserts   *)
(* when no row was loaded; vacancy_id is unique, so an insert that lost a  *)
(* race raises IntegrityError and rolls everything back.                   *)
(***************************************************************************)
EXTENDS VacancyStatus

ApplicationSources == {"null", "manual", "bot"}

LifeRows ==
  [exists : BOOLEAN, status : VacancyStatuses, source : ApplicationSources]

\* A missing row reads as status "new", without an application source.
NoLifeRow == [exists |-> FALSE, status |-> "new", source |-> "null"]

\* The application source that goes with a status reached by applying.
SourceOf == [applied_manual |-> "manual", applied_bot |-> "bot"]

\* Fault: the source is stored for every target, not only for an application.
SourceOverwritten(loaded, target) ==
  [exists |-> TRUE,
   status |-> target,
   source |-> IF target \in DOMAIN SourceOf THEN SourceOf[target] ELSE "null"]

\* What transition(target) stores over the loaded row.
TransitionRow(loaded, target) ==
  [exists |-> TRUE,
   status |-> target,
   source |-> IF target \in DOMAIN SourceOf THEN SourceOf[target]
              ELSE loaded.source]

\* finalize_submitted leaves an application that is already further along
\* where it is, including one that was rejected or archived after applying.
PreservesAdvancedStatus(loaded) ==
  \/ HasRegisteredApplication(loaded.status)
  \/ loaded.source # "null" /\ loaded.status \in {"rejected", "archived"}

AppliedStatus(throughBot) == IF throughBot THEN "applied_bot" ELSE "applied_manual"

\* Fault: the result is stored without its application source.
FinalizedWithoutSource(loaded, throughBot) ==
  [exists |-> TRUE, status |-> AppliedStatus(throughBot), source |-> loaded.source]

\* What finalize_submitted stores.  A transition the table forbids is forced,
\* so validity does not change the outcome (it is only noted in the history).
FinalizedRow(loaded, throughBot) ==
  [exists |-> TRUE,
   status |-> IF PreservesAdvancedStatus(loaded) THEN loaded.status
              ELSE AppliedStatus(throughBot),
   source |-> IF loaded.source # "null" THEN loaded.source
              ELSE IF loaded.status \in DOMAIN SourceOf THEN SourceOf[loaded.status]
              ELSE SourceOf[AppliedStatus(throughBot)]]

\* The commit of `new`, computed from `loaded`, over the row `current` that is
\* in the table by then.
InsertConflict(current, loaded) == current.exists /\ ~loaded.exists

\* Fault: the UPDATE spares a registered application, whatever was recorded.
FlushUnlessApplied(current, loaded, new) ==
  IF HasRegisteredApplication(current.status) THEN current ELSE new

FlushLife(current, loaded, new) ==
  [exists |-> TRUE,
   status |-> IF loaded.exists /\ new.status = loaded.status
              THEN current.status ELSE new.status,
   source |-> IF loaded.exists /\ new.source = loaded.source
              THEN current.source ELSE new.source]
=============================================================================
