---------------------------- MODULE VacancyStatus ----------------------------
(***************************************************************************)
(* The vocabulary of app/vacancy_status.py: the statuses of a vacancy, the *)
(* transitions between them, and the status sets the rest of the program   *)
(* asks about.  Everything here is constant level.                         *)
(***************************************************************************)

VacancyStatuses ==
  {"new", "viewed", "saved", "applied_manual", "applied_bot", "hidden",
   "rejected", "interview", "test_task", "offer", "offer_accepted", "archived"}

\* The sources a history row names.  "employer" and "migration" are declared
\* by the enumeration but no handler in app/ passes them.
StatusSources ==
  {"user", "manual", "bot", "system", "employer", "import", "migration"}

ApplicationRecorded ==
  {"applied_manual", "applied_bot", "interview", "test_task", "offer",
   "offer_accepted"}

ManualApplicationEligible == {"new", "viewed", "saved"}

ExcludedFromRecommendations ==
  ApplicationRecorded \cup {"hidden", "rejected", "archived"}

\* Where a recorded application can still go.
AfterInterview == {"rejected", "offer", "archived"}
AfterApplication == {"interview", "test_task"} \cup AfterInterview

Transitions ==
  [new            |-> {"viewed", "saved", "applied_manual", "applied_bot",
                       "hidden", "rejected", "archived"},
   viewed         |-> {"saved", "applied_manual", "applied_bot", "hidden",
                       "rejected", "archived"},
   saved          |-> {"viewed", "applied_manual", "applied_bot", "hidden",
                       "rejected", "archived"},
   applied_manual |-> AfterApplication,
   applied_bot    |-> AfterApplication,
   interview      |-> {"test_task"} \cup AfterInterview,
   test_task      |-> {"interview"} \cup AfterInterview,
   offer          |-> {"offer_accepted", "rejected", "archived"},
   offer_accepted |-> {"archived"},
   hidden         |-> {"viewed", "saved", "archived"},
   rejected       |-> {"archived"},
   archived       |-> {"viewed"}]

HasRegisteredApplication(status) == status \in ApplicationRecorded

\* validate_transition: staying put is always accepted.
ValidTransition(current, target) ==
  current = target \/ target \in Transitions[current]
=============================================================================
