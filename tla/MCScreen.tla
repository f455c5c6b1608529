-------------------------------- MODULE MCScreen --------------------------------
(* Instances of Screen for TLC. *)
EXTENDS Screen, TLC

CONSTANTS v1, v2

TwoCards == <<v1, v2>>

\* Long operations and the digest, while Telegram and the database refuse and
\* messages are deleted.
Operations ==
  [actions |-> {"next", "prepare", "submit", "back", "digest", "delete"},
   failing |-> TRUE, ends |-> 0]

\* Searches beside navigation, and a restart.
Searching ==
  [actions |-> {"command", "search", "back", "collection", "restart"},
   failing |-> FALSE, ends |-> 1]

\* The pages of a vacancy, and the OAuth callback.
VacancyPages ==
  [actions |-> {"command", "collection", "vacancy", "undo", "continue", "register", "connected"},
   failing |-> FALSE, ends |-> 0]

\* Closing the interface under other handlers.
Closing ==
  [actions |-> {"command", "collection", "next", "close"},
   failing |-> FALSE, ends |-> 1]

\* Long operations and the digest while all goes well, and a restart.
Resumed ==
  [actions |-> {"collection", "prepare", "submit", "digest", "restart"},
   failing |-> FALSE, ends |-> 1]

AllSituations == {Operations, Searching, VacancyPages, Closing, Resumed}

Symmetry == Permutations(Handlers)
=============================================================================
