--------------------------- MODULE VacancyLifecycle ---------------------------
(***************************************************************************)
(* The lifecycle of one vacancy: its row of `applications`, its history,   *)
(* and every handler that moves it.                                        *)
(*                                                                         *)
(* Modelled from app/repositories/application_repository.py, the callers   *)
(* in app/bot/callbacks.py and app/bot/views.py, and finalize_submitted of *)
(* app/repositories/hh_application_repository.py.  Vacancies do not share  *)
(* rows, so one vacancy stands for all.  mark_applied_bot,                 *)
(* mark_applied_external, reject and save_cover_letter have no caller.     *)
(*                                                                         *)
(* A handler reads the vacancy and decides on a target, waits (for         *)
(* Telegram, or the collection to be restored), takes the time, then       *)
(* SELECTs, validates and commits.  The database is settled when the    *)
(* program starts: PostgreSQL locks the rows a session has selected FOR    *)
(* UPDATE, SQLite ignores the clause.                                      *)
(***************************************************************************)
EXTENDS LifecycleRecord, Naturals, Sequences

CONSTANTS
  Handlers,
  MaxChanges    \* bound: how many changes are begun

ASSUME LifecycleAssumption == MaxChanges \in Nat

VARIABLES
  rowLocks,   \* whether the database takes row locks: PostgreSQL, not SQLite
  life,       \* the row of `applications`
  appliedAt,  \* its applied_at, 0 for NULL
  history,    \* vacancy_status_history in the order of the commits
  task,
  clock       \* time, as the number of changes begun

vars == <<rowLocks, life, appliedAt, history, task, clock>>

-----------------------------------------------------------------------------
(* The intents of the handlers *)

\* The card displayed, the favourite toggled, the vacancy hidden, the hiding
\* undone, a lifecycle button, an application marked by hand, and the two
\* results of finalize_submitted.
Intents ==
  {"view", "toggle", "hide", "undo", "button", "manual", "accepted", "imported"}

Finalizing == {"accepted", "imported"}

\* status_source of the change.
SourceOfIntent ==
  [view |-> "system", toggle |-> "user", hide |-> "user", undo |-> "user",
   button |-> "user", manual |-> "manual", accepted |-> "bot",
   imported |-> "import"]

\* What a handler may decide on, by the status it has read.  The buttons of
\* cards and of cards from before the redesign do not disappear when the
\* status changes: save, skip and undo come with any status.
Choices(status, exists) ==
  {[intent |-> "toggle",
    target |-> IF status = "saved" THEN "viewed" ELSE "saved"],
   [intent |-> "hide", target |-> "hidden"],
   [intent |-> "undo", target |-> "viewed"],
   [intent |-> "accepted", target |-> "applied_bot"],
   [intent |-> "imported", target |-> "applied_manual"]}
  \cup {c \in {[intent |-> "view", target |-> "viewed"]} : status = "new"}
  \cup {c \in {[intent |-> "manual", target |-> "applied_manual"]} :
          status \in ManualApplicationEligible}
  \cup {c \in [intent : {"button"}, target : VacancyStatuses \ {"new"}] : exists}

NoChange == [intent |-> "view", target |-> "viewed"]

Steps == {"idle", "decided", "begun", "loaded"}

Idle == [at |-> "idle", change |-> NoChange, now |-> 0,
         life |-> NoLifeRow, appliedAt |-> 0]

Become(p, state) == task' = [task EXCEPT ![p] = state]

\* Fault: SELECT without FOR UPDATE.
NeverLocked(p) == TRUE

\* PostgreSQL: FOR UPDATE keeps others off an existing row until the commit.
Unlocked(p) ==
  rowLocks => \A q \in Handlers \ {p} :
                ~(task[q].at = "loaded" /\ task[q].life.exists)

-----------------------------------------------------------------------------
(* The steps of a handler *)

\* The handler reads the vacancy and decides.
Decide(p) ==
  /\ task[p].at = "idle"
  /\ clock < MaxChanges
  /\ \E change \in Choices(life.status, life.exists) :
       Become(p, [Idle EXCEPT !.at = "decided", !.change = change])
  /\ UNCHANGED <<rowLocks, life, appliedAt, history, clock>>

\* transition or finalize_submitted begins by taking the time.
Begin(p) ==
  /\ task[p].at = "decided"
  /\ clock < MaxChanges
  /\ clock' = clock + 1
  /\ Become(p, [task[p] EXCEPT !.at = "begun", !.now = clock'])
  /\ UNCHANGED <<rowLocks, life, appliedAt, history>>

\* Fault: mark_viewed without only_from.
PermittedFromAny(change, status) ==
  change.intent \notin Finalizing => ValidTransition(status, change.target)

\* mark_viewed passes only_from.
Permitted(change, status) ==
  /\ change.intent = "view" => status = "new"
  /\ change.intent \notin Finalizing => ValidTransition(status, change.target)

\* The SELECT .. FOR UPDATE and what follows it without touching the database:
\* a forbidden or pointless transition ends here.
Load(p) ==
  LET change == task[p].change
  IN /\ task[p].at = "begun"
     /\ Unlocked(p)
     /\ IF /\ Permitted(change, life.status)
           /\ change.intent \notin Finalizing =>
                ~(life.exists /\ life.status = change.target)
        THEN Become(p, [task[p] EXCEPT !.at = "loaded", !.life = life,
                                       !.appliedAt = appliedAt])
        ELSE Become(p, Idle)
     /\ UNCHANGED <<rowLocks, life, appliedAt, history, clock>>

\* The row the handler computed from what it loaded.
NewRow(t) ==
  IF t.change.intent \in Finalizing
  THEN FinalizedRow(t.life, t.change.intent = "accepted")
  ELSE TransitionRow(t.life, t.change.target)

\* Fault: applied_at is set at every application.
SetsAtEveryApplication(t) ==
  t.change.intent \in Finalizing \/ t.change.target \in DOMAIN SourceOf

\* applied_at = applied_at or now, on the paths that assign it.
SetsAppliedAt(t) ==
  /\ t.change.intent \in Finalizing \/ t.change.target \in DOMAIN SourceOf
  /\ t.appliedAt = 0

\* The commit of the row with its history entry, or of neither.
Commit(p) ==
  LET t == task[p]
      new == NewRow(t)
  IN /\ t.at = "loaded"
     /\ Unlocked(p)
     /\ \/ /\ InsertConflict(life, t.life)
           /\ UNCHANGED <<life, appliedAt, history>>
        \/ /\ ~InsertConflict(life, t.life)
           /\ life' = FlushLife(life, t.life, new)
           /\ appliedAt' = IF SetsAppliedAt(t) THEN t.now ELSE appliedAt
           /\ history' = IF new.status = t.life.status THEN history
                         ELSE Append(history,
                                     [from |-> t.life.status, to |-> new.status,
                                      source |-> SourceOfIntent[t.change.intent],
                                      at |-> t.now])
     /\ Become(p, Idle)
     /\ UNCHANGED <<rowLocks, clock>>

\* The process dies, Telegram or the database fails: the session is rolled back.
Abort(p) ==
  /\ task[p].at # "idle"
  /\ Become(p, Idle)
  /\ UNCHANGED <<rowLocks, life, appliedAt, history, clock>>

Init ==
  /\ rowLocks \in BOOLEAN
  /\ life = NoLifeRow
  /\ appliedAt = 0
  /\ history = <<>>
  /\ task = [p \in Handlers |-> Idle]
  /\ clock = 0

Finished == clock = MaxChanges /\ \A p \in Handlers : task[p].at = "idle"

Next ==
  \/ \E p \in Handlers : Decide(p) \/ Begin(p) \/ Load(p) \/ Commit(p) \/ Abort(p)
  \/ Finished /\ UNCHANGED vars

Spec == Init /\ [][Next]_vars

-----------------------------------------------------------------------------
(* Properties *)

TypeOK ==
  /\ rowLocks \in BOOLEAN
  /\ life \in LifeRows
  /\ appliedAt \in 0..clock
  /\ \A i \in DOMAIN history :
       history[i] \in [from : VacancyStatuses, to : VacancyStatuses,
                       source : StatusSources, at : 1..clock]
  /\ task \in [Handlers ->
                 [at : Steps, change : [intent : Intents, target : VacancyStatuses],
                  now : 0..clock, life : LifeRows, appliedAt : 0..clock]]
  /\ clock \in 0..MaxChanges

LastOf(entries) == entries[Len(entries)]

\* The row and the trail are committed together: whatever the handlers raced
\* for, the status is the one the last committed entry names
\* (ApplicationRepository, "committed atomically").
StatusIsRecorded ==
  life.status = IF history = <<>> THEN "new" ELSE LastOf(history).to

\* A vacancy whose status says that it was applied for carries the application
\* in its funnel columns too: a source, and since when.
AppliedIsDocumented ==
  HasRegisteredApplication(life.status) => life.source # "null" /\ appliedAt # 0

\* Displaying a card only ever turns a new vacancy into a viewed one: it never
\* overrides a decision taken while the card was on its way (mark_viewed).
ViewNeverOverrides ==
  [][\A p \in Handlers :
       /\ task[p].at = "loaded" /\ task'[p].at = "idle"
       /\ task[p].change.intent = "view"
       => life' = life \/ life.status = "new"]_vars

\* applied_at is when the application was made: with row locks it does not
\* move.  SQLite commits over it what a handler computed from an older row.
AppliedAtIsKept ==
  [][rowLocks /\ appliedAt # 0 => appliedAt' = appliedAt]_vars

\* With row locks the handlers implement the lifecycle of the documentation:
\* every change happens as if in one step, from the status its entry names.
Abstract == INSTANCE LifecycleContract WITH
  row <- IF rowLocks THEN life ELSE NoLifeRow,
  trail <- IF rowLocks THEN [i \in DOMAIN history |->
                              [from |-> history[i].from, to |-> history[i].to]]
           ELSE <<>>

ImplementsLifecycle == Abstract!Contract

\* ARCHITECTURE.md: the current state is in `applications` and every transition
\* in the history.  history() orders the entries by changed_at; the last of
\* them is the transition to the current status.
HistoryEndsInStatus ==
  \A i \in DOMAIN history :
    (\A j \in DOMAIN history : history[j].at <= history[i].at)
      => history[i].to = life.status
=============================================================================
