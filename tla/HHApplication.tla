---------------------------- MODULE HHApplication ----------------------------
(***************************************************************************)
(* Submitting an application to HeadHunter: the rows of `hh_applications`  *)
(* and `application_confirmations`, the lifecycle row of each vacancy, the *)
(* asyncio tasks that read and write them (one per Telegram update), the   *)
(* reconciliation job, and HeadHunter as the environment.                  *)
(*                                                                         *)
(* Modelled from app/repositories/hh_application_repository.py,            *)
(* app/services/hh_application.py, the handlers of                         *)
(* app/bot/hh_applications.py that call them, ApplicationRepository        *)
(* .transition, and the start and periodic runs of the reconciliation.     *)
(*                                                                         *)
(* A repository method opens a session, SELECTs, and commits: two steps,   *)
(* between which any other task may run.  Locks are those of the database: *)
(*   RowLocks = TRUE   PostgreSQL: SELECT .. FOR UPDATE holds an existing  *)
(*                     row until the commit;                               *)
(*   RowLocks = FALSE  SQLite: FOR UPDATE does nothing, but an UPDATE      *)
(*                     statement holds the one write lock until the commit.*)
(***************************************************************************)
EXTENDS LifecycleRecord, Naturals, FiniteSets

CONSTANTS
  Applications,   \* identities (user, vacancy, resume): the unique constraint
  Vacancies,
  VacancyOf,      \* the vacancy of each application
  ManualResume,   \* applications drafted with MANUAL_RESUME_EXTERNAL_ID
  Tokens,         \* confirmation tokens that can be issued
  Handlers,       \* concurrent tasks of the dispatcher
  Reconciler,     \* the reconciliation job
  None,           \* absence of an application, token or vacancy
  DemoMode,       \* Settings.demo_mode
  RowLocks,       \* see above
  ActiveGuard,    \* submissions go through the handler's active_submissions
  UserTargets,    \* statuses users move a vacancy to
  MaxAttempts,    \* Settings.hh_retry_attempts: sends of one request
  MaxCrashes      \* bound: how often the process dies

ASSUME ConstantsAssumption ==
  /\ VacancyOf \in [Applications -> Vacancies]
  /\ ManualResume \subseteq Applications
  /\ Reconciler \notin Handlers
  /\ None \notin Applications \cup Tokens \cup Vacancies
  /\ DemoMode \in BOOLEAN
  /\ RowLocks \in BOOLEAN
  /\ ActiveGuard \in BOOLEAN
  /\ UserTargets \subseteq VacancyStatuses
  /\ MaxAttempts \in Nat \ {0}
  /\ MaxCrashes \in Nat

Tasks == Handlers \cup {Reconciler}

VARIABLES
  row,        \* hh_applications, per identity
  token,      \* application_confirmations, per token
  life,       \* applications, per vacancy
  task,       \* what each task is doing and what it has loaded
  todo,       \* the job's list of submitted applications to repair
  batch,      \* the rows the job loaded to quarantine
  phase,      \* "starting" until the first reconciliation has ended
  crashes,
  posts,      \* how often HeadHunter took up a POST made under a token
  accepted    \* applications HeadHunter holds a negotiation for

vars == <<row, token, life, task, todo, batch, phase, crashes, posts, accepted>>

-----------------------------------------------------------------------------
(* Rows, tokens and tasks *)

\* "absent" stands for a row that does not exist.  process_status is assigned
\* together with api_status everywhere, to the same value.
ApiStatuses ==
  {"absent", "draft", "awaiting_confirmation", "submitting", "submitted",
   "failed", "manual_action_required"}

\* error_code, up to what the program does with it:
\*   retryable   rate_limit, temporary_hh_error
\*   connection  hh_connection_failed: the POST never left
\*   auth        authorization_expired
\*   denied      every definite refusal, and the demo mode
\*   unknown     submission_result_unknown, hh_request_failed
ErrorCodes == {"none", "retryable", "connection", "auth", "denied", "unknown"}

\* stale: submitting_at lies before the job's cutoff.
Rows == [api : ApiStatuses, err : ErrorCodes, attempts : Nat, stale : BOOLEAN]

AbsentRow == [api |-> "absent", err |-> "none", attempts |-> 0, stale |-> FALSE]
NewDraft == [AbsentRow EXCEPT !.api = "draft"]

\* A row that an older version marked submitted without its lifecycle.
LegacyRow == [AbsentRow EXCEPT !.api = "submitted"]

\* The UPDATE a commit flushes: only the columns that differ from the loaded
\* ones.  submitting_at is written by Acquire alone.
FlushRow(current, loaded, new) ==
  [current EXCEPT
     !.api = IF new.api = loaded.api THEN @ ELSE new.api,
     !.err = IF new.err = loaded.err THEN @ ELSE new.err,
     !.attempts = IF new.attempts = loaded.attempts THEN @ ELSE new.attempts]

\* A token past expires_at is "expired" until it is used all the same.
TokenRows == [state : {"unissued", "live", "expired", "used"},
              app : Applications \cup {None}]

Unissued == [state |-> "unissued", app |-> None]

\* What HeadHunter did with a POST it took up.
Answers == {"none", "created", "exists", "refused"}

Outcomes == [api : ApiStatuses, err : ErrorCodes]
Manual(code) == [api |-> "manual_action_required", err |-> code]
Failed(code) == [api |-> "failed", err |-> code]
NoOutcome == [api |-> "absent", err |-> "none"]

Steps ==
  {"idle",
   "prepare", "draft", "confirm",                 \* drafting and confirming
   "consume", "acquire", "leased", "post", "reply",  \* submit_application
   "mark", "marking", "finalize", "finalizing",   \* recording its result
   "transition",                                  \* ApplicationRepository
   "repair", "quarantine"}                        \* the reconciliation job

TaskStates ==
  [at : Steps, app : Applications \cup {None}, tok : Tokens \cup {None},
   vac : Vacancies \cup {None}, row : Rows, life : LifeRows,
   tries : Nat, answer : Answers, outcome : Outcomes, target : VacancyStatuses]

Idle == [at |-> "idle", app |-> None, tok |-> None, vac |-> None,
         row |-> AbsentRow, life |-> NoLifeRow, tries |-> 0, answer |-> "none",
         outcome |-> NoOutcome, target |-> "new"]

Become(p, state) == task' = [task EXCEPT ![p] = state]
GoOn(p, step) == Become(p, [task[p] EXCEPT !.at = step])

\* A free dispatcher task, once start-up is over.
Free(p) == /\ p \in Handlers
           /\ phase = "running"
           /\ task[p].at = "idle"

-----------------------------------------------------------------------------
(* Database locks *)

\* SQLite: acquire_submission holds the write lock from its UPDATE on.
CanWrite(p) ==
  RowLocks \/ \A q \in Tasks \ {p} : task[q].at # "acquire"

\* The conditional UPDATE of a token waits for one that is not committed yet.
TokenUnlocked(p, t) ==
  \A q \in Tasks \ {p} : ~(task[q].at = "acquire" /\ task[q].tok = t)

\* PostgreSQL: finalize_submitted holds the row of its application ...
RowUnlocked(p, a) ==
  RowLocks => \A q \in Tasks \ {p} :
                ~(task[q].at = "finalizing" /\ task[q].app = a)

\* Fault: the lifecycle row is read without FOR UPDATE.
LifeNeverLocked(p, v) == TRUE

\* ... and, like transition, the lifecycle row if there is one to hold.
LifeUnlocked(p, v) ==
  RowLocks => \A q \in Tasks \ {p} :
                ~(/\ task[q].at \in {"finalizing", "transition"}
                  /\ task[q].vac = v
                  /\ task[q].life.exists)

-----------------------------------------------------------------------------
(* Preparing, editing and confirming a draft *)

\* prepare_application: its first read refuses a vacancy already applied for.
PrepareStart(p, a) ==
  /\ Free(p)
  /\ ~HasRegisteredApplication(life[VacancyOf[a]].status)
  /\ Become(p, [Idle EXCEPT !.at = "prepare", !.app = a])
  /\ UNCHANGED <<row, token, life, todo, batch, phase, crashes, posts, accepted>>

\* The HeadHunter token, the resumes or the cover letter are unavailable.
PrepareFail(p) ==
  /\ task[p].at = "prepare"
  /\ Become(p, Idle)
  /\ UNCHANGED <<row, token, life, todo, batch, phase, crashes, posts, accepted>>

\* save_draft's SELECT; a submitted row is returned as it is.
PrepareDraft(p) ==
  /\ task[p].at = "prepare"
  /\ LET r == row[task[p].app] IN
       Become(p, IF r.api = "submitted" THEN Idle
                 ELSE [task[p] EXCEPT !.at = "draft", !.row = r])
  /\ UNCHANGED <<row, token, life, todo, batch, phase, crashes, posts, accepted>>

\* update_cover_letter's SELECT.
EditLetter(p, a) ==
  /\ Free(p)
  /\ row[a].api \notin {"absent", "submitted"}
  /\ Become(p, [Idle EXCEPT !.at = "draft", !.app = a, !.row = row[a]])
  /\ UNCHANGED <<row, token, life, todo, batch, phase, crashes, posts, accepted>>

Redrafted(r) == [r EXCEPT !.api = "draft", !.err = "none"]

\* The commit of either.  An insert that lost the race for the identity is
\* rolled back and the existing row returned.
SaveDraft(p) ==
  LET a == task[p].app
      loaded == task[p].row
  IN /\ task[p].at = "draft"
     /\ CanWrite(p) /\ RowUnlocked(p, a)
     /\ row' = [row EXCEPT ![a] =
                  IF loaded.api # "absent"
                  THEN FlushRow(@, loaded, Redrafted(loaded))
                  ELSE IF @.api = "absent" THEN NewDraft ELSE @]
     /\ Become(p, Idle)
     /\ UNCHANGED <<token, life, todo, batch, phase, crashes, posts, accepted>>

\* create_confirmation: a fresh random token and the SELECT ...
ConfirmStart(p, a, t) ==
  /\ Free(p)
  /\ row[a].api \notin {"absent", "submitted"}
  /\ token[t].state = "unissued"
  /\ \A q \in Tasks : task[q].tok # t
  /\ Become(p, [Idle EXCEPT !.at = "confirm", !.app = a, !.tok = t, !.row = row[a]])
  /\ UNCHANGED <<row, token, life, todo, batch, phase, crashes, posts, accepted>>

\* ... then the commit of the token's row and of the status.
IssueToken(p) ==
  LET a == task[p].app
      t == task[p].tok
      loaded == task[p].row
  IN /\ task[p].at = "confirm"
     /\ CanWrite(p) /\ RowUnlocked(p, a)
     /\ token' = [token EXCEPT ![t] = [state |-> "live", app |-> a]]
     /\ row' = [row EXCEPT ![a] =
                  FlushRow(@, loaded,
                           [loaded EXCEPT !.api = "awaiting_confirmation"])]
     /\ Become(p, Idle)
     /\ UNCHANGED <<life, todo, batch, phase, crashes, posts, accepted>>

-----------------------------------------------------------------------------
(* Submitting: the lease *)

\* final_confirmation_callback and the first read of acquire_submission.  A
\* token that is used or expired is answered from here without any change.
SubmitStart(p, t) ==
  /\ Free(p)
  /\ ActiveGuard => \A q \in Handlers : task[q].tok # t
  /\ token[t].state = "live"
  /\ Become(p, [Idle EXCEPT !.at = "consume", !.app = token[t].app, !.tok = t,
                            !.vac = VacancyOf[token[t].app]])
  /\ UNCHANGED <<row, token, life, todo, batch, phase, crashes, posts, accepted>>

\* Fault: used_at is never written.
MarkUsedForgotten(t) == UNCHANGED token

MarkUsed(t) == token' = [token EXCEPT ![t].state = "used"]

\* Fault: the UPDATE lost its WHERE used_at IS NULL.
ConsumableTwice(t) == token[t].state # "unissued"

\* The rowcount of UPDATE .. WHERE used_at IS NULL: expiry is not looked at
\* again.
Consumable(t) == token[t].state \in {"live", "expired"}

\* The UPDATE of the token and the SELECT of the application.
Consume(p) ==
  LET t == task[p].tok
      a == task[p].app
  IN /\ task[p].at = "consume"
     /\ CanWrite(p) /\ TokenUnlocked(p, t)
     /\ \/ /\ ~Consumable(t)
           /\ Become(p, Idle)
           /\ UNCHANGED token
        \/ /\ Consumable(t)
           /\ row[a].api \in {"submitted", "submitting"}
           /\ MarkUsed(t)
           /\ Become(p, Idle)
        \/ /\ Consumable(t)
           /\ row[a].api \notin {"submitted", "submitting"}
           /\ Become(p, [task[p] EXCEPT !.at = "acquire", !.row = row[a]])
           /\ UNCHANGED token
     /\ UNCHANGED <<row, life, todo, batch, phase, crashes, posts, accepted>>

\* The commit of the lease, with the token.
Acquire(p) ==
  LET t == task[p].tok
      a == task[p].app
      loaded == task[p].row
  IN /\ task[p].at = "acquire"
     /\ RowUnlocked(p, a)
     /\ MarkUsed(t)
     /\ row' = [row EXCEPT ![a] =
                  [FlushRow(@, loaded, [loaded EXCEPT !.api = "submitting",
                                                      !.attempts = @ + 1])
                     EXCEPT !.stale = FALSE]]
     /\ Become(p, [task[p] EXCEPT !.at = "leased", !.row = AbsentRow])
     /\ UNCHANGED <<life, todo, batch, phase, crashes, posts, accepted>>

-----------------------------------------------------------------------------
(* Submitting: the checks before the POST, the POST, and its answer *)

\* The task has decided what it will record.
Decide(p, outcome) ==
  Become(p, [task[p] EXCEPT !.at = "mark", !.tries = 0, !.answer = "none",
                            !.outcome = outcome])

\* The vacancy is gone, archived, or wants a test or an external form; the
\* resume must be chosen on the site; the demo mode; or no access token.
Preflight(p) ==
  LET manual == task[p].app \in ManualResume
  IN /\ task[p].at = "leased"
     /\ \/ Decide(p, Manual("denied"))
        \/ ~manual /\ ~DemoMode /\ Decide(p, Failed("auth"))
        \/ /\ ~manual /\ ~DemoMode
           /\ Become(p, [task[p] EXCEPT !.at = "post", !.tries = 1])
     /\ UNCHANGED <<row, token, life, todo, batch, phase, crashes, posts, accepted>>

\* Fault: the POST is sent like an idempotent request.
AlwaysSendsAgain(failure) == TRUE

\* HHClient._send: which failures of a request that is not idempotent make it
\* send the request again.
SendsAgain(failure) == failure \in {"connect", "throttled"}

\* A send failed: the next one, or the outcome that is recorded for the failure.
SendFails(p, failure, outcome) ==
  IF SendsAgain(failure) /\ task[p].tries < MaxAttempts
  THEN Become(p, [task[p] EXCEPT !.at = "post", !.tries = @ + 1, !.answer = "none"])
  ELSE Decide(p, outcome)

\* ConnectError, ConnectTimeout or PoolTimeout: the request never left.
ConnectFails(p) ==
  /\ task[p].at = "post"
  /\ SendFails(p, "connect", Failed("connection"))
  /\ UNCHANGED <<row, token, life, todo, batch, phase, crashes, posts, accepted>>

\* 429: HeadHunter turns the request away without taking it up.
Throttled(p) ==
  /\ task[p].at = "post"
  /\ SendFails(p, "throttled", Failed("retryable"))
  /\ UNCHANGED <<row, token, life, todo, batch, phase, crashes, posts, accepted>>

\* HeadHunter takes up the request; it keeps one negotiation per application.
Post(p) ==
  LET a == task[p].app
  IN /\ task[p].at = "post"
     /\ posts' = [posts EXCEPT ![task[p].tok] = @ + 1]
     /\ \E answer \in {"refused", IF a \in accepted THEN "exists" ELSE "created"} :
          /\ accepted' = IF answer = "created" THEN accepted \cup {a} ELSE accepted
          /\ Become(p, [task[p] EXCEPT !.at = "reply", !.answer = answer])
     /\ UNCHANGED <<row, token, life, todo, batch, phase, crashes>>

\* 201, or the error value already_applied.
ReplyAccepted(p) ==
  /\ task[p].at = "reply"
  /\ task[p].answer \in {"created", "exists"}
  /\ Become(p, [task[p] EXCEPT !.at = "finalize", !.tries = 0])
  /\ UNCHANGED <<row, token, life, todo, batch, phase, crashes, posts, accepted>>

\* The errors HeadHunter answers when it refused.
ReplyRefused(p) ==
  /\ task[p].at = "reply"
  /\ task[p].answer = "refused"
  /\ \E outcome \in {Failed("auth"), Manual("denied")} :
       Decide(p, outcome)
  /\ UNCHANGED <<row, token, life, todo, batch, phase, crashes, posts, accepted>>

\* A 5xx, whatever happened behind the gateway.
ReplyServerError(p) ==
  /\ task[p].at = "reply"
  /\ SendFails(p, "server", Failed("retryable"))
  /\ UNCHANGED <<row, token, life, todo, batch, phase, crashes, posts, accepted>>

\* Faults: an error code nobody knows, a lost reply taken for a refused
\* connection, and a lost reply taken for success.
UnknownErrorCode == Manual("timeout")
UncertainIsRetryable == Failed("connection")
UncertainIsSuccess == [api |-> "submitted", err |-> "none"]

\* What submit_application records when the reply was lost or unreadable.
UncertainOutcome == Manual("unknown")

ReplyLost(p) ==
  /\ task[p].at = "reply"
  /\ SendFails(p, "timeout", UncertainOutcome)
  /\ UNCHANGED <<row, token, life, todo, batch, phase, crashes, posts, accepted>>

-----------------------------------------------------------------------------
(* Recording the result *)

\* mark_failed and mark_manual_action: the SELECT, then the commit.
MarkLoad(p) ==
  /\ task[p].at = "mark"
  /\ Become(p, [task[p] EXCEPT !.at = "marking", !.row = row[task[p].app]])
  /\ UNCHANGED <<row, token, life, todo, batch, phase, crashes, posts, accepted>>

MarkCommit(p) ==
  LET a == task[p].app
      loaded == task[p].row
      outcome == task[p].outcome
  IN /\ task[p].at = "marking"
     /\ CanWrite(p) /\ RowUnlocked(p, a)
     /\ row' = [row EXCEPT ![a] =
                  FlushRow(@, loaded, [loaded EXCEPT !.api = outcome.api,
                                                     !.err = outcome.err])]
     /\ Become(p, Idle)
     /\ UNCHANGED <<token, life, todo, batch, phase, crashes, posts, accepted>>

\* finalize_submitted: both SELECTs, which on PostgreSQL lock what they find.
FinalizeLoad(p) ==
  LET a == task[p].app
      v == VacancyOf[a]
  IN /\ task[p].at = "finalize"
     /\ RowUnlocked(p, a) /\ LifeUnlocked(p, v)
     /\ Become(p, [task[p] EXCEPT !.at = "finalizing", !.vac = v,
                                  !.row = row[a], !.life = life[v]])
     /\ UNCHANGED <<row, token, life, todo, batch, phase, crashes, posts, accepted>>

\* A task of the dispatcher is done; the job goes on with its list.
AfterFinalize(p) ==
  IF p = Reconciler THEN [Idle EXCEPT !.at = "repair"] ELSE Idle

\* The commit of the result and the lifecycle together, or of neither.
FinalizeCommit(p) ==
  LET a == task[p].app
      v == task[p].vac
      loaded == task[p].row
      conflict == InsertConflict(life[v], task[p].life)
      finalized == FinalizedRow(task[p].life, task[p].answer = "created")
  IN /\ task[p].at = "finalizing"
     /\ CanWrite(p)
     /\ \/ /\ conflict
           /\ Become(p, Idle)
           /\ todo' = IF p = Reconciler THEN {} ELSE todo
           /\ UNCHANGED <<row, life>>
        \/ /\ ~conflict
           /\ row' = [row EXCEPT ![a] =
                        FlushRow(@, loaded, [loaded EXCEPT !.api = "submitted",
                                                           !.err = "none"])]
           /\ life' = [life EXCEPT ![v] = FlushLife(@, task[p].life, finalized)]
           /\ Become(p, AfterFinalize(p))
           /\ UNCHANGED todo
     /\ UNCHANGED <<token, batch, phase, crashes, posts, accepted>>

-----------------------------------------------------------------------------
(* Users moving a vacancy through its lifecycle *)

\* ApplicationRepository.transition: the SELECT and the validation.
TransitionLoad(p, v, target) ==
  /\ Free(p)
  /\ LifeUnlocked(p, v)
  /\ ValidTransition(life[v].status, target)
  /\ ~(life[v].exists /\ life[v].status = target)
  /\ Become(p, [Idle EXCEPT !.at = "transition", !.vac = v,
                            !.life = life[v], !.target = target])
  /\ UNCHANGED <<row, token, life, todo, batch, phase, crashes, posts, accepted>>

TransitionCommit(p) ==
  LET v == task[p].vac
      loaded == task[p].life
  IN /\ task[p].at = "transition"
     /\ CanWrite(p) /\ LifeUnlocked(p, v)
     /\ life' = [life EXCEPT ![v] =
                   IF InsertConflict(@, loaded) THEN @
                   ELSE FlushLife(@, loaded, TransitionRow(loaded, task[p].target))]
     /\ Become(p, Idle)
     /\ UNCHANGED <<row, token, todo, batch, phase, crashes, posts, accepted>>

-----------------------------------------------------------------------------
(* The reconciliation, at start-up and periodically *)

\* Submitted rows whose vacancy has no application on record.
Unrecorded ==
  {a \in Applications : row[a].api = "submitted"
                        /\ life[VacancyOf[a]].source = "null"}

\* Fault: the repair of incomplete results is skipped.
ReconcileNothing ==
  /\ task[Reconciler].at = "idle"
  /\ todo' = {}
  /\ GoOn(Reconciler, "repair")
  /\ UNCHANGED <<row, token, life, batch, phase, crashes, posts, accepted>>

ReconcileStart ==
  /\ task[Reconciler].at = "idle"
  /\ todo' = Unrecorded
  /\ GoOn(Reconciler, "repair")
  /\ UNCHANGED <<row, token, life, batch, phase, crashes, posts, accepted>>

RepairNext(a) ==
  /\ task[Reconciler].at = "repair"
  /\ a \in todo
  /\ todo' = todo \ {a}
  /\ Become(Reconciler, [Idle EXCEPT !.at = "finalize", !.app = a,
                                     !.answer = "created"])
  /\ UNCHANGED <<row, token, life, batch, phase, crashes, posts, accepted>>

\* Fault: no lease is ever considered abandoned.
NeverAbandoned(r) == FALSE

Abandoned(r) == r.api = "submitting" /\ r.stale

NoBatch == [a \in Applications |-> AbsentRow]

\* The rows of the second phase, loaded together.
QuarantineLoad ==
  /\ task[Reconciler].at = "repair"
  /\ todo = {}
  /\ batch' = [a \in Applications |->
                 IF Abandoned(row[a]) THEN row[a] ELSE AbsentRow]
  /\ GoOn(Reconciler, "quarantine")
  /\ UNCHANGED <<row, token, life, todo, phase, crashes, posts, accepted>>

\* One commit for all of them, if there are any; start-up ends with the first
\* run.
QuarantineCommit ==
  /\ task[Reconciler].at = "quarantine"
  /\ batch # NoBatch => CanWrite(Reconciler)
  /\ \A a \in Applications :
       batch[a].api # "absent" => RowUnlocked(Reconciler, a)
  /\ row' = [a \in Applications |->
               IF batch[a].api = "absent" THEN row[a]
               ELSE FlushRow(row[a], batch[a],
                             [batch[a] EXCEPT !.api = "manual_action_required",
                                              !.err = "unknown"])]
  /\ batch' = NoBatch
  /\ phase' = "running"
  /\ Become(Reconciler, Idle)
  /\ UNCHANGED <<token, life, todo, crashes, posts, accepted>>

-----------------------------------------------------------------------------
(* Time, the user on hh.ru, and crashes *)

Age(a) ==
  /\ row[a].api = "submitting"
  /\ ~row[a].stale
  /\ row' = [row EXCEPT ![a].stale = TRUE]
  /\ UNCHANGED <<token, life, task, todo, batch, phase, crashes, posts, accepted>>

Expire(t) ==
  /\ token[t].state = "live"
  /\ token' = [token EXCEPT ![t].state = "expired"]
  /\ UNCHANGED <<row, life, task, todo, batch, phase, crashes, posts, accepted>>

\* The user applies on the official page.
ApplyOnSite(a) ==
  /\ a \notin accepted
  /\ accepted' = accepted \cup {a}
  /\ UNCHANGED <<row, token, life, task, todo, batch, phase, crashes, posts>>

\* The process dies: uncommitted work is lost, the database stays.
Crash ==
  /\ crashes < MaxCrashes
  /\ crashes' = crashes + 1
  /\ task' = [p \in Tasks |-> Idle]
  /\ todo' = {}
  /\ batch' = NoBatch
  /\ phase' = "starting"
  /\ UNCHANGED <<row, token, life, posts, accepted>>

-----------------------------------------------------------------------------

Init ==
  /\ row \in [Applications -> {AbsentRow, LegacyRow}]
  /\ token = [t \in Tokens |-> Unissued]
  /\ life \in [Vacancies -> {NoLifeRow, TransitionRow(NoLifeRow, "viewed")}]
  /\ task = [p \in Tasks |-> Idle]
  /\ todo = {}
  /\ batch = NoBatch
  /\ phase = "starting"
  /\ crashes = 0
  /\ posts = [t \in Tokens |-> 0]
  /\ accepted = {a \in Applications : row[a].api = "submitted"}

\* What a task does on its own once it has been started.
Continue(p) ==
  \/ PrepareFail(p) \/ PrepareDraft(p) \/ SaveDraft(p) \/ IssueToken(p)
  \/ Consume(p) \/ Acquire(p) \/ Preflight(p) \/ ConnectFails(p) \/ Throttled(p)
  \/ Post(p) \/ ReplyAccepted(p) \/ ReplyRefused(p) \/ ReplyServerError(p) \/ ReplyLost(p)
  \/ MarkLoad(p) \/ MarkCommit(p)
  \/ FinalizeLoad(p) \/ FinalizeCommit(p)
  \/ TransitionCommit(p)

\* An update arriving from Telegram.
Request(p) ==
  \/ \E a \in Applications :
       \/ PrepareStart(p, a)
       \/ EditLetter(p, a)
       \/ \E t \in Tokens : ConfirmStart(p, a, t)
  \/ \E t \in Tokens : SubmitStart(p, t)
  \/ \E v \in Vacancies, target \in UserTargets : TransitionLoad(p, v, target)

Reconcile ==
  \/ ReconcileStart
  \/ \E a \in Applications : RepairNext(a)
  \/ QuarantineLoad
  \/ QuarantineCommit

Environment ==
  \/ \E a \in Applications : Age(a) \/ ApplyOnSite(a)
  \/ \E t \in Tokens : Expire(t)
  \/ Crash

Next ==
  \/ \E p \in Tasks : Continue(p) \/ Request(p)
  \/ Reconcile
  \/ Environment

Spec == Init /\ [][Next]_vars

\* Coroutines that were started go on (every HTTP call has a timeout), the
\* job's interval trigger keeps firing, and time passes.  Users owe nothing.
FairSpec ==
  /\ Spec
  /\ \A p \in Tasks : WF_vars(Continue(p))
  /\ WF_vars(Reconcile)
  /\ \A a \in Applications : WF_vars(Age(a))

-----------------------------------------------------------------------------
(* Properties *)

TypeOK ==
  /\ row \in [Applications -> Rows]
  /\ token \in [Tokens -> TokenRows]
  /\ life \in [Vacancies -> LifeRows]
  /\ task \in [Tasks -> TaskStates]
  /\ todo \subseteq Applications
  /\ batch \in [Applications -> Rows]
  /\ phase \in {"starting", "running"}
  /\ crashes \in Nat
  /\ posts \in [Tokens -> Nat]
  /\ accepted \subseteq Applications

\* Between the commit of its lease and the record of the result.
LeaseSteps ==
  {"leased", "post", "reply", "mark", "marking", "finalize", "finalizing"}

HoldsLease(p) == p # Reconciler /\ task[p].at \in LeaseSteps

\* A lease belongs to one token, and a token to one lease: two taps, two
\* tasks and a restart cannot turn one confirmation into two submissions
\* (acquire_submission).
LeasesAreExclusive ==
  \A p, q \in Tasks :
    HoldsLease(p) /\ HoldsLease(q) /\ task[p].tok = task[q].tok => p = q

\* HeadHunter takes up at most one POST per confirmation, and only once the use
\* of the confirmation is committed: a crash can lose a submission but never
\* repeat it, and neither do the client's retries (requests that did not
\* connect or were turned away with 429 are not taken up).
OnePostPerConfirmation ==
  \A t \in Tokens :
    /\ posts[t] <= 1
    /\ posts[t] = 1 => token[t].state = "used"

\* The workflow implements the contract of ConfirmationContract: whatever is
\* interleaved, overwritten, lost or restarted, each POST was confirmed for its
\* own application and no confirmation is spent twice.
Abstract == INSTANCE ConfirmationContract WITH
  Confirmations <- Tokens,
  grant <- [t \in Tokens |-> token[t].app],
  redeemed <- {t \in Tokens : token[t].state = "used"},
  sent <- posts,
  held <- accepted

ImplementsContract == Abstract!Contract

\* A row claims to be submitted only if HeadHunter holds the application,
\* through every stale read, overwrite and repair (submit_application,
\* finalize_submitted, reconcile_incomplete_finalizations).
SubmittedIsTrue ==
  \A a \in Applications : row[a].api = "submitted" => a \in accepted

\* An attempt is counted only for a confirmation that was used up, so the
\* counter never runs ahead of what the user confirmed.
AttemptsAreConfirmed ==
  \A a \in Applications :
    row[a].attempts <=
      Cardinality({t \in Tokens : token[t].app = a /\ token[t].state = "used"})

\* hh_connection_failed, which offers the user a retry, is stored only if
\* some confirmed attempt really never reached HeadHunter.
ConnectionFailureIsTrue ==
  \A a \in Applications :
    row[a].api = "failed" /\ row[a].err = "connection" =>
      \E t \in Tokens :
        token[t].app = a /\ token[t].state = "used" /\ posts[t] = 0

\* The result and the lifecycle are committed together: a row becomes
\* submitted only in a step after which its vacancy has an application source.
SubmittedWithLifecycle ==
  [][\A a \in Applications :
       row[a].api # "submitted" /\ row'[a].api = "submitted" =>
         life'[VacancyOf[a]].source # "null"]_vars

\* application_source is never lost again, whatever the vacancy goes through.
SourceIsKept ==
  [][\A v \in Vacancies :
       life[v].source # "null" => life'[v].source # "null"]_vars

\* A registered application is never hidden: hiding is a verdict on a vacancy
\* one has not applied for, and a concurrent hide must lose against the
\* authoritative result of finalize_submitted.
ApplicationIsNotHidden ==
  [][\A v \in Vacancies :
       HasRegisteredApplication(life[v].status) => life'[v].status # "hidden"]_vars

\* No row stays in `submitting`, neither when the process dies right after the
\* lease nor when recording the result fails (reconcile_stale_submissions and
\* the reconciliation at start-up).
NoSubmissionIsStuck ==
  \A a \in Applications :
    row[a].api = "submitting" ~> row[a].api # "submitting"

\* A submitted row that an older version left without its lifecycle gets it,
\* unless the row is reopened first (reconcile_incomplete_finalizations).
LegacyRowsAreRepaired ==
  \A a \in Applications :
    a \in Unrecorded ~> a \notin Unrecorded

\* What the diagrams of README.md and docs/ARCHITECTURE.md say of a submission
\* in progress: it ends submitted, failed or manual_action_required.
SubmittingEndsInAResult ==
  [][\A a \in Applications :
       row[a].api = "submitting" =>
         row'[a].api \in {"submitting", "submitted", "failed",
                          "manual_action_required"}]_vars

\* What the diagrams say of the end of a submission: no edge leaves submitted.
SubmittedIsFinal ==
  [][\A a \in Applications :
       row[a].api = "submitted" => row'[a].api = "submitted"]_vars

\* One application has one submission in flight: "acquires only one
\* submission" of the concurrent-confirmation test.
OneSubmissionInFlight ==
  \A p, q \in Tasks :
    HoldsLease(p) /\ HoldsLease(q) /\ task[p].app = task[q].app => p = q
=============================================================================
