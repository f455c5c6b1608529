# A TLA+ model of the AI recruiter

The AI recruiter is a Telegram bot for one user. It searches HeadHunter, ranks what it finds
with a language model, keeps the lifecycle of every vacancy and submits applications that the
user confirmed twice. It runs as one asyncio process: aiogram handles each update in a task of
its own, APScheduler runs two jobs, an aiohttp server completes OAuth, and all of them share a
database (SQLite by default, PostgreSQL in deployment) and a few in-memory objects. Nothing is
preempted between two awaits, so every model cuts the code at its awaits, and every action below
is the code between two of them.

## Inventory

| Component | State | Operations | What is hard |
|---|---|---|---|
| Application submission (`services/hh_application.py`, `repositories/hh_application_repository.py`, `bot/hh_applications.py`) | `hh_applications`, `application_confirmations`, `active_submissions` | prepare, edit, confirm, submit, record the result, reconcile | two presses of one button, a lost answer, a crash after the lease, a result that races other writers |
| Vacancy lifecycle (`vacancy_status.py`, `repositories/application_repository.py`) | `applications`, `vacancy_status_history` | transition, mark viewed, finalize | lost updates between handlers, inserts that collide, time stamps taken early |
| HeadHunter account (`services/hh_oauth.py`, `repositories/hh_integration_repository.py`, `services/hh_oauth_callback.py`) | `oauth_states`, `user_integrations`, `hh_resumes`, the refresh lock | connect, refresh, synchronise resumes | one-time codes, rotating refresh tokens, a save that fails |
| Vacancy search (`services/vacancy_search.py`, `services/vacancy_ranker.py`, `repositories/vacancy_repository.py`) | `vacancies`, `vacancy_analyses`, the search lock, the pool's index, counters and locks | query, fetch, rank, save, report | stale analyses, overlapping searches, failures inside the pool |
| Resumes (`repositories/hh_integration_repository.py`, `services/hh_application.py`) | `hh_resumes` with `is_default` | synchronise, choose | every row of an account is rewritten from what one session read |
| Cover letters (`services/cover_letter.py`, `bot/hh_applications.py`) | the draft's letter, the page, the FSM state `waiting_for_text` | prepare, show, edit, confirm, post | three things that change one after the other, with awaits between |
| Bot screen (`bot/ui.py`, `bot/views.py`, `bot/callbacks.py`, `bot/handlers.py`) | `UISession`, `bot_ui_sessions`, the chat's lock, the message itself | navigate, draw, persist, restore, close | late answers that replace a newer screen, restarts |
| Digest (`services/digest.py`, `scheduler/jobs.py`) | `vacancies.is_sent` | draw the first of the new vacancies | the user is using the screen |
| HeadHunter client (`sources/hh.py`) | the application's token and its lock, the retry loop | requests | what may be repeated, tokens dropped by a request that used an older one |
| Telegram transport, startup and shutdown (`network/telegram.py`, `main.py`, `health.py`) | routes, cooldowns, the active route, `_closing`, the health registry | requests, failover, bootstrap, polling, shutdown | what may be repeated, requests that fail over during the shutdown |
| AI providers, prefilter, prompts, texts, configuration, migrations | none that changes | pure functions, prompts, I/O | - |

They interact as follows. A handler owns the flow: it restores the session, changes it, draws, and
calls a service. The submission service takes its access token from the account service, its
retries from the HeadHunter client, its resume from the account's rows and its letter from the
letter service, and records results through its repository, which writes the
lifecycle row in the same transaction. The search is called by a handler and by a job, under one
`search_lock`; the job passes what it finds to the digest, which draws on the handlers' screen. Whatever
draws goes through the failover session that the main task polls with.
The reconciliation job and the startup repair what a crash left behind.

What makes each component correct:

* submission: a confirmation is spent once, by one task, for its own application; a row says
  `submitted` only if HeadHunter has the application; nothing stays `submitting`; result and
  lifecycle are committed together;
* lifecycle: the row and the trail agree, an application keeps its source and first date, and a
  card being displayed overrides nothing;
* account: a code is exchanged once, a rotated refresh token is neither used nor kept, the lock is
  always handed on; one resume is the default, and it is the one the user chose;
* letters: what is posted is what the user typed or was shown, and nobody's letter is lost;
* client: a token that works is kept, a stale one fails no request;
* transport: a message is not doubled, the best route is used, nothing begins after the shutdown;
* search: what was found is ranked once and stays current, requests are bounded, a search ends;
* screen: nobody draws over what was opened later, a restart restores what was there, one message;
* digest: only a card that was shown counts as sent, and only the menu is replaced.

## Modules

| Module | What it is |
|---|---|
| `VacancyStatus` | the statuses, their classes and the table of transitions |
| `LifecycleRecord` | one row of `applications`: the two ways to write it, and how a commit merges with what others wrote |
| `HHApplication` | the submission workflow (uses `LifecycleRecord`) |
| `ConfirmationContract` | what a confirmation promises, in three actions; `HHApplication` implements it |
| `VacancyLifecycle` | every handler that moves a vacancy, with the history (uses `LifecycleRecord`) |
| `LifecycleContract` | the lifecycle as atomic steps, along the code's own table of transitions (`vacancy_status.py`); `VacancyLifecycle` implements it with row locks |
| `HHOAuth` | OAuth states, token exchange, refresh |
| `HHResumes` | the synchronisation of the resumes and the choice of a default one |
| `CoverLetter` | the letter of a draft, the page that shows it, the state that awaits a text |
| `HHClient` | the token of the application and the requests that share it |
| `TelegramTransport` | the failover session, the main task, shutdown, health |
| `VacancySearch` | the search, its pool of workers and its cache |
| `Screen` | the interface, the digest, the OAuth callback's page and the long operations |
| `MC...` | instances for TLC: sets of model values, symmetry, situations |
| `HHApplicationProofs`, `LifecycleProofs`, `HHOAuthProofs`, `HHResumesProofs`, `TransportProofs`, `SearchProofs`, `CoverLetterProofs`, `ScreenProofs` | theorems; those about `HHClient` are in `TransportProofs` |

Every module has, beside the definitions of the code, a few marked `Fault`. They are what a
plausible mistake would make of the definition that follows; each property has one that TLC finds
to violate it, and no run uses them otherwise.

### State and code

*Transactions.* A repository method opens a session, SELECTs, computes and commits. It is two
actions (`...Load`/`...Commit`, `Consume`/`Acquire`, `SaveLoad`/`SaveCommit`), and the task keeps
the row it loaded. SQLAlchemy flushes only columns that changed against the loaded row, and this is
what `FlushRow`, `FlushLife` and `FlushTokens` compute: two writers overwrite each other column
by column. `RowLocks` (in `VacancyLifecycle` the variable `rowLocks`, chosen by `Init`) selects the database: with PostgreSQL `SELECT .. FOR UPDATE` keeps an
existing row until the commit; SQLite ignores it, but an UPDATE holds the one write lock
(`CanWrite`).

*`HHApplication`.* `row` is `hh_applications` per identity (user, vacancy, resume), `token` the
confirmations, `life` the lifecycle rows, `task` what each coroutine of the dispatcher and the job
is doing. `posts` and `accepted` are HeadHunter: how often it took up a POST made with a token, and
which applications it holds. `SendsAgain` is `_send`'s decision about a request that is not
idempotent. `Age` and `Expire` are the clock against the two time limits, `ApplyOnSite` the user on
hh.ru. `Init` allows the rows an older version left behind.

*`VacancyLifecycle`.* One vacancy and all of the intents that move it: choosing a status, hiding
and restoring, a card being displayed, a manual application, a result from HeadHunter. `history` is
the append-only table with `changed_at` as a logical clock.

*`HHOAuth`.* Tokens are numbers in the order of issue. `lost` are refresh tokens whose
replacement never reached the bot, the only ones that may be presented again. `ExpireState` may
fall between the read and the conditional UPDATE of `consume_oauth_state`.

*`VacancySearch`.* The content of a vacancy is a version; `Relevant` are those the prefilter
accepts. An analysis remembers the version and configuration it was made from, which is what
`input_hash` compares; `ScopeOf` is the part of a configuration that `analysis_scope` names. Any
stored row may have grown old when `external_ids_needing_refresh` looks (`aged`). `Presses` are the
searches of the button, which show their progress: a message that cannot be drawn ends them
(`SearchFails`, `ProgressFails`), since `ui.py` catches Telegram's own errors only. When this happens
in the pool, `gather` raises at once, the search frees `search_lock`, and the workers it started go on
without it (`abandoned`); `beside` remembers that a search began its ranking beside such workers.
`asked`, `refusals`, `inFlight` and `beside` are ghosts.

*`HHResumes`.* `rows` is `hh_resumes` (rows are never deleted, `is_active` does not matter to the
choice), `account` what HeadHunter lists. A task fetches, loads, commits and chooses; a commit writes
the rows that differ from what it loaded. Who prepares without naming a resume gets the default.

*`CoverLetter`.* `row` is the draft's status and letter, `page` the message, `waiting` the FSM
state, `operation` the generation of the session's operation, `queue` the chat's lock. A handler is
cut where it awaits: the letter is written by the model (`writing`), saved, drawn; a text is stored,
then the state is cleared. Leases, retries and recovery are `HHApplication`'s and single steps here.
`known`, `written` and `crossed` are ghosts: what the user saw or typed, what he stored last, and
whether two tasks stored letters across each other.

*`HHClient`.* Tokens are numbers in the order of issue; `valid` is HeadHunter's, `received` what
reached the client. A call takes the lock only when it finds no token, repeats what may be repeated,
drops a token that was refused if it is still the cached one, and goes round once more. The client's
id and secret are taken to be configured: without them there is no token. Its definitions have names
of their own (`ClientSpec`, `clientVars`), so that one module can prove about both clients.

*`TelegramTransport`.* A request holds the routes it may still try and the cooldowns it saw; a
cooldown is what is left of `unavailable_until`. The state lock is never held across an await, so a
failed attempt, its mark and the choice of the next route are one step (`Attempt`). `phase` is the
main task: commands, webhook, the sleep between two tries, aiogram's first `getMe`, polling, the
`finally` that closes. A `getMe` that fails leaves `start_polling` with its exception. The
aiogram dispatcher (`getMe`, `getUpdates`, the signal handlers) is external and modelled as the code
uses it; a second signal does nothing more. After the bootstrap the component is marked ok even if a
route is cooling down.

*`Screen`.* `shown` is the chat, `session` the `UISession`, `db` its row, `queue` the chat's
`asyncio.Lock` (its holder first). A task's draw is three steps: it changes the session and queues
(`RenderOn`), edits or sends (`Edit`, `Send`, `DrawFails`), persists and runs on (`Persist`). `close`
drops the session with its generation and its lock: tasks that wait for the old lock are counted in
`locks`, a task that holds a dropped session is an `orphan`, and `row` is the snapshot it is writing.
`rendered`, `before` (which of two running tasks started first), `superseded` and `astray` (what is no
longer what was drawn, see below) are ghosts. Screens that behave alike share a name, one button
stands for those that do the same. What the user does, whether Telegram and the database refuse, and
how often the session ends, is a `situation`: a run takes several and each behaviour is in one.

## What the runs check

| Run | Question | Instance |
|---|---|---|
| `submission_sqlite` | are confirmations spent once, and are the rows true? | 2 handlers, the job, 2 tokens, a user who rejects the vacancy, SQLite, the handler's own guard off |
| `submission_postgres` | with row locks, can a hide beat an accepted application? Is a failed connection one even after a 429? Does the workflow implement `ConfirmationContract`, does every `submitting` row end, is every legacy row repaired? | 2 handlers, the job, 1 token, 2 attempts of the client, 1 crash, fairness |
| `lifecycle` | do row and trail agree on either database, and with row locks, is it `LifecycleContract`? | 2 handlers, 4 changes, SQLite and PostgreSQL |
| `oauth_tokens` | are codes and refresh tokens used once, is the refresh lock handed on? | 2 states, 2 callbacks, 2 callers, 3 tokens, any number of crashes, fairness |
| `resumes` | is the default unique, kept by a synchronisation, repaired after an overlap? | 3 resumes, 2 tasks, 2 changes of the account |
| `letters` | is the posted letter the user's, does the page that asks for a letter get it? | 1 draft, 2 handlers, 2 generated letters, 1 typed, 1 confirmation |
| `application_token` | are tokens neither wasted nor fatal, is the lock handed on? | 3 calls, 2 attempts, 2 tokens, revocations, fairness |
| `telegram` | are messages not doubled, are all routes tried, is nothing begun after the shutdown, does health come back? | 3 routes, the main task, 1 handler, cooldowns of 2 ticks, 2 troubles, fairness |
| `search_pool` | are analyses current and never repeated? | the job and the button, 2 workers each, 2 vacancies, 3 versions, 2 configurations of one scope, malformed answers, any number of restarts |
| `search_limit` | are requests and failures bounded, does every search end? | the button, 2 workers, 3 vacancies, limit 2, every failure of the provider, fairness |
| `screen` | can the result of a submission replace a later screen, does only a card that was shown count as sent, is the position kept, does progress hide a screen? | 2 handlers and the digest or the callback, 2 messages, 4 generations, five situations: operations while Telegram and the database refuse; operations and a restart; searches and a restart; the pages of a vacancy; closing |
| `edited_letter` | is the last edited letter the one that is posted? (no, see below) | as `letters` |

The bounds are the smallest at which the races happen: two tasks that load before either commits,
a second token to confirm again with, one crash between any two steps, a content that changes and
one that is not relevant, a message that is gone and one that replaces it, three routes so that a
request can fail over twice, a token that is stale and the one that replaces it, three calls so that
one waits for the lock while another returns with an older token. `MaxChanges`, `MaxIssues`,
`MaxTroubles`, `MaxTokens`, `MaxGeneration`, `MaxMessages`, `MaxCrashes` and a situation's `ends` cap
counters that the code leaves unbounded; in `HHOAuth`, `CoverLetter` and `Screen` the system stops
when they are reached, so deadlock is not checked there. `MaxAttempts`, `MaxAnalyses` and `Cooldown`
are settings of the code. Symmetry is used for handlers, tasks, tokens, letters and resumes, in runs
without liveness.

The larger runs: `search_pool` has 3,078,108 distinct states, `letters` 2,926,870, `screen` 2.6
million, `telegram` 724,680, `application_token` 469,393.
`CoverLetter` with two drafts passes too (8,451,603 states), but is not a run for its length.

Two settings stay at one value in every run, because a second application with its own identity
multiplies the states beyond reach: `DemoMode` is off and `ManualResume` is empty, so the preflight
branches they select (a draft that must be sent by hand) are covered by the proofs only.
`Submission_postgres` with `TwoApplications`, `ManualResume = {a2}`, `UserTargets = {"hidden"}`
and one handler is small and passes too.

Right after a restart `_hydrate` marks the chat as restored before its row is read, and a second
handler works on a blank session, over which the row is read later. Two situations have a restart and
with it that race, one of them with the digest. What it costs is not left out of
the model but said by the ghost `astray`, which the properties of `Screen` read: "screen" when the row
was read over a session in use, "position" when a step changed the position and draws nothing,
"messages" when the chat got a second message (the disagreement `OneActiveMessage`).

Some properties are stated and hold on the same instances, but are no run's: the `TypeOK` of the
modules other than `HHApplication` (the proofs have a type invariant of their own; `CoverLetter`'s is
a theorem), `SelectedIsListed`, `DownIsTrue` and `StoredIsRenewable` (theorems), `CacheIsNewest`,
`ProgressNeverGoesBack`, `AttemptsAreConfirmed` and `AppliedIsDocumented`.

### Disagreements

`edited_letter` ends in a counterexample, quoted in PROJECT.json: a preparation reads the letter,
waits for the model and saves what it wrote over a letter that the user stored meanwhile, in a second
preparation he opened after Back; nothing is drawn, and HeadHunter gets the generated one.
`PostedLetterIsTheUsers` is what holds as long as no two tasks store letters across each other.

The modules state the following properties too. None holds; the configuration named shows the
counterexample when the property is added to it, with `CHECK_DEADLOCK FALSE`.

| Property | Says | What happens | Configuration |
|---|---|---|---|
| `OneSubmissionInFlight` | docs/ARCHITECTURE.md:67-68, tests/test_hh_application.py:312 | two confirmations of one application are in flight at once; HeadHunter's own check is then what prevents a duplicate | `Submission_sqlite`, also with `RowLocks` and `ActiveGuard` on |
| `SubmittingEndsInAResult` | README.md:86-94: submitting leads to a result | saving, editing or confirming a draft resets a row whose submission is in flight | `Submission_sqlite` |
| `SubmittedIsFinal` | README.md:86-94: no edge leaves submitted | a handler with a stale row overwrites `submitted` | `Submission_sqlite` |
| `ApplicationIsNotHidden` | repositories/hh_application_repository.py:342-343: a hide is overridden by an accepted application | on SQLite a hide overwrites the result of a submission | `Submission_sqlite` with `UserTargets = {"hidden"}` |
| `HistoryEndsInStatus` | docs/ARCHITECTURE.md:132: state and trail | `changed_at` is taken before the wait for the row, so the newest entry need not be the current status | `Lifecycle` |
| `RankingIsConcurrencyBounded` | docs/DEPLOYMENT.md:120: `AI_RANKING_CONCURRENCY` limits the number of simultaneous ranking requests | the workers of a search whose progress message could not be drawn go on beside the next search | `Search_pool` |
| `OutagesAreSurvived` | docs/DEPLOYMENT.md:59: while Telegram is unavailable at the start, the process stays alive and tries again | right after the bootstrap aiogram's `getMe` is tried once on every route, and its failure ends the main task | `Telegram` |
| `RecommendedIsCurrent` | README.md:23: "Top results built only from current evaluations" | `list_digest_candidates` never compares `input_hash` | `Search_pool` |
| `ChoiceIsKept` | hh_application.py:317: a preparation that names no resume uses the default | it writes the default it read before the user chose another one | `Resumes` |
| `OnlyEditPageAsks` | hh_applications.py: the state is cleared when the page is left | two presses change state and page in different orders; the next text is taken for a letter | `Letters` |
| `OperationNeverRedraws` | docs/ARCHITECTURE.md:75: a cancelled operation does not draw | prepare starts its operation after its first draw, and so survives a Back pressed during it | `Screen` |
| `SearchNeverRedraws` | tests/test_hh_handlers.py:580: `test_search_completion_cannot_overwrite_screen_opened_with_back` | the end of a search checks the screen, then awaits, then draws | `Screen` |
| `OneActiveMessage` | README.md:29-30: "edits one active message and restores screen state after a restart" | two handlers right after a restart leave two active messages | `Screen` |
| `IntentIsKept` | docs/ARCHITECTURE.md:76: the pending OAuth intent survives a restart | a submission that was superseded sets it and does not draw, and only a draw persists | `Screen` |

The diagram of docs/ARCHITECTURE.md:100-129 leaves out transitions that `vacancy_status.py` allows
(`new` to `saved`, or to an application, and most ways to the archive among them). The models take the
code's table, so `ImplementsLifecycle` says nothing of the diagram.

The conditions in the properties of `search_pool` and `screen` are what the code needs: without them
they fail.

* `NoRequestIsWasted` and `CompleteSearchIsCurrent` need a search that did not begin to rank beside
  workers which an earlier one abandoned: they may be asking for the same vacancies, and may save
  what they ranked before the content changed, over the newer analysis. Both fail on `Search_pool`
  when `~run[s].beside` is taken out of them.

* `SubmissionNeverRedraws` needs `ends = 0`. When a submission runs while the interface is closed, the
  generation restarts at 0 with the new session, so that an older operation can match one counted
  anew, and the chat has two locks (the situation `{"command", "collection", "prepare", "submit",
  "close"}` with `failing` off, `ends` 1 and `MaxGeneration` 6).
* `PositionIsKept` needs `locks = 0`: a page that is being drawn is persisted after the session was
  dropped. And nothing may have moved the position without a draw: a submission that was overtaken
  removes its vacancy from the collection and draws nothing (hh_applications.py:432-435), and the
  digest that is put off has read the row over a session in use (ui.py:301, digest.py:41-47).
* `ProgressNeverHidesAScreen` needs one lock, one message, and a session over which no row was read:
  each of the three lets a search see its own page in the session while the chat shows another.

### Fairness

`FairSpec` of `HHApplication`: a coroutine that was started goes on, because every HTTP call has a
timeout; the reconciliation's interval trigger fires again and again; time passes, so a row in
`submitting` ages. Users owe nothing, and the process may die once more at any point.
`HHOAuth`, `HHClient` (`ClientFairSpec`) and `VacancySearch`: a call that was started goes on, and its requests end.
`asyncio.Lock` wakes its waiters in order, which is a `queue` in the models. `VacancySearch`'s callers
are outside of the fairness: a search that waits for `search_lock` is not promised anything.
`TelegramTransport`: attempts end, because they have timeouts; the main task asks again and wakes from
its sleep; time passes; and routes that went down come back, without which no health could. Users and
signals owe nothing.

## What is proved

The proofs hold for every value of the constants: any number of users, vacancies, tokens, tasks,
routes, workers, cards, messages and crashes. They assume the named `ASSUME` of each module, which TLC
evaluates in every run of it. Beyond that, theorems about PostgreSQL assume its row locks, and two
about the screen that the constant `None` is not a row of `bot_ui_sessions` (`NoneIsNoRow`), which no
`ASSUME` can say in a form TLC evaluates. Every safety property that a passing run checks is a theorem.

* `TypeCorrect` (`HHApplicationProofs`): `Spec => []TypeOK`. The invariant `TypeInv` says the same
  of each variable; the proof goes action by action, with lemmas on what the `Flush...` operators
  and `Become` return.
* `LeaseExclusion` and `OnePost` (`HHApplicationProofs`, as the next two groups): two tasks never hold a lease of one
  confirmation, and a confirmation causes at most one POST, only once its use is committed. Neither
  is inductive: that two leases differ follows from what a task knew before it had its lease.
  `LeaseInv` says that at every step a task carries a token of its own application in the state the
  step needs (unissued while it is issued, consumable in the window of the conditional UPDATE, used
  under a lease, and not posted before the POST); that a token which was not issued belongs to
  nothing, that at most one POST was made with a token and only with a used one; that two tasks never
  own one token; and that the job never takes part.
* `Refinement`: `Spec => Abstract!Contract`. The initial state maps to the contract's, `IssueToken`
  to its granting, `Acquire` (and the refusal in `Consume`) to its redeeming, `Post` to its sending,
  `ApplyOnSite` to holding, and every other step stutters.
* What the rows say. `SubmittedTruth`: a row is `submitted` only if HeadHunter has the application.
  `AcceptInv` adds that the same holds of what a task is about to write, and that no failure is
  recorded as a success. `SourceKept` and `SubmittedTogether`: the source of an application is never
  lost again, and a row becomes submitted together with it; both rest on `SourceInv`, that a task which
  loaded a source is right that there is one (columns that it did not change are not written).
  `ConnectionTruth`: a row says that the connection failed only if a used confirmation was not posted
  and never will be (`ConnectInv`), although another one of the same application may have been.
  `ApplicationVisible`: with row locks a registered application is not hidden; what a task loaded is
  still in the table, and one task at a time has it (`HeldInv`), so that the check of the transition
  is still true at its commit.
* `StatusAgreesWithTrail`, `ViewsAreHarmless`, `AppliedAtStays` and `LifecycleIsImplemented`
  (`LifecycleProofs`): row and trail agree on both databases, a view overrides nothing, and with row
  locks every commit is a step of `LifecycleContract`. The invariant says that a handler which loaded
  the row has an allowed change from it, that a row is "new" exactly while it is missing, and that
  with row locks the loaded row is still the one in the table; the last is what turns a read and a
  commit into one step.
* `OneExchange`, `OneRefresh` and `RowIsRenewable` (`HHOAuthProofs`). The first rests on the
  conditional UPDATE alone (`CodeInv`). The others follow a refresh token from HeadHunter's answer
  through the save into the row, under the lock and back to HeadHunter (`RotationInv`): only the
  holder of the lock presents one (`LockInv`), every token was issued (`BoundInv`), one on its way to
  the row was never presented (`FreshInv`), and what a caller presents is what the row has
  (`CallerInv`).
* `NoTokenIsWasted` and `StaleTokenIsSurvived` (`TransportProofs`): a valid token that reached the
  client is the cached one (`TokenInv`), and a call that is about to try again will not meet another
  token that was dead when it began (`StaleInv`). In `HHOAuthProofs` and here the queue of the lock is
  left out of the types, because nothing depends on it.
* `UniqueDefault`, `ChoiceSurvivesSync` and `RepairBySync` (`HHResumesProofs`): until the account
  changes, the rows are proper now and were when any task loaded them (`DefaultInv`); afterwards a
  synchronisation that nobody overlaps repairs them.
* `ActiveRoute`, `NoDoubledMessage` and `NothingAfterShutdown` (`TransportProofs`): the active route
  is the best at any time (`RouteInv`), and a handler's request has no route left to go on to. That
  a best route exists is the well-foundedness of the numbers. `SafeRequests`: the routes that worked
  throughout a request that may be repeated are the one it is on or among those it may still try
  (`SteadyInv`). `DownTruth`: a route that cools down failed when it was last tried (`DownInv`).
* `LetterTypes`, `PostedLetter` and `EditPage` (`CoverLetterProofs`): what is posted was typed by the
  user or shown to him, and is the last letter he stored. The invariant follows a letter from the text
  or the model through the row to the page and back by the button that was pressed: a page with
  buttons, drawn or waiting to be, is for a draft whose letter is known (`PageInv`, `DrawInv`,
  `TaskInv`); a preparation changes no letter that is there (`PrepInv`); a typed letter that is not
  stored is nowhere else (`TypingInv`). `EditPage` needs what the last of the lock's queue will
  draw, since that is what the user sees when nothing runs (`AskInv`, `QueueInv`).
* `ScreenInvariant`, `RenderedOnly`, `NoLateRedraw` and `PositionSurvives` (`ScreenProofs`). None of the
  properties is inductive, because each is about the end of a draw that began when the session was
  changed. `IInv` says who is in the queue (`Queue`) and that the first of it draws while there is one
  lock (`Lock`); that a card was shown before it is marked (`Marking`); that whoever overtook an
  operation has moved the generation and, if both wait, waits behind it (`Path`, `Generations`); and
  that the row, or the one being written, is the session as soon as nobody owes a draw (`Kept`). The
  steps fall into three kinds, and each part is shown to survive a kind, not an action: those outside
  the lock (`Goes`), drawing (`Draws`), and leaving the lock (`Leaves`); closing and restarts are apart.
* `ProgressKeepsScreens`: the progress of a search finds the page of the search on the chat's message.
  `Showing` adds what the messages show: the session speaks of messages that were sent (`Messaging`);
  if none went astray one is active (`OneMessage`); nobody waits to draw for a session that is not
  restored (`Restoring`); while a search may draw, a session that says "search" is right about what the
  last of the queue is going to draw, and so is its row (`Searched`); and what was drawn stays until
  its task leaves the lock, so that a progress in the queue comes right after the page of a search
  (`Drawing`).
* `RequestsBounded`, `RefusalsBounded`, `CompleteIsCurrent` and `NoWaste` (`SearchProofs`):
  `search_lock` keeps all but one search idle or abandoned (`LockInv`), and a search that began beside
  no abandoned workers stays the only one with a pool (`AloneInv`), so that what it loaded stays what
  is stored (`FreshInv`); no vacancy is with two workers, or waits for one after it was taken
  (`TakenInv`); only what was chosen is asked for, and no more than the limit is chosen (`AskedInv`,
  which needs that ids are distinct: `IdInv`); without a failure, what is not current yet waits or is
  with a worker (`CompleteInv`); after a refusal the requests under way only become fewer
  (`RefusalInv`). The last conclusion needs a worker to exist, which the settings demand.

Only model-checked is liveness, which under fairness needs `ENABLED`: `NoSubmissionIsStuck`,
`LegacyRowsAreRepaired`, `CallersGetTheLock`, `CallsEnd`, `HealthComesBack` and `SearchEnds`. So are the
properties that no run lists, unless they are theorems as said above: `TypeOK` of `Screen` (the bounds
of a position within its collection) and `AttemptsAreConfirmed`, which counts HeadHunter's attempts.
No theorem depends on induction over data.

## What is not modelled

* The expanded card, and the title and kind of a collection, which only change what a page says.
  `Screen` takes a draw as done, refused, or refused because the message is gone; which route carried
  it is `TelegramTransport`'s.
* Prompts, letters' texts, parsing and formatting, which have no state; configuration, which is the
  constants; migrations and scripts, which run before or beside the bot.
* The arithmetic of delays (backoff, jitter, Retry-After) and the wall clock: no code depends on more
  than an order of times. `stream_content` of the failover session has no caller.
* The dispatcher, the scheduler and the HTTP libraries, except for what the code relies on: tasks that
  go on, intervals that fire, locks that are fair. A session used after `close` would be opened again
  by the library; `NothingBeginsAfterShutdown` is why it is not.
* In `Screen`, what a draw raises that `ui.py` does not catch: the handler ends there, which is what it
  does in `VacancySearch`; and the progress of workers that an abandoned search left behind.
* That a refresh which ends after a reconnection stores the tokens of the older authorization: both
  are valid on HeadHunter, and nothing in the code compares accounts.

## Plan

Done: every component with state of its own; every safety property of a passing run is a theorem, in
eight modules of proofs. What would add most next:

1. Proofs: `AttemptsAreConfirmed` and `AppliedIsDocumented`; `CacheIsNewest`; `TypeOK` of `Screen`.
2. Contracts for the components that have none: an abstract account (one grant, renewed in one step)
   that `HHOAuth` implements, an abstract search that `VacancySearch` does.
3. Larger instances: two drafts in `letters`, two applications in `submission_postgres`, a third
   handler in `screen`.
4. `Screen` composed with `TelegramTransport`: a draw that may have arrived although it failed.
