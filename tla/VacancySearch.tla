----------------------------- MODULE VacancySearch -----------------------------
(***************************************************************************)
(* The search for vacancies: HeadHunter is queried, the details of new and *)
(* of aged vacancies are fetched, those that pass the prefilter and have   *)
(* no current analysis are ranked by a pool of workers, and the analyses   *)
(* are kept with a hash of everything they were made from.                 *)
(*                                                                         *)
(* Modelled from app/services/vacancy_search.py, the callers of its run    *)
(* (app/bot/views.py, app/scheduler/jobs.py) with their search_lock,       *)
(* app/services/vacancy_ranker.py and app/repositories/                    *)
(* vacancy_repository.py.  HeadHunter may find and return anything.        *)
(***************************************************************************)
EXTENDS Naturals, FiniteSets

CONSTANTS
  Vacancies,
  Versions,     \* contents a vacancy can have on HeadHunter
  Relevant,     \* those the prefilter accepts
  Configs,      \* provider, model, prompt version, profile and resume ...
  ScopeOf,      \* ... of which analysis_scope names the first three
  Searches,     \* callers of run: the scheduled job and ...
  Presses,      \* ... those of the button, which show their progress in the chat
  Workers,      \* ranking_concurrency
  MaxAnalyses,  \* max_analyses_per_search
  Failures,     \* ways in which the provider fails
  None

ASSUME SearchAssumption ==
  /\ IsFiniteSet(Vacancies) /\ IsFiniteSet(Workers) /\ Workers # {}
  /\ Relevant \subseteq Versions /\ Presses \subseteq Searches
  /\ MaxAnalyses \in Nat \ {0}
  /\ None \notin Vacancies \cup Versions \cup Searches \cup Workers

VARIABLES
  row,       \* vacancies: content, and the order they were inserted in; any
             \* row may have grown old by the time a search looks
  analysis,  \* vacancy_analyses: what was ranked, under which configuration
  config,    \* of the running process
  lock,      \* search_lock: the search that runs ...
  waiting,   \* ... and those about to take it
  run,       \* what a search knows
  worker     \* the tasks of its pool

vars == <<row, analysis, config, lock, waiting, run, worker>>

Content == Versions \cup {None}
NoAnalysis == [version |-> None, config |-> None]
Analyses == [version : Versions, config : Configs] \cup {NoAnalysis}

\* A search: found on HeadHunter, still to be fetched, chosen with the content
\* to rank, not yet handed to a worker.  cut and failed say that the search was
\* not complete; asked and refusals count requests to the provider, inFlight
\* those that were under way when it first refused.  A search that ended by an
\* exception may have abandoned its workers; beside says that another's were
\* still at work when this one chose what to rank.
Runs == [phase : {"idle", "querying", "fetching", "ranking", "abandoned"},
         found : SUBSET Vacancies, todo : SUBSET Vacancies,
         loaded : [Vacancies -> Content], pending : SUBSET Vacancies,
         cut : BOOLEAN, stop : BOOLEAN, failed : BOOLEAN,
         completed : 0..MaxAnalyses, shown : 0..MaxAnalyses,
         progress : Workers \cup {None},
         asked : [Vacancies -> 0..2], refusals : 0..Cardinality(Vacancies),
         inFlight : 0..Cardinality(Workers), beside : BOOLEAN]

IdleRun ==
  [phase |-> "idle", found |-> {}, todo |-> {}, loaded |-> [v \in Vacancies |-> None],
   pending |-> {}, cut |-> FALSE, stop |-> FALSE, failed |-> FALSE, completed |-> 0,
   shown |-> 0, progress |-> None, asked |-> [v \in Vacancies |-> 0], refusals |-> 0,
   inFlight |-> 0, beside |-> FALSE]

Idle == [at |-> "done", vac |-> None, number |-> 0]

-----------------------------------------------------------------------------
(* Analyses *)

\* analysis_is_current: provider, model, prompt and input_hash all match.
Current(v) == analysis[v] = [version |-> row[v].version, config |-> config]

\* list_digest_candidates filters by analysis_scope only.
Recommended(v) ==
  analysis[v] # NoAnalysis /\ ScopeOf[analysis[v].config] = ScopeOf[config]

\* Fault: what was analysed once is not analysed again.
NeverAnalysed(v) == row[v].version \in Relevant /\ analysis[v] = NoAnalysis

\* The prefilter and the cache.
NeedsAnalysis(v) == row[v].version \in Relevant /\ ~Current(v)

\* Fault: the limit is forgotten.
All(candidates) == candidates

\* Candidates in order of id, newest first, cut at the limit.
Newest(candidates) ==
  {v \in candidates :
     Cardinality({w \in candidates : row[w].id > row[v].id}) < MaxAnalyses}

-----------------------------------------------------------------------------
(* Starting a search *)

Advance(s, state) == run' = [run EXCEPT ![s] = state]

\* run_search and scheduled_search return if search_lock.locked(); the handler
\* then draws its screen before it waits for the lock.
RequestSearch(s) ==
  /\ run[s].phase = "idle" /\ s \notin waiting
  /\ lock = None
  /\ waiting' = waiting \cup {s}
  /\ UNCHANGED <<row, analysis, config, lock, run, worker>>

\* Fault: the check before the await is trusted.
LockIgnored == TRUE

LockFree == lock = None

EnterSearch(s) ==
  /\ s \in waiting
  /\ LockFree
  /\ lock' = s
  /\ waiting' = waiting \ {s}
  /\ Advance(s, [IdleRun EXCEPT !.phase = "querying"])
  /\ UNCHANGED <<row, analysis, config, worker>>

FreeLock(s) == lock' = IF lock = s THEN None ELSE lock

Finish(s) == Advance(s, IdleRun) /\ FreeLock(s)

-----------------------------------------------------------------------------
(* HeadHunter *)

\* The answer to one of the queries, duplicates dropped.
Query(s, items) ==
  /\ run[s].phase = "querying"
  /\ items \ run[s].found # {}
  /\ Advance(s, [run[s] EXCEPT !.found = @ \cup items])
  /\ UNCHANGED <<row, analysis, config, lock, waiting, worker>>

\* All queries are answered, or one failed; external_ids_needing_refresh: what is
\* not stored, and what was written more than refresh_ttl_hours ago.
StopQuerying(s) ==
  LET found == run[s].found
      known == {v \in found : row[v].version # None}
  IN /\ run[s].phase = "querying"
     /\ \/ /\ found = {}
           /\ Finish(s)
        \/ \E aged \in SUBSET known :
             /\ found # {}
             /\ Advance(s, [run[s] EXCEPT !.phase = "fetching",
                                          !.todo = (found \ known) \cup aged])
             /\ UNCHANGED lock
     /\ UNCHANGED <<row, analysis, config, waiting, worker>>

\* create_if_new: an insert, or an update.
Store(old, version) ==
  IF old.version = None
  THEN [version |-> version,
        id |-> 1 + Cardinality({v \in Vacancies : row[v].version # None})]
  ELSE [old EXCEPT !.version = version]

\* fetch_and_store, whose failure is counted and skipped.
Fetch(s, v) ==
  /\ run[s].phase = "fetching"
  /\ v \in run[s].todo
  /\ \/ \E version \in Versions : row' = [row EXCEPT ![v] = Store(@, version)]
     \/ UNCHANGED row
  /\ Advance(s, [run[s] EXCEPT !.todo = @ \ {v}])
  /\ UNCHANGED <<analysis, config, lock, waiting, worker>>

\* list_by_external_ids, the prefilter, the cache and the limit.
Choose(s) ==
  LET candidates == {v \in run[s].found : NeedsAnalysis(v)}
      chosen == Newest(candidates)
  IN /\ run[s].phase = "fetching" /\ run[s].todo = {}
     /\ Advance(s, [run[s] EXCEPT
          !.phase = "ranking",
          !.loaded = [v \in Vacancies |-> IF v \in chosen THEN row[v].version ELSE None],
          !.pending = chosen,
          !.cut = chosen # candidates,
          !.beside = \E r \in Searches \ {s} : run[r].phase = "abandoned"])
     /\ worker' = [worker EXCEPT ![s] = [w \in Workers |-> [Idle EXCEPT !.at = "ready"]]]
     /\ UNCHANGED <<row, analysis, config, lock, waiting>>

\* What run does not catch before its pool starts: a progress message that
\* cannot be drawn, a list of vacancies that cannot be read.
SearchFails(s) ==
  /\ \/ run[s].phase = "querying"
     \/ run[s].phase = "fetching" /\ run[s].todo = {}
  /\ Finish(s)
  /\ UNCHANGED <<row, analysis, config, waiting, worker>>

-----------------------------------------------------------------------------
(* The pool *)

HasPool(s) == run[s].phase \in {"ranking", "abandoned"}

Become(s, w, state) == worker' = [worker EXCEPT ![s][w] = state]

\* next_candidate and the request to the provider.
Take(s, w) ==
  LET pending == run[s].pending
      v == CHOOSE x \in pending : \A y \in pending : row[y].id <= row[x].id
  IN /\ HasPool(s)
     /\ worker[s][w].at = "ready"
     /\ \/ /\ run[s].stop \/ pending = {}
           /\ Become(s, w, Idle)
           /\ UNCHANGED run
        \/ /\ ~run[s].stop /\ pending # {}
           /\ Become(s, w, [Idle EXCEPT !.at = "asking", !.vac = v])
           /\ Advance(s, [run[s] EXCEPT !.pending = @ \ {v},
                                        !.asked[v] = IF @ = 2 THEN 2 ELSE @ + 1])
     /\ UNCHANGED <<row, analysis, config, lock, waiting>>

Ranked(s, w) ==
  /\ worker[s][w].at = "asking"
  /\ Become(s, w, [worker[s][w] EXCEPT !.at = "saving"])
  /\ UNCHANGED <<row, analysis, config, lock, waiting, run>>

\* Fault: a provider that is down stops only the vacancy it was asked about.
StopsNobody(failure) == FALSE

\* AIServiceError stops the pool; a malformed answer (AIResponseValidationError)
\* and an unexpected error do not.
StopsThePool(failure) == failure = "service"

Asking(s) == {w \in Workers : worker[s][w].at = "asking"}

RankFails(s, w, failure) ==
  /\ w \in Asking(s)
  /\ Become(s, w, [worker[s][w] EXCEPT !.at = "reporting"])
  /\ Advance(s, [run[s] EXCEPT !.failed = TRUE,
                               !.stop = @ \/ StopsThePool(failure),
                               !.refusals = IF failure = "service" THEN @ + 1 ELSE @,
                               !.inFlight = IF failure = "service" /\ run[s].refusals = 0
                                            THEN Cardinality(Asking(s)) ELSE @])
  /\ UNCHANGED <<row, analysis, config, lock, waiting>>

\* save_analysis, with the hash of what was ranked.
SaveAnalysis(s, w) ==
  LET v == worker[s][w].vac
  IN /\ worker[s][w].at = "saving"
     /\ analysis' = [analysis EXCEPT
          ![v] = [version |-> run[s].loaded[v], config |-> config]]
     /\ Become(s, w, [worker[s][w] EXCEPT !.at = "reporting"])
     /\ UNCHANGED <<row, config, lock, waiting, run>>

SaveFails(s, w) ==
  /\ worker[s][w].at = "saving"
  /\ Become(s, w, [worker[s][w] EXCEPT !.at = "reporting"])
  /\ Advance(s, [run[s] EXCEPT !.failed = TRUE])
  /\ UNCHANGED <<row, analysis, config, lock, waiting>>

\* progress_lock.
ProgressFree(s) == run[s].progress = None

\* report_completion: count ...
Report(s, w) ==
  LET completed == run[s].completed + 1
  IN /\ worker[s][w].at = "reporting"
     /\ ProgressFree(s)
     /\ Become(s, w, [worker[s][w] EXCEPT !.at = "showing", !.number = completed])
     /\ Advance(s, [run[s] EXCEPT !.progress = w, !.completed = completed])
     /\ UNCHANGED <<row, analysis, config, lock, waiting>>

\* Fault: progress_lock is never released.
KeepProgress(s, w) == run[s].progress

ReleaseProgress(s, w) == IF run[s].progress = w THEN None ELSE run[s].progress

\* ... and await the progress message.
ShowProgress(s, w) ==
  /\ worker[s][w].at = "showing"
  /\ Become(s, w, [Idle EXCEPT !.at = "ready"])
  /\ Advance(s, [run[s] EXCEPT !.shown = worker[s][w].number,
                               !.progress = ReleaseProgress(s, w)])
  /\ UNCHANGED <<row, analysis, config, lock, waiting>>

\* The message cannot be drawn, and nothing catches it: the worker ends, gather
\* raises at once and run with it, which frees search_lock; the others go on.
ProgressFails(s, w) ==
  /\ s \in Presses
  /\ worker[s][w].at = "showing"
  /\ Become(s, w, Idle)
  /\ Advance(s, [run[s] EXCEPT !.phase = "abandoned", !.found = {}, !.cut = FALSE,
                               !.progress = ReleaseProgress(s, w)])
  /\ FreeLock(s)
  /\ UNCHANGED <<row, analysis, config, waiting>>

WorkersDone(s) == \A w \in Workers : worker[s][w].at = "done"

PoolDone(s) == run[s].phase = "ranking" /\ WorkersDone(s)

\* The end of a search, or of the workers it left behind.
EndSearch(s) ==
  /\ HasPool(s) /\ WorkersDone(s)
  /\ Finish(s)
  /\ UNCHANGED <<row, analysis, config, waiting, worker>>

-----------------------------------------------------------------------------
(* Restarts *)

\* The process ends, in the middle of a search or not, and starts again, with
\* another provider, prompt, profile or resume or with the same.
Restart(c) ==
  /\ config' = c
  /\ lock' = None
  /\ waiting' = {}
  /\ run' = [s \in Searches |-> IdleRun]
  /\ worker' = [s \in Searches |-> [w \in Workers |-> Idle]]
  /\ UNCHANGED <<row, analysis>>

Init ==
  /\ row = [v \in Vacancies |-> [version |-> None, id |-> 0]]
  /\ analysis = [v \in Vacancies |-> NoAnalysis]
  /\ config \in Configs
  /\ lock = None
  /\ waiting = {}
  /\ run = [s \in Searches |-> IdleRun]
  /\ worker = [s \in Searches |-> [w \in Workers |-> Idle]]

Work(s, w) ==
  \/ Take(s, w) \/ Ranked(s, w) \/ SaveAnalysis(s, w) \/ SaveFails(s, w)
  \/ Report(s, w) \/ ShowProgress(s, w) \/ ProgressFails(s, w)
  \/ \E failure \in Failures : RankFails(s, w, failure)

Proceed(s) ==
  \/ \E items \in SUBSET Vacancies : Query(s, items)
  \/ StopQuerying(s)
  \/ \E v \in Vacancies : Fetch(s, v)
  \/ Choose(s)
  \/ SearchFails(s)
  \/ \E w \in Workers : Work(s, w)
  \/ EndSearch(s)

Next ==
  \/ \E s \in Searches : RequestSearch(s) \/ EnterSearch(s) \/ Proceed(s)
  \/ \E c \in Configs : Restart(c)

Spec == Init /\ [][Next]_vars

\* The requests of a search have timeouts, so a search that runs goes on.
FairSpec == Spec /\ \A s \in Searches : WF_vars(Proceed(s))

-----------------------------------------------------------------------------
(* Properties *)

TypeOK ==
  /\ row \in [Vacancies -> [version : Content, id : 0..Cardinality(Vacancies)]]
  /\ analysis \in [Vacancies -> Analyses]
  /\ config \in Configs
  /\ lock \in Searches \cup {None}
  /\ waiting \subseteq Searches
  /\ run \in [Searches -> Runs]
  /\ worker \in [Searches -> [Workers ->
       [at : {"done", "ready", "asking", "saving", "reporting", "showing"},
        vac : Vacancies \cup {None}, number : 0..MaxAnalyses]]]

\* One search asks for at most max_analyses_per_search analyses, and for no
\* vacancy twice, however its workers interleave (README's bounded ranking).
RequestsAreBounded ==
  \A s \in Searches :
    /\ \A v \in Vacancies : run[s].asked[v] <= 1
    /\ Cardinality({v \in Vacancies : run[s].asked[v] # 0}) <= MaxAnalyses

\* A provider that is down is not asked again: it only refuses what was under
\* way when it refused first (stop_analysis).
FailuresStopThePool == \A s \in Searches : run[s].refusals <= run[s].inFlight

\* A search whose rows and analyses nobody else touches: it runs, and no worker of
\* an earlier one was left behind.
Undisturbed(s) == run[s].phase = "ranking" /\ ~run[s].beside

\* The provider is only asked about what is stored now and has no analysis yet:
\* overlapping requests for a search never pay for the same analysis twice.
NoRequestIsWasted ==
  [][\A s \in Searches, v \in Vacancies :
       Undisturbed(s) /\ run'[s].asked[v] > run[s].asked[v]
         => ~Current(v) /\ run[s].loaded[v] = row[v].version]_vars

\* The count of the progress message never goes back (progress_lock).
ProgressNeverGoesBack ==
  [][\A s \in Searches : run'[s].shown < run[s].shown => run'[s].phase = "idle"]_vars

\* A search without failures and within the limit leaves a current analysis of
\* every relevant vacancy it found, old or new, changed or reconfigured.
CompleteSearchIsCurrent ==
  \A s \in Searches :
    PoolDone(s) /\ ~run[s].beside /\ ~run[s].failed /\ ~run[s].cut
      => \A v \in run[s].found : row[v].version \in Relevant => Current(v)

\* Every search ends and frees search_lock, whatever fails: its two nested locks
\* and its stop event never leave the pool waiting.
SearchEnds == \A s \in Searches : lock = s ~> lock # s

\* docs/DEPLOYMENT.md:120: AI_RANKING_CONCURRENCY "limits the number of simultaneous
\* ranking requests".
RankingIsConcurrencyBounded ==
  Cardinality({p \in Searches \X Workers : worker[p[1]][p[2]].at = "asking"})
    <= Cardinality(Workers)

\* README.md:23: "Top results built only from current evaluations".
RecommendedIsCurrent == \A v \in Vacancies : Recommended(v) => Current(v)
=============================================================================
