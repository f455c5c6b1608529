------------------------- MODULE HHApplicationProofs -------------------------
(***************************************************************************)
(* Theorems about HHApplication, for every set of applications, tokens and *)
(* handlers, both databases, with and without the handler's guard, and any *)
(* number of crashes.  First the types; then the lease: at most one task   *)
(* works under a confirmation, at most one POST is made under it, and the  *)
(* workflow implements ConfirmationContract; then the results: what a row  *)
(* of an application and the lifecycle of its vacancy may say.             *)
(***************************************************************************)
EXTENDS HHApplication, TLAPS

USE ConstantsAssumption

-----------------------------------------------------------------------------
(* Type correctness *)

\* Steps of a task that name no application.
Unbound == {"idle", "transition", "repair", "quarantine"}

\* What a task knows: its application, and before the lease a token that was
\* issued.
Knows(state) ==
  /\ state.at \notin Unbound => state.app \in Applications
  /\ state.at \in {"consume", "acquire"} =>
       state.tok \in Tokens /\ token[state.tok].state # "unissued"

\* TypeOK alone is not inductive: HeadHunter's negotiations and the tokens would
\* take over a task's None.
Bound ==
  /\ \A p \in Tasks : Knows(task[p])
  /\ \A t \in Tokens : token[t].state # "unissued" => token[t].app \in Applications

TypeInv == TypeOK /\ Bound

\* The operators that compute rows stay within their types.
LEMMA FlushRowType ==
  ASSUME NEW r \in Rows, NEW l \in Rows, NEW n \in Rows
  PROVE  FlushRow(r, l, n) \in Rows
BY DEF FlushRow, Rows

LEMMA TransitionRowType ==
  ASSUME NEW l \in LifeRows, NEW target \in VacancyStatuses
  PROVE  TransitionRow(l, target) \in LifeRows
<1>1. TransitionRow(l, target).source \in ApplicationSources
  BY DEF TransitionRow, SourceOf, LifeRows, ApplicationSources
<1> QED BY <1>1 DEF TransitionRow, LifeRows

LEMMA FinalizedRowType ==
  ASSUME NEW l \in LifeRows, NEW b \in BOOLEAN
  PROVE  FinalizedRow(l, b) \in LifeRows
<1>1. FinalizedRow(l, b).source \in ApplicationSources
  BY DEF FinalizedRow, AppliedStatus, SourceOf, LifeRows, ApplicationSources
<1>2. FinalizedRow(l, b).status \in VacancyStatuses
  BY DEF FinalizedRow, AppliedStatus, LifeRows, VacancyStatuses
<1> QED BY <1>1, <1>2 DEF FinalizedRow, LifeRows

LEMMA FlushLifeType ==
  ASSUME NEW c \in LifeRows, NEW l \in LifeRows, NEW n \in LifeRows
  PROVE  FlushLife(c, l, n) \in LifeRows
BY DEF FlushLife, LifeRows

LEMMA IdleType == Idle \in TaskStates
BY DEF Idle, TaskStates, Steps, AbsentRow, Rows, ApiStatuses, ErrorCodes,
       NoLifeRow, LifeRows, VacancyStatuses, ApplicationSources, Answers,
       NoOutcome, Outcomes

\* An issued token stays issued.
TokensStay ==
  \A t \in Tokens : token[t].state # "unissued" => token'[t].state # "unissued"

\* A step of one task leaves every task typed and bound if it leaves that one so.
LEMMA TaskStep ==
  ASSUME TypeInv, NEW p \in Tasks, NEW s \in TaskStates, Become(p, s), Knows(s),
         TokensStay
  PROVE  /\ task' \in [Tasks -> TaskStates]
         /\ \A q \in Tasks : Knows(task[q])'
BY DEF TypeInv, TypeOK, Bound, Become, Knows, TokensStay

\* What remains to be shown of a step that touches no token: the task it changes
\* and the tables it writes.
LEMMA TypeStep ==
  ASSUME TypeInv, NEW p \in Tasks, NEW s \in TaskStates, Become(p, s), Knows(s),
         row' \in [Applications -> Rows], life' \in [Vacancies -> LifeRows],
         UNCHANGED <<token, todo, batch, phase, crashes, posts, accepted>>
  PROVE  TypeInv'
<1>1. /\ task' \in [Tasks -> TaskStates]
      /\ \A q \in Tasks : Knows(task[q])'
  BY TaskStep DEF TokensStay
<1> QED BY <1>1 DEF TypeInv, TypeOK, Bound

\* A task at rest knows nothing, and need not.
LEMMA IdleKnows == Knows(Idle)
BY DEF Knows, Idle, Unbound

-----------------------------------------------------------------------------

LEMMA InitTypeInv == Init => TypeInv
<1> SUFFICES ASSUME Init PROVE TypeInv
  OBVIOUS
<1>1. AbsentRow \in Rows /\ LegacyRow \in Rows
  BY DEF AbsentRow, LegacyRow, Rows, ApiStatuses, ErrorCodes
<1>2. NoLifeRow \in LifeRows /\ TransitionRow(NoLifeRow, "viewed") \in LifeRows
  BY TransitionRowType DEF NoLifeRow, LifeRows, VacancyStatuses, ApplicationSources
<1>3. Unissued \in TokenRows
  BY DEF Unissued, TokenRows
<1>4. TypeOK
  BY <1>1, <1>2, <1>3, IdleType DEF Init, TypeOK, NoBatch
<1>5. Bound
  BY DEF Init, Bound, Knows, Unbound, Idle, Unissued
<1> QED BY <1>4, <1>5 DEF TypeInv

\* Preparing, editing and confirming a draft.
LEMMA DraftingType ==
  ASSUME TypeInv, NEW p \in Tasks,
         \/ \E a \in Applications : PrepareStart(p, a) \/ EditLetter(p, a)
         \/ PrepareFail(p) \/ PrepareDraft(p) \/ SaveDraft(p)
         \/ \E a \in Applications, t \in Tokens : ConfirmStart(p, a, t)
         \/ IssueToken(p)
  PROVE  TypeInv'
<1> DEFINE a == task[p].app
           loaded == task[p].row
<1>0. /\ task[p] \in TaskStates
      /\ row \in [Applications -> Rows]
      /\ life \in [Vacancies -> LifeRows]
      /\ Knows(task[p])
  BY DEF TypeInv, TypeOK, Bound
<1>1. ASSUME NEW b \in Applications, PrepareStart(p, b) PROVE TypeInv'
  <2>1. [Idle EXCEPT !.at = "prepare", !.app = b] \in TaskStates
    BY IdleType DEF TaskStates, Steps
  <2> QED BY <1>0, <1>1, <2>1, IdleType, TypeStep DEF PrepareStart, TaskStates, Knows
<1>2. CASE PrepareFail(p)
  BY <1>0, <1>2, IdleType, IdleKnows, TypeStep DEF PrepareFail
<1>3. CASE PrepareDraft(p)
  <2>1. [task[p] EXCEPT !.at = "draft", !.row = row[a]] \in TaskStates /\ a \in Applications
    BY <1>0, <1>3 DEF TaskStates, Steps, PrepareDraft, Knows, Unbound
  <2>2. CASE row[a].api = "submitted"
    BY <1>0, <1>3, <2>2, IdleType, IdleKnows, TypeStep DEF PrepareDraft
  <2>3. CASE row[a].api # "submitted"
    BY <1>0, <1>3, <2>1, <2>3, TypeStep DEF PrepareDraft, TaskStates, Knows
  <2> QED BY <2>2, <2>3
<1>4. ASSUME NEW b \in Applications, EditLetter(p, b) PROVE TypeInv'
  <2>1. [Idle EXCEPT !.at = "draft", !.app = b, !.row = row[b]] \in TaskStates
    BY <1>0, IdleType DEF TaskStates, Steps
  <2> QED BY <1>0, <1>4, <2>1, IdleType, TypeStep DEF EditLetter, TaskStates, Knows
<1>5. CASE SaveDraft(p)
  <2>1. NewDraft \in Rows /\ Redrafted(loaded) \in Rows
    BY <1>0 DEF NewDraft, AbsentRow, Redrafted, Rows, ApiStatuses, ErrorCodes, TaskStates
  <2>2. row' \in [Applications -> Rows]
    BY <1>0, <1>5, <2>1, FlushRowType DEF SaveDraft, TaskStates
  <2> QED BY <1>0, <1>5, <2>2, IdleType, IdleKnows, TypeStep DEF SaveDraft
<1>6. ASSUME NEW b \in Applications, NEW t \in Tokens, ConfirmStart(p, b, t)
      PROVE  TypeInv'
  <2>1. [Idle EXCEPT !.at = "confirm", !.app = b, !.tok = t, !.row = row[b]] \in TaskStates
    BY <1>0, IdleType DEF TaskStates, Steps
  <2> QED BY <1>0, <1>6, <2>1, IdleType, TypeStep DEF ConfirmStart, TaskStates, Knows
<1>7. CASE IssueToken(p)
  <2>1. a \in Applications
    BY <1>0, <1>7 DEF IssueToken, Knows, Unbound
  <2>2. [loaded EXCEPT !.api = "awaiting_confirmation"] \in Rows
    BY <1>0 DEF Rows, ApiStatuses, TaskStates
  <2>3. row' \in [Applications -> Rows]
    BY <1>0, <1>7, <2>2, FlushRowType DEF IssueToken, TaskStates
  <2>4. /\ token' \in [Tokens -> TokenRows]
        /\ \A t \in Tokens : token'[t].state # "unissued" => token'[t].app \in Applications
        /\ TokensStay
    BY <1>7, <2>1 DEF IssueToken, TypeInv, TypeOK, Bound, TokenRows, TokensStay
  <2>5. /\ task' \in [Tasks -> TaskStates]
        /\ \A q \in Tasks : Knows(task[q])'
    BY <1>7, <2>4, IdleType, IdleKnows, TaskStep DEF IssueToken, Idle, Unbound, Knows
  <2> QED BY <1>7, <2>3, <2>4, <2>5 DEF IssueToken, TypeInv, TypeOK, Bound
<1> QED BY <1>1, <1>2, <1>3, <1>4, <1>5, <1>6, <1>7

\* The lease, the POST and the record of its result.
LEMMA SubmittingType ==
  ASSUME TypeInv, NEW p \in Tasks,
         \/ \E t \in Tokens : SubmitStart(p, t)
         \/ Consume(p) \/ Acquire(p)
         \/ Preflight(p) \/ ConnectFails(p) \/ Throttled(p) \/ Post(p)
         \/ ReplyAccepted(p) \/ ReplyRefused(p) \/ ReplyServerError(p) \/ ReplyLost(p)
         \/ MarkLoad(p) \/ MarkCommit(p)
  PROVE  TypeInv'
<1> DEFINE a == task[p].app
           loaded == task[p].row
           t == task[p].tok
<1>0. /\ task[p] \in TaskStates
      /\ row \in [Applications -> Rows]
      /\ life \in [Vacancies -> LifeRows]
      /\ Knows(task[p])
  BY DEF TypeInv, TypeOK, Bound
<1>d. ASSUME NEW o \in Outcomes, Decide(p, o), task[p].at \notin Unbound,
             UNCHANGED <<row, token, life, todo, batch, phase, crashes, posts, accepted>>
      PROVE  TypeInv'
  <2>1. [task[p] EXCEPT !.at = "mark", !.tries = 0, !.answer = "none", !.outcome = o]
          \in TaskStates
    BY <1>0 DEF TaskStates, Steps, Answers
  <2> QED BY <1>0, <1>d, <2>1, TypeStep DEF Decide, TaskStates, Knows
<1>f. ASSUME NEW o \in Outcomes, NEW failure, SendFails(p, failure, o),
             task[p].at \notin Unbound,
             UNCHANGED <<row, token, life, todo, batch, phase, crashes, posts, accepted>>
      PROVE  TypeInv'
  <2> DEFINE again == [task[p] EXCEPT !.at = "post", !.tries = @ + 1, !.answer = "none"]
  <2>1. CASE Become(p, again)
    <3>1. task[p].tries + 1 \in Nat
      BY <1>0 DEF TaskStates
    <3>2. again \in TaskStates
      BY <1>0, <3>1 DEF TaskStates, Steps, Answers
    <3>3. Knows(again)
      BY <1>0, <1>f DEF TaskStates, Knows
    <3> HIDE DEF again
    <3> QED BY <1>0, <1>f, <2>1, <3>2, <3>3, TypeStep
  <2> QED BY <1>d, <1>f, <2>1 DEF SendFails
<1>o. \A code \in ErrorCodes : Manual(code) \in Outcomes /\ Failed(code) \in Outcomes
  BY DEF Manual, Failed, Outcomes, ApiStatuses
<1>1. ASSUME NEW u \in Tokens, SubmitStart(p, u) PROVE TypeInv'
  <2>1. token[u].app \in Applications
    BY <1>1 DEF SubmitStart, TypeInv, Bound
  <2>2. [Idle EXCEPT !.at = "consume", !.app = token[u].app, !.tok = u,
                     !.vac = VacancyOf[token[u].app]] \in TaskStates
    BY <2>1, IdleType DEF TaskStates, Steps
  <2> QED BY <1>0, <1>1, <2>1, <2>2, IdleType, TypeStep DEF SubmitStart, TaskStates, Knows
<1>2. CASE Consume(p)
  <2>1. a \in Applications
    BY <1>0, <1>2 DEF Consume, Unbound, Knows
  <2>2. [task[p] EXCEPT !.at = "acquire", !.row = row[a]] \in TaskStates
    BY <1>0, <2>1 DEF TaskStates, Steps
  <2>3. /\ token' \in [Tokens -> TokenRows]
        /\ \A u \in Tokens : token'[u].state # "unissued" => token'[u].app \in Applications
        /\ TokensStay
    <3>1. CASE UNCHANGED token
      BY <3>1 DEF TypeInv, TypeOK, Bound, TokensStay
    <3>2. CASE MarkUsed(t) /\ Consumable(t)
      <4>1. token[t].state \in {"live", "expired"} /\ t \in Tokens
        BY <1>0, <1>2, <3>2 DEF Consume, Consumable, Knows, Unbound
      <4>2. /\ token \in [Tokens -> TokenRows]
            /\ token' = [token EXCEPT ![t].state = "used"]
            /\ \A u \in Tokens : token[u].state # "unissued" => token[u].app \in Applications
        BY <3>2 DEF MarkUsed, TypeInv, TypeOK, Bound
      <4>3. [token[t] EXCEPT !.state = "used"] \in TokenRows
        BY <4>1, <4>2 DEF TokenRows
      <4> QED BY <4>1, <4>2, <4>3 DEF TokensStay
    <3> QED BY <1>2, <3>1, <3>2 DEF Consume
  <2>4. /\ task' \in [Tasks -> TaskStates]
        /\ \A q \in Tasks : Knows(task[q])'
    <3>1. CASE Become(p, Idle)
      BY <3>1, <2>3, IdleType, IdleKnows, TaskStep
    <3>2. CASE Become(p, [task[p] EXCEPT !.at = "acquire", !.row = row[a]])
      <4>1. Knows([task[p] EXCEPT !.at = "acquire", !.row = row[a]])
        BY <1>0, <1>2, <2>1 DEF Consume, Knows, TaskStates
      <4> QED BY <3>2, <4>1, <2>2, <2>3, TaskStep
    <3> QED BY <1>2, <3>1, <3>2 DEF Consume
  <2> QED BY <1>2, <2>3, <2>4 DEF Consume, TypeInv, TypeOK, Bound
<1>3. CASE Acquire(p)
  <2>1. a \in Applications /\ t \in Tokens /\ token[t].state # "unissued"
    BY <1>0, <1>3 DEF Acquire, Unbound, Knows
  <2>2. [loaded EXCEPT !.api = "submitting", !.attempts = @ + 1] \in Rows
    <3>1. loaded \in Rows
      BY <1>0 DEF TaskStates
    <3>2. loaded.attempts + 1 \in Nat
      BY <3>1 DEF Rows
    <3> QED BY <3>1, <3>2 DEF Rows, ApiStatuses
  <2>3. \A r \in Rows : [r EXCEPT !.stale = FALSE] \in Rows
    BY DEF Rows
  <2>4. FlushRow(row[a], loaded, [loaded EXCEPT !.api = "submitting", !.attempts = @ + 1])
          \in Rows
    BY <1>0, <2>1, <2>2, FlushRowType DEF TaskStates
  <2>5. row' \in [Applications -> Rows]
    BY <1>0, <1>3, <2>3, <2>4 DEF Acquire
  <2>6. AbsentRow \in Rows
    BY DEF AbsentRow, Rows, ApiStatuses, ErrorCodes
  <2>7. [task[p] EXCEPT !.at = "leased", !.row = AbsentRow] \in TaskStates
    BY <1>0, <2>6 DEF TaskStates, Steps
  <2>8. /\ token' \in [Tokens -> TokenRows]
        /\ \A u \in Tokens : token'[u].state # "unissued" => token'[u].app \in Applications
        /\ TokensStay
    BY <1>3, <2>1 DEF Acquire, MarkUsed, TypeInv, TypeOK, Bound, TokenRows, TokensStay
  <2>9. /\ task' \in [Tasks -> TaskStates]
        /\ \A q \in Tasks : Knows(task[q])'
    BY <1>0, <1>3, <2>1, <2>7, <2>8, TaskStep DEF Acquire, TaskStates, Knows
  <2> QED BY <1>3, <2>5, <2>8, <2>9 DEF Acquire, TypeInv, TypeOK, Bound
<1>4. CASE Preflight(p)
  <2>1. task[p].at \notin Unbound
    BY <1>4 DEF Preflight, Unbound
  <2>2. [task[p] EXCEPT !.at = "post", !.tries = 1] \in TaskStates
    BY <1>0 DEF TaskStates, Steps
  <2>3. CASE Become(p, [task[p] EXCEPT !.at = "post", !.tries = 1])
    BY <1>0, <1>4, <2>1, <2>2, <2>3, TypeStep DEF Preflight, TaskStates, Knows
  <2> QED BY <1>4, <1>d, <1>o, <2>1, <2>3 DEF Preflight, ErrorCodes
<1>5. CASE ConnectFails(p)
  BY <1>5, <1>f, <1>o DEF ConnectFails, ErrorCodes, Unbound
<1>5a. CASE Throttled(p)
  BY <1>5a, <1>f, <1>o DEF Throttled, ErrorCodes, Unbound
<1>6. CASE Post(p)
  <2>1. a \in Applications
    BY <1>0, <1>6 DEF Post, Unbound, Knows
  <2>2. PICK answer \in Answers :
          /\ accepted' = IF answer = "created" THEN accepted \cup {a} ELSE accepted
          /\ Become(p, [task[p] EXCEPT !.at = "reply", !.answer = answer])
    BY <1>6 DEF Post, Answers
  <2>3. [task[p] EXCEPT !.at = "reply", !.answer = answer] \in TaskStates
    BY <1>0 DEF TaskStates, Steps
  <2>4. /\ task' \in [Tasks -> TaskStates]
        /\ \A q \in Tasks : Knows(task[q])'
    BY <1>0, <1>6, <2>1, <2>2, <2>3, TaskStep DEF Post, TaskStates, Knows, TokensStay
  <2>5. posts' \in [Tokens -> Nat]
    <3>1. posts' = [posts EXCEPT ![t] = posts[t] + 1]
      BY <1>6 DEF Post
    <3>2. posts \in [Tokens -> Nat] /\ \A u \in Tokens : posts[u] + 1 \in Nat
      BY DEF TypeInv, TypeOK
    <3> QED BY <3>1, <3>2
  <2>6. accepted' \subseteq Applications
    BY <2>1, <2>2 DEF TypeInv, TypeOK
  <2> QED BY <1>6, <2>4, <2>5, <2>6 DEF Post, TypeInv, TypeOK, Bound
<1>7. CASE ReplyAccepted(p)
  <2>1. [task[p] EXCEPT !.at = "finalize", !.tries = 0] \in TaskStates
    BY <1>0 DEF TaskStates, Steps
  <2> QED BY <1>0, <1>7, <2>1, TypeStep DEF ReplyAccepted, TaskStates, Knows, Unbound
<1>8. CASE ReplyRefused(p)
  BY <1>8, <1>d, <1>o DEF ReplyRefused, ErrorCodes, Unbound
<1>9. CASE ReplyServerError(p)
  BY <1>9, <1>f, <1>o DEF ReplyServerError, ErrorCodes, Unbound
<1>10. CASE ReplyLost(p)
  BY <1>10, <1>f, <1>o DEF ReplyLost, UncertainOutcome, ErrorCodes, Unbound
<1>11. CASE MarkLoad(p)
  <2>1. a \in Applications
    BY <1>0, <1>11 DEF MarkLoad, Unbound, Knows
  <2>2. [task[p] EXCEPT !.at = "marking", !.row = row[a]] \in TaskStates
    BY <1>0, <2>1 DEF TaskStates, Steps
  <2> QED BY <1>0, <1>11, <2>1, <2>2, TypeStep DEF MarkLoad, TaskStates, Knows
<1>12. CASE MarkCommit(p)
  <2>1. [loaded EXCEPT !.api = task[p].outcome.api, !.err = task[p].outcome.err] \in Rows
    BY <1>0 DEF TaskStates, Outcomes, Rows
  <2>2. row' \in [Applications -> Rows]
    BY <1>0, <1>12, <2>1, FlushRowType DEF MarkCommit, TaskStates
  <2> QED BY <1>0, <1>12, <2>2, IdleType, IdleKnows, TypeStep DEF MarkCommit
<1> QED BY <1>1, <1>2, <1>3, <1>4, <1>5, <1>5a, <1>6, <1>7, <1>8, <1>9, <1>10, <1>11, <1>12

\* finalize_submitted and the users' transitions.
LEMMA LifecycleType ==
  ASSUME TypeInv, NEW p \in Tasks,
         \/ FinalizeLoad(p) \/ FinalizeCommit(p) \/ TransitionCommit(p)
         \/ \E v \in Vacancies, target \in UserTargets : TransitionLoad(p, v, target)
  PROVE  TypeInv'
<1> DEFINE a == task[p].app
           loaded == task[p].row
           v == task[p].vac
<1>0. /\ task[p] \in TaskStates
      /\ row \in [Applications -> Rows]
      /\ life \in [Vacancies -> LifeRows]
      /\ Knows(task[p])
  BY DEF TypeInv, TypeOK, Bound
<1>1. CASE FinalizeLoad(p)
  <2>1. a \in Applications
    BY <1>0, <1>1 DEF FinalizeLoad, Unbound, Knows
  <2>2. [task[p] EXCEPT !.at = "finalizing", !.vac = VacancyOf[a],
                        !.row = row[a], !.life = life[VacancyOf[a]]] \in TaskStates
    BY <1>0, <2>1 DEF TaskStates, Steps
  <2> QED BY <1>0, <1>1, <2>1, <2>2, TypeStep DEF FinalizeLoad, TaskStates, Knows
<1>2. CASE FinalizeCommit(p)
  <2>1. [loaded EXCEPT !.api = "submitted", !.err = "none"] \in Rows
    BY <1>0 DEF Rows, TaskStates, ApiStatuses, ErrorCodes
  <2>2. row' \in [Applications -> Rows]
    BY <1>0, <1>2, <2>1, FlushRowType DEF FinalizeCommit, TaskStates
  <2>3. FinalizedRow(task[p].life, task[p].answer = "created") \in LifeRows
    BY <1>0, FinalizedRowType DEF TaskStates
  <2>4. life' \in [Vacancies -> LifeRows]
    BY <1>0, <1>2, <2>3, FlushLifeType DEF FinalizeCommit, TaskStates
  <2>5. [Idle EXCEPT !.at = "repair"] \in TaskStates
    BY IdleType DEF TaskStates, Steps
  <2>6. AfterFinalize(p) \in TaskStates /\ Knows(AfterFinalize(p))
    BY <2>5, IdleType, IdleKnows DEF AfterFinalize, Knows, TaskStates, Unbound
  <2>7. /\ task' \in [Tasks -> TaskStates]
        /\ \A q \in Tasks : Knows(task[q])'
    <3>1. CASE Become(p, Idle)
      BY <1>2, <3>1, IdleType, IdleKnows, TaskStep DEF FinalizeCommit, TokensStay
    <3>2. CASE Become(p, AfterFinalize(p))
      BY <1>2, <3>2, <2>6, TaskStep DEF FinalizeCommit, TokensStay
    <3> QED BY <1>2, <3>1, <3>2 DEF FinalizeCommit
  <2>8. todo' \subseteq Applications
    BY <1>2 DEF FinalizeCommit, TypeInv, TypeOK
  <2> QED BY <1>2, <2>2, <2>4, <2>7, <2>8 DEF FinalizeCommit, TypeInv, TypeOK, Bound
<1>3. CASE TransitionCommit(p)
  <2>1. TransitionRow(task[p].life, task[p].target) \in LifeRows
    BY <1>0, TransitionRowType DEF TaskStates
  <2>2. life' \in [Vacancies -> LifeRows]
    BY <1>0, <1>3, <2>1, FlushLifeType DEF TransitionCommit, TaskStates
  <2> QED BY <1>0, <1>3, <2>2, IdleType, IdleKnows, TypeStep DEF TransitionCommit
<1>4. ASSUME NEW w \in Vacancies, NEW target \in UserTargets, TransitionLoad(p, w, target)
      PROVE  TypeInv'
  <2>1. [Idle EXCEPT !.at = "transition", !.vac = w, !.life = life[w], !.target = target]
          \in TaskStates
    BY <1>0, IdleType DEF TaskStates, Steps
  <2> QED BY <1>0, <1>4, <2>1, IdleType, TypeStep
          DEF TransitionLoad, TaskStates, Knows, Unbound
<1> QED BY <1>1, <1>2, <1>3, <1>4

\* The reconciliation job.
LEMMA ReconcileType == TypeInv /\ Reconcile => TypeInv'
<1> SUFFICES ASSUME TypeInv, Reconcile PROVE TypeInv'
  OBVIOUS
<1>0. /\ Reconciler \in Tasks
      /\ task[Reconciler] \in TaskStates
      /\ AbsentRow \in Rows
  BY DEF TypeInv, TypeOK, Tasks, AbsentRow, Rows, ApiStatuses, ErrorCodes
<1>g. ASSUME NEW step \in {"repair", "quarantine"}, GoOn(Reconciler, step), UNCHANGED token
      PROVE  task' \in [Tasks -> TaskStates] /\ \A q \in Tasks : Knows(task[q])'
  <2>1. [task[Reconciler] EXCEPT !.at = step] \in TaskStates
    BY <1>0 DEF TaskStates, Steps
  <2>2. Knows([task[Reconciler] EXCEPT !.at = step])
    BY <1>0 DEF TaskStates, Knows, Unbound
  <2> QED BY <1>0, <1>g, <2>1, <2>2, TaskStep DEF GoOn, TokensStay
<1>1. CASE ReconcileStart
  BY <1>g, <1>1 DEF ReconcileStart, Unrecorded, TypeInv, TypeOK, Bound
<1>2. ASSUME NEW a \in Applications, RepairNext(a) PROVE TypeInv'
  <2>1. [Idle EXCEPT !.at = "finalize", !.app = a, !.answer = "created"] \in TaskStates
    BY IdleType DEF TaskStates, Steps, Answers
  <2>2. /\ task' \in [Tasks -> TaskStates]
        /\ \A q \in Tasks : Knows(task[q])'
    BY <1>0, <1>2, <2>1, IdleType, TaskStep DEF RepairNext, TaskStates, Knows, TokensStay
  <2> QED BY <1>2, <2>2 DEF RepairNext, TypeInv, TypeOK, Bound
<1>3. CASE QuarantineLoad
  <2>1. batch' \in [Applications -> Rows]
    BY <1>0, <1>3 DEF QuarantineLoad, TypeInv, TypeOK
  <2> QED BY <1>g, <1>3, <2>1 DEF QuarantineLoad, TypeInv, TypeOK, Bound
<1>4. CASE QuarantineCommit
  <2>1. \A a \in Applications :
          [batch[a] EXCEPT !.api = "manual_action_required", !.err = "unknown"] \in Rows
    <3>1. \A r \in Rows :
            [r EXCEPT !.api = "manual_action_required", !.err = "unknown"] \in Rows
      BY DEF Rows, ApiStatuses, ErrorCodes
    <3> QED BY <3>1 DEF TypeInv, TypeOK
  <2>2. row' \in [Applications -> Rows]
    BY <1>4, <2>1, FlushRowType DEF QuarantineCommit, TypeInv, TypeOK
  <2>3. batch' \in [Applications -> Rows]
    BY <1>0, <1>4 DEF QuarantineCommit, NoBatch
  <2>4. /\ task' \in [Tasks -> TaskStates]
        /\ \A q \in Tasks : Knows(task[q])'
    BY <1>0, <1>4, IdleType, IdleKnows, TaskStep DEF QuarantineCommit, TokensStay
  <2> QED BY <1>4, <2>2, <2>3, <2>4 DEF QuarantineCommit, TypeInv, TypeOK, Bound
<1> QED BY <1>1, <1>2, <1>3, <1>4 DEF Reconcile

\* Time, the user on the site and crashes.
LEMMA EnvironmentType == TypeInv /\ Environment => TypeInv'
<1> SUFFICES ASSUME TypeInv, Environment PROVE TypeInv'
  OBVIOUS
<1>1. ASSUME NEW a \in Applications, Age(a) PROVE TypeInv'
  <2>1. [row[a] EXCEPT !.stale = TRUE] \in Rows
    <3>1. row[a] \in Rows
      BY DEF TypeInv, TypeOK
    <3> QED BY <3>1 DEF Rows
  <2>2. row' \in [Applications -> Rows]
    BY <1>1, <2>1 DEF Age, TypeInv, TypeOK
  <2> QED BY <1>1, <2>2 DEF Age, TypeInv, TypeOK, Bound, Knows
<1>2. ASSUME NEW a \in Applications, ApplyOnSite(a) PROVE TypeInv'
  BY <1>2 DEF ApplyOnSite, TypeInv, TypeOK, Bound, Knows
<1>3. ASSUME NEW t \in Tokens, Expire(t) PROVE TypeInv'
  <2>1. /\ token' \in [Tokens -> TokenRows]
        /\ \A u \in Tokens : token'[u].state # "unissued" => token'[u].app \in Applications
        /\ TokensStay
    BY <1>3 DEF Expire, TypeInv, TypeOK, Bound, TokenRows, TokensStay
  <2> QED BY <1>3, <2>1 DEF Expire, TypeInv, TypeOK, Bound, Knows, TokensStay
<1>4. CASE Crash
  <2>1. NoBatch \in [Applications -> Rows]
    BY DEF NoBatch, AbsentRow, Rows, ApiStatuses, ErrorCodes
  <2>2. task' \in [Tasks -> TaskStates] /\ \A q \in Tasks : Knows(task[q])'
    BY <1>4, IdleType DEF Crash, Knows, Idle, Unbound
  <2> QED BY <1>4, <2>1, <2>2 DEF Crash, TypeInv, TypeOK, Bound
<1> QED BY <1>1, <1>2, <1>3, <1>4 DEF Environment

LEMMA NextTypeInv == TypeInv /\ [Next]_vars => TypeInv'
<1> SUFFICES ASSUME TypeInv, [Next]_vars PROVE TypeInv'
  OBVIOUS
<1>1. ASSUME NEW p \in Tasks, Continue(p) PROVE TypeInv'
  BY <1>1, DraftingType, SubmittingType, LifecycleType DEF Continue
<1>2. ASSUME NEW p \in Tasks, Request(p) PROVE TypeInv'
  BY <1>2, DraftingType, SubmittingType, LifecycleType DEF Request
<1>3. CASE UNCHANGED vars
  BY <1>3 DEF vars, TypeInv, TypeOK, Bound, Knows
<1> QED BY <1>1, <1>2, <1>3, ReconcileType, EnvironmentType DEF Next

LEMMA SpecTypeInv == Spec => []TypeInv
BY InitTypeInv, NextTypeInv, PTL DEF Spec

\* Every table, and everything the tasks hold of it in memory, keeps its type.
THEOREM TypeCorrect == Spec => []TypeOK
<1>1. TypeInv => TypeOK
  BY DEF TypeInv
<1> QED BY <1>1, SpecTypeInv, PTL

-----------------------------------------------------------------------------
(* The lease *)

\* Steps during which a task has its token for itself: while it issues it,
\* while it waits for the commit of the lease, and while it holds the lease.
OwningSteps == {"confirm", "acquire"} \cup LeaseSteps
Owns(p) == p # Reconciler /\ task[p].at \in OwningSteps

\* The job never takes part in a confirmation.
JobSteps == {"idle", "repair", "quarantine", "finalize", "finalizing"}

\* What the step of a task says about the token it carries.
Token(p) == token[task[p].tok]

TokenOfTask(p) ==
  /\ Owns(p) \/ task[p].at = "consume" => task[p].tok \in Tokens
  /\ task[p].at = "confirm" => Token(p) = Unissued
  /\ task[p].at = "consume" =>
       Token(p).state # "unissued" /\ Token(p).app = task[p].app
  /\ task[p].at = "acquire" => Consumable(task[p].tok) /\ Token(p).app = task[p].app
  /\ HoldsLease(p) => Token(p).state = "used" /\ Token(p).app = task[p].app
  /\ HoldsLease(p) /\ task[p].at \in {"leased", "post"} => posts[task[p].tok] = 0

\* A token that was never issued names no application, and nothing was posted
\* under a token that was not used up.
TokenRecord(t) ==
  /\ token[t].state = "unissued" => token[t] = Unissued
  /\ posts[t] <= 1
  /\ posts[t] > 0 => token[t].state = "used"

OwnersAreExclusive ==
  \A p, q \in Tasks : Owns(p) /\ Owns(q) /\ task[p].tok = task[q].tok => p = q

LeaseInv ==
  /\ task[Reconciler].at \in JobSteps
  /\ \A p \in Tasks : TokenOfTask(p)
  /\ \A t \in Tokens : TokenRecord(t)
  /\ OwnersAreExclusive

-----------------------------------------------------------------------------
(* The steps that touch no token and make no POST *)

QuietSteps == {"idle", "prepare", "draft", "transition", "repair", "quarantine"}

\* A task that lets go of its token, or never carried one; the job in any case.
LEMMA QuietStep ==
  ASSUME TypeInv, LeaseInv, NEW p \in Tasks, NEW s \in TaskStates, Become(p, s),
         s.at \in QuietSteps \/ p = Reconciler,
         p = Reconciler => s.at \in JobSteps,
         UNCHANGED <<token, posts>>
  PROVE  LeaseInv'
<1>1. /\ task'[p] = s
      /\ \A q \in Tasks : q # p => task'[q] = task[q]
  BY DEF Become, TypeInv, TypeOK
<1>2. ~Owns(p)' /\ task'[p].at # "consume" /\ ~HoldsLease(p)'
      /\ task'[p].at \notin {"confirm", "acquire"}
  BY <1>1 DEF Owns, OwningSteps, LeaseSteps, HoldsLease, QuietSteps, JobSteps
<1>3. TokenOfTask(p)'
  BY <1>2 DEF TokenOfTask
<1>4. \A q \in Tasks : q # p => TokenOfTask(q)'
  BY <1>1 DEF LeaseInv, TokenOfTask, Owns, HoldsLease, Token, Consumable
<1>5. OwnersAreExclusive'
  BY <1>1, <1>2 DEF LeaseInv, OwnersAreExclusive, Owns
<1>6. task'[Reconciler].at \in JobSteps
  BY <1>1 DEF LeaseInv, Tasks
<1> QED BY <1>3, <1>4, <1>5, <1>6 DEF LeaseInv, TokenRecord

\* A task that holds a lease goes on with it.
LEMMA LeasedStep ==
  ASSUME TypeInv, LeaseInv, NEW p \in Tasks, NEW s \in TaskStates, Become(p, s),
         HoldsLease(p), s.at \in LeaseSteps \ {"leased"},
         s.tok = task[p].tok, s.app = task[p].app,
         s.at = "post" => posts[s.tok] = 0,
         UNCHANGED <<token, posts>>
  PROVE  LeaseInv'
<1>1. /\ task'[p] = s
      /\ \A q \in Tasks : q # p => task'[q] = task[q]
  BY DEF Become, TypeInv, TypeOK
<1>2. Owns(p) /\ TokenOfTask(p) /\ p # Reconciler
  BY DEF HoldsLease, Owns, OwningSteps, LeaseInv
<1>3. s.at \notin {"confirm", "consume", "acquire", "leased"}
  BY DEF LeaseSteps
<1>4. TokenOfTask(p)'
  BY <1>1, <1>2, <1>3 DEF TokenOfTask, HoldsLease, Token
<1>5. \A q \in Tasks : q # p => TokenOfTask(q)'
  BY <1>1 DEF LeaseInv, TokenOfTask, Owns, HoldsLease, Token, Consumable
<1>6. OwnersAreExclusive'
  BY <1>1, <1>2 DEF LeaseInv, OwnersAreExclusive, Owns
<1>7. task'[Reconciler].at \in JobSteps
  BY <1>1, <1>2 DEF LeaseInv, Tasks
<1> QED BY <1>4, <1>5, <1>6, <1>7 DEF LeaseInv, TokenRecord

-----------------------------------------------------------------------------
(* The life of a token *)

LEMMA DraftingLease ==
  ASSUME TypeInv, LeaseInv, NEW p \in Tasks,
         \/ \E a \in Applications : PrepareStart(p, a) \/ EditLetter(p, a)
         \/ PrepareFail(p) \/ PrepareDraft(p) \/ SaveDraft(p)
         \/ \E v \in Vacancies, target \in UserTargets : TransitionLoad(p, v, target)
         \/ TransitionCommit(p)
  PROVE  LeaseInv'
<1>0. task[p] \in TaskStates /\ Knows(task[p]) /\ p # Reconciler
  <2>1. Free(p) \/ task[p].at \in {"prepare", "draft", "transition"}
    BY DEF PrepareStart, EditLetter, PrepareFail, PrepareDraft, SaveDraft,
           TransitionLoad, TransitionCommit
  <2> QED BY <2>1 DEF TypeInv, TypeOK, Bound, LeaseInv, JobSteps, Free
<1>1. ASSUME NEW a \in Applications, PrepareStart(p, a) PROVE LeaseInv'
  <2>1. [Idle EXCEPT !.at = "prepare", !.app = a] \in TaskStates
    BY IdleType DEF TaskStates, Steps
  <2> QED BY <1>0, <1>1, <2>1, IdleType, QuietStep DEF PrepareStart, TaskStates, QuietSteps
<1>2. ASSUME NEW a \in Applications, EditLetter(p, a) PROVE LeaseInv'
  <2>1. [Idle EXCEPT !.at = "draft", !.app = a, !.row = row[a]] \in TaskStates
    BY IdleType DEF TaskStates, Steps, TypeInv, TypeOK
  <2> QED BY <1>0, <1>2, <2>1, IdleType, QuietStep DEF EditLetter, TaskStates, QuietSteps
<1>3. CASE PrepareDraft(p)
  <2>1. task[p].app \in Applications
    BY <1>0, <1>3 DEF PrepareDraft, Knows, Unbound
  <2>2. [task[p] EXCEPT !.at = "draft", !.row = row[task[p].app]] \in TaskStates
    BY <1>0, <2>1 DEF TaskStates, Steps, TypeInv, TypeOK
  <2>3. CASE row[task[p].app].api = "submitted"
    BY <1>0, <1>3, <2>3, IdleType, QuietStep DEF PrepareDraft, Idle, QuietSteps
  <2>4. CASE row[task[p].app].api # "submitted"
    BY <1>0, <1>3, <2>2, <2>4, QuietStep DEF PrepareDraft, TaskStates, QuietSteps
  <2> QED BY <2>3, <2>4
<1>4. ASSUME NEW v \in Vacancies, NEW target \in UserTargets, TransitionLoad(p, v, target)
      PROVE  LeaseInv'
  <2>1. [Idle EXCEPT !.at = "transition", !.vac = v, !.life = life[v], !.target = target]
          \in TaskStates
    BY IdleType DEF TaskStates, Steps, TypeInv, TypeOK
  <2> QED BY <1>0, <1>4, <2>1, IdleType, QuietStep DEF TransitionLoad, TaskStates, QuietSteps
<1>5. CASE PrepareFail(p) \/ SaveDraft(p) \/ TransitionCommit(p)
  <2>1. Become(p, Idle) /\ UNCHANGED <<token, posts>>
    BY <1>5 DEF PrepareFail, SaveDraft, TransitionCommit
  <2> QED BY <1>0, <2>1, IdleType, QuietStep DEF Idle, QuietSteps
<1> QED BY <1>1, <1>2, <1>3, <1>4, <1>5

LEMMA ConfirmStartLease ==
  ASSUME TypeInv, LeaseInv, NEW p \in Tasks, NEW a \in Applications, NEW t \in Tokens,
         ConfirmStart(p, a, t)
  PROVE  LeaseInv'
<1> DEFINE s == [Idle EXCEPT !.at = "confirm", !.app = a, !.tok = t, !.row = row[a]]
<1>0. p # Reconciler
  BY DEF ConfirmStart, Free
<1>1. s.at = "confirm" /\ s.tok = t
  BY DEF Idle
<1> HIDE DEF s
<1>2. /\ task'[p] = s
      /\ \A q \in Tasks : q # p => task'[q] = task[q]
      /\ token[t] = Unissued
      /\ \A q \in Tasks : task[q].tok # t
      /\ UNCHANGED <<token, posts>>
  BY DEF ConfirmStart, Become, TypeInv, TypeOK, LeaseInv, TokenRecord, s
<1>3. TokenOfTask(p)'
  BY <1>1, <1>2 DEF TokenOfTask, HoldsLease, LeaseSteps, Token
<1>4. \A q \in Tasks : q # p => TokenOfTask(q)'
  BY <1>2 DEF LeaseInv, TokenOfTask, Owns, HoldsLease, Token, Consumable
<1>5. OwnersAreExclusive'
  BY <1>1, <1>2 DEF LeaseInv, OwnersAreExclusive, Owns
<1>6. task'[Reconciler].at \in JobSteps
  BY <1>0, <1>2 DEF LeaseInv, Tasks
<1> QED BY <1>2, <1>3, <1>4, <1>5, <1>6 DEF LeaseInv, TokenRecord

LEMMA IssueTokenLease ==
  ASSUME TypeInv, LeaseInv, NEW p \in Tasks, IssueToken(p)
  PROVE  LeaseInv'
<1> DEFINE t == task[p].tok
<1>0. /\ p # Reconciler /\ Owns(p) /\ t \in Tokens
      /\ token[t] = Unissued
  BY DEF IssueToken, LeaseInv, JobSteps, TokenOfTask, Owns, OwningSteps, Token
<1>1. /\ task'[p] = Idle
      /\ \A q \in Tasks : q # p => task'[q] = task[q]
      /\ \A u \in Tokens : u # t => token'[u] = token[u]
      /\ token'[t] = [state |-> "live", app |-> task[p].app]
      /\ UNCHANGED posts
  BY <1>0 DEF IssueToken, Become, TypeInv, TypeOK
<1>2. ~Owns(p)' /\ task'[p].at = "idle" /\ ~HoldsLease(p)'
  BY <1>1 DEF Idle, Owns, OwningSteps, LeaseSteps, HoldsLease
<1>3. TokenOfTask(p)'
  BY <1>2 DEF TokenOfTask
<1>4. ASSUME NEW q \in Tasks, q # p PROVE TokenOfTask(q)'
  <2>1. Owns(q) \/ task[q].at = "consume" => task[q].tok # t
    BY <1>0, <1>4 DEF LeaseInv, OwnersAreExclusive, TokenOfTask, Token, Unissued
  <2>2. task[q].at \in {"confirm", "acquire"} \/ HoldsLease(q) => Owns(q)
    BY DEF Owns, OwningSteps, HoldsLease, LeaseInv, JobSteps
  <2> QED BY <1>1, <1>4, <2>1, <2>2
          DEF LeaseInv, TokenOfTask, Owns, HoldsLease, Token, Consumable
<1>5. OwnersAreExclusive'
  BY <1>1, <1>2 DEF LeaseInv, OwnersAreExclusive, Owns
<1>6. task'[Reconciler].at \in JobSteps
  BY <1>0, <1>1 DEF LeaseInv, Tasks
<1>7. \A u \in Tokens : TokenRecord(u)'
  BY <1>0, <1>1 DEF LeaseInv, TokenRecord, Unissued
<1> QED BY <1>3, <1>4, <1>5, <1>6, <1>7 DEF LeaseInv

LEMMA SubmitStartLease ==
  ASSUME TypeInv, LeaseInv, NEW p \in Tasks, NEW t \in Tokens, SubmitStart(p, t)
  PROVE  LeaseInv'
<1> DEFINE s == [Idle EXCEPT !.at = "consume", !.app = token[t].app, !.tok = t,
                             !.vac = VacancyOf[token[t].app]]
<1>0. p # Reconciler
  BY DEF SubmitStart, Free
<1>1. s.at = "consume" /\ s.tok = t /\ s.app = token[t].app
  BY DEF Idle
<1> HIDE DEF s
<1>2. /\ task'[p] = s
      /\ \A q \in Tasks : q # p => task'[q] = task[q]
      /\ token[t].state = "live"
      /\ UNCHANGED <<token, posts>>
  BY DEF SubmitStart, Become, TypeInv, TypeOK, s
<1>3. TokenOfTask(p)' /\ ~Owns(p)'
  BY <1>1, <1>2 DEF TokenOfTask, HoldsLease, LeaseSteps, Token, Owns, OwningSteps
<1>4. \A q \in Tasks : q # p => TokenOfTask(q)'
  BY <1>2 DEF LeaseInv, TokenOfTask, Owns, HoldsLease, Token, Consumable
<1>5. OwnersAreExclusive'
  BY <1>2, <1>3 DEF LeaseInv, OwnersAreExclusive, Owns
<1>6. task'[Reconciler].at \in JobSteps
  BY <1>0, <1>2 DEF LeaseInv, Tasks
<1> QED BY <1>2, <1>3, <1>4, <1>5, <1>6 DEF LeaseInv, TokenRecord

\* The token is used up in both outcomes of Consume that write it.
LEMMA ConsumeLease ==
  ASSUME TypeInv, LeaseInv, NEW p \in Tasks, Consume(p)
  PROVE  LeaseInv'
<1> DEFINE t == task[p].tok
           a == task[p].app
           s == [task[p] EXCEPT !.at = "acquire", !.row = row[a]]
<1>0. /\ p # Reconciler /\ t \in Tokens /\ task[p].at = "consume"
      /\ token[t].state # "unissued" /\ token[t].app = a
      /\ task[p] \in TaskStates
  BY DEF Consume, LeaseInv, JobSteps, TokenOfTask, Token, TypeInv, TypeOK
<1>1. CASE Become(p, Idle) /\ UNCHANGED <<token, posts>>
  BY <1>0, <1>1, IdleType, QuietStep DEF Idle, QuietSteps
<1>2. CASE Become(p, Idle) /\ MarkUsed(t) /\ Consumable(t) /\ UNCHANGED posts
  <2>1. /\ task'[p] = Idle
        /\ \A q \in Tasks : q # p => task'[q] = task[q]
        /\ \A u \in Tokens : u # t => token'[u] = token[u]
        /\ token'[t].state = "used" /\ token'[t].app = token[t].app
    BY <1>0, <1>2 DEF Become, MarkUsed, TypeInv, TypeOK, TokenRows
  <2>2. ~Owns(p)' /\ task'[p].at = "idle" /\ ~HoldsLease(p)'
    BY <2>1 DEF Idle, Owns, OwningSteps, LeaseSteps, HoldsLease
  <2>3. TokenOfTask(p)'
    BY <2>2 DEF TokenOfTask
  <2>4. ASSUME NEW q \in Tasks, q # p PROVE TokenOfTask(q)'
    <3>1. task[q].tok = t => task[q].at \notin {"confirm", "acquire"}
      BY <1>0, <1>2, <2>4 DEF Consume, TokenUnlocked, LeaseInv, TokenOfTask, Token,
         Unissued
    <3>2. TokenOfTask(q) /\ task'[q] = task[q] /\ posts' = posts
      BY <1>2, <2>1, <2>4 DEF LeaseInv
    <3>3. CASE task[q].tok = t
      BY <1>0, <2>1, <3>1, <3>2, <3>3 DEF TokenOfTask, Owns, HoldsLease, Token
    <3>4. CASE task[q].tok # t
      <4>1. task[q].tok \in Tokens => Token(q)' = Token(q)
        BY <2>1, <3>2, <3>4 DEF Token
      <4>2. task[q].at \in {"confirm", "acquire"} \/ HoldsLease(q) => Owns(q)
        BY DEF Owns, OwningSteps, HoldsLease, LeaseInv, JobSteps
      <4> QED BY <3>2, <4>1, <4>2 DEF TokenOfTask, Owns, HoldsLease, Consumable, Token
    <3> QED BY <3>3, <3>4
  <2>5. OwnersAreExclusive'
    BY <2>1, <2>2 DEF LeaseInv, OwnersAreExclusive, Owns
  <2>6. task'[Reconciler].at \in JobSteps
    BY <1>0, <2>1 DEF LeaseInv, Tasks
  <2>7. \A u \in Tokens : TokenRecord(u)'
    BY <1>0, <1>2, <2>1 DEF LeaseInv, TokenRecord
  <2> QED BY <2>3, <2>4, <2>5, <2>6, <2>7 DEF LeaseInv
<1>3. CASE Become(p, s) /\ Consumable(t) /\ UNCHANGED <<token, posts>>
  <2>1. s.at = "acquire" /\ s.tok = t /\ s.app = a
    BY <1>0 DEF TaskStates
  <2> HIDE DEF s
  <2>2. /\ task'[p] = s
        /\ \A q \in Tasks : q # p => task'[q] = task[q]
    BY <1>3 DEF Become, TypeInv, TypeOK
  <2>3. TokenOfTask(p)'
    BY <1>0, <1>3, <2>1, <2>2 DEF TokenOfTask, HoldsLease, LeaseSteps, Token, Consumable
  <2>4. \A q \in Tasks : q # p => TokenOfTask(q)'
    BY <1>3, <2>2 DEF LeaseInv, TokenOfTask, Owns, HoldsLease, Token, Consumable
  <2>5. \A q \in Tasks : q # p /\ Owns(q) => task[q].tok # t
    BY <1>0, <1>3 DEF Consume, TokenUnlocked, LeaseInv, TokenOfTask, Token, Unissued,
       Owns, OwningSteps, HoldsLease, Consumable
  <2>6. OwnersAreExclusive'
    BY <2>1, <2>2, <2>5 DEF LeaseInv, OwnersAreExclusive, Owns
  <2>7. task'[Reconciler].at \in JobSteps
    BY <1>0, <2>2 DEF LeaseInv, Tasks
  <2> QED BY <1>3, <2>3, <2>4, <2>6, <2>7 DEF LeaseInv, TokenRecord
<1> QED BY <1>1, <1>2, <1>3 DEF Consume

\* The lease: the owner's token turns into a used one.
LEMMA AcquireLease ==
  ASSUME TypeInv, LeaseInv, NEW p \in Tasks, Acquire(p)
  PROVE  LeaseInv'
<1> DEFINE t == task[p].tok
           s == [task[p] EXCEPT !.at = "leased", !.row = AbsentRow]
<1>0. /\ p # Reconciler /\ Owns(p) /\ t \in Tokens
      /\ Consumable(t) /\ token[t].app = task[p].app
      /\ task[p] \in TaskStates
  BY DEF Acquire, LeaseInv, JobSteps, TokenOfTask, Owns, OwningSteps, Token,
     TypeInv, TypeOK
<1>1. s.at = "leased" /\ s.tok = t /\ s.app = task[p].app
  BY <1>0 DEF TaskStates
<1> HIDE DEF s
<1>2. /\ task'[p] = s
      /\ \A q \in Tasks : q # p => task'[q] = task[q]
      /\ \A u \in Tokens : u # t => token'[u] = token[u]
      /\ token'[t].state = "used" /\ token'[t].app = token[t].app
      /\ UNCHANGED posts
  BY <1>0 DEF Acquire, Become, MarkUsed, TypeInv, TypeOK, TokenRows, s
<1>3. posts[t] = 0
  BY <1>0 DEF LeaseInv, TokenRecord, Consumable, TypeInv, TypeOK
<1>4. TokenOfTask(p)'
  BY <1>0, <1>1, <1>2, <1>3 DEF TokenOfTask, Token
<1>5. ASSUME NEW q \in Tasks, q # p PROVE TokenOfTask(q)'
  <2>1. Owns(q) => task[q].tok # t
    BY <1>0, <1>5 DEF LeaseInv, OwnersAreExclusive
  <2>2. task[q].at \in {"confirm", "acquire"} \/ HoldsLease(q) => Owns(q)
    BY DEF Owns, OwningSteps, HoldsLease, LeaseInv, JobSteps
  <2> QED BY <1>2, <1>5, <2>1, <2>2
          DEF LeaseInv, TokenOfTask, Owns, HoldsLease, Token, Consumable
<1>6. OwnersAreExclusive'
  BY <1>0, <1>1, <1>2 DEF LeaseInv, OwnersAreExclusive, Owns
<1>7. task'[Reconciler].at \in JobSteps
  BY <1>0, <1>2 DEF LeaseInv, Tasks
<1>8. \A u \in Tokens : TokenRecord(u)'
  BY <1>2, <1>3 DEF LeaseInv, TokenRecord
<1> QED BY <1>4, <1>5, <1>6, <1>7, <1>8 DEF LeaseInv

LEMMA PostLease ==
  ASSUME TypeInv, LeaseInv, NEW p \in Tasks, Post(p)
  PROVE  LeaseInv'
<1> DEFINE t == task[p].tok
<1>0. /\ p # Reconciler /\ Owns(p) /\ HoldsLease(p) /\ t \in Tokens
      /\ token[t].state = "used" /\ token[t].app = task[p].app
      /\ posts[t] = 0
      /\ task[p] \in TaskStates
  BY DEF Post, LeaseInv, JobSteps, TokenOfTask, Owns, OwningSteps, HoldsLease, LeaseSteps,
     Token, TypeInv, TypeOK
<1>1. PICK answer : Become(p, [task[p] EXCEPT !.at = "reply", !.answer = answer])
  BY DEF Post
<1>2. /\ task'[p].at = "reply" /\ task'[p].tok = t /\ task'[p].app = task[p].app
      /\ \A q \in Tasks : q # p => task'[q] = task[q]
      /\ UNCHANGED token
  BY <1>0, <1>1 DEF Post, Become, TypeInv, TypeOK, TaskStates
<1>3. posts' = [posts EXCEPT ![t] = posts[t] + 1] /\ posts \in [Tokens -> Nat]
  BY DEF Post, TypeInv, TypeOK
<1>4. TokenOfTask(p)'
  BY <1>0, <1>2 DEF TokenOfTask, Token
<1>5. ASSUME NEW q \in Tasks, q # p PROVE TokenOfTask(q)'
  <2>1. HoldsLease(q) => task[q].tok # t /\ task[q].tok \in Tokens
    BY <1>0, <1>5 DEF LeaseInv, OwnersAreExclusive, Owns, OwningSteps, HoldsLease,
       TokenOfTask
  <2>2. HoldsLease(q) => posts'[task[q].tok] = posts[task[q].tok]
    BY <1>3, <2>1
  <2> QED BY <1>2, <1>5, <2>2 DEF LeaseInv, TokenOfTask, Owns, HoldsLease, Token, Consumable
<1>6. OwnersAreExclusive'
  BY <1>0, <1>2 DEF LeaseInv, OwnersAreExclusive, Owns
<1>7. task'[Reconciler].at \in JobSteps
  BY <1>0, <1>2 DEF LeaseInv, Tasks
<1>8. \A u \in Tokens : TokenRecord(u)'
  BY <1>0, <1>2, <1>3 DEF LeaseInv, TokenRecord
<1> QED BY <1>4, <1>5, <1>6, <1>7, <1>8 DEF LeaseInv

\* Everything between the lease and its end except the POST itself.
LEMMA ResultLease ==
  ASSUME TypeInv, LeaseInv, NEW p \in Tasks,
         \/ Preflight(p) \/ ConnectFails(p) \/ Throttled(p)
         \/ ReplyAccepted(p) \/ ReplyRefused(p) \/ ReplyServerError(p) \/ ReplyLost(p)
         \/ MarkLoad(p) \/ MarkCommit(p) \/ FinalizeLoad(p) \/ FinalizeCommit(p)
  PROVE  LeaseInv'
<1>0. /\ task[p] \in TaskStates /\ UNCHANGED <<token, posts>>
      /\ Knows(task[p])
  BY DEF TypeInv, TypeOK, Bound, Preflight, ConnectFails, Throttled, ReplyAccepted, ReplyRefused,
     ReplyServerError, ReplyLost, MarkLoad, MarkCommit, FinalizeLoad, FinalizeCommit
<1>l. task[p].at \in LeaseSteps
  BY DEF Preflight, ConnectFails, Throttled, ReplyAccepted, ReplyRefused,
     ReplyServerError, ReplyLost, MarkLoad, MarkCommit, FinalizeLoad, FinalizeCommit, LeaseSteps
<1>h. p # Reconciler => HoldsLease(p) /\ TokenOfTask(p)
  BY <1>l DEF HoldsLease, LeaseInv
<1>j. task[p].at \notin {"finalize", "finalizing"} => p # Reconciler
  BY <1>l DEF LeaseInv, JobSteps, LeaseSteps
<1>d. ASSUME NEW o \in Outcomes, Decide(p, o), p # Reconciler PROVE LeaseInv'
  <2>1. [task[p] EXCEPT !.at = "mark", !.tries = 0, !.answer = "none", !.outcome = o]
          \in TaskStates
    BY <1>0 DEF TaskStates, Steps, Answers
  <2> QED BY <1>0, <1>d, <1>h, <2>1, LeasedStep DEF Decide, TaskStates, LeaseSteps
<1>o. \A code \in ErrorCodes : Manual(code) \in Outcomes /\ Failed(code) \in Outcomes
  BY DEF Manual, Failed, Outcomes, ApiStatuses
<1>1. CASE Preflight(p)
  <2>1. p # Reconciler
    BY <1>1, <1>j DEF Preflight
  <2>2. CASE Become(p, [task[p] EXCEPT !.at = "post", !.tries = 1])
    <3>1. [task[p] EXCEPT !.at = "post", !.tries = 1] \in TaskStates
      BY <1>0 DEF TaskStates, Steps
    <3>2. posts[task[p].tok] = 0
      BY <1>1, <1>h, <2>1 DEF Preflight, TokenOfTask
    <3> QED BY <1>0, <1>h, <2>1, <2>2, <3>1, <3>2, LeasedStep DEF TaskStates, LeaseSteps
  <2> QED BY <1>1, <1>d, <1>o, <2>1, <2>2 DEF Preflight, ErrorCodes
<1>2. CASE ReplyServerError(p) \/ ReplyLost(p) \/ ReplyRefused(p)
  <2>1. p # Reconciler
    BY <1>2, <1>j DEF ReplyServerError, ReplyLost, ReplyRefused
  <2> QED BY <1>2, <1>d, <1>o, <2>1 DEF ReplyServerError, ReplyLost, SendFails, SendsAgain,
          UncertainOutcome, ReplyRefused, ErrorCodes
<1>2a. CASE ConnectFails(p) \/ Throttled(p)
  <2> DEFINE again == [task[p] EXCEPT !.at = "post", !.tries = @ + 1, !.answer = "none"]
  <2>1. p # Reconciler /\ task[p].at = "post"
    BY <1>2a, <1>j DEF ConnectFails, Throttled
  <2>2. CASE Become(p, again)
    <3>1. task[p].tries + 1 \in Nat
      BY <1>0 DEF TaskStates
    <3>2. /\ again \in TaskStates
          /\ again.at = "post" /\ again.tok = task[p].tok /\ again.app = task[p].app
      BY <1>0, <3>1 DEF TaskStates, Steps, Answers
    <3>3. posts[task[p].tok] = 0
      BY <1>h, <2>1 DEF TokenOfTask
    <3> HIDE DEF again
    <3> QED BY <1>0, <1>h, <2>1, <2>2, <3>2, <3>3, LeasedStep DEF LeaseSteps
  <2>3. again = [task[p] EXCEPT !.at = "post", !.tries = @ + 1, !.answer = "none"]
    OBVIOUS
  <2> QED BY <1>2a, <1>d, <1>o, <2>1, <2>2, <2>3
          DEF ConnectFails, Throttled, SendFails, ErrorCodes
<1>3. CASE ReplyAccepted(p)
  <2>1. [task[p] EXCEPT !.at = "finalize", !.tries = 0] \in TaskStates
    BY <1>0 DEF TaskStates, Steps
  <2> QED BY <1>0, <1>3, <1>h, <1>j, <2>1, LeasedStep
          DEF ReplyAccepted, TaskStates, LeaseSteps
<1>4. CASE MarkLoad(p)
  <2>1. task[p].app \in Applications
    BY <1>0, <1>4 DEF MarkLoad, Knows, Unbound
  <2>2. [task[p] EXCEPT !.at = "marking", !.row = row[task[p].app]] \in TaskStates
    BY <1>0, <2>1 DEF TaskStates, Steps, TypeInv, TypeOK
  <2> QED BY <1>0, <1>4, <1>h, <1>j, <2>2, LeasedStep DEF MarkLoad, TaskStates, LeaseSteps
<1>5. CASE MarkCommit(p)
  BY <1>0, <1>5, <1>j, IdleType, QuietStep DEF MarkCommit, Idle, QuietSteps
<1>6. CASE FinalizeLoad(p)
  <2> DEFINE v == VacancyOf[task[p].app]
             s == [task[p] EXCEPT !.at = "finalizing", !.vac = v,
                                  !.row = row[task[p].app], !.life = life[v]]
  <2>1. task[p].app \in Applications
    BY <1>0, <1>6 DEF FinalizeLoad, Knows, Unbound
  <2>2. s \in TaskStates
    BY <1>0, <2>1 DEF TaskStates, Steps, TypeInv, TypeOK
  <2>3. s.at = "finalizing" /\ s.tok = task[p].tok /\ s.app = task[p].app
    BY <1>0 DEF TaskStates
  <2>4. Become(p, s)
    BY <1>6 DEF FinalizeLoad
  <2> HIDE DEF s
  <2>5. CASE p = Reconciler
    BY <1>0, <2>2, <2>3, <2>4, <2>5, QuietStep DEF JobSteps
  <2>6. CASE p # Reconciler
    BY <1>0, <1>h, <2>2, <2>3, <2>4, <2>6, LeasedStep DEF LeaseSteps
  <2> QED BY <2>5, <2>6
<1>7. CASE FinalizeCommit(p)
  <2>1. [Idle EXCEPT !.at = "repair"] \in TaskStates
    BY IdleType DEF TaskStates, Steps
  <2>2. CASE Become(p, Idle)
    BY <1>0, <2>2, IdleType, QuietStep DEF Idle, QuietSteps, JobSteps
  <2>3. CASE Become(p, [Idle EXCEPT !.at = "repair"])
    BY <1>0, <2>1, <2>3, IdleType, QuietStep DEF TaskStates, QuietSteps, JobSteps
  <2> QED BY <1>7, <2>2, <2>3 DEF FinalizeCommit, AfterFinalize
<1> QED BY <1>1, <1>2, <1>2a, <1>3, <1>4, <1>5, <1>6, <1>7

LEMMA ReconcileLease == TypeInv /\ LeaseInv /\ Reconcile => LeaseInv'
<1> SUFFICES ASSUME TypeInv, LeaseInv, Reconcile PROVE LeaseInv'
  OBVIOUS
<1>0. Reconciler \in Tasks /\ task[Reconciler] \in TaskStates
  BY DEF TypeInv, TypeOK, Tasks
<1>g. ASSUME NEW step \in {"repair", "quarantine"}, GoOn(Reconciler, step),
             UNCHANGED <<token, posts>>
      PROVE  LeaseInv'
  <2>1. [task[Reconciler] EXCEPT !.at = step] \in TaskStates
    BY <1>0 DEF TaskStates, Steps
  <2> QED BY <1>0, <1>g, <2>1, QuietStep DEF GoOn, TaskStates, JobSteps
<1>1. CASE ReconcileStart
  BY <1>1, <1>g DEF ReconcileStart
<1>2. ASSUME NEW a \in Applications, RepairNext(a) PROVE LeaseInv'
  <2>1. [Idle EXCEPT !.at = "finalize", !.app = a, !.answer = "created"] \in TaskStates
    BY IdleType DEF TaskStates, Steps, Answers
  <2> QED BY <1>0, <1>2, <2>1, IdleType, QuietStep DEF RepairNext, TaskStates, JobSteps
<1>3. CASE QuarantineLoad
  BY <1>3, <1>g DEF QuarantineLoad
<1>4. CASE QuarantineCommit
  BY <1>0, <1>4, IdleType, QuietStep DEF QuarantineCommit, Idle, JobSteps
<1> QED BY <1>1, <1>2, <1>3, <1>4 DEF Reconcile

LEMMA EnvironmentLease == TypeInv /\ LeaseInv /\ Environment => LeaseInv'
<1> SUFFICES ASSUME TypeInv, LeaseInv, Environment PROVE LeaseInv'
  OBVIOUS
<1> USE DEF TokenOfTask, TokenRecord, Owns, HoldsLease, Token, Consumable
<1>1. ASSUME NEW a \in Applications, Age(a) \/ ApplyOnSite(a) PROVE LeaseInv'
  BY <1>1 DEF Age, ApplyOnSite, LeaseInv, OwnersAreExclusive
<1>2. ASSUME NEW t \in Tokens, Expire(t) PROVE LeaseInv'
  <2>1. /\ \A u \in Tokens : u # t => token'[u] = token[u]
        /\ token[t].state = "live"
        /\ token'[t].state = "expired" /\ token'[t].app = token[t].app
        /\ UNCHANGED <<task, posts>>
    BY <1>2 DEF Expire, TypeInv, TypeOK, TokenRows
  <2>2. ASSUME NEW p \in Tasks PROVE TokenOfTask(p)'
    <3>1. TokenOfTask(p) /\ task'[p] = task[p]
      BY <2>1 DEF LeaseInv
    <3>2. CASE task[p].tok = t
      BY <2>1, <3>1, <3>2 DEF Unissued
    <3>3. CASE task[p].tok # t
      <4>1. task[p].at \in {"confirm", "acquire"} \/ HoldsLease(p) => Owns(p)
        BY DEF OwningSteps, LeaseInv, JobSteps
      <4> QED BY <2>1, <3>1, <3>3, <4>1
    <3> QED BY <3>2, <3>3
  <2>3. \A u \in Tokens : TokenRecord(u)'
    BY <2>1 DEF LeaseInv
  <2> QED BY <2>1, <2>2, <2>3 DEF LeaseInv, OwnersAreExclusive
<1>3. CASE Crash
  <2>1. \A p \in Tasks : task'[p] = Idle
    BY <1>3 DEF Crash
  <2>2. \A p \in Tasks : ~Owns(p)' /\ task'[p].at = "idle"
    BY <2>1 DEF Idle, OwningSteps, LeaseSteps
  <2> QED BY <1>3, <2>2
          DEF Crash, LeaseInv, OwnersAreExclusive, LeaseSteps, JobSteps, Tasks
<1> QED BY <1>1, <1>2, <1>3 DEF Environment

LEMMA InitLease == Init => LeaseInv
<1> SUFFICES ASSUME Init PROVE LeaseInv
  OBVIOUS
<1>1. \A p \in Tasks : task[p].at = "idle"
  BY DEF Init, Idle
<1>2. \A t \in Tokens : token[t] = Unissued /\ posts[t] = 0
  BY DEF Init
<1>3. \A p \in Tasks : ~Owns(p) /\ TokenOfTask(p)
  BY <1>1 DEF Owns, OwningSteps, LeaseSteps, TokenOfTask, HoldsLease
<1>4. \A t \in Tokens : TokenRecord(t)
  BY <1>2 DEF TokenRecord
<1> QED BY <1>1, <1>3, <1>4 DEF LeaseInv, OwnersAreExclusive, JobSteps, Tasks

LEMMA NextLease == TypeInv /\ LeaseInv /\ [Next]_vars => LeaseInv'
<1> SUFFICES ASSUME TypeInv, LeaseInv, [Next]_vars PROVE LeaseInv'
  OBVIOUS
<1>1. ASSUME NEW p \in Tasks, Continue(p) PROVE LeaseInv'
  BY <1>1, DraftingLease, IssueTokenLease, ConsumeLease, AcquireLease, PostLease,
     ResultLease DEF Continue
<1>2. ASSUME NEW p \in Tasks, Request(p) PROVE LeaseInv'
  BY <1>2, DraftingLease, ConfirmStartLease, SubmitStartLease DEF Request
<1>3. CASE UNCHANGED vars
  BY <1>3 DEF vars, LeaseInv, TokenOfTask, TokenRecord, Owns, HoldsLease, Token,
     Consumable, OwnersAreExclusive
<1> QED BY <1>1, <1>2, <1>3, ReconcileLease, EnvironmentLease DEF Next

LEMMA SpecLease == Spec => []LeaseInv
<1>1. Spec => []TypeInv
  BY SpecTypeInv
<1> QED BY <1>1, InitLease, NextLease, PTL DEF Spec

-----------------------------------------------------------------------------
(* What follows *)

\* Two tasks never work under the same confirmation (acquire_submission).
THEOREM LeaseExclusion == Spec => []LeasesAreExclusive
<1>1. LeaseInv => LeasesAreExclusive
  BY DEF LeaseInv, OwnersAreExclusive, LeasesAreExclusive, Owns, OwningSteps, HoldsLease
<1> QED BY <1>1, SpecLease, PTL

\* One confirmation, at most one POST, and only after its use was committed,
\* across any number of crashes.
THEOREM OnePost == Spec => []OnePostPerConfirmation
<1>1. TypeInv /\ LeaseInv => OnePostPerConfirmation
  BY DEF TypeInv, TypeOK, LeaseInv, TokenRecord, OnePostPerConfirmation
<1> QED BY <1>1, SpecTypeInv, SpecLease, PTL

-----------------------------------------------------------------------------
(* The workflow implements the contract *)

ContractStep == Abstract!ContractNext \/ UNCHANGED Abstract!contractVars

\* Using up a token that was issued is Redeem.
LEMMA RedeemStep ==
  ASSUME TypeInv, NEW t \in Tokens, Consumable(t), MarkUsed(t),
         UNCHANGED <<posts, accepted>>
  PROVE  ContractStep
<1>1. /\ \A u \in Tokens : u # t => token'[u] = token[u]
      /\ token'[t].state = "used" /\ token'[t].app = token[t].app
      /\ token[t].state \in {"live", "expired"} /\ token[t].app \in Applications
  BY DEF MarkUsed, Consumable, TypeInv, TypeOK, Bound, TokenRows
<1>2. {u \in Tokens : token'[u].state = "used"}
        = {u \in Tokens : token[u].state = "used"} \cup {t}
  BY <1>1
<1>3. [u \in Tokens |-> token'[u].app] = [u \in Tokens |-> token[u].app]
  BY <1>1
<1>4. Abstract!Redeem(t)
  BY <1>1, <1>2, <1>3 DEF Abstract!Redeem
<1> QED BY <1>4 DEF ContractStep, Abstract!ContractNext

LEMMA TokenSteps ==
  ASSUME TypeInv, LeaseInv, NEW p \in Tasks,
         IssueToken(p) \/ Consume(p) \/ Acquire(p) \/ Post(p)
  PROVE  ContractStep
<1> DEFINE t == task[p].tok
           a == task[p].app
<1>0. Knows(task[p]) /\ TokenOfTask(p) /\ task[Reconciler].at \in JobSteps
  BY DEF TypeInv, Bound, LeaseInv
<1>1. CASE IssueToken(p)
  <2>1. /\ t \in Tokens /\ a \in Applications /\ token[t] = Unissued
        /\ token' = [token EXCEPT ![t] = [state |-> "live", app |-> a]]
        /\ token \in [Tokens -> TokenRows]
        /\ UNCHANGED <<posts, accepted>>
    BY <1>0, <1>1 DEF IssueToken, Knows, Unbound, TokenOfTask, Token, Owns, OwningSteps,
       JobSteps, TypeInv, TypeOK
  <2>2. PICK c \in Tokens, b \in Applications :
          /\ token[c] = Unissued
          /\ token' = [token EXCEPT ![c] = [state |-> "live", app |-> b]]
    BY <2>1
  <2>3. [u \in Tokens |-> token'[u].app]
          = [[u \in Tokens |-> token[u].app] EXCEPT ![c] = b]
    <3>1. \A u \in Tokens : token'[u].app = IF u = c THEN b ELSE token[u].app
      BY <2>1, <2>2
    <3> QED BY <3>1
  <2>4. {u \in Tokens : token'[u].state = "used"} = {u \in Tokens : token[u].state = "used"}
    BY <2>1, <2>2 DEF Unissued
  <2>5. Abstract!Grant(c, b)
    BY <2>1, <2>2, <2>3, <2>4 DEF Abstract!Grant, Unissued
  <2> QED BY <2>5 DEF ContractStep, Abstract!ContractNext
<1>2. CASE Consume(p)
  <2>1. t \in Tokens
    BY <1>0, <1>2 DEF Consume, Knows
  <2>2. CASE Consumable(t) /\ MarkUsed(t)
    BY <1>2, <2>1, <2>2, RedeemStep DEF Consume
  <2>3. CASE UNCHANGED token
    BY <1>2, <2>3 DEF Consume, ContractStep, Abstract!contractVars
  <2> QED BY <1>2, <2>2, <2>3 DEF Consume
<1>3. CASE Acquire(p)
  <2>1. t \in Tokens /\ Consumable(t)
    BY <1>0, <1>3 DEF Acquire, Knows, TokenOfTask
  <2> QED BY <1>3, <2>1, RedeemStep DEF Acquire
<1>4. CASE Post(p)
  <2>1. HoldsLease(p) /\ Owns(p)
    BY <1>0, <1>4 DEF Post, HoldsLease, Owns, OwningSteps, LeaseSteps, JobSteps
  <2>2. /\ t \in Tokens /\ token[t].state = "used" /\ token[t].app = a
        /\ posts[t] = 0 /\ posts \in [Tokens -> Nat]
        /\ posts' = [posts EXCEPT ![t] = posts[t] + 1]
        /\ UNCHANGED token
    BY <1>0, <1>4, <2>1 DEF Post, TokenOfTask, Token, TypeInv, TypeOK
  <2>3. accepted' \in {accepted, accepted \cup {a}}
    BY <1>4 DEF Post
  <2>4. posts' = [posts EXCEPT ![t] = 1]
    BY <2>2
  <2>5. Abstract!Send(t)
    BY <2>2, <2>3, <2>4 DEF Abstract!Send
  <2> QED BY <2>2, <2>5 DEF ContractStep, Abstract!ContractNext
<1> QED BY <1>1, <1>2, <1>3, <1>4

LEMMA NextContract == TypeInv /\ LeaseInv /\ [Next]_vars => ContractStep
<1> SUFFICES ASSUME TypeInv, LeaseInv, [Next]_vars PROVE ContractStep
  OBVIOUS
<1>s. UNCHANGED <<token, posts, accepted>> => ContractStep
  BY DEF ContractStep, Abstract!contractVars
<1>1. ASSUME NEW p \in Tasks, Continue(p) PROVE ContractStep
  <2>1. CASE IssueToken(p) \/ Consume(p) \/ Acquire(p) \/ Post(p)
    BY <2>1, TokenSteps
  <2>2. CASE PrepareFail(p) \/ PrepareDraft(p) \/ SaveDraft(p) \/ MarkLoad(p) \/ MarkCommit(p)
    BY <1>s, <2>2 DEF PrepareFail, PrepareDraft, SaveDraft, MarkLoad, MarkCommit
  <2>3. CASE \/ Preflight(p) \/ ConnectFails(p) \/ Throttled(p) \/ ReplyAccepted(p)
             \/ ReplyRefused(p) \/ ReplyServerError(p) \/ ReplyLost(p)
    BY <1>s, <2>3 DEF Preflight, ConnectFails, Throttled, ReplyAccepted, ReplyRefused,
       ReplyServerError, ReplyLost
  <2>4. CASE FinalizeLoad(p) \/ FinalizeCommit(p) \/ TransitionCommit(p)
    BY <1>s, <2>4 DEF FinalizeLoad, FinalizeCommit, TransitionCommit
  <2> QED BY <1>1, <2>1, <2>2, <2>3, <2>4 DEF Continue
<1>2. ASSUME NEW p \in Tasks, Request(p) PROVE ContractStep
  BY <1>2, <1>s DEF Request, PrepareStart, EditLetter, ConfirmStart, SubmitStart,
     TransitionLoad
<1>3. CASE Reconcile
  BY <1>3, <1>s DEF Reconcile, ReconcileStart, RepairNext, QuarantineLoad, QuarantineCommit
<1>4. CASE Environment
  <2>1. ASSUME NEW a \in Applications, ApplyOnSite(a) PROVE ContractStep
    <3>1. Abstract!OnSite(a)
      BY <2>1 DEF ApplyOnSite, Abstract!OnSite
    <3> QED BY <3>1 DEF ContractStep, Abstract!ContractNext
  <2>2. ASSUME NEW t \in Tokens, Expire(t) PROVE ContractStep
    <3>1. /\ \A u \in Tokens : token'[u].app = token[u].app
          /\ \A u \in Tokens : token'[u].state = "used" <=> token[u].state = "used"
          /\ UNCHANGED <<posts, accepted>>
      BY <2>2 DEF Expire, TypeInv, TypeOK, TokenRows
    <3>2. {u \in Tokens : token'[u].state = "used"} = {u \in Tokens : token[u].state = "used"}
      BY <3>1
    <3>3. [u \in Tokens |-> token'[u].app] = [u \in Tokens |-> token[u].app]
      BY <3>1
    <3> QED BY <3>1, <3>2, <3>3 DEF ContractStep, Abstract!contractVars
  <2>3. CASE Crash \/ \E a \in Applications : Age(a)
    BY <1>s, <2>3 DEF Crash, Age
  <2> QED BY <1>4, <2>1, <2>2, <2>3 DEF Environment
<1>5. CASE UNCHANGED vars
  BY <1>5, <1>s DEF vars
<1> QED BY <1>1, <1>2, <1>3, <1>4, <1>5 DEF Next

LEMMA InitContract == Init => Abstract!ContractInit
<1> SUFFICES ASSUME Init PROVE Abstract!ContractInit
  OBVIOUS
<1>1. [t \in Tokens |-> token[t].app] = [t \in Tokens |-> None]
  BY DEF Init, Unissued
<1>2. {t \in Tokens : token[t].state = "used"} = {}
  BY DEF Init, Unissued
<1> QED BY <1>1, <1>2 DEF Init, Abstract!ContractInit

\* Every behaviour of the workflow, whatever the database, however many tasks
\* and crashes, is one the contract allows.
THEOREM Refinement == Spec => ImplementsContract
<1>1. TypeInv /\ LeaseInv /\ [Next]_vars
        => [Abstract!ContractNext]_(Abstract!contractVars)
  BY NextContract DEF ContractStep
<1> QED BY <1>1, InitContract, SpecTypeInv, SpecLease, PTL
        DEF ImplementsContract, Abstract!Contract, Spec

-----------------------------------------------------------------------------
(* The control flow: how a task comes to each step that holds a result *)

\* Steps that hold no lease and no row of the lifecycle.
EarlySteps ==
  {"idle", "prepare", "draft", "confirm", "consume", "acquire", "repair", "quarantine"}

\* Task q comes to be in state n: where it comes from, what it brings along and
\* what it reads on the way.
MovesTo(q, n) ==
  LET s == task[q]
      Kept == n.app = s.app /\ n.tok = s.tok
      LoadsLife ==
        /\ n.vac \in Vacancies
        /\ n.life = life[n.vac]
        /\ LifeUnlocked(q, n.vac)
  IN \/ n = s
     \/ n.at \in EarlySteps
     \/ n.at = "leased" /\ s.at = "acquire" /\ Kept
     \/ n.at = "post" /\ s.at \in {"leased", "post"} /\ Kept
     \/ /\ n.at = "reply" /\ s.at = "post" /\ Kept
        /\ n.answer # "refused" => n.app \in accepted'
     \/ /\ n.at = "mark" /\ s.at \in {"leased", "post", "reply"} /\ Kept
        /\ n.outcome.api # "submitted"
        /\ n.outcome.err = "connection" => s.at = "post"
     \/ n.at = "marking" /\ s.at = "mark" /\ Kept /\ n.outcome = s.outcome
     \/ /\ n.at = "finalize"
        /\ \/ s.at = "reply" /\ s.answer \in {"created", "exists"} /\ n.app = s.app
           \/ n.app \in todo
     \/ /\ n.at = "finalizing" /\ s.at = "finalize" /\ Kept
        /\ n.vac = VacancyOf[n.app] /\ LoadsLife
     \/ /\ n.at = "transition" /\ LoadsLife
        /\ ValidTransition(n.life.status, n.target)

\* A crash apart, one task moves at a time.
Moves ==
  /\ \A q \in Tasks : MovesTo(q, task'[q])
  /\ \E p \in Tasks : \A q \in Tasks \ {p} : task'[q] \in {task[q], Idle}

LEMMA MoveOf ==
  ASSUME TypeInv, NEW p \in Tasks, NEW n, Become(p, n), MovesTo(p, n)
  PROVE  Moves
<1>1. /\ task'[p] = n
      /\ \A q \in Tasks : q # p => task'[q] = task[q]
  BY DEF Become, TypeInv, TypeOK
<1>2. \A q \in Tasks : q # p => MovesTo(q, task'[q])
  BY <1>1 DEF MovesTo
<1> QED BY <1>1, <1>2 DEF Moves

\* Any step to a state of which only the early step matters.
LEMMA EarlyMove ==
  ASSUME TypeInv, NEW p \in Tasks, NEW n, Become(p, n), n.at \in EarlySteps
  PROVE  Moves
BY MoveOf DEF MovesTo

LEMMA EarlyMoves ==
  ASSUME TypeInv, NEW p \in Tasks,
         \/ \E a \in Applications : PrepareStart(p, a) \/ EditLetter(p, a)
         \/ \E a \in Applications, t \in Tokens : ConfirmStart(p, a, t)
         \/ \E t \in Tokens : SubmitStart(p, t)
         \/ PrepareFail(p) \/ PrepareDraft(p) \/ SaveDraft(p) \/ IssueToken(p)
         \/ Consume(p) \/ MarkCommit(p) \/ FinalizeCommit(p) \/ TransitionCommit(p)
  PROVE  Moves
<1>0. task[p] \in TaskStates
  BY DEF TypeInv, TypeOK
<1>1. ASSUME Become(p, Idle) PROVE Moves
  BY <1>1, EarlyMove DEF Idle, EarlySteps
<1>2. ASSUME NEW a \in Applications, PrepareStart(p, a) PROVE Moves
  <2>1. [Idle EXCEPT !.at = "prepare", !.app = a].at = "prepare"
    BY DEF Idle
  <2> QED BY <1>2, <2>1, EarlyMove DEF PrepareStart, EarlySteps
<1>3. ASSUME NEW a \in Applications, EditLetter(p, a) PROVE Moves
  <2>1. [Idle EXCEPT !.at = "draft", !.app = a, !.row = row[a]].at = "draft"
    BY DEF Idle
  <2> QED BY <1>3, <2>1, EarlyMove DEF EditLetter, EarlySteps
<1>4. ASSUME NEW a \in Applications, NEW t \in Tokens, ConfirmStart(p, a, t) PROVE Moves
  <2>1. [Idle EXCEPT !.at = "confirm", !.app = a, !.tok = t, !.row = row[a]].at = "confirm"
    BY DEF Idle
  <2> QED BY <1>4, <2>1, EarlyMove DEF ConfirmStart, EarlySteps
<1>5. ASSUME NEW t \in Tokens, SubmitStart(p, t) PROVE Moves
  <2>1. [Idle EXCEPT !.at = "consume", !.app = token[t].app, !.tok = t,
                     !.vac = VacancyOf[token[t].app]].at = "consume"
    BY DEF Idle
  <2> QED BY <1>5, <2>1, EarlyMove DEF SubmitStart, EarlySteps
<1>6. CASE PrepareDraft(p)
  <2>1. [task[p] EXCEPT !.at = "draft", !.row = row[task[p].app]].at = "draft"
    BY <1>0 DEF TaskStates
  <2>2. CASE Become(p, [task[p] EXCEPT !.at = "draft", !.row = row[task[p].app]])
    BY <2>1, <2>2, EarlyMove DEF EarlySteps
  <2> QED BY <1>1, <1>6, <2>2 DEF PrepareDraft
<1>7. CASE Consume(p)
  <2>1. [task[p] EXCEPT !.at = "acquire", !.row = row[task[p].app]].at = "acquire"
    BY <1>0 DEF TaskStates
  <2>2. CASE Become(p, [task[p] EXCEPT !.at = "acquire", !.row = row[task[p].app]])
    BY <2>1, <2>2, EarlyMove DEF EarlySteps
  <2> QED BY <1>1, <1>7, <2>2 DEF Consume
<1>8. CASE FinalizeCommit(p)
  <2>1. [Idle EXCEPT !.at = "repair"].at = "repair"
    BY DEF Idle
  <2>2. CASE Become(p, [Idle EXCEPT !.at = "repair"])
    BY <2>1, <2>2, EarlyMove DEF EarlySteps
  <2> QED BY <1>1, <1>8, <2>2 DEF FinalizeCommit, AfterFinalize
<1>9. CASE PrepareFail(p) \/ SaveDraft(p) \/ IssueToken(p) \/ MarkCommit(p) \/ TransitionCommit(p)
  BY <1>1, <1>9 DEF PrepareFail, SaveDraft, IssueToken, MarkCommit, TransitionCommit
<1> QED BY <1>2, <1>3, <1>4, <1>5, <1>6, <1>7, <1>8, <1>9

LEMMA LateMoves ==
  ASSUME TypeInv, NEW p \in Tasks,
         \/ Acquire(p) \/ Preflight(p) \/ ConnectFails(p) \/ Throttled(p) \/ Post(p)
         \/ ReplyAccepted(p) \/ ReplyRefused(p) \/ ReplyServerError(p) \/ ReplyLost(p)
         \/ MarkLoad(p) \/ FinalizeLoad(p)
         \/ \E v \in Vacancies, target \in UserTargets : TransitionLoad(p, v, target)
  PROVE  Moves
<1>0. task[p] \in TaskStates /\ Knows(task[p])
  BY DEF TypeInv, TypeOK, Bound
<1>d. ASSUME NEW o \in Outcomes, Decide(p, o), o.api # "submitted",
             task[p].at \in {"leased", "post", "reply"},
             o.err = "connection" => task[p].at = "post"
      PROVE  Moves
  <2> DEFINE n == [task[p] EXCEPT !.at = "mark", !.tries = 0, !.answer = "none",
                                  !.outcome = o]
  <2>1. n.at = "mark" /\ n.app = task[p].app /\ n.tok = task[p].tok /\ n.outcome = o
    BY <1>0 DEF TaskStates
  <2>2. Become(p, n)
    BY <1>d DEF Decide
  <2> HIDE DEF n
  <2> QED BY <1>d, <2>1, <2>2, MoveOf DEF MovesTo
<1>o. \A code \in ErrorCodes :
        /\ Manual(code) \in Outcomes /\ Manual(code).api # "submitted" /\ Manual(code).err = code
        /\ Failed(code) \in Outcomes /\ Failed(code).api # "submitted" /\ Failed(code).err = code
  BY DEF Manual, Failed, Outcomes, ApiStatuses
<1>1. CASE Acquire(p)
  <2> DEFINE n == [task[p] EXCEPT !.at = "leased", !.row = AbsentRow]
  <2>1. n.at = "leased" /\ n.app = task[p].app /\ n.tok = task[p].tok
    BY <1>0 DEF TaskStates
  <2>2. Become(p, n) /\ task[p].at = "acquire"
    BY <1>1 DEF Acquire
  <2> HIDE DEF n
  <2> QED BY <2>1, <2>2, MoveOf DEF MovesTo
<1>2. CASE Preflight(p)
  <2> DEFINE n == [task[p] EXCEPT !.at = "post", !.tries = 1]
  <2>1. n.at = "post" /\ n.app = task[p].app /\ n.tok = task[p].tok
    BY <1>0 DEF TaskStates
  <2>2. task[p].at = "leased"
        /\ (Become(p, n) \/ Decide(p, Manual("denied")) \/ Decide(p, Failed("auth")))
    BY <1>2 DEF Preflight
  <2> HIDE DEF n
  <2>3. CASE Become(p, n)
    BY <2>1, <2>2, <2>3, MoveOf DEF MovesTo
  <2> QED BY <1>d, <1>o, <2>2, <2>3 DEF ErrorCodes
<1>3. CASE ConnectFails(p) \/ Throttled(p)
  <2> DEFINE n == [task[p] EXCEPT !.at = "post", !.tries = @ + 1, !.answer = "none"]
  <2>1. n.at = "post" /\ n.app = task[p].app /\ n.tok = task[p].tok
    BY <1>0 DEF TaskStates
  <2>2. task[p].at = "post"
        /\ (Become(p, n) \/ Decide(p, Failed("connection")) \/ Decide(p, Failed("retryable")))
    BY <1>3 DEF ConnectFails, Throttled, SendFails
  <2> HIDE DEF n
  <2>3. CASE Become(p, n)
    BY <2>1, <2>2, <2>3, MoveOf DEF MovesTo
  <2> QED BY <1>d, <1>o, <2>2, <2>3 DEF ErrorCodes
<1>4. CASE Post(p)
  <2>1. PICK answer \in {"refused", IF task[p].app \in accepted THEN "exists" ELSE "created"} :
          /\ accepted' = IF answer = "created" THEN accepted \cup {task[p].app} ELSE accepted
          /\ Become(p, [task[p] EXCEPT !.at = "reply", !.answer = answer])
    BY <1>4 DEF Post
  <2> DEFINE n == [task[p] EXCEPT !.at = "reply", !.answer = answer]
  <2>2. n.at = "reply" /\ n.app = task[p].app /\ n.tok = task[p].tok /\ n.answer = answer
    BY <1>0 DEF TaskStates
  <2>3. Become(p, n) /\ task[p].at = "post"
    BY <1>4, <2>1 DEF Post
  <2>4. answer # "refused" => task[p].app \in accepted'
    BY <2>1
  <2> HIDE DEF n
  <2> QED BY <2>2, <2>3, <2>4, MoveOf DEF MovesTo
<1>5. CASE ReplyAccepted(p)
  <2> DEFINE n == [task[p] EXCEPT !.at = "finalize", !.tries = 0]
  <2>1. n.at = "finalize" /\ n.app = task[p].app
    BY <1>0 DEF TaskStates
  <2>2. Become(p, n) /\ task[p].at = "reply" /\ task[p].answer \in {"created", "exists"}
    BY <1>5 DEF ReplyAccepted
  <2> HIDE DEF n
  <2> QED BY <2>1, <2>2, MoveOf DEF MovesTo
<1>6. CASE ReplyRefused(p) \/ ReplyServerError(p) \/ ReplyLost(p)
  <2>1. /\ task[p].at = "reply"
        /\ \/ Decide(p, Failed("auth")) \/ Decide(p, Manual("denied"))
           \/ Decide(p, Failed("retryable")) \/ Decide(p, Manual("unknown"))
    BY <1>6 DEF ReplyRefused, ReplyServerError, ReplyLost, SendFails, SendsAgain, UncertainOutcome
  <2> QED BY <1>d, <1>o, <2>1 DEF ErrorCodes
<1>7. CASE MarkLoad(p)
  <2> DEFINE n == [task[p] EXCEPT !.at = "marking", !.row = row[task[p].app]]
  <2>1. n.at = "marking" /\ n.app = task[p].app /\ n.tok = task[p].tok
        /\ n.outcome = task[p].outcome
    BY <1>0 DEF TaskStates
  <2>2. Become(p, n) /\ task[p].at = "mark"
    BY <1>7 DEF MarkLoad
  <2> HIDE DEF n
  <2> QED BY <2>1, <2>2, MoveOf DEF MovesTo
<1>8. CASE FinalizeLoad(p)
  <2> DEFINE v == VacancyOf[task[p].app]
             n == [task[p] EXCEPT !.at = "finalizing", !.vac = v,
                                  !.row = row[task[p].app], !.life = life[v]]
  <2>1. n.at = "finalizing" /\ n.app = task[p].app /\ n.tok = task[p].tok
        /\ n.vac = v /\ n.life = life[v]
    BY <1>0 DEF TaskStates
  <2>2. Become(p, n) /\ task[p].at = "finalize" /\ LifeUnlocked(p, v) /\ v \in Vacancies
    BY <1>0, <1>8 DEF FinalizeLoad, Knows, Unbound
  <2> HIDE DEF n
  <2> QED BY <2>1, <2>2, MoveOf DEF MovesTo
<1>9. ASSUME NEW v \in Vacancies, NEW target \in UserTargets, TransitionLoad(p, v, target)
      PROVE  Moves
  <2> DEFINE n == [Idle EXCEPT !.at = "transition", !.vac = v, !.life = life[v],
                               !.target = target]
  <2>1. n.at = "transition" /\ n.vac = v /\ n.life = life[v] /\ n.target = target
    BY DEF Idle
  <2>2. Become(p, n) /\ LifeUnlocked(p, v) /\ ValidTransition(life[v].status, target)
    BY <1>9 DEF TransitionLoad
  <2> HIDE DEF n
  <2> QED BY <2>1, <2>2, MoveOf DEF MovesTo
<1> QED BY <1>1, <1>2, <1>3, <1>4, <1>5, <1>6, <1>7, <1>8, <1>9

LEMMA NextMoves == TypeInv /\ [Next]_vars => Moves
<1> SUFFICES ASSUME TypeInv, [Next]_vars PROVE Moves
  OBVIOUS
<1>0. Reconciler \in Tasks /\ task[Reconciler] \in TaskStates
  BY DEF TypeInv, TypeOK, Tasks
<1>1. ASSUME NEW p \in Tasks, Continue(p) PROVE Moves
  BY <1>1, EarlyMoves, LateMoves DEF Continue
<1>2. ASSUME NEW p \in Tasks, Request(p) PROVE Moves
  BY <1>2, EarlyMoves, LateMoves DEF Request
<1>3. CASE Reconcile
  <2>1. ASSUME NEW step \in {"repair", "quarantine"}, GoOn(Reconciler, step) PROVE Moves
    <3>1. [task[Reconciler] EXCEPT !.at = step].at = step
      BY <1>0 DEF TaskStates
    <3> QED BY <1>0, <2>1, <3>1, EarlyMove DEF GoOn, EarlySteps
  <2>2. ASSUME NEW a \in Applications, RepairNext(a) PROVE Moves
    <3> DEFINE n == [Idle EXCEPT !.at = "finalize", !.app = a, !.answer = "created"]
    <3>1. n.at = "finalize" /\ n.app = a /\ Become(Reconciler, n) /\ a \in todo
      BY <2>2 DEF RepairNext, Idle
    <3> HIDE DEF n
    <3> QED BY <1>0, <3>1, MoveOf DEF MovesTo
  <2>3. CASE QuarantineCommit
    BY <1>0, <2>3, EarlyMove DEF QuarantineCommit, EarlySteps, Idle
  <2> QED BY <1>3, <2>1, <2>2, <2>3 DEF Reconcile, ReconcileStart, QuarantineLoad
<1>4. CASE UNCHANGED task
  BY <1>0, <1>4 DEF Moves, MovesTo
<1>5. CASE Crash
  BY <1>0, <1>5 DEF Crash, Moves, MovesTo, Idle, EarlySteps
<1>6. CASE Environment
  BY <1>4, <1>5, <1>6 DEF Environment, Age, ApplyOnSite, Expire
<1> QED BY <1>1, <1>2, <1>3, <1>4, <1>6 DEF Next, vars

-----------------------------------------------------------------------------
(* The rows: who can have written what a row says *)

RowOrigin(a) ==
  /\ row'[a].api = "submitted" /\ row[a].api # "submitted" =>
       \E p \in Tasks :
         /\ task[p].app = a
         /\ \/ task[p].at = "marking" /\ task[p].outcome.api = "submitted"
            \/ FinalizeCommit(p) /\ ~InsertConflict(life[task[p].vac], task[p].life)
  /\ row'[a].err = "connection" /\ row[a].err # "connection" =>
       \E p \in Tasks :
         /\ task[p].app = a
         /\ task[p].at = "marking" /\ task[p].outcome.err = "connection"

LEMMA FlushOrigin ==
  ASSUME NEW r \in Rows, NEW l, NEW n
  PROVE  /\ FlushRow(r, l, n).api \in {r.api, n.api}
         /\ n.api = l.api => FlushRow(r, l, n).api = r.api
         /\ FlushRow(r, l, n).err \in {r.err, n.err}
         /\ n.err = l.err => FlushRow(r, l, n).err = r.err
BY DEF FlushRow, Rows

LEMMA NextRows ==
  ASSUME TypeInv, [Next]_vars, NEW a \in Applications
  PROVE  RowOrigin(a)
<1>0. /\ row \in [Applications -> Rows] /\ batch \in [Applications -> Rows]
      /\ \A p \in Tasks : task[p] \in TaskStates /\ task[p].row \in Rows
  BY DEF TypeInv, TypeOK, TaskStates
<1>1. CASE row'[a] = row[a]
  BY <1>1 DEF RowOrigin
<1>2. ASSUME NEW p \in Tasks, SaveDraft(p) PROVE RowOrigin(a)
  <2>1. Redrafted(task[p].row).api = "draft" /\ Redrafted(task[p].row).err = "none"
    BY <1>0 DEF Redrafted, Rows
  <2>2. NewDraft.api = "draft" /\ NewDraft.err = "none"
    BY DEF NewDraft, AbsentRow
  <2>3. \/ row'[a] = row[a]
        \/ row'[a] = FlushRow(row[a], task[p].row, Redrafted(task[p].row))
        \/ row'[a] = NewDraft
    BY <1>0, <1>2 DEF SaveDraft
  <2> QED BY <1>0, <2>1, <2>2, <2>3, FlushOrigin DEF RowOrigin
<1>3. ASSUME NEW p \in Tasks, IssueToken(p) PROVE RowOrigin(a)
  <2> DEFINE n == [task[p].row EXCEPT !.api = "awaiting_confirmation"]
  <2>1. n.api = "awaiting_confirmation" /\ n.err = task[p].row.err
    BY <1>0 DEF Rows
  <2>2. row'[a] = row[a] \/ row'[a] = FlushRow(row[a], task[p].row, n)
    BY <1>0, <1>3 DEF IssueToken
  <2> HIDE DEF n
  <2> QED BY <1>0, <2>1, <2>2, FlushOrigin DEF RowOrigin
<1>4. ASSUME NEW p \in Tasks, Acquire(p) PROVE RowOrigin(a)
  <2> DEFINE n == [task[p].row EXCEPT !.api = "submitting", !.attempts = @ + 1]
             r == FlushRow(row[a], task[p].row, n)
  <2>1. n.api = "submitting" /\ n.err = task[p].row.err
    BY <1>0 DEF Rows
  <2>2. row'[a] = row[a] \/ row'[a] = [r EXCEPT !.stale = FALSE]
    BY <1>0, <1>4 DEF Acquire
  <2>3. n \in Rows
    <3>1. task[p].row.attempts + 1 \in Nat
      BY <1>0 DEF Rows
    <3> QED BY <1>0, <3>1 DEF Rows, ApiStatuses
  <2>4. [r EXCEPT !.stale = FALSE].api = r.api /\ [r EXCEPT !.stale = FALSE].err = r.err
    <3>1. r \in Rows
      BY <1>0, <2>3, FlushRowType
    <3> HIDE DEF r
    <3> QED BY <3>1 DEF Rows
  <2> HIDE DEF n
  <2>5. r.api \in {row[a].api, "submitting"} /\ r.err = row[a].err
    BY <1>0, <2>1, FlushOrigin
  <2> HIDE DEF r
  <2> QED BY <2>2, <2>4, <2>5 DEF RowOrigin
<1>5. ASSUME NEW p \in Tasks, MarkCommit(p) PROVE RowOrigin(a)
  <2> DEFINE n == [task[p].row EXCEPT !.api = task[p].outcome.api, !.err = task[p].outcome.err]
  <2>1. n.api = task[p].outcome.api /\ n.err = task[p].outcome.err
    BY <1>0 DEF Rows
  <2>2. row'[a] = row[a] \/ (task[p].app = a /\ row'[a] = FlushRow(row[a], task[p].row, n))
    BY <1>0, <1>5 DEF MarkCommit
  <2>3. task[p].at = "marking"
    BY <1>5 DEF MarkCommit
  <2> HIDE DEF n
  <2> QED BY <1>0, <2>1, <2>2, <2>3, FlushOrigin DEF RowOrigin
<1>6. ASSUME NEW p \in Tasks, FinalizeCommit(p) PROVE RowOrigin(a)
  <2> DEFINE n == [task[p].row EXCEPT !.api = "submitted", !.err = "none"]
  <2>1. n.err = "none"
    BY <1>0 DEF Rows
  <2>2. \/ row'[a] = row[a]
        \/ /\ task[p].app = a /\ ~InsertConflict(life[task[p].vac], task[p].life)
           /\ row'[a] = FlushRow(row[a], task[p].row, n)
    BY <1>0, <1>6 DEF FinalizeCommit
  <2> HIDE DEF n
  <2> QED BY <1>0, <1>6, <2>1, <2>2, FlushOrigin DEF RowOrigin
<1>7. CASE QuarantineCommit
  <2> DEFINE n == [batch[a] EXCEPT !.api = "manual_action_required", !.err = "unknown"]
  <2>1. n.api = "manual_action_required" /\ n.err = "unknown"
    BY <1>0 DEF Rows
  <2>2. row'[a] = row[a] \/ row'[a] = FlushRow(row[a], batch[a], n)
    BY <1>0, <1>7 DEF QuarantineCommit
  <2> HIDE DEF n
  <2> QED BY <1>0, <2>1, <2>2, FlushOrigin DEF RowOrigin
<1>8. ASSUME NEW b \in Applications, Age(b) PROVE RowOrigin(a)
  <2>1. row'[a].api = row[a].api /\ row'[a].err = row[a].err
    BY <1>0, <1>8 DEF Age, Rows
  <2> QED BY <2>1 DEF RowOrigin
<1>9. ASSUME NEW p \in Tasks, Continue(p) PROVE RowOrigin(a)
  BY <1>1, <1>2, <1>3, <1>4, <1>5, <1>6, <1>9
     DEF Continue, PrepareFail, PrepareDraft, Consume, Preflight, ConnectFails, Throttled, Post,
         ReplyAccepted, ReplyRefused, ReplyServerError, ReplyLost, MarkLoad, FinalizeLoad,
         TransitionCommit
<1>10. ASSUME NEW p \in Tasks, Request(p) PROVE RowOrigin(a)
  BY <1>1, <1>10 DEF Request, PrepareStart, EditLetter, ConfirmStart, SubmitStart, TransitionLoad
<1>11. CASE Reconcile
  BY <1>1, <1>7, <1>11 DEF Reconcile, ReconcileStart, RepairNext, QuarantineLoad
<1>12. CASE Environment
  BY <1>1, <1>8, <1>12 DEF Environment, ApplyOnSite, Expire, Crash
<1> QED BY <1>1, <1>9, <1>10, <1>11, <1>12 DEF Next, vars

-----------------------------------------------------------------------------
(* A row that is submitted is accepted *)

\* Every task that will record a success works for an application HeadHunter
\* holds, and no failure is recorded as a success.
Vouched(s, held) ==
  /\ s.at \in {"finalize", "finalizing"} => s.app \in held
  /\ s.at = "reply" /\ s.answer \in {"created", "exists"} => s.app \in held
  /\ s.at \in {"mark", "marking"} => s.outcome.api # "submitted"

AcceptInv ==
  /\ SubmittedIsTrue
  /\ todo \subseteq accepted
  /\ \A p \in Tasks : Vouched(task[p], accepted)

\* HeadHunter forgets no application, and the job takes up submitted rows only.
LEMMA NextHeld ==
  ASSUME TypeInv, AcceptInv, [Next]_vars
  PROVE  accepted \subseteq accepted' /\ todo' \subseteq accepted'
<1>1. accepted \subseteq accepted'
  <2>1. ASSUME NEW p \in Tasks, Post(p) PROVE accepted \subseteq accepted'
    BY <2>1 DEF Post
  <2>2. ASSUME NEW p \in Tasks, Continue(p) PROVE accepted \subseteq accepted'
    BY <2>1, <2>2
       DEF Continue, PrepareFail, PrepareDraft, SaveDraft, IssueToken, Consume, Acquire,
           Preflight, ConnectFails, Throttled, ReplyAccepted, ReplyRefused, ReplyServerError,
           ReplyLost, MarkLoad, MarkCommit, FinalizeLoad, FinalizeCommit, TransitionCommit
  <2>3. ASSUME NEW p \in Tasks, Request(p) PROVE UNCHANGED accepted
    BY <2>3 DEF Request, PrepareStart, EditLetter, ConfirmStart, SubmitStart, TransitionLoad
  <2>4. CASE Reconcile
    BY <2>4 DEF Reconcile, ReconcileStart, RepairNext, QuarantineLoad, QuarantineCommit
  <2>5. CASE Environment
    BY <2>5 DEF Environment, Age, ApplyOnSite, Expire, Crash
  <2> QED BY <2>2, <2>3, <2>4, <2>5 DEF Next, vars
<1>2. todo' \subseteq todo \cup Unrecorded
  <2>1. ASSUME NEW p \in Tasks, Continue(p) PROVE todo' \subseteq todo
    BY <2>1
       DEF Continue, PrepareFail, PrepareDraft, SaveDraft, IssueToken, Consume, Acquire, Post,
           Preflight, ConnectFails, Throttled, ReplyAccepted, ReplyRefused, ReplyServerError,
           ReplyLost, MarkLoad, MarkCommit, FinalizeLoad, FinalizeCommit, TransitionCommit
  <2>2. ASSUME NEW p \in Tasks, Request(p) PROVE UNCHANGED todo
    BY <2>2 DEF Request, PrepareStart, EditLetter, ConfirmStart, SubmitStart, TransitionLoad
  <2>3. CASE Reconcile
    BY <2>3 DEF Reconcile, ReconcileStart, RepairNext, QuarantineLoad, QuarantineCommit
  <2>4. CASE Environment
    BY <2>4 DEF Environment, Age, ApplyOnSite, Expire, Crash
  <2> QED BY <2>1, <2>2, <2>3, <2>4 DEF Next, vars
<1>3. Unrecorded \subseteq accepted
  BY DEF Unrecorded, AcceptInv, SubmittedIsTrue
<1> QED BY <1>1, <1>2, <1>3 DEF AcceptInv

LEMMA NextAccept == TypeInv /\ AcceptInv /\ [Next]_vars => AcceptInv'
<1> SUFFICES ASSUME TypeInv, AcceptInv, [Next]_vars PROVE AcceptInv'
  OBVIOUS
<1>1. accepted \subseteq accepted' /\ todo' \subseteq accepted'
  BY NextHeld
<1>2. ASSUME NEW a \in Applications, row'[a].api = "submitted" PROVE a \in accepted'
  <2>1. CASE row[a].api = "submitted"
    BY <1>1, <2>1 DEF AcceptInv, SubmittedIsTrue
  <2>2. CASE row[a].api # "submitted"
    <3>1. PICK p \in Tasks :
            /\ task[p].app = a
            /\ \/ task[p].at = "marking" /\ task[p].outcome.api = "submitted"
               \/ FinalizeCommit(p)
      BY <1>2, <2>2, NextRows DEF RowOrigin
    <3>2. FinalizeCommit(p) => task[p].at = "finalizing"
      BY DEF FinalizeCommit
    <3> QED BY <1>1, <3>1, <3>2 DEF AcceptInv, Vouched
  <2> QED BY <2>1, <2>2
<1>3. ASSUME NEW p \in Tasks PROVE Vouched(task'[p], accepted')
  <2>1. MovesTo(p, task'[p]) /\ Vouched(task[p], accepted)
    BY NextMoves DEF Moves, AcceptInv
  <2> QED BY <1>1, <2>1 DEF MovesTo, Vouched, EarlySteps, AcceptInv
<1> QED BY <1>1, <1>2, <1>3 DEF AcceptInv, SubmittedIsTrue

LEMMA InitAccept == Init => AcceptInv
BY DEF Init, AcceptInv, SubmittedIsTrue, Vouched, Idle

LEMMA SpecAccept == Spec => []AcceptInv
BY InitAccept, NextAccept, SpecTypeInv, PTL DEF Spec

\* A row claims to be submitted only if HeadHunter holds the application: no
\* lost reply, stale overwrite, crash or repair makes up a success.
THEOREM SubmittedTruth == Spec => []SubmittedIsTrue
<1>1. AcceptInv => SubmittedIsTrue
  BY DEF AcceptInv
<1> QED BY <1>1, SpecAccept, PTL

-----------------------------------------------------------------------------
(* The lifecycle: who changes the row of a vacancy, and to what *)

LifeOrigin(v) ==
  \/ life'[v] = life[v]
  \/ \E p \in Tasks :
       /\ task[p].vac = v
       /\ ~InsertConflict(life[v], task[p].life)
       /\ \/ /\ task[p].at = "finalizing"
             /\ life'[v] = FlushLife(life[v], task[p].life,
                                    FinalizedRow(task[p].life, task[p].answer = "created"))
          \/ /\ task[p].at = "transition"
             /\ life'[v] = FlushLife(life[v], task[p].life,
                                    TransitionRow(task[p].life, task[p].target))
       /\ task'[p].at \in {"idle", "repair"}
       /\ \A q \in Tasks \ {p} : task'[q] = task[q]

LEMMA NextLife ==
  ASSUME TypeInv, [Next]_vars, NEW v \in Vacancies
  PROVE  LifeOrigin(v)
<1>0. life \in [Vacancies -> LifeRows] /\ task \in [Tasks -> TaskStates]
  BY DEF TypeInv, TypeOK
<1>1. CASE life'[v] = life[v]
  BY <1>1 DEF LifeOrigin
<1>2. ASSUME NEW p \in Tasks, FinalizeCommit(p), life'[v] # life[v] PROVE LifeOrigin(v)
  <2>1. /\ task[p].vac = v /\ task[p].at = "finalizing"
        /\ ~InsertConflict(life[v], task[p].life)
        /\ life'[v] = FlushLife(life[v], task[p].life,
                               FinalizedRow(task[p].life, task[p].answer = "created"))
    BY <1>0, <1>2 DEF FinalizeCommit
  <2>2. AfterFinalize(p).at \in {"idle", "repair"} /\ Idle.at = "idle"
    BY DEF AfterFinalize, Idle
  <2>3. /\ task'[p].at \in {"idle", "repair"}
        /\ \A q \in Tasks \ {p} : task'[q] = task[q]
    BY <1>0, <1>2, <2>2 DEF FinalizeCommit, Become
  <2> QED BY <2>1, <2>3 DEF LifeOrigin
<1>3. ASSUME NEW p \in Tasks, TransitionCommit(p), life'[v] # life[v] PROVE LifeOrigin(v)
  <2>1. /\ task[p].vac = v /\ task[p].at = "transition"
        /\ ~InsertConflict(life[v], task[p].life)
        /\ life'[v] = FlushLife(life[v], task[p].life,
                               TransitionRow(task[p].life, task[p].target))
    BY <1>0, <1>3 DEF TransitionCommit
  <2>2. /\ task'[p].at \in {"idle", "repair"}
        /\ \A q \in Tasks \ {p} : task'[q] = task[q]
    BY <1>0, <1>3 DEF TransitionCommit, Become, Idle
  <2> QED BY <2>1, <2>2 DEF LifeOrigin
<1>4. ASSUME NEW p \in Tasks, Continue(p) PROVE LifeOrigin(v)
  BY <1>1, <1>2, <1>3, <1>4
     DEF Continue, PrepareFail, PrepareDraft, SaveDraft, IssueToken, Consume, Acquire, Post,
         Preflight, ConnectFails, Throttled, ReplyAccepted, ReplyRefused, ReplyServerError,
         ReplyLost, MarkLoad, MarkCommit, FinalizeLoad
<1>5. ASSUME NEW p \in Tasks, Request(p) PROVE LifeOrigin(v)
  BY <1>1, <1>5 DEF Request, PrepareStart, EditLetter, ConfirmStart, SubmitStart, TransitionLoad
<1>6. CASE Reconcile
  BY <1>1, <1>6 DEF Reconcile, ReconcileStart, RepairNext, QuarantineLoad, QuarantineCommit
<1>7. CASE Environment
  BY <1>1, <1>7 DEF Environment, Age, ApplyOnSite, Expire, Crash
<1> QED BY <1>1, <1>4, <1>5, <1>6, <1>7 DEF Next, vars

\* What the two commits do to the source of an application.
LEMMA FinalizedSource ==
  ASSUME NEW c \in LifeRows, NEW l \in LifeRows, NEW b \in BOOLEAN,
         l.source # "null" => c.source # "null"
  PROVE  FlushLife(c, l, FinalizedRow(l, b)).source # "null"
<1>1. FinalizedRow(l, b).source # "null"
  BY DEF FinalizedRow, SourceOf, AppliedStatus
<1> QED BY <1>1 DEF FlushLife

LEMMA TransitionedSource ==
  ASSUME NEW c \in LifeRows, NEW l \in LifeRows, NEW target \in VacancyStatuses,
         l.source # "null" => c.source # "null",
         ~InsertConflict(c, l), c.source # "null", ~c.exists => c = NoLifeRow
  PROVE  FlushLife(c, l, TransitionRow(l, target)).source # "null"
<1>1. l.exists
  BY DEF InsertConflict, NoLifeRow, LifeRows
<1>2. TransitionRow(l, target).source \in {l.source, "manual", "bot"}
  BY DEF TransitionRow, SourceOf
<1> QED BY <1>1, <1>2 DEF FlushLife

\* What a task that is about to change the lifecycle has read of it: a source
\* it saw is still there.
SourceOfTask(s, table) ==
  /\ s.at \in {"finalizing", "transition"} =>
       /\ s.vac \in Vacancies
       /\ ~s.life.exists => s.life = NoLifeRow
       /\ s.life.source # "null" => table[s.vac].source # "null"
  /\ s.at = "finalizing" => s.vac = VacancyOf[s.app]

SourceInv ==
  /\ \A v \in Vacancies : ~life[v].exists => life[v] = NoLifeRow
  /\ \A p \in Tasks : SourceOfTask(task[p], life)

LEMMA SourceStays ==
  ASSUME TypeInv, SourceInv, [Next]_vars, NEW v \in Vacancies, life[v].source # "null"
  PROVE  life'[v].source # "null"
<1>0. /\ life[v] \in LifeRows
      /\ \A p \in Tasks : task[p].life \in LifeRows /\ task[p].target \in VacancyStatuses
  BY DEF TypeInv, TypeOK, TaskStates
<1>1. LifeOrigin(v)
  BY NextLife
<1>2. ASSUME NEW p \in Tasks, task[p].vac = v, task[p].at = "finalizing"
      PROVE  FlushLife(life[v], task[p].life,
                       FinalizedRow(task[p].life, task[p].answer = "created")).source # "null"
  BY <1>0, FinalizedSource
<1>3. ASSUME NEW p \in Tasks, task[p].vac = v, task[p].at = "transition",
             ~InsertConflict(life[v], task[p].life)
      PROVE  FlushLife(life[v], task[p].life,
                       TransitionRow(task[p].life, task[p].target)).source # "null"
  BY <1>0, <1>3, TransitionedSource DEF SourceInv, SourceOfTask
<1> QED BY <1>1, <1>2, <1>3 DEF LifeOrigin

LEMMA NextSource == TypeInv /\ SourceInv /\ [Next]_vars => SourceInv'
<1> SUFFICES ASSUME TypeInv, SourceInv, [Next]_vars PROVE SourceInv'
  OBVIOUS
<1>1. ASSUME NEW v \in Vacancies, ~life'[v].exists PROVE life'[v] = NoLifeRow
  <2>1. LifeOrigin(v)
    BY NextLife
  <2>2. \A c, l, n : FlushLife(c, l, n).exists = TRUE
    BY DEF FlushLife
  <2> QED BY <1>1, <2>1, <2>2 DEF LifeOrigin, SourceInv
<1>2. ASSUME NEW p \in Tasks PROVE SourceOfTask(task'[p], life')
  <2>1. MovesTo(p, task'[p]) /\ SourceOfTask(task[p], life)
    BY NextMoves DEF Moves, SourceInv
  <2>2. \A v \in Vacancies : life[v].source # "null" => life'[v].source # "null"
    BY SourceStays
  <2> QED BY <2>1, <2>2 DEF MovesTo, SourceOfTask, EarlySteps, SourceInv
<1> QED BY <1>1, <1>2 DEF SourceInv

LEMMA InitSource == Init => SourceInv
BY DEF Init, SourceInv, SourceOfTask, Idle, TransitionRow

LEMMA SpecSource == Spec => []SourceInv
BY InitSource, NextSource, SpecTypeInv, PTL DEF Spec

\* application_source is never lost again, whichever stale row a task writes
\* over it and whatever the database locks.
THEOREM SourceKept == Spec => SourceIsKept
<1>1. TypeInv /\ SourceInv /\ [Next]_vars
        => [\A v \in Vacancies :
              life[v].source # "null" => life'[v].source # "null"]_vars
  BY SourceStays
<1> QED BY <1>1, SpecTypeInv, SpecSource, PTL DEF Spec, SourceIsKept

\* A row becomes submitted only together with the application source of its
\* vacancy (finalize_submitted).
THEOREM SubmittedTogether == Spec => SubmittedWithLifecycle
<1>1. ASSUME TypeInv, AcceptInv, SourceInv, [Next]_vars, NEW a \in Applications,
             row[a].api # "submitted", row'[a].api = "submitted"
      PROVE  life'[VacancyOf[a]].source # "null"
  <2>1. PICK p \in Tasks :
          /\ task[p].app = a
          /\ \/ task[p].at = "marking" /\ task[p].outcome.api = "submitted"
             \/ FinalizeCommit(p) /\ ~InsertConflict(life[task[p].vac], task[p].life)
    BY <1>1, NextRows DEF RowOrigin
  <2>2. FinalizeCommit(p) /\ ~InsertConflict(life[task[p].vac], task[p].life)
    BY <1>1, <2>1 DEF AcceptInv, Vouched
  <2>3. PICK v \in Vacancies : v = VacancyOf[a] /\ v = task[p].vac
    BY <1>1, <2>1, <2>2 DEF FinalizeCommit, SourceInv, SourceOfTask
  <2>4. task[p].life.source # "null" => life[v].source # "null"
    BY <1>1, <2>2, <2>3 DEF FinalizeCommit, SourceInv, SourceOfTask
  <2>5. life'[v] = FlushLife(life[v], task[p].life,
                             FinalizedRow(task[p].life, task[p].answer = "created"))
    BY <1>1, <2>2, <2>3 DEF FinalizeCommit, TypeInv, TypeOK
  <2>6. life[v] \in LifeRows /\ task[p].life \in LifeRows
    BY <1>1 DEF TypeInv, TypeOK, TaskStates
  <2>7. FlushLife(life[v], task[p].life,
                  FinalizedRow(task[p].life, task[p].answer = "created")).source # "null"
    BY <2>4, <2>6, FinalizedSource
  <2> QED BY <2>3, <2>5, <2>7
<1>2. TypeInv /\ AcceptInv /\ SourceInv /\ [Next]_vars
        => [\A a \in Applications :
              row[a].api # "submitted" /\ row'[a].api = "submitted" =>
                life'[VacancyOf[a]].source # "null"]_vars
  BY <1>1
<1> QED BY <1>2, SpecTypeInv, SpecAccept, SpecSource, PTL DEF Spec, SubmittedWithLifecycle

-----------------------------------------------------------------------------
(* Row locks: what a task read of the lifecycle is still there *)

\* A task that holds the row of a vacancy from its SELECT to its commit.
HoldsLife(p) == task[p].at \in {"finalizing", "transition"} /\ task[p].life.exists

HeldInv ==
  /\ \A p \in Tasks : HoldsLife(p) => life[task[p].vac] = task[p].life
  /\ \A p, q \in Tasks :
       HoldsLife(p) /\ HoldsLife(q) /\ task[p].vac = task[q].vac => p = q
  /\ \A p \in Tasks :
       task[p].at = "transition" => ValidTransition(task[p].life.status, task[p].target)

LEMMA NextHeldRow ==
  ASSUME RowLocks, TypeInv, SourceInv, HeldInv, [Next]_vars
  PROVE  HeldInv'
<1>0. Moves
  BY NextMoves
<1>1. ASSUME NEW p \in Tasks, HoldsLife(p)' PROVE life'[task'[p].vac] = task'[p].life
  <2>1. /\ MovesTo(p, task'[p])
        /\ task'[p].at \in {"finalizing", "transition"} /\ task'[p].life.exists
    BY <1>0, <1>1 DEF Moves, HoldsLife
  <2>2. task'[p].vac \in Vacancies /\ life[task'[p].vac] = task'[p].life
    BY <2>1 DEF MovesTo, EarlySteps, HeldInv, HoldsLife, SourceInv, SourceOfTask
  <2>3. PICK v \in Vacancies : v = task'[p].vac
    BY <2>2
  <2>4. ASSUME NEW r \in Tasks, task[r].vac = v, ~InsertConflict(life[v], task[r].life),
               task[r].at \in {"finalizing", "transition"},
               task'[r].at \in {"idle", "repair"},
               \A q \in Tasks \ {r} : task'[q] = task[q]
        PROVE  FALSE
    <3>1. r # p /\ task'[p] = task[p]
      BY <2>1, <2>4
    <3>2. HoldsLife(p) /\ task[p].vac = v /\ life[v].exists
      BY <2>1, <2>2, <2>3, <3>1 DEF HoldsLife
    <3>3. HoldsLife(r)
      BY <2>4, <3>2 DEF HoldsLife, InsertConflict
    <3> QED BY <2>4, <3>1, <3>2, <3>3 DEF HeldInv
  <2>5. LifeOrigin(v)
    BY NextLife
  <2>6. life'[v] = life[v]
    BY <2>4, <2>5 DEF LifeOrigin
  <2> QED BY <2>2, <2>3, <2>6
<1>2. ASSUME NEW p \in Tasks, NEW q \in Tasks, p # q, HoldsLife(p)', HoldsLife(q)',
             task'[p].vac = task'[q].vac, task'[q] = task[q]
      PROVE  FALSE
  <2>1. HoldsLife(q) /\ task[q].vac = task'[p].vac
    BY <1>2 DEF HoldsLife
  <2>2. CASE task'[p] = task[p]
    BY <1>2, <2>1, <2>2 DEF HoldsLife, HeldInv
  <2>3. CASE task'[p] # task[p]
    <3>1. LifeUnlocked(p, task'[p].vac)
      BY <1>0, <1>2, <2>3 DEF Moves, MovesTo, HoldsLife, EarlySteps
    <3> QED BY <1>2, <2>1, <3>1 DEF LifeUnlocked, HoldsLife
  <2> QED BY <2>2, <2>3
<1>3. ASSUME NEW p \in Tasks, NEW q \in Tasks, HoldsLife(p)', HoldsLife(q)',
             task'[p].vac = task'[q].vac
      PROVE  p = q
  <2>1. task'[p] # Idle /\ task'[q] # Idle
    BY <1>3 DEF HoldsLife, Idle
  <2>2. p # q => task'[p] = task[p] \/ task'[q] = task[q]
    BY <1>0, <2>1 DEF Moves
  <2> QED BY <1>2, <1>3, <2>2
<1>4. ASSUME NEW p \in Tasks, task'[p].at = "transition"
      PROVE  ValidTransition(task'[p].life.status, task'[p].target)
  BY <1>0, <1>4 DEF Moves, MovesTo, EarlySteps, HeldInv
<1> QED BY <1>1, <1>3, <1>4 DEF HeldInv, HoldsLife

LEMMA InitHeld == Init => HeldInv
BY DEF Init, HeldInv, HoldsLife, Idle

LEMMA SpecHeld ==
  ASSUME RowLocks
  PROVE  Spec => []HeldInv
<1>1. TypeInv /\ SourceInv /\ HeldInv /\ [Next]_vars => HeldInv'
  BY NextHeldRow
<1> QED BY <1>1, InitHeld, SpecTypeInv, SpecSource, PTL DEF Spec

\* No transition leads from an application to hidden, and the result of a
\* submission leaves a registered application where it is.
LEMMA RegisteredStaysVisible ==
  ASSUME NEW l \in LifeRows, HasRegisteredApplication(l.status)
  PROVE  /\ \A b \in BOOLEAN : FinalizedRow(l, b).status = l.status
         /\ \A target \in VacancyStatuses :
              ValidTransition(l.status, target) => target # "hidden"
<1>1. \A b \in BOOLEAN : FinalizedRow(l, b).status = l.status
  BY DEF FinalizedRow, PreservesAdvancedStatus
<1>2. "hidden" \notin Transitions[l.status] /\ l.status # "hidden"
  BY DEF HasRegisteredApplication, ApplicationRecorded, Transitions, AfterApplication,
     AfterInterview
<1> QED BY <1>1, <1>2 DEF ValidTransition

\* PostgreSQL: a registered application is never hidden, however a user's
\* transition and the result of a submission interleave.
THEOREM ApplicationVisible ==
  ASSUME RowLocks
  PROVE  Spec => ApplicationIsNotHidden
<1>1. ASSUME TypeInv, SourceInv, HeldInv, [Next]_vars, NEW v \in Vacancies,
             HasRegisteredApplication(life[v].status)
      PROVE  life'[v].status # "hidden"
  <2>1. life[v] \in LifeRows /\ life[v].status # "hidden"
    BY <1>1 DEF TypeInv, TypeOK, HasRegisteredApplication, ApplicationRecorded
  <2>2. life[v].exists
    BY <1>1, <2>1
       DEF SourceInv, NoLifeRow, HasRegisteredApplication, ApplicationRecorded, LifeRows
  <2>3. ASSUME NEW p \in Tasks, task[p].vac = v, ~InsertConflict(life[v], task[p].life),
               task[p].at \in {"finalizing", "transition"}
        PROVE  life[v] = task[p].life
    BY <1>1, <2>2, <2>3 DEF InsertConflict, HeldInv, HoldsLife
  <2>4. \A n : FlushLife(life[v], life[v], n).status \in {life[v].status, n.status}
    BY DEF FlushLife
  <2>5. ASSUME NEW p \in Tasks, life[v] = task[p].life
        PROVE  FinalizedRow(task[p].life, task[p].answer = "created").status # "hidden"
    BY <1>1, <2>1, <2>5, RegisteredStaysVisible
  <2>6. ASSUME NEW p \in Tasks, life[v] = task[p].life, task[p].at = "transition"
        PROVE  TransitionRow(task[p].life, task[p].target).status # "hidden"
    <3>1. task[p].target \in VacancyStatuses /\ ValidTransition(life[v].status, task[p].target)
      BY <1>1, <2>6 DEF TypeInv, TypeOK, TaskStates, HeldInv
    <3> QED BY <1>1, <2>1, <3>1, RegisteredStaysVisible DEF TransitionRow
  <2>7. LifeOrigin(v)
    BY <1>1, NextLife
  <2> QED BY <2>1, <2>3, <2>4, <2>5, <2>6, <2>7 DEF LifeOrigin
<1>2. TypeInv /\ SourceInv /\ HeldInv /\ [Next]_vars
        => [\A v \in Vacancies :
              HasRegisteredApplication(life[v].status) => life'[v].status # "hidden"]_vars
  BY <1>1
<1> QED BY <1>2, SpecTypeInv, SpecSource, SpecHeld, PTL DEF Spec, ApplicationIsNotHidden

-----------------------------------------------------------------------------
(* A failed connection is reported only if a confirmed attempt was not sent *)

\* The token was used up, nothing was posted under it, and nobody will.
Unsent(t) ==
  /\ token[t].state = "used"
  /\ posts[t] = 0
  /\ \A q \in Tasks : task[q].tok = t => task[q].at \notin {"leased", "post"}

ConnectInv ==
  /\ \A a \in Applications :
       row[a].err = "connection" => \E t \in Tokens : Unsent(t) /\ token[t].app = a
  /\ \A p \in Tasks :
       task[p].at \in {"mark", "marking"} /\ task[p].outcome.err = "connection" =>
         Unsent(task[p].tok)

\* A used token stays as it is, and only the task that posts counts a POST.
SpentOrigin(t) ==
  /\ token[t].state = "used" => token'[t] = token[t]
  /\ \/ posts'[t] = posts[t]
     \/ \E p \in Tasks : task[p].at = "post" /\ task[p].tok = t /\ task'[p].at = "reply"

LEMMA NextSpent ==
  ASSUME TypeInv, LeaseInv, [Next]_vars, NEW t \in Tokens
  PROVE  SpentOrigin(t)
<1>0. /\ token \in [Tokens -> TokenRows] /\ posts \in [Tokens -> Nat]
      /\ task \in [Tasks -> TaskStates]
  BY DEF TypeInv, TypeOK
<1>1. CASE token'[t] = token[t] /\ posts'[t] = posts[t]
  BY <1>1 DEF SpentOrigin
<1>2. ASSUME NEW u, MarkUsed(u), token[t].state = "used" PROVE token'[t] = token[t]
  <2>1. token[t] \in TokenRows
    BY <1>0
  <2>2. [token[t] EXCEPT !.state = "used"] = token[t]
    BY <1>2, <2>1 DEF TokenRows
  <2> QED BY <1>0, <1>2, <2>2 DEF MarkUsed
<1>3. ASSUME NEW p \in Tasks, IssueToken(p) PROVE SpentOrigin(t)
  <2>1. task[p].tok \in Tokens /\ token[task[p].tok].state = "unissued"
    BY <1>3 DEF IssueToken, LeaseInv, TokenOfTask, Token, Unissued, Owns, OwningSteps, JobSteps
  <2> QED BY <1>0, <1>3, <2>1 DEF IssueToken, SpentOrigin
<1>4. ASSUME NEW p \in Tasks, Consume(p) \/ Acquire(p) PROVE SpentOrigin(t)
  BY <1>1, <1>2, <1>4 DEF Consume, Acquire, SpentOrigin
<1>5. ASSUME NEW p \in Tasks, Post(p) PROVE SpentOrigin(t)
  <2>1. PICK answer : Become(p, [task[p] EXCEPT !.at = "reply", !.answer = answer])
    BY <1>5 DEF Post
  <2>2. task'[p].at = "reply"
    BY <1>0, <2>1 DEF Become, TaskStates
  <2>3. posts'[t] = posts[t] \/ task[p].tok = t
    BY <1>0, <1>5 DEF Post
  <2> QED BY <1>5, <2>2, <2>3 DEF Post, SpentOrigin
<1>6. ASSUME NEW u \in Tokens, Expire(u) PROVE SpentOrigin(t)
  BY <1>0, <1>6 DEF Expire, SpentOrigin
<1>7. ASSUME NEW p \in Tasks, Continue(p) PROVE SpentOrigin(t)
  BY <1>1, <1>3, <1>4, <1>5, <1>7
     DEF Continue, PrepareFail, PrepareDraft, SaveDraft, Preflight, ConnectFails, Throttled,
         ReplyAccepted, ReplyRefused, ReplyServerError, ReplyLost, MarkLoad, MarkCommit,
         FinalizeLoad, FinalizeCommit, TransitionCommit
<1>8. ASSUME NEW p \in Tasks, Request(p) PROVE SpentOrigin(t)
  BY <1>1, <1>8 DEF Request, PrepareStart, EditLetter, ConfirmStart, SubmitStart, TransitionLoad
<1>9. CASE Reconcile
  BY <1>1, <1>9 DEF Reconcile, ReconcileStart, RepairNext, QuarantineLoad, QuarantineCommit
<1>10. CASE Environment
  BY <1>1, <1>6, <1>10 DEF Environment, Age, ApplyOnSite, Crash
<1> QED BY <1>1, <1>7, <1>8, <1>9, <1>10 DEF Next, vars

\* Nobody starts to post under a used token, except the task that holds it.
LEMMA NoNewSender ==
  ASSUME TypeInv, LeaseInv, [Next]_vars, NEW t \in Tokens, token[t].state = "used",
         NEW q \in Tasks, task'[q].tok = t, task'[q].at \in {"leased", "post"}
  PROVE  task[q].tok = t /\ task[q].at \in {"leased", "post"}
<1>1. MovesTo(q, task'[q]) /\ TokenOfTask(q)
  BY NextMoves DEF Moves, LeaseInv
<1>2. task[q].tok = t => task[q].at # "acquire"
  BY <1>1 DEF TokenOfTask, Consumable
<1> QED BY <1>1, <1>2 DEF MovesTo, EarlySteps

LEMMA UnsentStays ==
  ASSUME TypeInv, LeaseInv, [Next]_vars, NEW t \in Tokens, Unsent(t)
  PROVE  Unsent(t)' /\ token'[t].app = token[t].app
<1>1. SpentOrigin(t)
  BY NextSpent
<1> QED BY <1>1, NoNewSender DEF Unsent, SpentOrigin

\* A task whose connection failed gives its token up unsent.
LEMMA GivenUp ==
  ASSUME TypeInv, LeaseInv, [Next]_vars, NEW p \in Tasks,
         task[p].at = "post", task'[p].at = "mark"
  PROVE  task[p].tok \in Tokens /\ \A t \in Tokens : t = task[p].tok => Unsent(t)'
<1>0. task[p].tok \in Tokens /\ Token(p).state = "used" /\ posts[task[p].tok] = 0
  BY DEF LeaseInv, TokenOfTask, Owns, OwningSteps, HoldsLease, LeaseSteps, JobSteps
<1> SUFFICES ASSUME NEW t \in Tokens, t = task[p].tok PROVE Unsent(t)'
  BY <1>0
<1>1. token[t].state = "used" /\ posts[t] = 0
  BY <1>0 DEF Token
<1>2. \A q \in Tasks : task[q].tok = t /\ task[q].at \in {"leased", "post"} => q = p
  BY <1>1 DEF LeaseInv, OwnersAreExclusive, Owns, OwningSteps, LeaseSteps, JobSteps
<1>3. SpentOrigin(t)
  BY NextSpent
<1>4. token'[t].state = "used" /\ posts'[t] = 0
  BY <1>1, <1>2, <1>3 DEF SpentOrigin
<1>5. \A q \in Tasks : task'[q].tok = t => task'[q].at \notin {"leased", "post"}
  BY <1>1, <1>2, NoNewSender
<1> QED BY <1>4, <1>5 DEF Unsent

LEMMA NextConnect == TypeInv /\ LeaseInv /\ ConnectInv /\ [Next]_vars => ConnectInv'
<1> SUFFICES ASSUME TypeInv, LeaseInv, ConnectInv, [Next]_vars PROVE ConnectInv'
  OBVIOUS
<1>1. ASSUME NEW a \in Applications, row'[a].err = "connection"
      PROVE  \E t \in Tokens : Unsent(t)' /\ token'[t].app = a
  <2>1. \E t \in Tokens : Unsent(t) /\ token[t].app = a
    <3>1. CASE row[a].err = "connection"
      BY <3>1 DEF ConnectInv
    <3>2. CASE row[a].err # "connection"
      <4>1. PICK p \in Tasks :
              task[p].app = a /\ task[p].at = "marking" /\ task[p].outcome.err = "connection"
        BY <1>1, <3>2, NextRows DEF RowOrigin
      <4>2. task[p].tok \in Tokens /\ token[task[p].tok].app = a
        BY <4>1 DEF LeaseInv, TokenOfTask, Token, Owns, OwningSteps, HoldsLease, LeaseSteps,
           JobSteps
      <4> QED BY <4>1, <4>2 DEF ConnectInv
    <3> QED BY <3>1, <3>2
  <2> QED BY <2>1, UnsentStays
<1>2. ASSUME NEW p \in Tasks, task'[p].at \in {"mark", "marking"},
             task'[p].outcome.err = "connection"
      PROVE  Unsent(task[p].tok)'
  <2>1. MovesTo(p, task'[p])
    BY NextMoves DEF Moves
  <2>2. task'[p].tok = task[p].tok
    BY <1>2, <2>1 DEF MovesTo, EarlySteps
  <2>3. task[p].tok \in Tokens /\ \A t \in Tokens : t = task[p].tok => Unsent(t)'
    <3>1. CASE task[p].at = "post"
      BY <1>2, <2>1, <3>1, GivenUp DEF MovesTo, EarlySteps
    <3>2. CASE task[p].at # "post"
      <4>1. task[p].at \in {"mark", "marking"} /\ task[p].outcome.err = "connection"
        BY <1>2, <2>1, <3>2 DEF MovesTo, EarlySteps
      <4>2. task[p].tok \in Tokens /\ Unsent(task[p].tok)
        BY <4>1 DEF ConnectInv, LeaseInv, TokenOfTask, Owns, OwningSteps, LeaseSteps, JobSteps
      <4> QED BY <4>2, UnsentStays
    <3> QED BY <3>1, <3>2
  <2>4. PICK t \in Tokens : t = task[p].tok /\ Unsent(t)'
    BY <2>3
  <2> QED BY <2>2, <2>4 DEF Unsent
<1> QED BY <1>1, <1>2 DEF ConnectInv

LEMMA InitConnect == Init => ConnectInv
BY DEF Init, ConnectInv, Idle, AbsentRow, LegacyRow

LEMMA SpecConnect == Spec => []ConnectInv
BY InitConnect, NextConnect, SpecTypeInv, SpecLease, PTL DEF Spec

\* hh_connection_failed, the error after which the user is offered a retry, is
\* stored only if a confirmed attempt never reached HeadHunter: also when
\* another confirmation of the same application was sent meanwhile.
THEOREM ConnectionTruth == Spec => []ConnectionFailureIsTrue
<1>1. ConnectInv => ConnectionFailureIsTrue
  BY DEF ConnectInv, ConnectionFailureIsTrue, Unsent
<1> QED BY <1>1, SpecConnect, PTL
=============================================================================
