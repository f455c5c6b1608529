---------------------------- MODULE LifecycleProofs ----------------------------
(***************************************************************************)
(* Proofs about VacancyLifecycle, for any handlers and any number of       *)
(* changes: the row and the trail agree, a displayed card overrides        *)
(* nothing, and with row locks every change is one step of                 *)
(* LifecycleContract.                                                      *)
(*                                                                         *)
(* The invariant says what is true of a handler that has loaded the row:   *)
(* its change was allowed from what it loaded, and with row locks the row  *)
(* it loaded, if there was one, is still the row in the table.             *)
(***************************************************************************)
EXTENDS VacancyLifecycle, SequenceTheorems, TLAPS

Entry == [from : VacancyStatuses, to : VacancyStatuses,
          source : StatusSources, at : Nat]
Changes == [intent : Intents, target : VacancyStatuses \ {"new"}]
Tasks == [at : Steps, change : Changes, now : Nat, life : LifeRows, appliedAt : Nat]

TypeInv ==
  /\ rowLocks \in BOOLEAN
  /\ life \in LifeRows
  /\ appliedAt \in Nat
  /\ history \in Seq(Entry)
  /\ task \in [Handlers -> Tasks]
  /\ clock \in Nat

\* A row is "new" exactly while it is missing.
Grounded(r) == IF r.exists THEN r.status # "new" ELSE r = NoLifeRow

\* What a handler that has loaded the row may count on.
Allowed(t) ==
  /\ t.change.intent = "view" => t.life.status = "new"
  /\ t.change.intent \notin Finalizing => t.change.target \in Transitions[t.life.status]

Held(t) == t.life.exists => t.life = life /\ t.appliedAt = appliedAt

IInv ==
  /\ TypeInv
  /\ Grounded(life)
  /\ ~life.exists => appliedAt = 0
  /\ StatusIsRecorded
  /\ \A p \in Handlers : task[p].at = "loaded" =>
       /\ Grounded(task[p].life)
       /\ Allowed(task[p])
       /\ task[p].life.exists => life.exists
       /\ rowLocks => Held(task[p])

-----------------------------------------------------------------------------
(* The rows that the repositories compute *)

LEMMA ARowIsBuilt ==
  ASSUME NEW s \in VacancyStatuses, NEW o \in ApplicationSources
  PROVE  [exists |-> TRUE, status |-> s, source |-> o] \in LifeRows
  BY DEF LifeRows

LEMMA NewRowIsGrounded ==
  ASSUME NEW t \in Tasks
  PROVE  /\ NewRow(t) \in LifeRows
         /\ NewRow(t).exists
         /\ Grounded(t.life) => NewRow(t).status # "new"
<1>1. t.life \in LifeRows /\ t.change.target \in VacancyStatuses \ {"new"}
      /\ t.change.intent \in Intents
  BY DEF Tasks, Changes
<1> DEFINE b == t.change.intent = "accepted"
<1>2. CASE t.change.intent \in Finalizing
  <2>1. NewRow(t) = FinalizedRow(t.life, b)
    BY <1>2 DEF NewRow
  <2>2. AppliedStatus(b) \in {"applied_bot", "applied_manual"}
    BY DEF AppliedStatus
  <2>3. \A s \in DOMAIN SourceOf : SourceOf[s] \in ApplicationSources
    BY DEF SourceOf, ApplicationSources
  <2>4. FinalizedRow(t.life, b).status \in {t.life.status, "applied_bot", "applied_manual"}
    BY <2>2 DEF FinalizedRow
  <2>5. FinalizedRow(t.life, b).source \in ApplicationSources
    <3>1. t.life.source \in ApplicationSources
      BY <1>1 DEF LifeRows
    <3>2. \/ FinalizedRow(t.life, b).source = t.life.source
          \/ /\ t.life.status \in DOMAIN SourceOf
             /\ FinalizedRow(t.life, b).source = SourceOf[t.life.status]
          \/ FinalizedRow(t.life, b).source = SourceOf[AppliedStatus(b)]
      BY DEF FinalizedRow
    <3>3. AppliedStatus(b) \in DOMAIN SourceOf
      BY <2>2 DEF SourceOf
    <3> QED
      BY <2>3, <3>1, <3>2, <3>3
  <2>6. t.life.status = "new" => ~PreservesAdvancedStatus(t.life)
    BY DEF PreservesAdvancedStatus, HasRegisteredApplication, ApplicationRecorded
  <2>7. FinalizedRow(t.life, b).status # "new"
    BY <2>2, <2>6 DEF FinalizedRow
  <2>8. FinalizedRow(t.life, b) =
          [exists |-> TRUE, status |-> FinalizedRow(t.life, b).status,
           source |-> FinalizedRow(t.life, b).source]
    BY DEF FinalizedRow
  <2>9. {t.life.status, "applied_bot", "applied_manual"} \subseteq VacancyStatuses
    BY <1>1 DEF LifeRows, VacancyStatuses
  <2>10. FinalizedRow(t.life, b) \in LifeRows
    BY <2>4, <2>5, <2>8, <2>9, ARowIsBuilt
  <2>11. FinalizedRow(t.life, b).exists
    BY DEF FinalizedRow
  <2> QED
    BY <2>1, <2>7, <2>10, <2>11
<1>3. CASE t.change.intent \notin Finalizing
  <2>1. NewRow(t) = TransitionRow(t.life, t.change.target)
    BY <1>3 DEF NewRow
  <2>2. TransitionRow(t.life, t.change.target).source \in ApplicationSources
    BY <1>1 DEF TransitionRow, SourceOf, ApplicationSources, LifeRows
  <2>3. TransitionRow(t.life, t.change.target) =
          [exists |-> TRUE, status |-> t.change.target,
           source |-> TransitionRow(t.life, t.change.target).source]
    BY DEF TransitionRow
  <2>4. TransitionRow(t.life, t.change.target) \in LifeRows
    BY <1>1, <2>2, <2>3, ARowIsBuilt
  <2>5. /\ TransitionRow(t.life, t.change.target).exists
        /\ TransitionRow(t.life, t.change.target).status = t.change.target
    BY DEF TransitionRow
  <2> QED
    BY <1>1, <2>1, <2>4, <2>5
<1> QED
  BY <1>2, <1>3

\* What the session flushes over the row it loaded is the row it computed.
LEMMA FlushOverLoaded ==
  ASSUME NEW r \in LifeRows, NEW new \in LifeRows, new.exists
  PROVE  FlushLife(r, r, new) = new
<1>1. FlushLife(r, r, new) =
        [exists |-> TRUE, status |-> new.status, source |-> new.source]
  BY DEF FlushLife
<1>2. new = [exists |-> new.exists, status |-> new.status, source |-> new.source]
  BY DEF LifeRows
<1> QED
  BY <1>1, <1>2

LEMMA FlushIsRow ==
  ASSUME NEW r \in LifeRows, NEW loaded \in LifeRows, NEW new \in LifeRows
  PROVE  FlushLife(r, loaded, new) \in LifeRows
  BY DEF FlushLife, LifeRows

-----------------------------------------------------------------------------
(* The invariant *)

LEMMA IdleIsTask == Idle \in Tasks
<1>1. NoLifeRow \in LifeRows
  BY DEF NoLifeRow, LifeRows, VacancyStatuses, ApplicationSources
<1>2. NoChange \in Changes
  BY DEF NoChange, Changes, Intents, VacancyStatuses
<1> QED
  BY <1>1, <1>2 DEF Idle, Tasks, Steps

LEMMA InitIInv == Init => IInv
<1> SUFFICES ASSUME Init PROVE IInv
  OBVIOUS
<1>1. NoLifeRow \in LifeRows
  BY DEF NoLifeRow, LifeRows, VacancyStatuses, ApplicationSources
<1>2. TypeInv
  BY <1>1, IdleIsTask DEF Init, TypeInv
<1>3. Grounded(life) /\ (~life.exists => appliedAt = 0) /\ StatusIsRecorded
  BY DEF Init, Grounded, NoLifeRow, StatusIsRecorded
<1>4. \A p \in Handlers : task[p].at # "loaded"
  BY DEF Init, Idle
<1> QED
  BY <1>2, <1>3, <1>4 DEF IInv

LEMMA ChoicesAreChanges ==
  ASSUME NEW status \in VacancyStatuses, NEW exists \in BOOLEAN
  PROVE  Choices(status, exists) \subseteq Changes
<1> SUFFICES ASSUME NEW c \in Choices(status, exists) PROVE c \in Changes
  OBVIOUS
<1> DEFINE Fixed ==
      {[intent |-> "toggle", target |-> IF status = "saved" THEN "viewed" ELSE "saved"],
       [intent |-> "hide", target |-> "hidden"],
       [intent |-> "undo", target |-> "viewed"],
       [intent |-> "accepted", target |-> "applied_bot"],
       [intent |-> "imported", target |-> "applied_manual"]}
<1>1. c \in Fixed \/ c = [intent |-> "view", target |-> "viewed"]
      \/ c = [intent |-> "manual", target |-> "applied_manual"]
      \/ c \in [intent : {"button"}, target : VacancyStatuses \ {"new"}]
  BY DEF Choices
<1>2. Fixed \subseteq Changes
  BY DEF Changes, Intents, VacancyStatuses
<1>3. [intent |-> "view", target |-> "viewed"] \in Changes
      /\ [intent |-> "manual", target |-> "applied_manual"] \in Changes
  BY DEF Changes, Intents, VacancyStatuses
<1>4. [intent : {"button"}, target : VacancyStatuses \ {"new"}] \subseteq Changes
  BY DEF Changes, Intents
<1> QED
  BY <1>1, <1>2, <1>3, <1>4

\* A step that leaves the database alone and moves one handler into a state
\* with what the invariant asks of it.
LEMMA HandlerMoves ==
  ASSUME IInv, NEW p \in Handlers, NEW t \in Tasks, Become(p, t),
         UNCHANGED <<rowLocks, life, appliedAt, history>>, clock' \in Nat,
         t.at = "loaded" => /\ Grounded(t.life)
                            /\ Allowed(t)
                            /\ t.life.exists => life.exists
                            /\ rowLocks => Held(t)
  PROVE  IInv'
<1>1. TypeInv'
  BY DEF IInv, TypeInv, Become
<1>2. Grounded(life)' /\ (~life.exists => appliedAt = 0)' /\ StatusIsRecorded'
  BY DEF IInv, Grounded, StatusIsRecorded
<1>3. ASSUME NEW q \in Handlers, task'[q].at = "loaded"
      PROVE  /\ Grounded(task'[q].life)
             /\ Allowed(task'[q])
             /\ task'[q].life.exists => life'.exists
             /\ (rowLocks => Held(task[q]))'
  <2>1. CASE q = p
    <3>1. task'[q] = t
      BY <2>1 DEF Become, IInv, TypeInv
    <3> QED
      BY <1>3, <3>1 DEF Held
  <2>2. CASE q # p
    <3>1. task'[q] = task[q]
      BY <2>2 DEF Become, IInv, TypeInv
    <3> QED
      BY <1>3, <3>1 DEF Held, IInv
  <2> QED
    BY <2>1, <2>2
<1> QED
  BY <1>1, <1>2, <1>3 DEF IInv, Grounded, Allowed

-----------------------------------------------------------------------------
(* The commit of a handler *)

\* With row locks the row a handler commits over is the one it loaded.
LEMMA CommitsOverLoaded ==
  ASSUME IInv, NEW p \in Handlers, task[p].at = "loaded", rowLocks,
         ~InsertConflict(life, task[p].life)
  PROVE  task[p].life = life /\ (task[p].appliedAt = appliedAt \/ appliedAt = 0)
  BY DEF IInv, Held, Grounded, InsertConflict

LEMMA CommitKeepsIInv ==
  ASSUME IInv, NEW p \in Handlers, Commit(p)
  PROVE  IInv'
<1> DEFINE t == task[p]
           new == NewRow(t)
<1>1. t \in Tasks /\ t.at = "loaded" /\ t.life \in LifeRows /\ t.now \in Nat
      /\ t.change.intent \in Intents
  BY DEF IInv, TypeInv, Tasks, Changes, Commit
<1>2. Grounded(t.life) /\ Grounded(life) /\ life \in LifeRows
  BY <1>1 DEF IInv, TypeInv
<1>3. new \in LifeRows /\ new.exists /\ new.status # "new"
  BY <1>1, <1>2, NewRowIsGrounded
<1>4. Become(p, Idle) /\ UNCHANGED <<rowLocks, clock>> /\ Unlocked(p)
  BY DEF Commit
<1>5. CASE UNCHANGED <<life, appliedAt, history>>
  <2>1. Idle.at # "loaded" /\ clock' \in Nat
    BY <1>4 DEF Idle, IInv, TypeInv
  <2> QED
    BY <1>4, <1>5, <2>1, IdleIsTask, HandlerMoves
<1>6. CASE /\ ~InsertConflict(life, t.life)
           /\ life' = FlushLife(life, t.life, new)
           /\ appliedAt' = IF SetsAppliedAt(t) THEN t.now ELSE appliedAt
           /\ history' = IF new.status = t.life.status THEN history
                         ELSE Append(history,
                                     [from |-> t.life.status, to |-> new.status,
                                      source |-> SourceOfIntent[t.change.intent],
                                      at |-> t.now])
  <2> DEFINE entry == [from |-> t.life.status, to |-> new.status,
                       source |-> SourceOfIntent[t.change.intent], at |-> t.now]
  <2>1. life' \in LifeRows
    BY <1>1, <1>2, <1>3, <1>6, FlushIsRow
  <2>2. life'.exists
    BY <1>6 DEF FlushLife
  <2>3. SourceOfIntent[t.change.intent] \in StatusSources
    BY <1>1 DEF SourceOfIntent, StatusSources, Intents
  <2>4. entry \in Entry
    BY <1>1, <1>3, <2>3 DEF Entry, LifeRows
  <2>5. history' \in Seq(Entry)
    BY <1>6, <2>4 DEF IInv, TypeInv
  <2>6. TypeInv'
    BY <1>1, <1>4, <1>6, <2>1, <2>5, IdleIsTask DEF IInv, TypeInv, Become
  <2>7. life'.status = IF t.life.exists /\ new.status = t.life.status
                       THEN life.status ELSE new.status
    BY <1>6 DEF FlushLife
  <2>8. life'.status # "new"
    <3>1. t.life.exists => life.exists
      BY <1>1 DEF IInv
    <3> QED
      BY <1>2, <1>3, <2>7, <3>1 DEF Grounded
  <2>9. StatusIsRecorded'
    <3>1. CASE new.status = t.life.status
      <4>1. t.life.exists
        BY <1>2, <1>3, <3>1 DEF Grounded, NoLifeRow
      <4>2. life'.status = life.status /\ history' = history
        BY <1>6, <2>7, <3>1, <4>1
      <4> QED
        BY <4>2 DEF IInv, StatusIsRecorded
    <3>2. CASE new.status # t.life.status
      <4>1. history' = Append(history, entry) /\ life'.status = new.status
        BY <1>6, <2>7, <3>2
      <4>2. history' # <<>> /\ LastOf(history') = entry
        BY <2>4, <4>1 DEF LastOf, IInv, TypeInv
      <4> QED
        BY <4>1, <4>2 DEF StatusIsRecorded
    <3> QED
      BY <3>1, <3>2
  <2>10. ASSUME NEW q \in Handlers, task'[q].at = "loaded"
         PROVE  /\ Grounded(task'[q].life)
                /\ Allowed(task'[q])
                /\ (rowLocks => Held(task[q]))'
    <3>1. q # p /\ task'[q] = task[q]
      BY <1>4, <2>10 DEF Become, Idle, IInv, TypeInv
    <3>2. rowLocks => ~task[q].life.exists
      BY <1>4, <2>10, <3>1 DEF Unlocked
    <3> QED
      BY <1>4, <2>10, <3>1, <3>2 DEF IInv, Held
  <2> QED
    BY <2>2, <2>6, <2>8, <2>9, <2>10 DEF IInv, Grounded, Allowed
<1> QED
  BY <1>5, <1>6 DEF Commit

-----------------------------------------------------------------------------
(* The other steps *)

LEMMA LoadKeepsIInv ==
  ASSUME IInv, NEW p \in Handlers, Load(p)
  PROVE  IInv'
<1> DEFINE t == task[p]
           loaded == [t EXCEPT !.at = "loaded", !.life = life, !.appliedAt = appliedAt]
<1>1. t \in Tasks /\ life \in LifeRows /\ appliedAt \in Nat /\ clock \in Nat
  BY DEF IInv, TypeInv
<1>2. UNCHANGED <<rowLocks, life, appliedAt, history, clock>>
  BY DEF Load
<1>3. CASE Become(p, Idle)
  <2>1. Idle.at # "loaded"
    BY DEF Idle
  <2> QED
    BY <1>1, <1>2, <1>3, <2>1, IdleIsTask, HandlerMoves
<1>4. CASE /\ Become(p, loaded)
           /\ Permitted(t.change, life.status)
           /\ t.change.intent \notin Finalizing =>
                ~(life.exists /\ life.status = t.change.target)
  <2>1. /\ loaded \in Tasks
        /\ loaded.life = life
        /\ loaded.appliedAt = appliedAt
        /\ loaded.change = t.change
    BY <1>1 DEF Tasks, Steps
  <2>2. Grounded(life) /\ (~life.exists => life.status = "new")
    BY DEF IInv, Grounded, NoLifeRow
  <2>3. t.change.target # "new"
    BY <1>1 DEF Tasks, Changes
  <2>4. Allowed(loaded)
    BY <1>4, <2>1, <2>2, <2>3 DEF Allowed, Permitted, ValidTransition
  <2>5. Held(loaded)
    BY <2>1 DEF Held
  <2> QED
    BY <1>1, <1>2, <1>4, <2>1, <2>2, <2>4, <2>5, HandlerMoves
<1> QED
  BY <1>3, <1>4 DEF Load

LEMMA NextIInv == IInv /\ [Next]_vars => IInv'
<1> SUFFICES ASSUME IInv, [Next]_vars PROVE IInv'
  OBVIOUS
<1>1. TypeInv
  BY DEF IInv
<1>2. ASSUME NEW p \in Handlers, Decide(p) PROVE IInv'
  <2>1. PICK change \in Choices(life.status, life.exists) :
           Become(p, [Idle EXCEPT !.at = "decided", !.change = change])
    BY <1>2 DEF Decide
  <2>2. life.status \in VacancyStatuses /\ life.exists \in BOOLEAN
    BY <1>1 DEF TypeInv, LifeRows
  <2>3. change \in Changes
    BY <2>1, <2>2, ChoicesAreChanges
  <2> DEFINE t == [Idle EXCEPT !.at = "decided", !.change = change]
  <2>4. t \in Tasks /\ t.at # "loaded"
    BY <2>3, IdleIsTask DEF Tasks, Steps, Idle
  <2> QED
    BY <1>1, <1>2, <2>1, <2>4, HandlerMoves DEF Decide, TypeInv
<1>3. ASSUME NEW p \in Handlers, Begin(p) PROVE IInv'
  <2> DEFINE t == [task[p] EXCEPT !.at = "begun", !.now = clock']
  <2>1. clock' \in Nat
    BY <1>1, <1>3 DEF Begin, TypeInv
  <2>2. t \in Tasks /\ t.at # "loaded"
    BY <1>1, <2>1 DEF Tasks, Steps, TypeInv
  <2> QED
    BY <1>3, <2>1, <2>2, HandlerMoves DEF Begin
<1>4. ASSUME NEW p \in Handlers, Abort(p) PROVE IInv'
  BY <1>1, <1>4, IdleIsTask, HandlerMoves DEF Abort, TypeInv, Idle
<1>5. CASE UNCHANGED vars
  BY <1>5 DEF vars, IInv, TypeInv, Grounded, StatusIsRecorded, Allowed, Held
<1> QED
  BY <1>2, <1>3, <1>4, <1>5, LoadKeepsIInv, CommitKeepsIInv DEF Next

LEMMA Invariant == Spec => []IInv
  BY InitIInv, NextIInv, PTL DEF Spec

\* Whatever the handlers race for, and on either database, the status is the
\* one that the last committed history entry names.
THEOREM StatusAgreesWithTrail == Spec => []StatusIsRecorded
<1>1. IInv => StatusIsRecorded
  BY DEF IInv
<1> QED
  BY <1>1, Invariant, PTL

-----------------------------------------------------------------------------
(* What a step may not do *)

\* Displaying a card never overrides a decision taken while it was on its way.
THEOREM ViewsAreHarmless == Spec => ViewNeverOverrides
<1> DEFINE Harmless(p) ==
      /\ task[p].at = "loaded" /\ task'[p].at = "idle"
      /\ task[p].change.intent = "view"
      => life' = life \/ life.status = "new"
<1>1. ASSUME IInv, [Next]_vars, NEW p \in Handlers PROVE Harmless(p)
  <2>1. ASSUME NEW q \in Handlers, Commit(q) PROVE Harmless(p)
    <3>1. CASE q # p
      <4>1. task'[p] = task[p]
        BY <1>1, <2>1, <3>1 DEF Commit, Become, IInv, TypeInv
      <4> QED
        BY <4>1
    <3>2. CASE q = p /\ task[p].change.intent = "view"
      <4>1. task[p].life = NoLifeRow
        BY <1>1, <2>1, <3>2 DEF Commit, IInv, Grounded, Allowed
      <4>2. life' = life \/ ~life.exists
        BY <2>1, <3>2, <4>1 DEF Commit, InsertConflict, NoLifeRow
      <4>3. ~life.exists => life.status = "new"
        BY <1>1 DEF IInv, Grounded, NoLifeRow
      <4> QED
        BY <4>2, <4>3
    <3> QED
      BY <3>1, <3>2
  <2>2. (\A q \in Handlers : ~Commit(q)) => life' = life
    BY <1>1 DEF Next, Decide, Begin, Load, Abort, vars
  <2> QED
    BY <2>1, <2>2
<1>2. IInv /\ [Next]_vars => [\A p \in Handlers : Harmless(p)]_vars
  BY <1>1
<1> QED
  BY <1>2, Invariant, PTL DEF Spec, ViewNeverOverrides

\* With row locks the time of the application does not move once it is set.
THEOREM AppliedAtStays == Spec => AppliedAtIsKept
<1>1. ASSUME IInv, [Next]_vars, rowLocks, appliedAt # 0 PROVE appliedAt' = appliedAt
  <2>1. ASSUME NEW q \in Handlers, Commit(q) PROVE appliedAt' = appliedAt
    <3>1. CASE InsertConflict(life, task[q].life)
      BY <2>1, <3>1 DEF Commit
    <3>2. CASE ~InsertConflict(life, task[q].life)
      <4>1. task[q].appliedAt # 0
        BY <1>1, <2>1, <3>2, CommitsOverLoaded DEF Commit
      <4> QED
        BY <2>1, <3>2, <4>1 DEF Commit, SetsAppliedAt
    <3> QED
      BY <3>1, <3>2
  <2>2. (\A q \in Handlers : ~Commit(q)) => appliedAt' = appliedAt
    BY <1>1 DEF Next, Decide, Begin, Load, Abort, vars
  <2> QED
    BY <2>1, <2>2
<1>2. IInv /\ [Next]_vars
        => [rowLocks /\ appliedAt # 0 => appliedAt' = appliedAt]_vars
  BY <1>1
<1> QED
  BY <1>2, Invariant, PTL DEF Spec, AppliedAtIsKept

-----------------------------------------------------------------------------
(* The refinement of LifecycleContract *)

\* The entries of the contract's trail, without who moved and when.
Named(h) == [i \in DOMAIN h |-> [from |-> h[i].from, to |-> h[i].to]]

LEMMA AFunctionIsASequence ==
  ASSUME NEW S, NEW n \in Nat, NEW f \in [1..n -> S]
  PROVE  f \in Seq(S) /\ Len(f) = n
<1>1. f \in Seq(S)
  BY SeqDef
<1>2. Len(f) \in Nat /\ DOMAIN f = 1..Len(f)
  BY <1>1, LenProperties
<1>3. 1..n = 1..Len(f)
  BY <1>2
<1> QED
  BY <1>1, <1>2, <1>3

LEMMA NamedGrows ==
  ASSUME NEW h \in Seq(Entry), NEW e \in Entry
  PROVE  Named(Append(h, e)) = Append(Named(h), [from |-> e.from, to |-> e.to])
<1> DEFINE Pairs == [from : VacancyStatuses, to : VacancyStatuses]
           pair == [from |-> e.from, to |-> e.to]
<1>1. DOMAIN h = 1..Len(h) /\ Len(h) \in Nat
  OBVIOUS
<1>2. \A i \in DOMAIN h : h[i] \in Entry
  OBVIOUS
<1>3. \A i \in DOMAIN h : [from |-> h[i].from, to |-> h[i].to] \in Pairs
  BY <1>2 DEF Entry
<1>4. Named(h) \in [1..Len(h) -> Pairs]
  BY <1>1, <1>3 DEF Named
<1>5. Named(h) \in Seq(Pairs) /\ Len(Named(h)) = Len(h)
  BY <1>1, <1>4, AFunctionIsASequence
<1>6. pair \in Pairs
  BY DEF Entry
<1>7. /\ Append(Named(h), pair) \in Seq(Pairs)
      /\ Len(Append(Named(h), pair)) = Len(h) + 1
  BY <1>5, <1>6
<1>8. /\ Append(h, e) \in Seq(Entry)
      /\ Len(Append(h, e)) = Len(h) + 1
      /\ DOMAIN Append(h, e) = 1..(Len(h) + 1)
  OBVIOUS
<1>9. Named(Append(h, e)) =
        [i \in 1..(Len(h) + 1) |-> [from |-> Append(h, e)[i].from,
                                   to |-> Append(h, e)[i].to]]
  BY <1>8 DEF Named
<1>10. ASSUME NEW i \in 1..(Len(h) + 1)
       PROVE  [from |-> Append(h, e)[i].from, to |-> Append(h, e)[i].to]
                = Append(Named(h), pair)[i]
  <2>1. CASE i = Len(h) + 1
    <3>1. Append(h, e)[i] = e
      BY <2>1
    <3>2. Append(Named(h), pair)[i] = pair
      BY <1>5, <1>6, <2>1
    <3> QED
      BY <3>1, <3>2
  <2>2. CASE i # Len(h) + 1
    <3>1. i \in 1..Len(h)
      BY <1>1, <2>2
    <3>2. Append(h, e)[i] = h[i]
      BY <3>1
    <3>3. Append(Named(h), pair)[i] = Named(h)[i]
      BY <1>5, <1>6, <3>1
    <3>4. Named(h)[i] = [from |-> h[i].from, to |-> h[i].to]
      BY <1>1, <3>1 DEF Named
    <3> QED
      BY <3>2, <3>3, <3>4
  <2> QED
    BY <2>1, <2>2
<1>11. Append(Named(h), pair) =
         [i \in 1..(Len(h) + 1) |-> Append(Named(h), pair)[i]]
  BY <1>7
<1> QED
  BY <1>9, <1>10, <1>11

\* A commit that stores something is a step of the contract.
LEMMA CommitIsOneStep ==
  ASSUME IInv, NEW p \in Handlers, Commit(p), rowLocks
  PROVE  \/ UNCHANGED <<life, history>>
         \/ /\ task[p].change.intent \in Finalizing
            /\ life' = FinalizedRow(life, task[p].change.intent = "accepted")
            /\ Named(history') =
                 IF life.status = life'.status THEN Named(history)
                 ELSE Append(Named(history), [from |-> life.status, to |-> life'.status])
         \/ /\ task[p].change.target \in Transitions[life.status]
            /\ task[p].change.target \in VacancyStatuses
            /\ life' = TransitionRow(life, task[p].change.target)
            /\ Named(history') =
                 IF life.status = task[p].change.target THEN Named(history)
                 ELSE Append(Named(history),
                             [from |-> life.status, to |-> task[p].change.target])
<1> DEFINE t == task[p]
           new == NewRow(t)
           entry == [from |-> t.life.status, to |-> new.status,
                     source |-> SourceOfIntent[t.change.intent], at |-> t.now]
<1>1. CASE InsertConflict(life, t.life)
  BY <1>1 DEF Commit
<1>2. CASE ~InsertConflict(life, t.life)
  <2>1. t \in Tasks /\ t.at = "loaded" /\ life \in LifeRows /\ history \in Seq(Entry)
    BY DEF IInv, TypeInv, Commit
  <2>2. t.life = life /\ Allowed(t) /\ Grounded(life)
    BY <1>2, <2>1, CommitsOverLoaded DEF IInv
  <2>3. new \in LifeRows /\ new.exists
    BY <2>1, NewRowIsGrounded
  <2>4. life' = new
    BY <1>2, <2>1, <2>2, <2>3, FlushOverLoaded DEF Commit
  <2>5. SourceOfIntent[t.change.intent] \in StatusSources
    BY <2>1 DEF SourceOfIntent, StatusSources, Intents, Tasks, Changes
  <2>6. entry \in Entry
    BY <2>1, <2>2, <2>3, <2>5 DEF Entry, LifeRows, Tasks
  <2>7. history' = IF new.status = life.status THEN history ELSE Append(history, entry)
    BY <1>2, <2>2 DEF Commit
  <2>8. Named(history') = IF new.status = life.status THEN Named(history)
                          ELSE Append(Named(history),
                                      [from |-> life.status, to |-> new.status])
    <3>1. entry.from = life.status /\ entry.to = new.status
      BY <2>2
    <3>2. Named(Append(history, entry)) =
            Append(Named(history), [from |-> entry.from, to |-> entry.to])
      BY <2>1, <2>6, NamedGrows
    <3> QED
      BY <2>7, <3>1, <3>2
  <2>9. CASE t.change.intent \in Finalizing
    <3>1. new = FinalizedRow(life, t.change.intent = "accepted")
      BY <2>2, <2>9 DEF NewRow
    <3> QED
      BY <2>4, <2>8, <2>9, <3>1
  <2>10. CASE t.change.intent \notin Finalizing
    <3>1. new = TransitionRow(life, t.change.target)
      BY <2>2, <2>10 DEF NewRow
    <3>2. new.status = t.change.target
      BY <3>1 DEF TransitionRow
    <3>3. /\ t.change.target \in Transitions[life.status]
          /\ t.change.target \in VacancyStatuses
      BY <2>1, <2>2, <2>10 DEF Allowed, Tasks, Changes
    <3> QED
      BY <2>4, <2>8, <3>1, <3>2, <3>3
  <2> QED
    BY <2>9, <2>10
<1> QED
  BY <1>1, <1>2

\* The instance of the contract has this module's vocabulary.
LEMMA OneVocabulary ==
  /\ Abstract!VacancyStatuses = VacancyStatuses
  /\ Abstract!Transitions = Transitions
  /\ Abstract!NoLifeRow = NoLifeRow
  /\ \A r, target : Abstract!TransitionRow(r, target) = TransitionRow(r, target)
  /\ \A r, b : Abstract!FinalizedRow(r, b) = FinalizedRow(r, b)
<1>1. Abstract!VacancyStatuses = VacancyStatuses /\ Abstract!NoLifeRow = NoLifeRow
  BY DEF Abstract!VacancyStatuses, VacancyStatuses, Abstract!NoLifeRow, NoLifeRow
<1>2. Abstract!Transitions = Transitions
  BY DEF Abstract!Transitions, Transitions, Abstract!AfterApplication, AfterApplication,
         Abstract!AfterInterview, AfterInterview
<1>3. Abstract!SourceOf = SourceOf
  BY DEF Abstract!SourceOf, SourceOf
<1>4. ASSUME NEW r, NEW target
      PROVE  Abstract!TransitionRow(r, target) = TransitionRow(r, target)
  BY <1>3 DEF Abstract!TransitionRow, TransitionRow
<1>5. ASSUME NEW r, NEW b
      PROVE  Abstract!FinalizedRow(r, b) = FinalizedRow(r, b)
  <2>1. Abstract!AppliedStatus(b) = AppliedStatus(b)
    BY DEF Abstract!AppliedStatus, AppliedStatus
  <2>2. Abstract!PreservesAdvancedStatus(r) <=> PreservesAdvancedStatus(r)
    BY DEF Abstract!PreservesAdvancedStatus, PreservesAdvancedStatus,
           Abstract!HasRegisteredApplication, HasRegisteredApplication,
           Abstract!ApplicationRecorded, ApplicationRecorded
  <2> QED
    BY <1>3, <2>1, <2>2 DEF Abstract!FinalizedRow, FinalizedRow
<1> QED
  BY <1>1, <1>2, <1>4, <1>5

\* With row locks every change of the row and its trail happens as if in one
\* step, along the table of transitions or because HeadHunter has accepted.
THEOREM LifecycleIsImplemented == Spec => ImplementsLifecycle
<1>1. Init => Abstract!ContractInit
  BY OneVocabulary DEF Init, Abstract!ContractInit
<1>2. ASSUME IInv, [Next]_vars PROVE [Abstract!ContractNext]_(Abstract!contractVars)
  <2>1. rowLocks' = rowLocks
    BY <1>2 DEF Next, Decide, Begin, Load, Commit, Abort, vars
  <2>2. CASE ~rowLocks
    BY <2>1, <2>2 DEF Abstract!contractVars
  <2>3. CASE rowLocks /\ UNCHANGED <<life, history>>
    BY <2>1, <2>3 DEF Abstract!contractVars
  <2>4. ASSUME rowLocks, NEW p \in Handlers, Commit(p)
        PROVE  [Abstract!ContractNext]_(Abstract!contractVars)
    <3> DEFINE b == task[p].change.intent = "accepted"
               target == task[p].change.target
    <3>1. CASE UNCHANGED <<life, history>>
      BY <2>3, <2>4, <3>1
    <3>2. CASE /\ life' = FinalizedRow(life, b)
               /\ Named(history') =
                    IF life.status = life'.status THEN Named(history)
                    ELSE Append(Named(history),
                                [from |-> life.status, to |-> life'.status])
      <4>1. b \in BOOLEAN
        OBVIOUS
      <4>2. Abstract!Register(b)
        BY <2>1, <2>4, <3>2, OneVocabulary DEF Abstract!Register, Abstract!Record, Named
      <4> QED
        BY <4>1, <4>2 DEF Abstract!ContractNext
    <3>3. CASE /\ target \in Transitions[life.status]
               /\ target \in VacancyStatuses
               /\ life' = TransitionRow(life, target)
               /\ Named(history') =
                    IF life.status = target THEN Named(history)
                    ELSE Append(Named(history), [from |-> life.status, to |-> target])
      <4>1. Abstract!Move(target)
        BY <2>1, <2>4, <3>3, OneVocabulary DEF Abstract!Move, Abstract!Record, Named
      <4> QED
        BY <3>3, <4>1, OneVocabulary DEF Abstract!ContractNext
    <3> QED
      BY <1>2, <2>4, <3>1, <3>2, <3>3, CommitIsOneStep
  <2>5. (\A p \in Handlers : ~Commit(p)) => UNCHANGED <<life, history>>
    BY <1>2 DEF Next, Decide, Begin, Load, Abort, vars
  <2> QED
    BY <2>2, <2>3, <2>4, <2>5 DEF IInv, TypeInv
<1> QED
  BY <1>1, <1>2, Invariant, PTL DEF Spec, ImplementsLifecycle, Abstract!Contract
=============================================================================
