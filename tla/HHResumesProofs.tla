----------------------------- MODULE HHResumesProofs -----------------------------
(***************************************************************************)
(* The default resume: unique while the account stays as it is, kept by    *)
(* every synchronisation, and restored by one that nobody overlaps.        *)
(***************************************************************************)
EXTENDS HHResumes, FiniteSetTheorems, TLAPS

USE ResumesAssumption

-----------------------------------------------------------------------------
(* The resumes *)

TaskStates ==
  [at : Steps, purpose : Purposes, wanted : Resumes \cup {None},
   incoming : SUBSET Resumes, loaded : [Resumes -> RowStates],
   selected : Resumes \cup {None}]

TypeInv ==
  /\ account \subseteq Resumes
  /\ changes \in Nat
  /\ rows \in [Resumes -> RowStates]
  /\ task \in [Tasks -> TaskStates]
  /\ \A p \in Tasks : task[p].at = "choose" => task[p].selected \in task[p].incoming

\* At most one default, among the resumes of the account.
Proper(table) ==
  /\ Defaults(table) \subseteq account
  /\ \A r, s \in Defaults(table) : r = s

\* Until the account changes, everybody has seen the same resumes, and the rows
\* never were without this, now and when they were loaded.
DefaultInv ==
  changes = 0 =>
    /\ Proper(rows)
    /\ \A p \in Tasks : task[p].at # "idle" => task[p].incoming = account
    /\ \A p \in Tasks : task[p].at = "save" => Proper(task[p].loaded)

Inv == TypeInv /\ DefaultInv

-----------------------------------------------------------------------------
(* What a synchronisation computes *)

LEMMA KeptType ==
  ASSUME NEW t \in TaskStates, NEW default \in Kept(t)
  PROVE  default \in t.incoming \cup {None}
BY DEF Kept, TaskStates

\* The only resume is the default, or a default that is still listed.
LEMMA KeptIsProper ==
  ASSUME NEW t \in TaskStates, NEW default \in Kept(t), default # None
  PROVE  \/ default \in Defaults(t.loaded) \cap t.incoming
         \/ t.incoming = {default}
<1>1. CASE Defaults(t.loaded) \cap t.incoming # {}
  BY <1>1 DEF Kept
<1>2. CASE Defaults(t.loaded) \cap t.incoming = {}
  <2>1. Cardinality(t.incoming) = 1 /\ default \in t.incoming
    BY <1>2 DEF Kept
  <2>2. IsFiniteSet(t.incoming)
    BY FS_Subset DEF TaskStates
  <2> QED BY <2>1, <2>2, FS_Singleton
<1> QED BY <1>1, <1>2

LEMMA ComputedType ==
  ASSUME NEW t \in TaskStates, NEW default
  PROVE  /\ Computed(t, default) \in [Resumes -> RowStates]
         /\ Defaults(Computed(t, default)) = {default} \cap Resumes
BY DEF Computed, Defaults, RowStates

\* A flush that conflicts with no insert takes no default from the rows, unless
\* the task loaded it and took it, and brings none but the one it computed.
LEMMA FlushedDefaults ==
  ASSUME TypeInv, NEW t \in TaskStates, NEW default, ~InsertConflict(t),
         Flush(t, Computed(t, default))
  PROVE  /\ rows' \in [Resumes -> RowStates]
         /\ Defaults(rows') \subseteq Defaults(rows) \cup ({default} \ Defaults(t.loaded))
         /\ \A r \in Defaults(rows) :
              r \in Defaults(rows') \/ (r \in Defaults(t.loaded) /\ r # default)
<1>1. Computed(t, default) \in [Resumes -> RowStates]
  BY ComputedType
<1>2. ASSUME NEW r \in Resumes
      PROVE  rows'[r] = IF Computed(t, default)[r] = t.loaded[r] THEN rows[r]
                        ELSE Computed(t, default)[r]
  BY DEF Flush
<1>3. rows' \in [Resumes -> RowStates]
  BY <1>1 DEF Flush, TypeInv
<1>4. ASSUME NEW r \in Resumes
      PROVE  Computed(t, default)[r] =
               IF r = default THEN "default"
               ELSE IF r \in t.incoming \/ t.loaded[r] # "absent" THEN "listed"
               ELSE "absent"
  BY DEF Computed
<1>5. ASSUME NEW r \in Resumes, rows'[r] = "default", rows[r] # "default"
      PROVE  r = default /\ t.loaded[r] # "default"
  BY <1>2, <1>4, <1>5
<1>6. ASSUME NEW r \in Resumes, rows[r] = "default", rows'[r] # "default"
      PROVE  t.loaded[r] = "default" /\ r # default
  <2>1. r # default /\ Computed(t, default)[r] # t.loaded[r]
    BY <1>2, <1>4, <1>6
  <2>2. t.loaded[r] \in RowStates
    BY DEF TaskStates
  <2>3. CASE t.loaded[r] = "absent"
    <3>1. r \notin t.incoming
      BY <1>6, <2>3 DEF InsertConflict
    <3> QED BY <1>4, <2>1, <2>3, <3>1
  <2> QED BY <1>4, <2>1, <2>2, <2>3 DEF RowStates
<1> QED BY <1>3, <1>5, <1>6 DEF Defaults

\* Rows that somebody loaded when they were proper, and rows that are proper
\* now: a flush keeps every default and their uniqueness.
LEMMA FlushKeepsDefaults ==
  ASSUME TypeInv, NEW t \in TaskStates, NEW default \in Kept(t), ~InsertConflict(t),
         Flush(t, Computed(t, default)), t.incoming = account,
         Proper(rows), Proper(t.loaded)
  PROVE  Defaults(rows) \subseteq Defaults(rows') /\ Proper(rows')
<1>1. /\ Defaults(rows') \subseteq Defaults(rows) \cup ({default} \ Defaults(t.loaded))
      /\ \A r \in Defaults(rows) :
           r \in Defaults(rows') \/ (r \in Defaults(t.loaded) /\ r # default)
      /\ Defaults(rows') \subseteq Resumes
  BY FlushedDefaults DEF Defaults
<1>2. default \in account \cup {None}
  BY KeptType
<1>3. \A r \in Defaults(t.loaded) : r = default
  <2> SUFFICES ASSUME NEW r \in Defaults(t.loaded) PROVE r = default
    OBVIOUS
  <2>1. Defaults(t.loaded) \cap t.incoming = {r}
    BY DEF Proper
  <2> QED BY <2>1 DEF Kept
<1>4. Defaults(rows) \subseteq Defaults(rows')
  BY <1>1, <1>3
<1>5. Defaults(rows') \subseteq account
  BY <1>1, <1>2 DEF Proper, Defaults
<1>6. \A r, s \in Defaults(rows') : r = s
  <2>1. CASE default \in Defaults(t.loaded)
    BY <1>1, <2>1 DEF Proper
  <2>2. CASE default = None
    BY <1>1, <2>2 DEF Proper, Defaults
  <2>3. CASE default \notin Defaults(t.loaded) /\ default # None
    <3>1. account = {default}
      BY <2>3, KeptIsProper
    <3> QED BY <1>5, <3>1
  <2> QED BY <2>1, <2>2, <2>3
<1> QED BY <1>4, <1>5, <1>6 DEF Proper

-----------------------------------------------------------------------------
(* The invariant *)

LEMMA InitInv == Init => Inv
BY DEF Init, Inv, TypeInv, DefaultInv, Proper, Defaults, TaskStates, Idle, Steps, Purposes,
   RowStates

\* A preparation goes on with a resume that HeadHunter listed.
LEMMA SelectedListed ==
  ASSUME NEW t \in TaskStates, NEW default \in Kept(t), NEW r \in Selected(t, default)
  PROVE  r \in t.incoming
BY KeptType DEF Selected

LEMMA ContinueType ==
  ASSUME TypeInv, NEW p \in Tasks, NEW default \in Kept(task[p]),
         Continue(p, task[p], default)
  PROVE  /\ task' \in [Tasks -> TaskStates]
         /\ \A q \in Tasks : q # p => task'[q] = task[q]
         /\ task'[p].at \in {"idle", "choose"}
         /\ task'[p].at = "choose" =>
              /\ task'[p].incoming = task[p].incoming
              /\ task'[p].selected \in task[p].incoming
<1>1. task[p] \in TaskStates
  BY DEF TypeInv
<1>2. CASE Become(p, Idle)
  <2>1. Idle \in TaskStates /\ Idle.at = "idle"
    BY DEF TaskStates, Idle, Steps, Purposes, RowStates
  <2> QED BY <1>2, <2>1 DEF Become, TypeInv
<1>3. ASSUME NEW r \in Selected(task[p], default),
             Become(p, [task[p] EXCEPT !.at = "choose", !.selected = r])
      PROVE  /\ task'[p] = [task[p] EXCEPT !.at = "choose", !.selected = r]
             /\ task' \in [Tasks -> TaskStates]
             /\ \A q \in Tasks : q # p => task'[q] = task[q]
             /\ r \in task[p].incoming
  <2>1. r \in task[p].incoming
    BY <1>1, SelectedListed
  <2>2. [task[p] EXCEPT !.at = "choose", !.selected = r] \in TaskStates
    BY <1>1, <2>1 DEF TaskStates, Steps
  <2> QED BY <1>3, <2>1, <2>2 DEF Become, TypeInv
<1>4. CASE \E r \in Selected(task[p], default) :
             Become(p, [task[p] EXCEPT !.at = "choose", !.selected = r])
  <2>1. PICK r \in Selected(task[p], default) :
           Become(p, [task[p] EXCEPT !.at = "choose", !.selected = r])
    BY <1>4
  <2>2. LET s == [task[p] EXCEPT !.at = "choose", !.selected = r]
        IN s.at = "choose" /\ s.selected = r /\ s.incoming = task[p].incoming
    BY <1>1 DEF TaskStates
  <2> QED BY <1>3, <2>1, <2>2
<1> QED BY <1>2, <1>4 DEF Continue

LEMMA TypeStep == TypeInv /\ [Next]_vars => TypeInv'
<1> SUFFICES ASSUME TypeInv, [Next]_vars PROVE TypeInv'
  OBVIOUS
<1>i. Idle \in TaskStates /\ Idle.at = "idle"
  BY DEF TaskStates, Idle, Steps, Purposes, RowStates
<1>b. ASSUME NEW p \in Tasks, NEW s \in TaskStates, Become(p, s),
             s.at = "choose" => s.selected \in s.incoming
      PROVE  /\ task' \in [Tasks -> TaskStates]
             /\ \A q \in Tasks : task'[q].at = "choose" => task'[q].selected \in task'[q].incoming
  BY <1>b DEF Become, TypeInv
<1>1. ASSUME NEW p \in Tasks, Fetch(p) PROVE TypeInv'
  <2>1. PICK purpose \in Purposes, wanted \in Resumes \cup {None} :
           Become(p, [Idle EXCEPT !.at = "load", !.purpose = purpose,
                                  !.wanted = wanted, !.incoming = account])
    BY <1>1 DEF Fetch
  <2>2. LET s == [Idle EXCEPT !.at = "load", !.purpose = purpose,
                              !.wanted = wanted, !.incoming = account]
        IN s \in TaskStates /\ s.at = "load"
    BY DEF TypeInv, TaskStates, Idle, Steps, Purposes, RowStates
  <2> QED BY <1>1, <1>b, <2>1, <2>2 DEF Fetch, TypeInv
<1>2. ASSUME NEW p \in Tasks, Load(p) PROVE TypeInv'
  <2>1. LET s == [task[p] EXCEPT !.at = "save", !.loaded = rows]
        IN s \in TaskStates /\ s.at = "save"
    BY DEF TypeInv, TaskStates, Steps
  <2> QED BY <1>2, <1>b, <2>1 DEF Load, TypeInv
<1>3. ASSUME NEW p \in Tasks, Save(p) PROVE TypeInv'
  <2>1. CASE Become(p, Idle) /\ UNCHANGED rows
    BY <1>3, <1>b, <1>i, <2>1 DEF Save, TypeInv
  <2>2. ASSUME ~InsertConflict(task[p]), NEW default \in Kept(task[p]),
               Flush(task[p], Computed(task[p], default)), Continue(p, task[p], default)
        PROVE  TypeInv'
    <3>1. rows' \in [Resumes -> RowStates]
      BY <2>2, FlushedDefaults DEF TypeInv
    <3>2. /\ task' \in [Tasks -> TaskStates]
          /\ \A q \in Tasks : task'[q].at = "choose" => task'[q].selected \in task'[q].incoming
      BY <2>2, ContinueType DEF TypeInv
    <3> QED BY <1>3, <3>1, <3>2 DEF Save, TypeInv
  <2> QED BY <1>3, <2>1, <2>2 DEF Save
<1>4. ASSUME NEW p \in Tasks, Choose(p) PROVE TypeInv'
  <2>1. rows' \in [Resumes -> RowStates]
    BY <1>4 DEF Choose, SetDefault, RowStates
  <2> QED BY <1>4, <1>b, <1>i, <2>1 DEF Choose, TypeInv
<1>5. ASSUME NEW p \in Tasks, Abort(p) PROVE TypeInv'
  BY <1>5, <1>b, <1>i DEF Abort, TypeInv
<1>6. CASE ChangeAccount
  BY <1>6 DEF ChangeAccount, TypeInv
<1>7. CASE UNCHANGED vars
  BY <1>7 DEF vars, TypeInv
<1> QED BY <1>1, <1>2, <1>3, <1>4, <1>5, <1>6, <1>7 DEF Next

LEMMA DefaultStep == Inv /\ [Next]_vars => DefaultInv'
<1> SUFFICES ASSUME Inv, [Next]_vars, changes' = 0 PROVE DefaultInv'
  BY DEF DefaultInv
<1>t. TypeInv
  BY DEF Inv
<1>c. changes = 0 /\ UNCHANGED account
  <2>1. CASE ChangeAccount
    BY <1>t, <2>1 DEF ChangeAccount, TypeInv
  <2>2. CASE UNCHANGED <<account, changes>>
    BY <2>2
  <2>3. ChangeAccount \/ UNCHANGED <<account, changes>>
    BY DEF Next, Fetch, Load, Save, Choose, Abort, vars
  <2> QED BY <2>1, <2>2, <2>3
<1>i. Idle.at = "idle"
  BY DEF Idle
<1>b. ASSUME NEW p \in Tasks, NEW s, Become(p, s)
      PROVE  task'[p] = s /\ \A q \in Tasks : q # p => task'[q] = task[q]
  BY <1>t, <1>b DEF Become, TypeInv
<1>1. ASSUME NEW p \in Tasks, Fetch(p) PROVE DefaultInv'
  <2>1. /\ task'[p].at = "load" /\ task'[p].incoming = account
        /\ \A q \in Tasks : q # p => task'[q] = task[q]
    <3>1. PICK purpose \in Purposes, wanted \in Resumes \cup {None} :
             Become(p, [Idle EXCEPT !.at = "load", !.purpose = purpose,
                                    !.wanted = wanted, !.incoming = account])
      BY <1>1 DEF Fetch
    <3>2. LET s == [Idle EXCEPT !.at = "load", !.purpose = purpose,
                                !.wanted = wanted, !.incoming = account]
          IN s.at = "load" /\ s.incoming = account
      BY DEF Idle
    <3> QED BY <1>b, <3>1, <3>2
  <2> QED BY <1>c, <1>1, <2>1 DEF Fetch, Inv, DefaultInv, Proper, vars
<1>2. ASSUME NEW p \in Tasks, Load(p) PROVE DefaultInv'
  <2>1. /\ task'[p].at = "save" /\ task'[p].incoming = task[p].incoming
        /\ task'[p].loaded = rows
        /\ \A q \in Tasks : q # p => task'[q] = task[q]
    <3>1. LET s == [task[p] EXCEPT !.at = "save", !.loaded = rows]
          IN s.at = "save" /\ s.incoming = task[p].incoming /\ s.loaded = rows
      BY <1>t DEF TypeInv, TaskStates
    <3> QED BY <1>2, <1>b, <3>1 DEF Load
  <2> QED BY <1>c, <1>2, <2>1 DEF Load, Inv, DefaultInv, Proper, vars
<1>3. ASSUME NEW p \in Tasks, Save(p) PROVE DefaultInv'
  <2>1. CASE Become(p, Idle) /\ UNCHANGED rows
    BY <1>c, <1>i, <1>b, <1>3, <2>1 DEF Save, Inv, DefaultInv, Proper, vars
  <2>2. ASSUME ~InsertConflict(task[p]), NEW default \in Kept(task[p]),
               Flush(task[p], Computed(task[p], default)), Continue(p, task[p], default)
        PROVE  DefaultInv'
    <3>1. changes = 0 /\ UNCHANGED account /\ task[p].at = "save" /\ task[p] \in TaskStates
      BY <1>3, <1>t DEF Save, TypeInv
    <3>2. Proper(rows')
      BY <1>t, <2>2, <3>1, FlushKeepsDefaults DEF Inv, DefaultInv
    <3>3. /\ task'[p].at \in {"idle", "choose"}
          /\ task'[p].at = "choose" => task'[p].incoming = task[p].incoming
          /\ \A q \in Tasks : q # p => task'[q] = task[q]
      BY <1>t, <2>2, ContinueType
    <3> QED BY <3>1, <3>2, <3>3 DEF Inv, DefaultInv, Proper
  <2> QED BY <1>3, <2>1, <2>2 DEF Save
<1>4. ASSUME NEW p \in Tasks, Choose(p) PROVE DefaultInv'
  <2>1. /\ task[p].at = "choose" /\ task[p].incoming = account
        /\ task[p].selected \in account /\ account \subseteq Resumes
    BY <1>4, <1>c, <1>t DEF Choose, Inv, DefaultInv, TypeInv, vars
  <2>2. Defaults(rows') = {task[p].selected}
    BY <1>4, <2>1 DEF Choose, SetDefault, Defaults
  <2>3. Proper(rows)'
    BY <1>4, <2>1, <2>2 DEF Choose, Proper
  <2> QED BY <1>4, <1>c, <1>i, <1>b, <2>3 DEF Choose, Inv, DefaultInv, Proper, vars
<1>5. ASSUME NEW p \in Tasks, Abort(p) PROVE DefaultInv'
  BY <1>5, <1>c, <1>i, <1>b DEF Abort, Inv, DefaultInv, Proper, vars
<1>6. CASE ChangeAccount
  BY <1>6, <1>t DEF ChangeAccount, TypeInv
<1>7. CASE UNCHANGED vars
  BY <1>7 DEF vars, Inv, DefaultInv, Proper, Defaults
<1> QED BY <1>1, <1>2, <1>3, <1>4, <1>5, <1>6, <1>7 DEF Next

LEMMA SpecInv == Spec => []Inv
<1>1. Inv /\ [Next]_vars => Inv'
  BY TypeStep, DefaultStep DEF Inv
<1> QED BY <1>1, InitInv, PTL DEF Spec

-----------------------------------------------------------------------------
(* The theorems *)

LEMMA AtMostOne ==
  ASSUME NEW S \in SUBSET Resumes, \A r, s \in S : r = s
  PROVE  Cardinality(S) <= 1
<1>1. CASE S = {}
  BY <1>1, FS_EmptySet
<1>2. CASE S # {}
  <2>1. PICK r \in S : TRUE
    BY <1>2
  <2>2. S = {r}
    BY <2>1
  <2>3. Cardinality(S) = 1
    BY <2>2, FS_Singleton
  <2> QED BY <2>3
<1> QED BY <1>1, <1>2

\* A task that is about to save moves by saving or by failing.
LEMMA SaverMoves ==
  ASSUME TypeInv, Next, NEW p \in Tasks, task[p].at = "save", task'[p] # task[p]
  PROVE  Save(p) \/ Abort(p)
<1>1. ~ChangeAccount
  BY DEF ChangeAccount
<1>2. PICK q \in Tasks : Fetch(q) \/ Load(q) \/ Save(q) \/ Choose(q) \/ Abort(q)
  BY <1>1 DEF Next
<1>3. \E s : Become(q, s)
  BY <1>2 DEF Fetch, Load, Save, Continue, Choose, Abort
<1>4. q = p
  BY <1>3 DEF Become, TypeInv
<1> QED BY <1>2, <1>4 DEF Fetch, Load, Choose

\* While the account stays as it is there is at most one default, for any
\* number of resumes, preparations and synchronisations.
THEOREM UniqueDefault == Spec => []DefaultIsUnique
<1>1. Inv => DefaultIsUnique
  <2> SUFFICES ASSUME Inv, changes = 0 PROVE Cardinality(Defaults(rows)) <= 1
    BY DEF DefaultIsUnique
  <2>1. Defaults(rows) \in SUBSET Resumes
    BY DEF Defaults
  <2> QED BY <2>1, AtMostOne DEF Inv, DefaultInv, Proper
<1> QED BY <1>1, SpecInv, PTL

\* A synchronisation that loaded the rows before the user chose another default
\* does not undo the choice: only columns that changed are written.
THEOREM ChoiceSurvivesSync == Spec => SyncKeepsChoice
<1> DEFINE A == \A p \in Tasks :
       changes = 0 /\ task[p].at = "save"
         /\ task'[p] # task[p] /\ rows' # rows
       => Defaults(rows) \cap task[p].incoming \subseteq Defaults(rows')
<1>1. Inv /\ Next => A
  <2> SUFFICES ASSUME Inv, Next, NEW p \in Tasks, changes = 0, task[p].at = "save",
                      task'[p] # task[p], rows' # rows
               PROVE  Defaults(rows) \cap task[p].incoming \subseteq Defaults(rows')
    OBVIOUS
  <2>1. Save(p)
    BY SaverMoves DEF Abort, Inv
  <2>2. PICK default \in Kept(task[p]) :
           ~InsertConflict(task[p]) /\ Flush(task[p], Computed(task[p], default))
    BY <2>1 DEF Save
  <2>3. /\ task[p] \in TaskStates /\ task[p].incoming = account
        /\ Proper(rows) /\ Proper(task[p].loaded)
    BY DEF Inv, DefaultInv, TypeInv
  <2> QED BY <2>2, <2>3, FlushKeepsDefaults DEF Inv
<1>2. Inv /\ [Next]_vars => [A]_vars
  BY <1>1
<1> QED BY <1>2, SpecInv, PTL DEF SyncKeepsChoice, Spec

\* Whatever the rows were: a synchronisation that nobody overlaps leaves one
\* default at most, a listed one, and one if there was a listed one.
THEOREM RepairBySync == Spec => SyncRepairs
<1> DEFINE A == \A p \in Tasks :
       /\ task[p].at = "save" /\ task'[p] # task[p]
       /\ task[p].loaded = rows /\ (rows' # rows \/ task'[p].at = "choose")
       => /\ Cardinality(Defaults(rows')) <= 1
          /\ Defaults(rows') \subseteq task[p].incoming
          /\ Defaults(rows) \cap task[p].incoming # {} => Defaults(rows') # {}
<1>1. Inv /\ Next => A
  <2> SUFFICES ASSUME Inv, Next, NEW p \in Tasks, task[p].at = "save", task'[p] # task[p],
                      task[p].loaded = rows, rows' # rows \/ task'[p].at = "choose"
               PROVE  /\ Cardinality(Defaults(rows')) <= 1
                      /\ Defaults(rows') \subseteq task[p].incoming
                      /\ Defaults(rows) \cap task[p].incoming # {} => Defaults(rows') # {}
    OBVIOUS
  <2>t. TypeInv /\ task[p] \in TaskStates
    BY DEF Inv, TypeInv
  <2>1. Save(p) \/ Abort(p)
    BY <2>t, SaverMoves
  <2>2. Idle.at = "idle"
    BY DEF Idle
  <2>3. ~(Become(p, Idle) /\ UNCHANGED rows)
    BY <2>t, <2>2 DEF Become, TypeInv
  <2>4. PICK default \in Kept(task[p]) : Flush(task[p], Computed(task[p], default))
    BY <2>1, <2>3 DEF Save, Abort
  <2>5. rows' = Computed(task[p], default)
    <3>1. Computed(task[p], default) \in [Resumes -> RowStates]
      BY <2>t, ComputedType
    <3>2. \A r \in Resumes : rows'[r] = Computed(task[p], default)[r]
      BY <2>4 DEF Flush
    <3>3. rows' = [r \in Resumes |-> rows'[r]]
      BY <2>4 DEF Flush
    <3> QED BY <3>1, <3>2, <3>3
  <2>6. Defaults(rows') = {default} \cap Resumes
    BY <2>t, <2>5, ComputedType
  <2>7. default \in task[p].incoming \cup {None}
    BY <2>t, KeptType
  <2>8. Defaults(rows) \cap task[p].incoming # {} => default \in Resumes
    BY DEF Kept, Defaults
  <2> QED BY <2>6, <2>7, <2>8, AtMostOne
<1>2. Inv /\ [Next]_vars => [A]_vars
  BY <1>1
<1> QED BY <1>2, SpecInv, PTL DEF SyncRepairs, Spec
=============================================================================
