------------------------------- MODULE HHResumes -------------------------------
(***************************************************************************)
(* The resumes of the user's HeadHunter account and which of them is the   *)
(* default: the rows of `hh_resumes`, the tasks that synchronise them with *)
(* the account, and the preparation of an application, which chooses one.  *)
(*                                                                         *)
(* Modelled from app/repositories/hh_integration_repository.py and its     *)
(* callers in app/services/hh_application.py and hh_oauth.py.  Rows are    *)
(* never deleted.  A session flushes the columns that differ from what it  *)
(* loaded; (user, external_id) is unique.                                  *)
(***************************************************************************)
EXTENDS FiniteSets, Naturals

CONSTANTS
  Resumes,
  Tasks,       \* handlers that prepare an application, callbacks that connect
  None,
  MaxChanges   \* bound: how often the account's resumes change

ASSUME ResumesAssumption ==
  /\ None \notin Resumes
  /\ IsFiniteSet(Resumes)
  /\ MaxChanges \in Nat

VARIABLES
  account,  \* the resumes HeadHunter lists
  changes,  \* how often they changed
  rows,     \* hh_resumes, with is_default
  task

vars == <<account, changes, rows, task>>

RowStates == {"absent", "listed", "default"}

Steps == {"idle", "load", "save", "choose"}

\* prepare_application with the resume the user wants or none, and the
\* synchronisation after an authorization.
Purposes == {"prepare", "connect"}

Idle == [at |-> "idle", purpose |-> "prepare", wanted |-> None, incoming |-> {},
         loaded |-> [r \in Resumes |-> "absent"], selected |-> None]

Become(p, state) == task' = [task EXCEPT ![p] = state]

Defaults(table) == {r \in Resumes : table[r] = "default"}

-----------------------------------------------------------------------------
(* save_resumes *)

\* HeadHunter's answer: prepare_application ends when it is empty.
Fetch(p) ==
  /\ task[p].at = "idle"
  /\ \E purpose \in Purposes, wanted \in Resumes \cup {None} :
       /\ purpose = "prepare" => account # {}
       /\ purpose = "connect" => wanted = None
       /\ Become(p, [Idle EXCEPT !.at = "load", !.purpose = purpose,
                                 !.wanted = wanted, !.incoming = account])
  /\ UNCHANGED <<account, changes, rows>>

Load(p) ==
  /\ task[p].at = "load"
  /\ Become(p, [task[p] EXCEPT !.at = "save", !.loaded = rows])
  /\ UNCHANGED <<account, changes, rows>>

\* The default that is kept: one that is still listed, else the only resume.
Kept(t) ==
  LET still == Defaults(t.loaded) \cap t.incoming
  IN IF still # {} THEN still
     ELSE IF Cardinality(t.incoming) = 1 THEN t.incoming ELSE {None}

\* Fault: a resume that is no longer listed stays the default.
RemovedUntouched(t, default) ==
  [r \in Resumes |->
     IF r = default THEN "default"
     ELSE IF r \in t.incoming THEN "listed" ELSE t.loaded[r]]

\* The rows as the session computes them.
Computed(t, default) ==
  [r \in Resumes |->
     IF r = default THEN "default"
     ELSE IF r \in t.incoming \/ t.loaded[r] # "absent" THEN "listed"
     ELSE "absent"]

InsertConflict(t) ==
  \E r \in t.incoming : t.loaded[r] = "absent" /\ rows[r] # "absent"

\* Fault: every column is written.
FlushAll(t, new) == rows' = new

Flush(t, new) ==
  rows' = [r \in Resumes |-> IF new[r] = t.loaded[r] THEN rows[r] ELSE new[r]]

\* What prepare_application selects from the rows it has just computed: what
\* the user wants, if it is listed, or the default; otherwise it asks.
Selected(t, default) ==
  IF t.wanted = None THEN {default} \ {None} ELSE {t.wanted} \cap t.incoming

Continue(p, t, default) ==
  \/ /\ t.purpose = "prepare"
     /\ \E r \in Selected(t, default) :
          Become(p, [t EXCEPT !.at = "choose", !.selected = r])
  \/ /\ t.purpose = "connect" \/ Selected(t, default) = {}
     /\ Become(p, Idle)

Save(p) ==
  LET t == task[p]
  IN /\ t.at = "save"
     /\ \/ /\ InsertConflict(t)
           /\ Become(p, Idle)
           /\ UNCHANGED rows
        \/ /\ ~InsertConflict(t)
           /\ \E default \in Kept(t) :
                Flush(t, Computed(t, default)) /\ Continue(p, t, default)
     /\ UNCHANGED <<account, changes>>

-----------------------------------------------------------------------------
(* set_default_resume *)

\* Fault: the other rows are not reset.
ChosenOnly(r) == rows' = [rows EXCEPT ![r] = "default"]

\* The UPDATE of all rows and the one of the chosen row, in one transaction.
SetDefault(r) ==
  rows' = [s \in Resumes |-> IF s = r THEN "default"
                             ELSE IF rows[s] = "absent" THEN "absent"
                             ELSE "listed"]

\* The preparation goes on with the letter and the draft.
Choose(p) ==
  /\ task[p].at = "choose"
  /\ SetDefault(task[p].selected)
  /\ Become(p, Idle)
  /\ UNCHANGED <<account, changes>>

-----------------------------------------------------------------------------
(* The environment *)

\* The user adds or removes resumes on HeadHunter, or connects another account.
ChangeAccount ==
  /\ changes < MaxChanges
  /\ changes' = changes + 1
  /\ account' \in SUBSET Resumes \ {account}
  /\ UNCHANGED <<rows, task>>

\* The process dies, or HeadHunter or the database fails.
Abort(p) ==
  /\ task[p].at # "idle"
  /\ Become(p, Idle)
  /\ UNCHANGED <<account, changes, rows>>

Init ==
  /\ account \in SUBSET Resumes
  /\ changes = 0
  /\ rows = [r \in Resumes |-> "absent"]
  /\ task = [p \in Tasks |-> Idle]

Next ==
  \/ \E p \in Tasks : Fetch(p) \/ Load(p) \/ Save(p) \/ Choose(p) \/ Abort(p)
  \/ ChangeAccount

Spec == Init /\ [][Next]_vars

-----------------------------------------------------------------------------
(* Properties *)

TypeOK ==
  /\ account \subseteq Resumes
  /\ changes \in 0..MaxChanges
  /\ rows \in [Resumes -> RowStates]
  /\ task \in [Tasks -> [at : Steps, purpose : Purposes,
                         wanted : Resumes \cup {None}, incoming : SUBSET Resumes,
                         loaded : [Resumes -> RowStates],
                         selected : Resumes \cup {None}]]
  /\ \A p \in Tasks : task[p].at = "choose" => task[p].selected # None

\* While the account stays as it is, at most one resume is the default, however
\* synchronisations and choices overlap.
DefaultIsUnique == changes = 0 => Cardinality(Defaults(rows)) <= 1

\* While the account stays as it is, a synchronisation that loaded the rows
\* before the user chose another default does not undo the choice.
SyncKeepsChoice ==
  [][\A p \in Tasks :
       changes = 0 /\ task[p].at = "save"
         /\ task'[p] # task[p] /\ rows' # rows
       => Defaults(rows) \cap task[p].incoming \subseteq Defaults(rows')]_vars

\* Whatever the tasks left behind when the account did change, a synchronisation
\* that nobody overlaps restores it: one default at most, among the resumes
\* that are listed, and none is lost that is.
SyncRepairs ==
  [][\A p \in Tasks :
       /\ task[p].at = "save" /\ task'[p] # task[p]
       /\ task[p].loaded = rows /\ (rows' # rows \/ task'[p].at = "choose")
       => /\ Cardinality(Defaults(rows')) <= 1
          /\ Defaults(rows') \subseteq task[p].incoming
          /\ Defaults(rows) \cap task[p].incoming # {} => Defaults(rows') # {}]_vars

\* A draft is prepared with a resume that HeadHunter listed for it and that is
\* stored (prepare_application looks it up again after it was chosen).
SelectedIsListed ==
  \A p \in Tasks : task[p].at = "choose" =>
    /\ task[p].selected \in task[p].incoming
    /\ rows[task[p].selected] # "absent"

\* The default is what the user chose last: a preparation that names no resume
\* does not replace it.
ChoiceIsKept ==
  [][\A p \in Tasks :
       task[p].at = "choose" /\ task'[p].at = "idle" /\ rows' # rows
         /\ task[p].wanted = None /\ Defaults(rows) # {}
       => Defaults(rows) \cap account = {}]_vars
=============================================================================
