------------------------------ MODULE SearchProofs ------------------------------
(***************************************************************************)
(* Proofs about VacancySearch, for any vacancies, contents, configurations,*)
(* searches, workers and limit: no request is wasted, requests are         *)
(* bounded, a provider that is down stops the pool, and a complete search  *)
(* leaves current analyses.                                                *)
(*                                                                         *)
(* search_lock leaves one search running (LockInv).  SpendInv says what    *)
(* the workers of a search may still ask for, whether it runs or has       *)
(* abandoned them.  Without abandoned workers of another search, what the  *)
(* one that runs has loaded stays what is stored (AloneInv, KeepsInv).     *)
(***************************************************************************)
EXTENDS VacancySearch, FiniteSetTheorems, WellFoundedInduction, TLAPS

Rows == [version : Content, id : Nat]
Results == [version : Content, config : Configs \cup {None}]
RunStates ==
  [phase : {"idle", "querying", "fetching", "ranking", "abandoned"},
   found : SUBSET Vacancies, todo : SUBSET Vacancies,
   loaded : [Vacancies -> Content], pending : SUBSET Vacancies,
   cut : BOOLEAN, stop : BOOLEAN, failed : BOOLEAN,
   completed : Nat, shown : Nat, progress : Workers \cup {None},
   asked : [Vacancies -> 0..2], refusals : Nat, inFlight : Nat,
   beside : BOOLEAN]
WorkerStates ==
  [at : {"done", "ready", "asking", "saving", "reporting", "showing"},
   vac : Vacancies \cup {None}, number : Nat]

TypeInv ==
  /\ row \in [Vacancies -> Rows]
  /\ analysis \in [Vacancies -> Results]
  /\ config \in Configs
  /\ lock \in Searches \cup {None}
  /\ waiting \subseteq Searches
  /\ run \in [Searches -> RunStates]
  /\ worker \in [Searches -> [Workers -> WorkerStates]]

\* Only the search with search_lock runs, and only the workers of a pool work.
LockInv ==
  \A s \in Searches :
    /\ run[s].phase \notin {"idle", "abandoned"} => lock = s
    /\ s \in waiting => run[s].phase = "idle"
    /\ ~HasPool(s) => WorkersDone(s)

\* No worker of another search is left beside an undisturbed one.
AloneInv ==
  \A s, q \in Searches : Undisturbed(s) /\ q # s => run[q].phase = "idle"

\* Vacancies are numbered in the order of their insertion.
Stored == {v \in Vacancies : row[v].version # None}

IdInv ==
  /\ \A v \in Stored : row[v].id \in 1..Cardinality(Stored)
  /\ \A v, w \in Stored : row[v].id = row[w].id => v = w

\* Before its pool starts, a search has asked nothing.
QuietInv(r) ==
  /\ \A v \in Vacancies : r.asked[v] = 0
  /\ r.refusals = 0 /\ ~r.stop /\ ~r.failed

\* What waits for a worker is stored, and not asked for; nobody takes what a
\* worker has taken.
PendingInv(r) ==
  \A v \in r.pending : row[v].version # None /\ r.loaded[v] # None /\ r.asked[v] = 0

Busy(ws, w) == ws[w].at \in {"asking", "saving"}

TakenInv(r, ws) ==
  \A w \in Workers : Busy(ws, w) => ws[w].vac \in Vacancies /\ ws[w].vac \notin r.pending

\* Only what was chosen is asked for, once, and no more than the limit is chosen.
AskedInv(r) ==
  /\ \A v \in Vacancies : r.asked[v] <= 1 /\ (r.asked[v] # 0 => r.loaded[v] # None)
  /\ Cardinality({v \in Vacancies : r.loaded[v] # None}) <= MaxAnalyses

\* Once the provider refused, the requests under way only become fewer.
Askers(ws) == {w \in Workers : ws[w].at = "asking"}

RefusalInv(r, ws) ==
  \/ r.refusals = 0
  \/ r.stop /\ r.refusals + Cardinality(Askers(ws)) <= r.inFlight

SpendInv(r, ws) ==
  /\ PendingInv(r) /\ TakenInv(r, ws) /\ AskedInv(r) /\ RefusalInv(r, ws)
  /\ r.stop => r.failed

\* What waits for a worker, or is with one, is as it was loaded; what waits has no
\* current analysis.
FreshInv(r, ws) ==
  /\ \A v \in r.pending : r.loaded[v] = row[v].version /\ ~Current(v)
  /\ \A w \in Workers : Busy(ws, w) => r.loaded[ws[w].vac] = row[ws[w].vac].version

\* Without a failure, whatever is not current yet is still going to be.
CompleteInv(r, ws) ==
  /\ \A w \in Workers : ws[w].at = "done" => r.stop \/ r.pending = {}
  /\ ~r.failed /\ ~r.cut =>
       \A v \in r.found : row[v].version \in Relevant =>
         \/ Current(v)
         \/ v \in r.pending
         \/ \E w \in Workers : Busy(ws, w) /\ ws[w].vac = v

KeepsInv(r, ws) == FreshInv(r, ws) /\ CompleteInv(r, ws)

RunInv(s) ==
  /\ ~HasPool(s) => QuietInv(run[s])
  /\ HasPool(s) => SpendInv(run[s], worker[s])
  /\ Undisturbed(s) => KeepsInv(run[s], worker[s])

SearchInv == \A s \in Searches : RunInv(s)

IInv == TypeInv /\ LockInv /\ AloneInv /\ IdInv /\ SearchInv

-----------------------------------------------------------------------------
(* Finite sets and their order *)

LEMMA LeastNat ==
  ASSUME NEW S \in SUBSET Nat, S # {}
  PROVE  \E n \in S : \A m \in S : n <= m
<1>1. PICK n \in S : \A m \in S : ~(<<m, n>> \in OpToRel(<, Nat))
  BY NatLessThanWellFounded, WFMin
<1>2. ASSUME NEW m \in S PROVE n <= m
  <2>1. ~(m < n)
    BY <1>1 DEF OpToRel
  <2> QED
    BY <2>1
<1> QED
  BY <1>2

LEMMA GreatestNat ==
  ASSUME NEW S \in SUBSET Nat, S # {}, NEW bound \in Nat, \A n \in S : n <= bound
  PROVE  \E n \in S : \A m \in S : m <= n
<1> DEFINE Gaps == {bound - n : n \in S}
<1>1. Gaps \in SUBSET Nat /\ Gaps # {}
  <2>1. \A n \in S : bound - n \in Nat
    OBVIOUS
  <2> QED
    BY <2>1
<1>2. PICK g \in Gaps : \A h \in Gaps : g <= h
  BY <1>1, LeastNat
<1>3. PICK n \in S : g = bound - n
  OBVIOUS
<1>4. ASSUME NEW m \in S PROVE m <= n
  <2>1. bound - n <= bound - m
    BY <1>2, <1>3
  <2> QED
    BY <2>1
<1> QED
  BY <1>4

LEMMA FiniteParts ==
  /\ \A S \in SUBSET Vacancies : IsFiniteSet(S) /\ Cardinality(S) \in Nat
  /\ \A S \in SUBSET Workers : IsFiniteSet(S) /\ Cardinality(S) \in Nat
<1>1. IsFiniteSet(Vacancies) /\ IsFiniteSet(Workers)
  BY SearchAssumption
<1> QED
  BY <1>1, FS_Subset, FS_CardinalityType

LEMMA IdFacts ==
  ASSUME TypeInv, IdInv
  PROVE  /\ Stored \in SUBSET Vacancies
         /\ Cardinality(Stored) \in Nat
         /\ \A v \in Stored : row[v].id \in Nat /\ row[v].id <= Cardinality(Stored)
<1>1. Stored \in SUBSET Vacancies
  BY DEF Stored
<1> QED
  BY <1>1, FiniteParts DEF IdInv

\* next_candidate takes one of those that wait.
LEMMA NextCandidate ==
  ASSUME TypeInv, IdInv, NEW pending \in SUBSET Stored, pending # {}
  PROVE  (CHOOSE x \in pending : \A y \in pending : row[y].id <= row[x].id) \in pending
<1> DEFINE ids == {row[v].id : v \in pending}
<1>1. ids \in SUBSET Nat /\ ids # {} /\ \A n \in ids : n <= Cardinality(Stored)
  BY IdFacts
<1>2. PICK n \in ids : \A m \in ids : m <= n
  BY <1>1, IdFacts, GreatestNat
<1>3. PICK x \in pending : row[x].id = n
  OBVIOUS
<1>4. \E z \in pending : \A y \in pending : row[y].id <= row[z].id
  BY <1>2, <1>3
<1> QED
  BY <1>4

\* No more candidates are chosen than the limit allows.
LEMMA NewestIsBounded ==
  ASSUME TypeInv, IdInv, NEW C \in SUBSET Stored
  PROVE  /\ Newest(C) \subseteq C
         /\ Cardinality(Newest(C)) <= MaxAnalyses
<1> DEFINE N == Newest(C)
<1>1. N \subseteq C /\ C \subseteq Vacancies
  BY DEF Newest, Stored
<1>2. MaxAnalyses \in Nat /\ MaxAnalyses > 0
  BY SearchAssumption
<1>3. CASE N = {}
  BY <1>1, <1>2, <1>3, FS_EmptySet
<1>4. CASE N # {}
  <2> DEFINE ids == {row[v].id : v \in N}
  <2>1. ids \in SUBSET Nat /\ ids # {}
    BY <1>1, <1>4, IdFacts
  <2>2. PICK n \in ids : \A m \in ids : n <= m
    BY <2>1, LeastNat
  <2>3. PICK v \in N : row[v].id = n
    OBVIOUS
  <2> DEFINE newer == {w \in C : row[w].id > row[v].id}
  <2>4. ASSUME NEW w \in N \ {v} PROVE w \in newer
    <3>1. row[w].id \in Nat /\ row[v].id \in Nat
      BY <1>1, IdFacts
    <3>2. row[w].id # row[v].id
      BY <1>1 DEF IdInv
    <3>3. row[v].id <= row[w].id
      BY <2>2, <2>3
    <3> QED
      BY <1>1, <3>1, <3>2, <3>3
  <2>5. Cardinality(newer) < MaxAnalyses
    BY <2>3 DEF Newest
  <2>6. IsFiniteSet(newer) /\ Cardinality(newer) \in Nat
        /\ IsFiniteSet(N) /\ Cardinality(N) \in Nat
    BY <1>1, FiniteParts
  <2>7. N \ {v} \in SUBSET newer
    BY <2>4
  <2>8. Cardinality(N \ {v}) <= Cardinality(newer)
    BY <2>6, <2>7, FS_Subset
  <2>9. Cardinality(N \ {v}) = Cardinality(N) - 1
    BY <2>3, <2>6, FS_RemoveElement
  <2> QED
    BY <1>1, <1>2, <2>5, <2>6, <2>8, <2>9
<1> QED
  BY <1>3, <1>4

-----------------------------------------------------------------------------
(* The searches that do not run *)

\* A search that takes no part in a step keeps its order, unless its rows and
\* analyses change under it.
LEMMA OtherSearch ==
  ASSUME IInv, NEW q \in Searches,
         run'[q] = run[q], worker'[q] = worker[q],
         \A v \in Vacancies : row[v].version # None => row'[v].version # None,
         ~Undisturbed(q) \/ UNCHANGED <<row, analysis, config>>
  PROVE  RunInv(q)'
<1>1. run[q] \in RunStates /\ RunInv(q)
  BY DEF IInv, TypeInv, SearchInv
<1>2. HasPool(q)' = HasPool(q) /\ Undisturbed(q)' = Undisturbed(q)
  BY DEF HasPool, Undisturbed
<1>3. ~HasPool(q) => QuietInv(run[q])'
  BY <1>1 DEF RunInv, QuietInv
<1>4. HasPool(q) => SpendInv(run[q], worker[q])'
  <2> SUFFICES ASSUME HasPool(q) PROVE SpendInv(run[q], worker[q])'
    OBVIOUS
  <2>1. /\ PendingInv(run[q]) /\ TakenInv(run[q], worker[q]) /\ AskedInv(run[q])
        /\ RefusalInv(run[q], worker[q]) /\ (run[q].stop => run[q].failed)
    BY <1>1 DEF RunInv, SpendInv
  <2>2. run[q].pending \subseteq Vacancies
    BY <1>1 DEF RunStates
  <2>3. PendingInv(run[q])'
    BY <2>1, <2>2 DEF PendingInv
  <2>4. TakenInv(run[q], worker[q])' /\ AskedInv(run[q])' /\ RefusalInv(run[q], worker[q])'
    BY <2>1 DEF TakenInv, Busy, AskedInv, RefusalInv, Askers
  <2> QED
    BY <2>1, <2>3, <2>4 DEF SpendInv
<1>5. Undisturbed(q) => KeepsInv(run[q], worker[q])'
  <2> SUFFICES ASSUME Undisturbed(q) PROVE KeepsInv(run[q], worker[q])'
    OBVIOUS
  <2>1. FreshInv(run[q], worker[q]) /\ CompleteInv(run[q], worker[q])
    BY <1>1 DEF RunInv, KeepsInv
  <2>2. FreshInv(run[q], worker[q])'
    BY <2>1 DEF FreshInv, Busy, Current
  <2>3. CompleteInv(run[q], worker[q])'
    BY <2>1 DEF CompleteInv, Busy, Current
  <2> QED
    BY <2>2, <2>3 DEF KeepsInv
<1> QED
  BY <1>2, <1>3, <1>4, <1>5 DEF RunInv

\* A step of a search that runs, or of what it left behind.
LEMMA OneSearch ==
  ASSUME IInv, NEW s \in Searches, run[s].phase # "idle",
         TypeInv', IdInv', waiting' = waiting,
         \A q \in Searches : q # s => run'[q] = run[q] /\ worker'[q] = worker[q],
         \A v \in Vacancies : row[v].version # None => row'[v].version # None,
         lock # s => lock' = lock,
         run'[s].phase \notin {"idle", "abandoned"} => lock' = s,
         (~HasPool(s) => WorkersDone(s))',
         Undisturbed(s)' =>
           Undisturbed(s) \/ \A q \in Searches : q # s => run[q].phase = "idle",
         RunInv(s)'
  PROVE  IInv'
<1>1. \A q \in Searches : q # s => ~Undisturbed(q)
  BY DEF IInv, AloneInv
<1>2. ASSUME NEW q \in Searches, q # s
      PROVE  /\ run'[q] = run[q] /\ worker'[q] = worker[q]
             /\ HasPool(q)' = HasPool(q) /\ Undisturbed(q)' = Undisturbed(q)
             /\ WorkersDone(q)' = WorkersDone(q)
  BY <1>2 DEF HasPool, Undisturbed, WorkersDone
<1>3. LockInv'
  <2> SUFFICES ASSUME NEW q \in Searches
               PROVE  /\ run'[q].phase \notin {"idle", "abandoned"} => lock' = q
                      /\ q \in waiting' => run'[q].phase = "idle"
                      /\ (~HasPool(q) => WorkersDone(q))'
    BY DEF LockInv
  <2>1. CASE q = s
    BY <2>1 DEF IInv, LockInv
  <2>2. CASE q # s
    <3>1. run[q].phase \notin {"idle", "abandoned"} => lock = q
      BY DEF IInv, LockInv
    <3> QED
      BY <1>2, <2>2, <3>1 DEF IInv, LockInv
  <2> QED
    BY <2>1, <2>2
<1>4. AloneInv'
  <2> SUFFICES ASSUME NEW p \in Searches, NEW q \in Searches, Undisturbed(p)', q # p
               PROVE  run'[q].phase = "idle"
    BY DEF AloneInv
  <2>1. p = s
    BY <1>1, <1>2
  <2>2. run[q].phase = "idle"
    BY <2>1 DEF IInv, AloneInv
  <2> QED
    BY <1>2, <2>1, <2>2
<1>5. SearchInv'
  <2> SUFFICES ASSUME NEW q \in Searches PROVE RunInv(q)'
    BY DEF SearchInv
  <2>1. CASE q # s
    BY <1>1, <1>2, <2>1, OtherSearch
  <2> QED
    BY <2>1
<1> QED
  BY <1>3, <1>4, <1>5 DEF IInv

LEMMA IdleStates ==
  /\ IdleRun \in RunStates
  /\ IdleRun.phase = "idle"
  /\ QuietInv(IdleRun)
  /\ Idle \in WorkerStates /\ Idle.at = "done"
<1>1. [v \in Vacancies |-> None] \in [Vacancies -> Content]
      /\ [v \in Vacancies |-> 0] \in [Vacancies -> 0..2]
  BY DEF Content
<1>2. IdleRun \in RunStates
  BY <1>1 DEF IdleRun, RunStates
<1>3. QuietInv(IdleRun) /\ IdleRun.phase = "idle"
  BY DEF IdleRun, QuietInv
<1>4. Idle \in WorkerStates /\ Idle.at = "done"
  BY DEF Idle, WorkerStates
<1> QED
  BY <1>2, <1>3, <1>4

\* Only what the model does not relate to the searches changes.
LEMMA QuietStep ==
  ASSUME IInv, TypeInv', UNCHANGED <<row, analysis, config, lock, run, worker>>,
         \A s \in waiting' : s \in waiting \/ run[s].phase = "idle"
  PROVE  IInv'
<1>1. IdInv' /\ LockInv' /\ AloneInv'
  BY DEF IInv, IdInv, Stored, LockInv, AloneInv, HasPool, WorkersDone, Undisturbed
<1>2. SearchInv'
  BY OtherSearch DEF SearchInv
<1> QED
  BY <1>1, <1>2 DEF IInv

-----------------------------------------------------------------------------
(* The steps of a search before its pool *)

LEMMA RequestStep ==
  ASSUME IInv, NEW s \in Searches, RequestSearch(s)
  PROVE  IInv'
<1>1. TypeInv' /\ \A q \in waiting' : q \in waiting \/ run[q].phase = "idle"
  BY DEF IInv, TypeInv, RequestSearch
<1> QED
  BY <1>1, QuietStep DEF RequestSearch

LEMMA EnterStep ==
  ASSUME IInv, NEW s \in Searches, EnterSearch(s)
  PROVE  IInv'
<1> DEFINE r == [IdleRun EXCEPT !.phase = "querying"]
<1>1. /\ lock = None /\ lock' = s
      /\ run' = [run EXCEPT ![s] = r]
      /\ waiting' = waiting \ {s}
      /\ UNCHANGED <<row, analysis, config, worker>>
  BY DEF EnterSearch, LockFree, Advance
<1>2. r \in RunStates /\ r.phase = "querying" /\ QuietInv(r)
  BY IdleStates DEF RunStates, IdleRun, QuietInv
<1>3. TypeInv' /\ run'[s] = r /\ \A q \in Searches : q # s => run'[q] = run[q]
  BY <1>1, <1>2 DEF IInv, TypeInv
<1>4. \A q \in Searches : run[q].phase \in {"idle", "abandoned"}
  BY <1>1, SearchAssumption DEF IInv, LockInv
<1>5. run[s].phase = "idle"
  BY DEF EnterSearch, IInv, LockInv
<1>6. /\ ~HasPool(s)' /\ ~Undisturbed(s)' /\ WorkersDone(s)'
      /\ \A q \in Searches : ~Undisturbed(q)
  <2>1. run'[s].phase = "querying"
    BY <1>2, <1>3
  <2>2. WorkersDone(s)'
    BY <1>1, <1>5 DEF IInv, LockInv, HasPool, WorkersDone
  <2> QED
    BY <1>4, <2>1, <2>2 DEF HasPool, Undisturbed
<1>7. LockInv'
  <2> SUFFICES ASSUME NEW q \in Searches
               PROVE  /\ run'[q].phase \notin {"idle", "abandoned"} => lock' = q
                      /\ q \in waiting' => run'[q].phase = "idle"
                      /\ (~HasPool(q) => WorkersDone(q))'
    BY DEF LockInv
  <2>1. CASE q = s
    BY <1>1, <1>6, <2>1
  <2>2. CASE q # s
    BY <1>1, <1>3, <1>4, <2>2 DEF IInv, LockInv, HasPool, WorkersDone
  <2> QED
    BY <2>1, <2>2
<1>8. \A q \in Searches : ~Undisturbed(q)'
  <2> SUFFICES ASSUME NEW q \in Searches PROVE ~Undisturbed(q)'
    OBVIOUS
  <2>1. CASE q # s
    BY <1>3, <1>6, <2>1 DEF Undisturbed
  <2> QED
    BY <1>6, <2>1
<1>9. AloneInv' /\ IdInv'
  BY <1>1, <1>8 DEF AloneInv, IInv, IdInv, Stored
<1>10. SearchInv'
  <2> SUFFICES ASSUME NEW q \in Searches PROVE RunInv(q)'
    BY DEF SearchInv
  <2>1. CASE q = s
    <3>1. run'[q] = r
      BY <1>3, <2>1
    <3> HIDE DEF r
    <3>2. QuietInv(run[q])'
      BY <1>2, <3>1 DEF QuietInv
    <3> QED
      BY <1>6, <2>1, <3>2 DEF RunInv
  <2>2. CASE q # s
    BY <1>1, <1>3, <2>2, OtherSearch
  <2> QED
    BY <2>1, <2>2
<1> QED
  BY <1>3, <1>7, <1>9, <1>10 DEF IInv

\* A step of the running search that is not ranking yet.
LEMMA EarlyStep ==
  ASSUME IInv, NEW s \in Searches, run[s].phase \in {"querying", "fetching"},
         NEW r \in RunStates, run' = [run EXCEPT ![s] = r],
         r.phase \in {"idle", "querying", "fetching"}, QuietInv(r),
         r.phase = "idle" \/ lock' = lock,
         \A v \in Vacancies : row[v].version # None => row'[v].version # None,
         TypeInv', IdInv', UNCHANGED <<waiting, worker>>
  PROVE  IInv'
<1>1. run'[s] = r /\ \A q \in Searches : q # s => run'[q] = run[q]
  BY DEF IInv, TypeInv
<1>2. lock = s /\ WorkersDone(s)
  BY DEF IInv, LockInv, HasPool
<1>3. ~HasPool(s)' /\ ~Undisturbed(s)' /\ WorkersDone(s)'
  BY <1>1, <1>2 DEF HasPool, Undisturbed, WorkersDone
<1>4. QuietInv(run[s])'
  BY <1>1 DEF QuietInv
<1>5. RunInv(s)'
  BY <1>3, <1>4 DEF RunInv
<1> QED
  BY <1>1, <1>2, <1>3, <1>5, OneSearch

\* Ending a search frees search_lock if it still had it.
LEMMA FinishedRun ==
  ASSUME IInv, NEW s \in Searches, Finish(s)
  PROVE  /\ run' = [run EXCEPT ![s] = IdleRun]
         /\ lock' \in Searches \cup {None}
         /\ lock # s => lock' = lock
  BY DEF Finish, FreeLock, Advance, IInv, TypeInv

LEMMA SearchFailsStep ==
  ASSUME IInv, NEW s \in Searches, SearchFails(s)
  PROVE  IInv'
<1>1. /\ run[s].phase \in {"querying", "fetching"} /\ Finish(s)
      /\ UNCHANGED <<row, analysis, config, waiting, worker>>
  BY DEF SearchFails
<1>2. run' = [run EXCEPT ![s] = IdleRun] /\ lock' \in Searches \cup {None}
  BY <1>1, FinishedRun
<1>3. TypeInv' /\ IdInv'
  BY <1>1, <1>2, IdleStates DEF IInv, TypeInv, IdInv, Stored
<1> QED
  BY <1>1, <1>2, <1>3, IdleStates, EarlyStep

LEMMA QueryStep ==
  ASSUME IInv, NEW s \in Searches, NEW items \in SUBSET Vacancies, Query(s, items)
  PROVE  IInv'
<1>1. /\ run[s] \in RunStates /\ QuietInv(run[s]) /\ run[s].phase = "querying"
      /\ UNCHANGED <<row, analysis, config, lock, waiting, worker>>
  BY DEF IInv, TypeInv, SearchInv, RunInv, HasPool, Query
<1>2. PICK r \in RunStates : /\ r.phase = "querying" /\ QuietInv(r)
                             /\ run' = [run EXCEPT ![s] = r]
  <2> DEFINE r == [run[s] EXCEPT !.found = @ \cup items]
  <2>1. r \in RunStates /\ r.phase = "querying" /\ QuietInv(r)
    BY <1>1 DEF RunStates, QuietInv
  <2>2. run' = [run EXCEPT ![s] = r]
    BY DEF Query, Advance
  <2> QED
    BY <2>1, <2>2
<1>3. TypeInv' /\ IdInv'
  BY <1>1, <1>2 DEF IInv, TypeInv, IdInv, Stored
<1> QED
  BY <1>1, <1>2, <1>3, EarlyStep

LEMMA StopQueryingStep ==
  ASSUME IInv, NEW s \in Searches, StopQuerying(s)
  PROVE  IInv'
<1> DEFINE known == {v \in run[s].found : row[v].version # None}
<1>1. /\ run[s] \in RunStates /\ QuietInv(run[s]) /\ run[s].phase = "querying"
      /\ UNCHANGED <<row, analysis, config, waiting, worker>>
  BY DEF IInv, TypeInv, SearchInv, RunInv, HasPool, StopQuerying
<1>2. CASE Finish(s)
  <2>1. run' = [run EXCEPT ![s] = IdleRun] /\ lock' \in Searches \cup {None}
    BY <1>2, FinishedRun
  <2>2. TypeInv' /\ IdInv'
    BY <1>1, <2>1, IdleStates DEF IInv, TypeInv, IdInv, Stored
  <2> QED
    BY <1>1, <2>1, <2>2, IdleStates, EarlyStep
<1>3. ASSUME NEW aged \in SUBSET known, UNCHANGED lock,
             Advance(s, [run[s] EXCEPT !.phase = "fetching",
                                       !.todo = (run[s].found \ known) \cup aged])
      PROVE  IInv'
  <2>1. PICK r \in RunStates : /\ r.phase = "fetching" /\ QuietInv(r)
                               /\ run' = [run EXCEPT ![s] = r]
    <3> DEFINE todo == (run[s].found \ known) \cup aged
               r == [run[s] EXCEPT !.phase = "fetching", !.todo = todo]
    <3>1. todo \in SUBSET Vacancies
      BY <1>1 DEF RunStates
    <3>2. run' = [run EXCEPT ![s] = r]
      BY <1>3 DEF Advance
    <3> HIDE DEF todo
    <3>3. r \in RunStates /\ r.phase = "fetching" /\ QuietInv(r)
      BY <1>1, <3>1 DEF RunStates, QuietInv
    <3> QED
      BY <3>2, <3>3
  <2>2. TypeInv' /\ IdInv'
    BY <1>1, <1>3, <2>1 DEF IInv, TypeInv, IdInv, Stored
  <2> QED
    BY <1>1, <1>3, <2>1, <2>2, EarlyStep
<1> QED
  BY <1>2, <1>3 DEF StopQuerying

\* What create_if_new stores keeps the numbers apart.
LEMMA StoreKeepsIds ==
  ASSUME TypeInv, IdInv, NEW v \in Vacancies, NEW version \in Versions,
         row' = [row EXCEPT ![v] = Store(@, version)]
  PROVE  /\ row' \in [Vacancies -> Rows] /\ IdInv'
         /\ \A x \in Vacancies : row[x].version # None => row'[x].version # None
<1>1. version # None /\ version \in Content
  BY SearchAssumption DEF Content
<1>2. row[v] \in Rows
  BY DEF TypeInv
<1>3. /\ IsFiniteSet(Stored) /\ Cardinality(Stored) \in Nat
      /\ Stored \in SUBSET Vacancies
      /\ \A x \in Stored : row[x].id \in Nat /\ row[x].id <= Cardinality(Stored)
  BY IdFacts, FiniteParts
<1>4. Store(row[v], version) \in Rows /\ Store(row[v], version).version = version
  <2>1. {x \in Vacancies : row[x].version # None} = Stored
    BY DEF Stored
  <2>2. CASE row[v].version = None
    <3>1. Store(row[v], version) =
            [version |-> version, id |-> 1 + Cardinality(Stored)]
      BY <2>1, <2>2 DEF Store
    <3>2. 1 + Cardinality(Stored) \in Nat
      BY <1>3
    <3> QED
      BY <1>1, <3>1, <3>2 DEF Rows
  <2>3. CASE row[v].version # None
    <3>1. Store(row[v], version) = [row[v] EXCEPT !.version = version]
      BY <2>3 DEF Store
    <3> QED
      BY <1>1, <1>2, <3>1 DEF Rows
  <2> QED
    BY <2>2, <2>3
<1>5. row' \in [Vacancies -> Rows] /\ row'[v] = Store(row[v], version)
      /\ \A x \in Vacancies : x # v => row'[x] = row[x]
  BY <1>4 DEF TypeInv
<1>6. Stored' = Stored \cup {v}
  BY <1>1, <1>4, <1>5 DEF Stored
<1>7. CASE row[v].version # None
  <2>1. Store(row[v], version).id = row[v].id
    <3>1. Store(row[v], version) = [row[v] EXCEPT !.version = version]
      BY <1>7 DEF Store
    <3> QED
      BY <1>2, <3>1 DEF Rows
  <2>2. Stored' = Stored /\ \A x \in Stored : row'[x].id = row[x].id
    BY <1>5, <1>6, <1>7, <2>1 DEF Stored
  <2>3. IdInv'
    BY <2>2 DEF IdInv
  <2> QED
    BY <1>1, <1>4, <1>5, <2>3
<1>8. CASE row[v].version = None
  <2>1. v \notin Stored
    BY <1>8 DEF Stored
  <2>2. Cardinality(Stored') = Cardinality(Stored) + 1
    BY <1>3, <1>6, <2>1, FS_AddElement
  <2>3. row'[v].id = Cardinality(Stored) + 1
    BY <1>3, <1>5, <1>8 DEF Store, Stored
  <2>4. \A x \in Stored : row'[x].id = row[x].id
    BY <1>3, <1>5, <2>1
  <2>5. \A x \in Stored : row[x].id \in 1..Cardinality(Stored)
    BY DEF IdInv
  <2>6. \A x \in Stored' : row'[x].id \in 1..Cardinality(Stored')
    BY <1>3, <1>6, <2>2, <2>3, <2>4, <2>5
  <2>7. \A x, y \in Stored' : row'[x].id = row'[y].id => x = y
    BY <1>3, <1>6, <2>3, <2>4, <2>5 DEF IdInv
  <2>8. IdInv'
    BY <2>6, <2>7 DEF IdInv
  <2> QED
    BY <1>1, <1>4, <1>5, <2>8
<1> QED
  BY <1>7, <1>8

LEMMA FetchStep ==
  ASSUME IInv, NEW s \in Searches, NEW v \in Vacancies, Fetch(s, v)
  PROVE  IInv'
<1>1. /\ run[s] \in RunStates /\ QuietInv(run[s]) /\ run[s].phase = "fetching"
      /\ UNCHANGED <<analysis, config, lock, waiting, worker>>
  BY DEF IInv, TypeInv, SearchInv, RunInv, HasPool, Fetch
<1>2. PICK r \in RunStates : /\ r.phase = "fetching" /\ QuietInv(r)
                             /\ run' = [run EXCEPT ![s] = r]
  <2> DEFINE r == [run[s] EXCEPT !.todo = @ \ {v}]
  <2>1. r \in RunStates /\ r.phase = "fetching" /\ QuietInv(r)
    BY <1>1 DEF RunStates, QuietInv
  <2> QED
    BY <2>1 DEF Fetch, Advance
<1>3. /\ row' \in [Vacancies -> Rows] /\ IdInv'
      /\ \A x \in Vacancies : row[x].version # None => row'[x].version # None
  <2>1. CASE UNCHANGED row
    BY <2>1 DEF IInv, TypeInv, IdInv, Stored
  <2>2. CASE \E version \in Versions : row' = [row EXCEPT ![v] = Store(@, version)]
    BY <2>2, StoreKeepsIds DEF IInv
  <2> QED
    BY <2>1, <2>2 DEF Fetch
<1>4. TypeInv'
  BY <1>1, <1>2, <1>3 DEF IInv, TypeInv
<1> QED
  BY <1>1, <1>2, <1>3, <1>4, EarlyStep

LEMMA ChooseStep ==
  ASSUME IInv, NEW s \in Searches, Choose(s)
  PROVE  IInv'
<1> DEFINE candidates == {v \in run[s].found : NeedsAnalysis(v)}
           chosen == Newest(candidates)
           loaded == [v \in Vacancies |-> IF v \in chosen THEN row[v].version ELSE None]
           beside == \E q \in Searches \ {s} : run[q].phase = "abandoned"
           ws == [w \in Workers |-> [Idle EXCEPT !.at = "ready"]]
<1>1. /\ run[s] \in RunStates /\ QuietInv(run[s]) /\ run[s].phase = "fetching"
      /\ UNCHANGED <<row, analysis, config, lock, waiting>>
      /\ worker' = [worker EXCEPT ![s] = ws]
  BY DEF IInv, TypeInv, SearchInv, RunInv, HasPool, Choose
<1>2. candidates \in SUBSET Stored
  BY <1>1, SearchAssumption DEF NeedsAnalysis, Stored, RunStates
<1>3. chosen \subseteq candidates /\ Cardinality(chosen) <= MaxAnalyses
  BY <1>2, NewestIsBounded DEF IInv
<1>4. /\ candidates \subseteq Vacancies
      /\ \A v \in chosen : /\ row[v].version \in Relevant
                           /\ row[v].version # None
                           /\ ~Current(v)
  BY <1>2, <1>3, SearchAssumption DEF NeedsAnalysis, Stored
<1>5. loaded \in [Vacancies -> Content]
  BY DEF IInv, TypeInv, Rows, Content
<1>6. PICK r \in RunStates : /\ r.phase = "ranking" /\ QuietInv(r)
                             /\ r.loaded = loaded /\ r.pending = chosen
                             /\ r.found = run[s].found
                             /\ r.cut = (chosen # candidates)
                             /\ r.beside = beside
                             /\ run' = [run EXCEPT ![s] = r]
  <2> DEFINE r == [run[s] EXCEPT !.phase = "ranking", !.loaded = loaded,
                                 !.pending = chosen, !.cut = chosen # candidates,
                                 !.beside = beside]
  <2>1. chosen \in SUBSET Vacancies /\ (chosen # candidates) \in BOOLEAN
        /\ beside \in BOOLEAN
    BY <1>3, <1>4
  <2>2. run' = [run EXCEPT ![s] = r]
    BY DEF Choose, Advance
  <2> HIDE DEF candidates, chosen, loaded, beside
  <2>3. r \in RunStates /\ r.phase = "ranking" /\ QuietInv(r)
        /\ r.loaded = loaded /\ r.pending = chosen /\ r.found = run[s].found
        /\ r.cut = (chosen # candidates) /\ r.beside = beside
    BY <1>1, <1>5, <2>1 DEF RunStates, QuietInv
  <2> QED
    BY <2>2, <2>3
<1>7. /\ \A w \in Workers : ws[w] \in WorkerStates /\ ws[w].at = "ready"
      /\ ws \in [Workers -> WorkerStates]
  BY IdleStates DEF WorkerStates, Idle
<1> HIDE DEF ws
<1>8. /\ run'[s] = r /\ worker'[s] = ws
      /\ \A q \in Searches : q # s => run'[q] = run[q] /\ worker'[q] = worker[q]
  BY <1>1, <1>6 DEF IInv, TypeInv
<1>9. TypeInv' /\ IdInv'
  BY <1>1, <1>6, <1>7 DEF IInv, TypeInv, IdInv, Stored
<1>10. \A v \in Vacancies : Current(v)' <=> Current(v)
  BY <1>1 DEF Current
<1>11. \A v \in Vacancies : r.loaded[v] = IF v \in chosen THEN row[v].version ELSE None
  BY <1>6
<1> HIDE DEF loaded
<1>12. PendingInv(run[s])'
  BY <1>1, <1>3, <1>4, <1>6, <1>8, <1>11 DEF PendingInv, QuietInv
<1>13. TakenInv(run[s], worker[s])'
  BY <1>7, <1>8 DEF TakenInv, Busy
<1>14. AskedInv(run[s])'
  <2> HIDE DEF candidates, chosen
  <2>1. {v \in Vacancies : r.loaded[v] # None} = chosen
    BY <1>3, <1>4, <1>11
  <2>2. \A v \in Vacancies : r.asked[v] = 0
    BY <1>6 DEF QuietInv
  <2>3. Cardinality({v \in Vacancies : r.loaded[v] # None}) <= MaxAnalyses
    BY <1>3, <2>1
  <2>4. AskedInv(r)
    BY <2>2, <2>3 DEF AskedInv
  <2> QED
    BY <1>8, <2>4 DEF AskedInv
<1>15. SpendInv(run[s], worker[s])'
  <2>1. RefusalInv(run[s], worker[s])' /\ ~run'[s].stop
    BY <1>6, <1>8 DEF RefusalInv, QuietInv
  <2> QED
    BY <1>12, <1>13, <1>14, <2>1 DEF SpendInv
<1>16. FreshInv(run[s], worker[s])'
  <2>1. \A v \in r.pending : r.loaded[v] = row[v].version /\ ~Current(v) /\ v \in Vacancies
    BY <1>3, <1>4, <1>6, <1>11
  <2>2. \A w \in Workers : ~Busy(ws, w)
    BY <1>7 DEF Busy
  <2> QED
    BY <1>1, <1>8, <1>10, <2>1, <2>2 DEF FreshInv, Busy
<1>17. CompleteInv(run[s], worker[s])'
  <2>1. ~r.cut => \A v \in r.found : row[v].version \in Relevant =>
                    Current(v) \/ v \in r.pending
    BY <1>6 DEF NeedsAnalysis
  <2>2. \A v \in r.found : v \in Vacancies
    BY <1>6 DEF RunStates
  <2> QED
    BY <1>1, <1>6, <1>7, <1>8, <1>10, <2>1, <2>2 DEF CompleteInv
<1>18. HasPool(s)' /\ RunInv(s)'
  <2>1. HasPool(s)'
    BY <1>6, <1>8 DEF HasPool
  <2> QED
    BY <1>15, <1>16, <1>17, <2>1 DEF RunInv, KeepsInv
<1>19. lock = s
  BY <1>1 DEF IInv, LockInv
<1>20. ASSUME Undisturbed(s)', NEW q \in Searches, q # s
       PROVE  run[q].phase = "idle"
  <2>1. ~beside
    BY <1>6, <1>8, <1>20 DEF Undisturbed
  <2>2. run[q].phase # "abandoned"
    BY <1>20, <2>1
  <2> QED
    BY <1>19, <1>20, <2>2 DEF IInv, LockInv
<1> HIDE DEF beside
<1> QED
  BY <1>1, <1>8, <1>9, <1>18, <1>19, <1>20, OneSearch

-----------------------------------------------------------------------------
(* The pool *)

\* One worker moves on and the pool is again in order.
LEMMA PoolStep ==
  ASSUME IInv, NEW s \in Searches, NEW w \in Workers, HasPool(s),
         NEW r \in RunStates, run' = [run EXCEPT ![s] = r],
         r.phase = run[s].phase, r.beside = run[s].beside,
         NEW k \in WorkerStates, worker' = [worker EXCEPT ![s][w] = k],
         UNCHANGED <<row, config, lock, waiting>>,
         analysis' \in [Vacancies -> Results],
         SpendInv(run[s], worker[s])',
         Undisturbed(s) => KeepsInv(run[s], worker[s])'
  PROVE  IInv'
<1>1. TypeInv' /\ IdInv'
  BY DEF IInv, TypeInv, IdInv, Stored
<1>2. /\ run'[s] = r
      /\ \A q \in Searches : q # s => run'[q] = run[q] /\ worker'[q] = worker[q]
  BY DEF IInv, TypeInv
<1>3. HasPool(s)' /\ (Undisturbed(s)' <=> Undisturbed(s))
  BY <1>2 DEF HasPool, Undisturbed
<1>4. RunInv(s)'
  BY <1>3 DEF RunInv
<1>5. run'[s].phase \notin {"idle", "abandoned"} => lock' = s
  BY <1>2 DEF IInv, LockInv
<1>6. run[s].phase # "idle"
  BY DEF HasPool
<1> QED
  BY <1>1, <1>2, <1>3, <1>4, <1>5, <1>6, OneSearch

\* When a worker's request is over, one less is under way.
LEMMA FewerAskers ==
  ASSUME TypeInv, NEW s \in Searches, NEW w \in Workers, NEW k \in WorkerStates,
         k.at # "asking", worker' = [worker EXCEPT ![s][w] = k]
  PROVE  /\ Cardinality(Askers(worker'[s])) \in Nat
         /\ Cardinality(Askers(worker[s])) \in Nat
         /\ Cardinality(Askers(worker'[s])) <= Cardinality(Askers(worker[s]))
         /\ worker[s][w].at = "asking" =>
              Cardinality(Askers(worker'[s])) = Cardinality(Askers(worker[s])) - 1
<1>1. worker'[s] = [worker[s] EXCEPT ![w] = k] /\ worker[s] \in [Workers -> WorkerStates]
  BY DEF TypeInv
<1>2. Askers(worker'[s]) = Askers(worker[s]) \ {w}
  BY <1>1 DEF Askers
<1>3. Askers(worker[s]) \in SUBSET Workers /\ Askers(worker'[s]) \in SUBSET Workers
  BY DEF Askers
<1>4. IsFiniteSet(Askers(worker[s])) /\ Cardinality(Askers(worker[s])) \in Nat
      /\ Cardinality(Askers(worker'[s])) \in Nat
  BY <1>3, FiniteParts
<1>5. Cardinality(Askers(worker'[s])) =
        IF w \in Askers(worker[s]) THEN Cardinality(Askers(worker[s])) - 1
        ELSE Cardinality(Askers(worker[s]))
  BY <1>2, <1>4, FS_RemoveElement
<1>6. worker[s][w].at = "asking" => w \in Askers(worker[s])
  BY DEF Askers
<1> QED
  BY <1>4, <1>5, <1>6

\* What the workers may still ask for, after one that takes and stores nothing.
LEMMA SpendMoves ==
  ASSUME IInv, NEW s \in Searches, NEW w \in Workers, HasPool(s),
         NEW r \in RunStates, run' = [run EXCEPT ![s] = r],
         NEW k \in WorkerStates, worker' = [worker EXCEPT ![s][w] = k],
         UNCHANGED row,
         r.pending = run[s].pending, r.loaded = run[s].loaded, r.asked = run[s].asked,
         k.at \in {"asking", "saving"} =>
           worker[s][w].at \in {"asking", "saving"} /\ k.vac = worker[s][w].vac,
         r.stop => r.failed,
         RefusalInv(run[s], worker[s])'
  PROVE  SpendInv(run[s], worker[s])'
<1>1. run'[s] = r
  BY DEF IInv, TypeInv
<1>2. worker'[s] = [worker[s] EXCEPT ![w] = k] /\ worker[s] \in [Workers -> WorkerStates]
  BY DEF IInv, TypeInv
<1>3. worker'[s][w] = k /\ \A x \in Workers : x # w => worker'[s][x] = worker[s][x]
  BY <1>2
<1>4. PendingInv(run[s]) /\ TakenInv(run[s], worker[s]) /\ AskedInv(run[s])
  BY DEF IInv, SearchInv, RunInv, SpendInv
<1>5. PendingInv(run[s])' /\ AskedInv(run[s])'
  BY <1>1, <1>4 DEF PendingInv, AskedInv
<1>6. TakenInv(run[s], worker[s])'
  <2> SUFFICES ASSUME NEW x \in Workers, worker'[s][x].at \in {"asking", "saving"}
               PROVE  /\ worker'[s][x].vac \in Vacancies
                      /\ worker'[s][x].vac \notin r.pending
    BY <1>1 DEF TakenInv, Busy
  <2>1. worker[s][x].at \in {"asking", "saving"} /\ worker'[s][x].vac = worker[s][x].vac
    BY <1>3
  <2> QED
    BY <1>4, <2>1 DEF TakenInv, Busy
<1> QED
  BY <1>1, <1>5, <1>6 DEF SpendInv

\* A step of a worker that takes and stores nothing.
LEMMA WorkerMoves ==
  ASSUME IInv, NEW s \in Searches, NEW w \in Workers, HasPool(s),
         NEW r \in RunStates, run' = [run EXCEPT ![s] = r],
         r.phase = run[s].phase, r.beside = run[s].beside,
         NEW k \in WorkerStates, worker' = [worker EXCEPT ![s][w] = k],
         UNCHANGED <<row, analysis, config, lock, waiting>>,
         r.pending = run[s].pending, r.loaded = run[s].loaded, r.asked = run[s].asked,
         r.found = run[s].found, r.cut = run[s].cut,
         k.at \in {"asking", "saving"} =>
           worker[s][w].at \in {"asking", "saving"} /\ k.vac = worker[s][w].vac,
         run[s].failed => r.failed,
         run[s].stop => r.stop,
         r.stop => r.failed,
         k.at = "done" => r.stop \/ r.pending = {},
         worker[s][w].at \in {"asking", "saving"} =>
           r.failed \/ (k.at \in {"asking", "saving"} /\ k.vac = worker[s][w].vac),
         RefusalInv(run[s], worker[s])'
  PROVE  IInv'
<1>1. run'[s] = r
  BY DEF IInv, TypeInv
<1>2. worker'[s] = [worker[s] EXCEPT ![w] = k] /\ worker[s] \in [Workers -> WorkerStates]
  BY DEF IInv, TypeInv
<1>3. worker'[s][w] = k /\ \A x \in Workers : x # w => worker'[s][x] = worker[s][x]
  BY <1>2
<1>4. \A v \in Vacancies : Current(v)' <=> Current(v)
  BY DEF Current
<1>5. r.pending \subseteq Vacancies /\ r.found \subseteq Vacancies
  BY DEF RunStates
<1>6. SpendInv(run[s], worker[s])'
  BY SpendMoves
<1>7. ASSUME Undisturbed(s) PROVE KeepsInv(run[s], worker[s])'
  <2>1. FreshInv(run[s], worker[s]) /\ CompleteInv(run[s], worker[s])
    BY <1>7 DEF IInv, SearchInv, RunInv, KeepsInv
  <2>2. FreshInv(run[s], worker[s])'
    <3>1. ASSUME NEW v \in r.pending PROVE r.loaded[v] = row[v].version /\ ~Current(v)'
      BY <1>4, <1>5, <2>1 DEF FreshInv
    <3>2. ASSUME NEW x \in Workers, worker'[s][x].at \in {"asking", "saving"}
          PROVE  r.loaded[worker'[s][x].vac] = row[worker'[s][x].vac].version
      <4>1. worker[s][x].at \in {"asking", "saving"} /\ worker'[s][x].vac = worker[s][x].vac
        BY <1>3, <3>2
      <4> QED
        BY <2>1, <4>1 DEF FreshInv, Busy
    <3> QED
      BY <1>1, <3>1, <3>2 DEF FreshInv, Busy
  <2>3. \A x \in Workers : worker'[s][x].at = "done" => r.stop \/ r.pending = {}
    BY <1>3, <2>1 DEF CompleteInv
  <2>4. ASSUME ~r.failed, ~r.cut, NEW v \in r.found, row[v].version \in Relevant
        PROVE  \/ Current(v)'
               \/ v \in r.pending
               \/ \E x \in Workers : worker'[s][x].at \in {"asking", "saving"}
                                     /\ worker'[s][x].vac = v
    <3>1. \/ Current(v)
          \/ v \in r.pending
          \/ \E x \in Workers : worker[s][x].at \in {"asking", "saving"}
                                /\ worker[s][x].vac = v
      BY <2>1, <2>4 DEF CompleteInv, Busy
    <3>2. ASSUME NEW x \in Workers, worker[s][x].at \in {"asking", "saving"},
                 worker[s][x].vac = v
          PROVE  worker'[s][x].at \in {"asking", "saving"} /\ worker'[s][x].vac = v
      BY <1>3, <2>4, <3>2
    <3> QED
      BY <1>4, <1>5, <3>1, <3>2
  <2>5. CompleteInv(run[s], worker[s])'
    BY <1>1, <2>3, <2>4 DEF CompleteInv, Busy
  <2> QED
    BY <2>2, <2>5 DEF KeepsInv
<1>8. analysis' \in [Vacancies -> Results]
  BY DEF IInv, TypeInv
<1> QED
  BY <1>6, <1>7, <1>8, PoolStep

\* What is known of a search with a pool, for its workers' steps.
LEMMA PoolFacts ==
  ASSUME IInv, NEW s \in Searches, HasPool(s)
  PROVE  /\ run[s] \in RunStates
         /\ PendingInv(run[s]) /\ TakenInv(run[s], worker[s]) /\ AskedInv(run[s])
         /\ RefusalInv(run[s], worker[s]) /\ (run[s].stop => run[s].failed)
         /\ Undisturbed(s) =>
              FreshInv(run[s], worker[s]) /\ CompleteInv(run[s], worker[s])
BY DEF IInv, TypeInv, SearchInv, RunInv, SpendInv, KeepsInv

LEMMA WorkersRank ==
  ASSUME IInv, NEW s \in Searches, NEW w \in Workers, worker[s][w].at # "done"
  PROVE  HasPool(s) /\ worker[s][w] \in WorkerStates
BY DEF IInv, TypeInv, LockInv, WorkersDone

\* When the run's refusals stay, a worker that does not ask keeps them in order.
LEMMA RefusalsStay ==
  ASSUME IInv, NEW s \in Searches, NEW w \in Workers, HasPool(s),
         NEW r \in RunStates, run' = [run EXCEPT ![s] = r],
         NEW k \in WorkerStates, k.at # "asking",
         worker' = [worker EXCEPT ![s][w] = k],
         r.refusals = run[s].refusals, r.inFlight = run[s].inFlight,
         run[s].stop => r.stop
  PROVE  RefusalInv(run[s], worker[s])'
<1>1. run'[s] = r /\ run[s] \in RunStates /\ TypeInv
  BY DEF IInv, TypeInv
<1>2. RefusalInv(run[s], worker[s])
  BY PoolFacts
<1>3. /\ Cardinality(Askers(worker'[s])) \in Nat
      /\ Cardinality(Askers(worker[s])) \in Nat
      /\ Cardinality(Askers(worker'[s])) <= Cardinality(Askers(worker[s]))
  BY <1>1, FewerAskers
<1>4. run[s].refusals \in Nat /\ run[s].inFlight \in Nat
  BY <1>1 DEF RunStates
<1>5. \/ r.refusals = 0
      \/ r.stop /\ r.refusals + Cardinality(Askers(worker'[s])) <= r.inFlight
  BY <1>2, <1>3, <1>4 DEF RefusalInv
<1> QED
  BY <1>1, <1>5 DEF RefusalInv

LEMMA TakeStep ==
  ASSUME IInv, NEW s \in Searches, NEW w \in Workers, Take(s, w)
  PROVE  IInv'
<1> DEFINE pending == run[s].pending
           v == CHOOSE x \in pending : \A y \in pending : row[y].id <= row[x].id
<1>1. /\ HasPool(s) /\ worker[s][w].at = "ready"
      /\ UNCHANGED <<row, analysis, config, lock, waiting>>
  BY DEF Take
<1>2. /\ run[s] \in RunStates /\ PendingInv(run[s]) /\ TakenInv(run[s], worker[s])
      /\ AskedInv(run[s]) /\ RefusalInv(run[s], worker[s])
      /\ run[s].stop => run[s].failed
  BY <1>1, PoolFacts
<1>3. CASE /\ run[s].stop \/ pending = {}
           /\ Become(s, w, Idle)
           /\ UNCHANGED run
  <2>1. run' = [run EXCEPT ![s] = run[s]] /\ worker' = [worker EXCEPT ![s][w] = Idle]
    BY <1>3 DEF Become, IInv, TypeInv
  <2>2. RefusalInv(run[s], worker[s])'
    BY <1>1, <1>2, <2>1, IdleStates, RefusalsStay
  <2> QED
    BY <1>1, <1>2, <1>3, <2>1, <2>2, IdleStates, WorkerMoves
<1>4. CASE /\ ~run[s].stop /\ pending # {}
           /\ Become(s, w, [Idle EXCEPT !.at = "asking", !.vac = v])
           /\ Advance(s, [run[s] EXCEPT !.pending = @ \ {v},
                                        !.asked[v] = IF @ = 2 THEN 2 ELSE @ + 1])
  <2>1. pending \in SUBSET Stored
    BY <1>2 DEF PendingInv, Stored, RunStates
  <2>2. v \in pending
    BY <1>4, <2>1, NextCandidate DEF IInv
  <2>3. PICK u \in pending : u = v
    BY <2>2
  <2> HIDE DEF v
  <2>4. u \in Vacancies /\ run[s].asked[u] = 0 /\ run[s].loaded[u] # None
    BY <1>2 DEF PendingInv, RunStates
  <2>5. PICK r \in RunStates : /\ r.phase = run[s].phase /\ r.beside = run[s].beside
                               /\ r.pending = pending \ {u}
                               /\ r.asked = [run[s].asked EXCEPT ![u] = 1]
                               /\ r.loaded = run[s].loaded /\ r.found = run[s].found
                               /\ r.cut = run[s].cut /\ r.stop = run[s].stop
                               /\ r.failed = run[s].failed
                               /\ r.refusals = run[s].refusals
                               /\ run' = [run EXCEPT ![s] = r]
    <3> DEFINE asked == [run[s].asked EXCEPT ![u] = IF @ = 2 THEN 2 ELSE @ + 1]
               r == [run[s] EXCEPT !.pending = @ \ {u}, !.asked = asked]
    <3>1. asked = [run[s].asked EXCEPT ![u] = 1]
      BY <2>4
    <3>2. asked \in [Vacancies -> 0..2]
      BY <1>2, <3>1 DEF RunStates
    <3>3. run' = [run EXCEPT ![s] = r]
      BY <1>4, <2>3 DEF Advance
    <3> HIDE DEF asked
    <3>4. /\ r \in RunStates /\ r.phase = run[s].phase /\ r.beside = run[s].beside
          /\ r.pending = pending \ {u}
          /\ r.asked = asked /\ r.loaded = run[s].loaded /\ r.found = run[s].found
          /\ r.cut = run[s].cut /\ r.stop = run[s].stop /\ r.failed = run[s].failed
          /\ r.refusals = run[s].refusals
      BY <1>1, <1>2, <3>2 DEF RunStates
    <3> QED
      BY <3>1, <3>3, <3>4
  <2>6. PICK k \in WorkerStates : /\ k.at = "asking" /\ k.vac = u
                                  /\ worker' = [worker EXCEPT ![s][w] = k]
    <3> DEFINE k == [Idle EXCEPT !.at = "asking", !.vac = u]
    <3>1. k \in WorkerStates /\ k.at = "asking" /\ k.vac = u
      BY <2>4 DEF WorkerStates, Idle
    <3> QED
      BY <1>4, <2>3, <3>1 DEF Become
  <2>7. /\ run'[s] = r /\ worker'[s][w] = k
        /\ \A x \in Workers : x # w => worker'[s][x] = worker[s][x]
    <3>1. worker[s] \in [Workers -> WorkerStates] /\ worker'[s] = [worker[s] EXCEPT ![w] = k]
      BY <2>6 DEF IInv, TypeInv
    <3> QED
      BY <2>5, <3>1 DEF IInv, TypeInv
  <2>8. \A x \in Vacancies : Current(x)' <=> Current(x)
    BY <1>1 DEF Current
  <2>9. pending \subseteq Vacancies /\ r.found \subseteq Vacancies
        /\ run[s].asked \in [Vacancies -> 0..2]
    BY <1>2 DEF RunStates
  <2>10. PendingInv(run[s])'
    <3>1. \A x \in r.pending : r.asked[x] = run[s].asked[x] /\ x \in pending
      BY <2>5, <2>9
    <3>2. ASSUME NEW x \in r.pending
          PROVE  row'[x].version # None /\ r.loaded[x] # None /\ r.asked[x] = 0
      <4>1. row[x].version # None /\ run[s].loaded[x] # None /\ run[s].asked[x] = 0
        BY <1>2, <3>1 DEF PendingInv
      <4> QED
        BY <1>1, <2>5, <3>1, <4>1
    <3> QED
      BY <2>7, <3>2 DEF PendingInv
  <2>11. TakenInv(run[s], worker[s])'
    <3> SUFFICES ASSUME NEW x \in Workers, worker'[s][x].at \in {"asking", "saving"}
                 PROVE  /\ worker'[s][x].vac \in Vacancies
                        /\ worker'[s][x].vac \notin r.pending
      BY <1>1, <2>7 DEF TakenInv, Busy
    <3>1. CASE x = w
      BY <2>4, <2>5, <2>6, <2>7, <3>1
    <3>2. CASE x # w
      BY <1>2, <2>5, <2>7, <3>2 DEF TakenInv, Busy
    <3> QED
      BY <3>1, <3>2
  <2>12. AskedInv(run[s])'
    <3>1. \A x \in Vacancies : r.asked[x] = IF x = u THEN 1 ELSE run[s].asked[x]
      BY <2>5, <2>9
    <3>2. AskedInv(r)
      BY <1>2, <2>4, <2>5, <3>1 DEF AskedInv
    <3> QED
      BY <2>7, <3>2 DEF AskedInv
  <2>13. RefusalInv(run[s], worker[s])'
    BY <1>2, <1>4, <2>5, <2>7 DEF RefusalInv
  <2>14. SpendInv(run[s], worker[s])'
    BY <1>2, <2>5, <2>7, <2>10, <2>11, <2>12, <2>13 DEF SpendInv
  <2>15. ASSUME Undisturbed(s) PROVE KeepsInv(run[s], worker[s])'
    <3>1. FreshInv(run[s], worker[s]) /\ CompleteInv(run[s], worker[s])
      BY <1>1, <2>15, PoolFacts
    <3>2. ASSUME NEW x \in r.pending PROVE r.loaded[x] = row'[x].version /\ ~Current(x)'
      <4>1. x \in pending /\ x \in Vacancies
        BY <2>5, <2>9
      <4> QED
        BY <1>1, <2>5, <2>8, <3>1, <4>1 DEF FreshInv
    <3>3. ASSUME NEW x \in Workers, worker'[s][x].at \in {"asking", "saving"}
          PROVE  r.loaded[worker'[s][x].vac] = row'[worker'[s][x].vac].version
      <4>1. CASE x = w
        BY <1>1, <2>5, <2>6, <2>7, <3>1, <4>1 DEF FreshInv
      <4>2. CASE x # w
        BY <1>1, <2>5, <2>7, <3>1, <3>3, <4>2 DEF FreshInv, Busy
      <4> QED
        BY <4>1, <4>2
    <3>4. FreshInv(run[s], worker[s])'
      BY <2>7, <3>2, <3>3 DEF FreshInv, Busy
    <3>5. \A x \in Workers : worker'[s][x].at = "done" => r.stop \/ r.pending = {}
      BY <2>5, <2>6, <2>7, <3>1 DEF CompleteInv
    <3>6. ASSUME ~r.failed, ~r.cut, NEW x \in r.found, row[x].version \in Relevant
          PROVE  \/ Current(x)'
                 \/ x \in r.pending
                 \/ \E z \in Workers : worker'[s][z].at \in {"asking", "saving"}
                                       /\ worker'[s][z].vac = x
      <4>1. \/ Current(x)
            \/ x \in pending
            \/ \E z \in Workers : worker[s][z].at \in {"asking", "saving"}
                                  /\ worker[s][z].vac = x
        BY <2>5, <3>1, <3>6 DEF CompleteInv, Busy
      <4>2. CASE x = u
        BY <2>6, <2>7, <4>2
      <4>3. CASE x # u
        BY <1>1, <2>5, <2>7, <2>8, <2>9, <4>1, <4>3
      <4> QED
        BY <4>2, <4>3
    <3>7. CompleteInv(run[s], worker[s])'
      BY <1>1, <2>7, <3>5, <3>6 DEF CompleteInv, Busy
    <3> QED
      BY <3>4, <3>7 DEF KeepsInv
  <2>16. analysis' \in [Vacancies -> Results]
    BY <1>1 DEF IInv, TypeInv
  <2> QED
    BY <1>1, <2>5, <2>6, <2>14, <2>15, <2>16, PoolStep
<1> QED
  BY <1>3, <1>4 DEF Take

LEMMA RankedStep ==
  ASSUME IInv, NEW s \in Searches, NEW w \in Workers, Ranked(s, w)
  PROVE  IInv'
<1>1. /\ worker[s][w].at = "asking"
      /\ UNCHANGED <<row, analysis, config, lock, waiting, run>>
  BY DEF Ranked
<1>2. HasPool(s) /\ worker[s][w] \in WorkerStates /\ run[s] \in RunStates
      /\ (run[s].stop => run[s].failed)
  BY <1>1, WorkersRank, PoolFacts
<1>3. PICK k \in WorkerStates : /\ k.at = "saving" /\ k.vac = worker[s][w].vac
                                /\ worker' = [worker EXCEPT ![s][w] = k]
  <2> DEFINE k == [worker[s][w] EXCEPT !.at = "saving"]
  <2>1. k \in WorkerStates /\ k.at = "saving" /\ k.vac = worker[s][w].vac
    BY <1>2 DEF WorkerStates
  <2> QED
    BY <2>1 DEF Ranked, Become
<1>4. run' = [run EXCEPT ![s] = run[s]]
  BY <1>1 DEF IInv, TypeInv
<1>5. RefusalInv(run[s], worker[s])'
  BY <1>2, <1>3, <1>4, RefusalsStay
<1> QED
  BY <1>1, <1>2, <1>3, <1>4, <1>5, WorkerMoves

LEMMA RankFailsStep ==
  ASSUME IInv, NEW s \in Searches, NEW w \in Workers,
         NEW failure \in Failures, RankFails(s, w, failure)
  PROVE  IInv'
<1>1. /\ worker[s][w].at = "asking" /\ w \in Askers(worker[s])
      /\ Asking(s) = Askers(worker[s])
      /\ UNCHANGED <<row, analysis, config, lock, waiting>>
  BY DEF RankFails, Asking, Askers
<1>2. /\ HasPool(s) /\ worker[s][w] \in WorkerStates
      /\ run[s] \in RunStates /\ RefusalInv(run[s], worker[s])
      /\ TypeInv
  BY <1>1, WorkersRank, PoolFacts DEF IInv
<1>3. PICK k \in WorkerStates : /\ k.at = "reporting"
                                /\ worker' = [worker EXCEPT ![s][w] = k]
  <2> DEFINE k == [worker[s][w] EXCEPT !.at = "reporting"]
  <2>1. k \in WorkerStates /\ k.at = "reporting"
    BY <1>2 DEF WorkerStates
  <2> QED
    BY <2>1 DEF RankFails, Become
<1>4. /\ Cardinality(Askers(worker'[s])) \in Nat
      /\ Cardinality(Askers(worker[s])) \in Nat
      /\ Cardinality(Askers(worker'[s])) = Cardinality(Askers(worker[s])) - 1
  BY <1>1, <1>2, <1>3, FewerAskers
<1>5. PICK r \in RunStates :
        /\ r.phase = run[s].phase /\ r.beside = run[s].beside /\ r.failed = TRUE
        /\ r.pending = run[s].pending /\ r.loaded = run[s].loaded
        /\ r.asked = run[s].asked /\ r.found = run[s].found /\ r.cut = run[s].cut
        /\ r.stop = (run[s].stop \/ failure = "service")
        /\ r.refusals = IF failure = "service" THEN run[s].refusals + 1
                        ELSE run[s].refusals
        /\ r.inFlight = IF failure = "service" /\ run[s].refusals = 0
                        THEN Cardinality(Askers(worker[s])) ELSE run[s].inFlight
        /\ run' = [run EXCEPT ![s] = r]
  <2> DEFINE stop == run[s].stop \/ StopsThePool(failure)
             refusals == IF failure = "service" THEN run[s].refusals + 1
                         ELSE run[s].refusals
             inFlight == IF failure = "service" /\ run[s].refusals = 0
                         THEN Cardinality(Askers(worker[s])) ELSE run[s].inFlight
             r == [run[s] EXCEPT !.failed = TRUE, !.stop = stop,
                                 !.refusals = refusals, !.inFlight = inFlight]
  <2>1. stop \in BOOLEAN /\ refusals \in Nat /\ inFlight \in Nat
        /\ stop = (run[s].stop \/ failure = "service")
    BY <1>2, <1>4 DEF RunStates, StopsThePool
  <2>2. run' = [run EXCEPT ![s] = r]
    BY <1>1 DEF RankFails, Advance
  <2> HIDE DEF stop, refusals, inFlight
  <2>3. /\ r \in RunStates /\ r.failed = TRUE
        /\ r.phase = run[s].phase /\ r.beside = run[s].beside
        /\ r.pending = run[s].pending /\ r.loaded = run[s].loaded
        /\ r.asked = run[s].asked /\ r.found = run[s].found /\ r.cut = run[s].cut
        /\ r.stop = stop /\ r.refusals = refusals /\ r.inFlight = inFlight
    BY <1>2, <2>1 DEF RunStates
  <2> QED
    BY <2>1, <2>2, <2>3 DEF refusals, inFlight
<1>6. run'[s] = r
  BY <1>2, <1>5 DEF TypeInv
<1>7. RefusalInv(run[s], worker[s])'
  <2>1. run[s].refusals \in Nat /\ run[s].inFlight \in Nat
    BY <1>2 DEF RunStates
  <2>2. CASE failure = "service"
    <3>1. r.stop /\ r.refusals = run[s].refusals + 1
      BY <1>5, <2>2
    <3>2. CASE run[s].refusals = 0
      <4>1. r.inFlight = Cardinality(Askers(worker[s]))
        BY <1>5, <2>2, <3>2
      <4>2. r.refusals + Cardinality(Askers(worker'[s])) <= r.inFlight
        BY <1>4, <3>1, <3>2, <4>1
      <4> QED
        BY <1>6, <3>1, <4>2 DEF RefusalInv
    <3>3. CASE run[s].refusals # 0
      <4>1. r.inFlight = run[s].inFlight
        BY <1>5, <3>3
      <4>2. run[s].refusals + Cardinality(Askers(worker[s])) <= run[s].inFlight
        BY <1>2, <3>3 DEF RefusalInv
      <4>3. r.refusals + Cardinality(Askers(worker'[s])) <= r.inFlight
        BY <1>4, <2>1, <3>1, <4>1, <4>2
      <4> QED
        BY <1>6, <3>1, <4>3 DEF RefusalInv
    <3> QED
      BY <3>2, <3>3
  <2>3. CASE failure # "service"
    <3>1. r.stop = run[s].stop /\ r.refusals = run[s].refusals
          /\ r.inFlight = run[s].inFlight
      <4>1. (run[s].stop \/ failure = "service") = run[s].stop
        BY <1>2, <2>3 DEF RunStates
      <4> QED
        BY <1>5, <2>3, <4>1
    <3> QED
      BY <1>2, <1>3, <1>5, <3>1, RefusalsStay
  <2> QED
    BY <2>2, <2>3
<1> QED
  BY <1>1, <1>2, <1>3, <1>5, <1>7, WorkerMoves

LEMMA SaveAnalysisStep ==
  ASSUME IInv, NEW s \in Searches, NEW w \in Workers, SaveAnalysis(s, w)
  PROVE  IInv'
<1>1. /\ worker[s][w].at = "saving"
      /\ UNCHANGED <<row, config, lock, waiting, run>>
  BY DEF SaveAnalysis
<1>2. /\ HasPool(s) /\ worker[s][w] \in WorkerStates
      /\ run[s] \in RunStates
      /\ PendingInv(run[s]) /\ TakenInv(run[s], worker[s]) /\ AskedInv(run[s])
      /\ run[s].stop => run[s].failed
  BY <1>1, WorkersRank, PoolFacts
<1>3. PICK v \in Vacancies : v = worker[s][w].vac
  BY <1>1, <1>2 DEF TakenInv, Busy
<1>4. v \notin run[s].pending
  BY <1>1, <1>2, <1>3 DEF TakenInv, Busy
<1> DEFINE result == [version |-> run[s].loaded[v], config |-> config]
<1>5. /\ analysis' \in [Vacancies -> Results]
      /\ analysis'[v] = result
      /\ \A x \in Vacancies : x # v => analysis'[x] = analysis[x]
  <2>1. analysis' = [analysis EXCEPT ![v] = result]
    BY <1>3 DEF SaveAnalysis
  <2>2. result \in Results
    BY <1>2 DEF Results, RunStates, IInv, TypeInv
  <2> QED
    BY <2>1, <2>2 DEF IInv, TypeInv
<1>6. \A x \in Vacancies : x # v => (Current(x)' <=> Current(x))
  BY <1>1, <1>5 DEF Current
<1>7. PICK k \in WorkerStates : /\ k.at = "reporting"
                                /\ worker' = [worker EXCEPT ![s][w] = k]
  <2> DEFINE k == [worker[s][w] EXCEPT !.at = "reporting"]
  <2>1. k \in WorkerStates /\ k.at = "reporting"
    BY <1>2 DEF WorkerStates
  <2> QED
    BY <2>1 DEF SaveAnalysis, Become
<1>8. /\ run' = [run EXCEPT ![s] = run[s]] /\ run'[s] = run[s]
      /\ worker'[s][w] = k
      /\ \A x \in Workers : x # w => worker'[s][x] = worker[s][x]
  BY <1>1, <1>7 DEF IInv, TypeInv
<1>9. run[s].pending \subseteq Vacancies /\ run[s].found \subseteq Vacancies
  BY <1>2 DEF RunStates
<1>10. RefusalInv(run[s], worker[s])'
  BY <1>2, <1>7, <1>8, RefusalsStay
<1>11. SpendInv(run[s], worker[s])'
  BY <1>1, <1>2, <1>7, <1>8, <1>10, SpendMoves
<1>12. ASSUME Undisturbed(s) PROVE KeepsInv(run[s], worker[s])'
  <2>1. FreshInv(run[s], worker[s]) /\ CompleteInv(run[s], worker[s])
    BY <1>2, <1>12, PoolFacts
  <2>2. run[s].loaded[v] = row[v].version
    BY <1>1, <1>3, <2>1 DEF FreshInv, Busy
  <2>3. Current(v)'
    BY <1>1, <1>5, <2>2 DEF Current
  <2>4. FreshInv(run[s], worker[s])'
    <3>1. ASSUME NEW x \in run[s].pending
          PROVE  run[s].loaded[x] = row[x].version /\ ~Current(x)'
      <4>1. x \in Vacancies /\ x # v
        BY <1>4, <1>9
      <4> QED
        BY <1>6, <2>1, <4>1 DEF FreshInv
    <3>2. ASSUME NEW x \in Workers, worker'[s][x].at \in {"asking", "saving"}
          PROVE  run[s].loaded[worker'[s][x].vac] = row[worker'[s][x].vac].version
      BY <1>7, <1>8, <2>1, <3>2 DEF FreshInv, Busy
    <3> QED
      BY <1>1, <1>8, <3>1, <3>2 DEF FreshInv, Busy
  <2>5. \A x \in Workers : worker'[s][x].at = "done" =>
          run[s].stop \/ run[s].pending = {}
    BY <1>7, <1>8, <2>1 DEF CompleteInv
  <2>6. ASSUME ~run[s].failed, ~run[s].cut, NEW x \in run[s].found,
               row[x].version \in Relevant
        PROVE  \/ Current(x)'
               \/ x \in run[s].pending
               \/ \E z \in Workers : worker'[s][z].at \in {"asking", "saving"}
                                     /\ worker'[s][z].vac = x
    <3>1. \/ Current(x)
          \/ x \in run[s].pending
          \/ \E z \in Workers : worker[s][z].at \in {"asking", "saving"}
                                /\ worker[s][z].vac = x
      BY <2>1, <2>6 DEF CompleteInv, Busy
    <3>2. CASE x = v
      BY <2>3, <3>2
    <3>3. CASE x # v
      <4>1. \A z \in Workers : worker[s][z].vac = x => z # w
        BY <1>3, <3>3
      <4> QED
        BY <1>6, <1>8, <1>9, <3>1, <3>3, <4>1
    <3> QED
      BY <3>2, <3>3
  <2>7. CompleteInv(run[s], worker[s])'
    BY <1>1, <1>8, <2>5, <2>6 DEF CompleteInv, Busy
  <2> QED
    BY <2>4, <2>7 DEF KeepsInv
<1> HIDE DEF result
<1> QED
  BY <1>1, <1>2, <1>5, <1>7, <1>8, <1>11, <1>12, PoolStep

\* A step that ends without an analysis, or reports, or shows the progress.
LEMMA QuietWorker ==
  ASSUME IInv, NEW s \in Searches, NEW w \in Workers, worker[s][w].at # "done",
         NEW r \in RunStates, run' = [run EXCEPT ![s] = r],
         NEW k \in WorkerStates, worker' = [worker EXCEPT ![s][w] = k],
         UNCHANGED <<row, analysis, config, lock, waiting>>,
         k.at \in {"ready", "reporting", "showing"},
         r.phase = run[s].phase, r.beside = run[s].beside,
         r.pending = run[s].pending, r.loaded = run[s].loaded,
         r.asked = run[s].asked, r.found = run[s].found, r.cut = run[s].cut,
         r.stop = run[s].stop, r.refusals = run[s].refusals,
         r.inFlight = run[s].inFlight,
         run[s].failed => r.failed,
         worker[s][w].at \in {"asking", "saving"} => r.failed
  PROVE  IInv'
<1>1. HasPool(s)
  BY WorkersRank
<1>2. RefusalInv(run[s], worker[s])'
  BY <1>1, RefusalsStay
<1>3. run[s].stop => run[s].failed
  BY <1>1, PoolFacts
<1> QED
  BY <1>1, <1>2, <1>3, WorkerMoves

LEMMA SaveFailsStep ==
  ASSUME IInv, NEW s \in Searches, NEW w \in Workers, SaveFails(s, w)
  PROVE  IInv'
<1> DEFINE r == [run[s] EXCEPT !.failed = TRUE]
           k == [worker[s][w] EXCEPT !.at = "reporting"]
<1>1. worker[s][w].at = "saving" /\ UNCHANGED <<row, analysis, config, lock, waiting>>
      /\ run' = [run EXCEPT ![s] = r] /\ worker' = [worker EXCEPT ![s][w] = k]
  BY DEF SaveFails, Become, Advance
<1>2. run[s] \in RunStates /\ worker[s][w] \in WorkerStates
  BY DEF IInv, TypeInv
<1>3. k \in WorkerStates /\ k.at = "reporting"
  BY <1>2 DEF WorkerStates
<1>4. /\ r \in RunStates /\ r.failed
      /\ r.phase = run[s].phase /\ r.beside = run[s].beside
      /\ r.pending = run[s].pending /\ r.loaded = run[s].loaded
      /\ r.asked = run[s].asked /\ r.found = run[s].found /\ r.cut = run[s].cut
      /\ r.stop = run[s].stop /\ r.refusals = run[s].refusals
      /\ r.inFlight = run[s].inFlight
  BY <1>2 DEF RunStates
<1> HIDE DEF r, k
<1> QED
  BY <1>1, <1>3, <1>4, QuietWorker

LEMMA ReportStep ==
  ASSUME IInv, NEW s \in Searches, NEW w \in Workers, Report(s, w)
  PROVE  IInv'
<1> DEFINE completed == run[s].completed + 1
           r == [run[s] EXCEPT !.progress = w, !.completed = completed]
           k == [worker[s][w] EXCEPT !.at = "showing", !.number = completed]
<1>1. worker[s][w].at = "reporting" /\ UNCHANGED <<row, analysis, config, lock, waiting>>
      /\ run' = [run EXCEPT ![s] = r] /\ worker' = [worker EXCEPT ![s][w] = k]
  BY DEF Report, Become, Advance
<1>2. run[s] \in RunStates /\ worker[s][w] \in WorkerStates
  BY DEF IInv, TypeInv
<1>3. completed \in Nat
  BY <1>2 DEF RunStates
<1> HIDE DEF completed
<1>4. k \in WorkerStates /\ k.at = "showing"
  BY <1>2, <1>3 DEF WorkerStates
<1>5. /\ r \in RunStates /\ r.failed = run[s].failed
      /\ r.phase = run[s].phase /\ r.beside = run[s].beside
      /\ r.pending = run[s].pending /\ r.loaded = run[s].loaded
      /\ r.asked = run[s].asked /\ r.found = run[s].found /\ r.cut = run[s].cut
      /\ r.stop = run[s].stop /\ r.refusals = run[s].refusals
      /\ r.inFlight = run[s].inFlight
  BY <1>2, <1>3 DEF RunStates
<1> HIDE DEF r, k
<1> QED
  BY <1>1, <1>4, <1>5, QuietWorker

LEMMA ShowProgressStep ==
  ASSUME IInv, NEW s \in Searches, NEW w \in Workers, ShowProgress(s, w)
  PROVE  IInv'
<1> DEFINE r == [run[s] EXCEPT !.shown = worker[s][w].number,
                               !.progress = ReleaseProgress(s, w)]
           k == [Idle EXCEPT !.at = "ready"]
<1>1. worker[s][w].at = "showing" /\ UNCHANGED <<row, analysis, config, lock, waiting>>
      /\ run' = [run EXCEPT ![s] = r] /\ worker' = [worker EXCEPT ![s][w] = k]
  BY DEF ShowProgress, Become, Advance
<1>2. run[s] \in RunStates /\ worker[s][w] \in WorkerStates
  BY DEF IInv, TypeInv
<1>3. k \in WorkerStates /\ k.at = "ready"
  BY DEF WorkerStates, Idle
<1>4. worker[s][w].number \in Nat /\ ReleaseProgress(s, w) \in Workers \cup {None}
  BY <1>2 DEF WorkerStates, RunStates, ReleaseProgress
<1>5. /\ r \in RunStates /\ r.failed = run[s].failed
      /\ r.phase = run[s].phase /\ r.beside = run[s].beside
      /\ r.pending = run[s].pending /\ r.loaded = run[s].loaded
      /\ r.asked = run[s].asked /\ r.found = run[s].found /\ r.cut = run[s].cut
      /\ r.stop = run[s].stop /\ r.refusals = run[s].refusals
      /\ r.inFlight = run[s].inFlight
  BY <1>2, <1>4 DEF RunStates
<1> HIDE DEF r, k
<1> QED
  BY <1>1, <1>3, <1>5, QuietWorker

\* The search ends and its workers go on: nothing but what they may ask for is left.
LEMMA ProgressFailsStep ==
  ASSUME IInv, NEW s \in Searches, NEW w \in Workers, ProgressFails(s, w)
  PROVE  IInv'
<1> DEFINE progress == ReleaseProgress(s, w)
           r == [run[s] EXCEPT !.phase = "abandoned", !.found = {}, !.cut = FALSE,
                               !.progress = progress]
<1>1. /\ worker[s][w].at = "showing" /\ FreeLock(s)
      /\ UNCHANGED <<row, analysis, config, waiting>>
      /\ run' = [run EXCEPT ![s] = r] /\ worker' = [worker EXCEPT ![s][w] = Idle]
  BY DEF ProgressFails, Become, Advance
<1>2. run[s] \in RunStates /\ HasPool(s) /\ (run[s].stop => run[s].failed)
  BY <1>1, WorkersRank, PoolFacts
<1>3. progress \in Workers \cup {None}
  BY <1>2 DEF RunStates, ReleaseProgress
<1> HIDE DEF progress
<1>4. /\ r \in RunStates /\ r.phase = "abandoned" /\ r.failed = run[s].failed
      /\ r.pending = run[s].pending /\ r.loaded = run[s].loaded
      /\ r.asked = run[s].asked /\ r.stop = run[s].stop
      /\ r.refusals = run[s].refusals /\ r.inFlight = run[s].inFlight
  BY <1>2, <1>3 DEF RunStates
<1> HIDE DEF r
<1>5. RefusalInv(run[s], worker[s])'
  BY <1>1, <1>2, <1>4, IdleStates, RefusalsStay
<1>6. SpendInv(run[s], worker[s])'
  BY <1>1, <1>2, <1>4, <1>5, IdleStates, SpendMoves
<1>7. /\ run'[s] = r
      /\ \A q \in Searches : q # s => run'[q] = run[q] /\ worker'[q] = worker[q]
  BY <1>1 DEF IInv, TypeInv
<1>8. HasPool(s)' /\ ~Undisturbed(s)'
  BY <1>4, <1>7 DEF HasPool, Undisturbed
<1>9. TypeInv' /\ IdInv'
  BY <1>1, <1>4, IdleStates DEF IInv, TypeInv, IdInv, Stored, FreeLock
<1>10. RunInv(s)'
  BY <1>6, <1>8 DEF RunInv
<1>11. run[s].phase # "idle" /\ (lock # s => lock' = lock)
  BY <1>1, <1>2 DEF HasPool, FreeLock
<1> QED
  BY <1>1, <1>4, <1>7, <1>8, <1>9, <1>10, <1>11, OneSearch

LEMMA EndSearchStep ==
  ASSUME IInv, NEW s \in Searches, EndSearch(s)
  PROVE  IInv'
<1>1. /\ run[s].phase # "idle" /\ WorkersDone(s)
      /\ Finish(s) /\ UNCHANGED <<row, analysis, config, waiting, worker>>
  BY DEF EndSearch, HasPool
<1>2. /\ run' = [run EXCEPT ![s] = IdleRun]
      /\ lock' \in Searches \cup {None} /\ (lock # s => lock' = lock)
  BY <1>1, FinishedRun
<1>3. TypeInv' /\ IdInv'
  BY <1>1, <1>2, IdleStates DEF IInv, TypeInv, IdInv, Stored
<1>4. /\ run'[s] = IdleRun
      /\ \A q \in Searches : q # s => run'[q] = run[q] /\ worker'[q] = worker[q]
  BY <1>1, <1>2 DEF IInv, TypeInv
<1>5. /\ run'[s].phase = "idle" /\ QuietInv(run[s])' /\ WorkersDone(s)'
      /\ ~HasPool(s)' /\ ~Undisturbed(s)'
  BY <1>1, <1>4, IdleStates DEF QuietInv, WorkersDone, HasPool, Undisturbed
<1>6. RunInv(s)'
  BY <1>5 DEF RunInv
<1> QED
  BY <1>1, <1>2, <1>3, <1>4, <1>5, <1>6, OneSearch

-----------------------------------------------------------------------------
(* Restarts and the invariant *)

\* Nothing runs, and the rows are numbered.
LEMMA NothingRuns ==
  ASSUME TypeInv, IdInv, run = [s \in Searches |-> IdleRun],
         worker = [s \in Searches |-> [w \in Workers |-> Idle]]
  PROVE  IInv
<1>1. \A s \in Searches : run[s].phase = "idle" /\ WorkersDone(s) /\ QuietInv(run[s])
  BY IdleStates DEF WorkersDone
<1>2. \A s \in Searches : ~HasPool(s) /\ ~Undisturbed(s)
  BY <1>1 DEF HasPool, Undisturbed
<1>3. LockInv /\ AloneInv /\ SearchInv
  BY <1>1, <1>2 DEF LockInv, AloneInv, SearchInv, RunInv
<1> QED
  BY <1>3 DEF IInv

LEMMA RestartStep ==
  ASSUME IInv, NEW c \in Configs, Restart(c)
  PROVE  IInv'
<1> DEFINE none == [s \in Searches |-> [w \in Workers |-> Idle]]
           idle == [s \in Searches |-> IdleRun]
<1>1. /\ config' = c /\ lock' = None /\ waiting' = {} /\ run' = idle /\ worker' = none
      /\ UNCHANGED <<row, analysis>>
  BY DEF Restart
<1>2. idle \in [Searches -> RunStates]
      /\ none \in [Searches -> [Workers -> WorkerStates]]
  BY IdleStates
<1>3. TypeInv' /\ IdInv'
  BY <1>1, <1>2 DEF IInv, TypeInv, IdInv, Stored
<1>4. \A s \in Searches :
        run'[s].phase = "idle" /\ WorkersDone(s)' /\ QuietInv(run[s])'
  <2>1. ASSUME NEW s \in Searches
        PROVE  run'[s] = IdleRun /\ \A w \in Workers : worker'[s][w] = Idle
    BY <1>1
  <2> QED
    BY <2>1, IdleStates DEF WorkersDone, QuietInv
<1>5. \A s \in Searches : ~HasPool(s)' /\ ~Undisturbed(s)'
  BY <1>4 DEF HasPool, Undisturbed
<1>6. LockInv' /\ AloneInv' /\ SearchInv'
  BY <1>4, <1>5 DEF LockInv, AloneInv, SearchInv, RunInv
<1> QED
  BY <1>3, <1>6 DEF IInv

LEMMA InitIInv ==
  ASSUME Init
  PROVE  IInv
<1> DEFINE empty == [version |-> None, id |-> 0]
<1>1. empty \in Rows /\ NoAnalysis \in Results
  BY DEF Rows, Results, NoAnalysis, Content
<1>2. row = [v \in Vacancies |-> empty]
  BY DEF Init
<1>3. \A v \in Vacancies : row[v].version = None
  BY <1>2
<1>4. Stored = {}
  BY <1>3 DEF Stored
<1>5. IdInv
  BY <1>4 DEF IdInv
<1>6. TypeInv
  BY <1>1, IdleStates DEF Init, TypeInv
<1> QED
  BY <1>5, <1>6, NothingRuns DEF Init

LEMMA WorkStep ==
  ASSUME IInv, NEW s \in Searches, NEW w \in Workers, Work(s, w)
  PROVE  IInv'
BY TakeStep, RankedStep, RankFailsStep, SaveAnalysisStep, SaveFailsStep, ReportStep,
   ShowProgressStep, ProgressFailsStep DEF Work

LEMMA ProceedStep ==
  ASSUME IInv, NEW s \in Searches, Proceed(s)
  PROVE  IInv'
BY QueryStep, StopQueryingStep, FetchStep, ChooseStep, SearchFailsStep, WorkStep,
   EndSearchStep DEF Proceed

LEMMA NextIInv ==
  ASSUME IInv, [Next]_vars
  PROVE  IInv'
<1>1. CASE UNCHANGED vars
  <2>1. TypeInv' /\ UNCHANGED <<row, analysis, config, lock, waiting, run, worker>>
    BY <1>1 DEF IInv, TypeInv, vars
  <2> QED
    BY <2>1, QuietStep
<1>2. ASSUME NEW s \in Searches, RequestSearch(s) \/ EnterSearch(s) \/ Proceed(s)
      PROVE  IInv'
  BY <1>2, RequestStep, EnterStep, ProceedStep
<1>3. ASSUME NEW c \in Configs, Restart(c) PROVE IInv'
  BY <1>3, RestartStep
<1> QED
  BY <1>1, <1>2, <1>3 DEF Next

\* The invariant holds in every state, whatever the searches find and ask.
LEMMA Invariant == Spec => []IInv
BY InitIInv, NextIInv, PTL DEF Spec

-----------------------------------------------------------------------------
(* What it implies *)

\* No search asks twice for a vacancy, or for more than the limit, with any
\* number of workers.
THEOREM RequestsBounded == Spec => []RequestsAreBounded
<1>1. ASSUME IInv PROVE RequestsAreBounded
  <2> SUFFICES ASSUME NEW s \in Searches
               PROVE  /\ \A v \in Vacancies : run[s].asked[v] <= 1
                      /\ Cardinality({v \in Vacancies : run[s].asked[v] # 0}) <= MaxAnalyses
    BY DEF RequestsAreBounded
  <2> DEFINE asked == {v \in Vacancies : run[s].asked[v] # 0}
             chosen == {v \in Vacancies : run[s].loaded[v] # None}
  <2>1. MaxAnalyses \in Nat
    BY SearchAssumption
  <2>2. CASE HasPool(s)
    <3>1. AskedInv(run[s])
      BY <1>1, <2>2, PoolFacts
    <3>2. asked \in SUBSET chosen /\ chosen \in SUBSET Vacancies
      BY <3>1 DEF AskedInv
    <3>3. IsFiniteSet(chosen) /\ Cardinality(chosen) \in Nat /\ Cardinality(asked) \in Nat
      BY <3>2, FiniteParts
    <3>4. Cardinality(asked) <= Cardinality(chosen)
      BY <3>2, <3>3, FS_Subset
    <3>5. Cardinality(chosen) <= MaxAnalyses
      BY <3>1 DEF AskedInv
    <3> QED
      BY <2>1, <3>1, <3>3, <3>4, <3>5 DEF AskedInv
  <2>3. CASE ~HasPool(s)
    <3>1. \A v \in Vacancies : run[s].asked[v] = 0
      BY <1>1, <2>3 DEF IInv, SearchInv, RunInv, QuietInv
    <3>2. asked = {}
      BY <3>1
    <3>3. Cardinality(asked) = 0
      BY <3>2, FS_EmptySet
    <3> QED
      BY <2>1, <3>1, <3>3
  <2> QED
    BY <2>2, <2>3
<1> QED
  BY <1>1, Invariant, PTL

\* After its first refusal the provider only refuses what was under way.
THEOREM RefusalsBounded == Spec => []FailuresStopThePool
<1>1. ASSUME IInv, NEW s \in Searches PROVE run[s].refusals <= run[s].inFlight
  <2>1. run[s].refusals \in Nat /\ run[s].inFlight \in Nat
    BY <1>1 DEF IInv, TypeInv, RunStates
  <2>2. CASE HasPool(s)
    <3>1. RefusalInv(run[s], worker[s])
      BY <1>1, <2>2, PoolFacts
    <3>2. Cardinality(Askers(worker[s])) \in Nat
      BY FiniteParts DEF Askers
    <3> QED
      BY <2>1, <3>1, <3>2 DEF RefusalInv
  <2>3. CASE ~HasPool(s)
    BY <1>1, <2>1, <2>3 DEF IInv, SearchInv, RunInv, QuietInv
  <2> QED
    BY <2>2, <2>3
<1>2. IInv => FailuresStopThePool
  BY <1>1 DEF FailuresStopThePool
<1> QED
  BY <1>2, Invariant, PTL

\* When the pool of a complete search is done, what it found and is relevant has
\* a current analysis, in any interleaving of any number of workers.
THEOREM CompleteIsCurrent == Spec => []CompleteSearchIsCurrent
<1>1. ASSUME IInv, NEW s \in Searches, PoolDone(s), ~run[s].beside,
             ~run[s].failed, ~run[s].cut,
             NEW v \in run[s].found, row[v].version \in Relevant
      PROVE  Current(v)
  <2>1. HasPool(s) /\ Undisturbed(s) /\ \A w \in Workers : worker[s][w].at = "done"
    BY <1>1 DEF PoolDone, WorkersDone, HasPool, Undisturbed
  <2>2. CompleteInv(run[s], worker[s]) /\ ~run[s].stop
    BY <1>1, <2>1, PoolFacts
  <2>3. PICK w \in Workers : TRUE
    BY SearchAssumption
  <2>4. run[s].pending = {}
    BY <2>1, <2>2, <2>3 DEF CompleteInv
  <2> QED
    BY <1>1, <2>1, <2>2, <2>4 DEF CompleteInv, Busy
<1>2. IInv => CompleteSearchIsCurrent
  BY <1>1 DEF CompleteSearchIsCurrent
<1> QED
  BY <1>2, Invariant, PTL

\* Which requests a step of a search makes: one of its own at most.
LEMMA OnlyTakeAsks ==
  ASSUME IInv, [Next]_vars, NEW s \in Searches, NEW v \in Vacancies,
         run'[s].asked[v] > run[s].asked[v]
  PROVE  \E w \in Workers : Take(s, w)
<1> SUFFICES ASSUME \A w \in Workers : ~Take(s, w)
             PROVE  FALSE
  OBVIOUS
<1>1. run[s].asked[v] \in 0..2 /\ run \in [Searches -> RunStates]
  BY DEF IInv, TypeInv, RunStates
<1>2. IdleRun.asked[v] = 0
  BY DEF IdleRun
<1>3. run'[s].asked[v] # 0 /\ run'[s].asked[v] # run[s].asked[v]
  BY <1>1
<1>4. \A q \in Searches : \A e : Advance(q, e) =>
        \/ run'[s] = run[s]
        \/ q = s /\ run'[s] = e
  BY <1>1 DEF Advance
<1>5. ASSUME NEW q \in Searches, Finish(q) PROVE FALSE
  BY <1>2, <1>3, <1>4, <1>5 DEF Finish
<1>6. ASSUME NEW q \in Searches, NEW e, Advance(q, e), q = s => e.asked = run[s].asked
      PROVE  FALSE
  BY <1>3, <1>4, <1>6
<1>7. CASE UNCHANGED run
  BY <1>3, <1>7
<1>8. ASSUME NEW q \in Searches, EnterSearch(q) PROVE FALSE
  <2>1. [IdleRun EXCEPT !.phase = "querying"].asked = IdleRun.asked
    BY DEF IdleRun
  <2> QED
    BY <1>2, <1>3, <1>4, <1>8, <2>1 DEF EnterSearch
<1>9. run[s] \in RunStates
  BY <1>1
<1>10. ASSUME NEW q \in Searches, NEW items \in SUBSET Vacancies, Query(q, items)
       PROVE  FALSE
  <2>1. [run[s] EXCEPT !.found = @ \cup items].asked = run[s].asked
    BY <1>9 DEF RunStates
  <2> QED
    BY <1>6, <1>10, <2>1 DEF Query
<1>11. ASSUME NEW q \in Searches, StopQuerying(q) PROVE FALSE
  <2>1. ASSUME NEW todo, Advance(q, [run[q] EXCEPT !.phase = "fetching", !.todo = todo])
        PROVE  FALSE
    <3>1. [run[s] EXCEPT !.phase = "fetching", !.todo = todo].asked = run[s].asked
      BY <1>9 DEF RunStates
    <3> QED
      BY <1>6, <2>1, <3>1
  <2> QED
    BY <1>5, <1>11, <2>1 DEF StopQuerying
<1>12. ASSUME NEW q \in Searches, NEW x \in Vacancies, Fetch(q, x) PROVE FALSE
  <2>1. [run[s] EXCEPT !.todo = @ \ {x}].asked = run[s].asked
    BY <1>9 DEF RunStates
  <2> QED
    BY <1>6, <1>12, <2>1 DEF Fetch
<1>13. ASSUME NEW q \in Searches, Choose(q) PROVE FALSE
  <2> DEFINE candidates == {x \in run[q].found : NeedsAnalysis(x)}
             chosen == Newest(candidates)
             loaded == [x \in Vacancies |-> IF x \in chosen THEN row[x].version ELSE None]
             cut == chosen # candidates
             beside == \E r \in Searches \ {q} : run[r].phase = "abandoned"
  <2>1. Advance(q, [run[q] EXCEPT !.phase = "ranking", !.loaded = loaded,
                                  !.pending = chosen, !.cut = cut, !.beside = beside])
    BY <1>13 DEF Choose
  <2> HIDE DEF candidates, chosen, loaded, cut, beside
  <2>2. [run[s] EXCEPT !.phase = "ranking", !.loaded = loaded, !.pending = chosen,
                       !.cut = cut, !.beside = beside].asked = run[s].asked
    BY <1>9 DEF RunStates
  <2> QED
    BY <1>6, <2>1, <2>2
<1>14. ASSUME NEW q \in Searches, NEW w \in Workers, Take(q, w) PROVE FALSE
  <2>1. q # s
    BY <1>14
  <2> QED
    BY <1>3, <1>4, <1>14, <2>1 DEF Take
<1>15. ASSUME NEW q \in Searches, NEW w \in Workers,
              NEW failure \in Failures, RankFails(q, w, failure)
       PROVE  FALSE
  <2>1. PICK stop, refusals, inFlight :
          Advance(q, [run[q] EXCEPT !.failed = TRUE, !.stop = stop,
                                    !.refusals = refusals, !.inFlight = inFlight])
    BY <1>15 DEF RankFails
  <2>2. [run[s] EXCEPT !.failed = TRUE, !.stop = stop, !.refusals = refusals,
                       !.inFlight = inFlight].asked = run[s].asked
    BY <1>9 DEF RunStates
  <2> QED
    BY <1>6, <2>1, <2>2
<1>16. ASSUME NEW q \in Searches, NEW w \in Workers,
              SaveFails(q, w) \/ Report(q, w) \/ ShowProgress(q, w) \/ ProgressFails(q, w)
       PROVE  FALSE
  <2>1. [run[s] EXCEPT !.failed = TRUE].asked = run[s].asked
    BY <1>9 DEF RunStates
  <2>2. \A c : [run[s] EXCEPT !.progress = w, !.completed = c].asked = run[s].asked
    BY <1>9 DEF RunStates
  <2>3. \A n, p : [run[s] EXCEPT !.shown = n, !.progress = p].asked = run[s].asked
    BY <1>9 DEF RunStates
  <2>4. CASE SaveFails(q, w)
    BY <1>6, <2>1, <2>4 DEF SaveFails
  <2>5. CASE Report(q, w)
    BY <1>6, <2>2, <2>5 DEF Report
  <2>6. CASE ShowProgress(q, w)
    BY <1>6, <2>3, <2>6 DEF ShowProgress
  <2>7. \A e : [run[s] EXCEPT !.phase = "abandoned", !.found = {}, !.cut = FALSE,
                              !.progress = e].asked = run[s].asked
    BY <1>9 DEF RunStates
  <2>8. CASE ProgressFails(q, w)
    BY <1>6, <2>7, <2>8 DEF ProgressFails
  <2> QED
    BY <1>16, <2>4, <2>5, <2>6, <2>8
<1>17. ASSUME NEW q \in Searches, NEW w \in Workers, Work(q, w) PROVE FALSE
  BY <1>7, <1>14, <1>15, <1>16, <1>17 DEF Work, Ranked, SaveAnalysis
<1>18. ASSUME NEW q \in Searches, Proceed(q) PROVE FALSE
  BY <1>5, <1>10, <1>11, <1>12, <1>13, <1>17, <1>18 DEF Proceed, EndSearch, SearchFails
<1>19. ASSUME NEW c \in Configs, Restart(c) PROVE FALSE
  <2>1. run'[s] = IdleRun
    BY <1>19 DEF Restart
  <2> QED
    BY <1>2, <1>3, <2>1
<1> QED
  BY <1>7, <1>8, <1>18, <1>19 DEF Next, RequestSearch, vars

\* A request is only made for what is stored now and has no current analysis.
THEOREM NoWaste == Spec => NoRequestIsWasted
<1>1. ASSUME IInv, [Next]_vars, NEW s \in Searches, NEW v \in Vacancies,
             Undisturbed(s), run'[s].asked[v] > run[s].asked[v]
      PROVE  ~Current(v) /\ run[s].loaded[v] = row[v].version
  <2> DEFINE pending == run[s].pending
             next == CHOOSE x \in pending : \A y \in pending : row[y].id <= row[x].id
  <2>1. PICK w \in Workers : Take(s, w)
    BY <1>1, OnlyTakeAsks
  <2>2. HasPool(s)
    BY <2>1 DEF Take
  <2>3. run[s] \in RunStates /\ PendingInv(run[s]) /\ FreshInv(run[s], worker[s])
        /\ run[s].asked[v] \in 0..2
    BY <1>1, <2>2, PoolFacts DEF RunStates
  <2>4. ~UNCHANGED run
    BY <1>1, <2>3
  <2>5. /\ pending # {}
        /\ Advance(s, [run[s] EXCEPT !.pending = @ \ {next},
                                     !.asked[next] = IF @ = 2 THEN 2 ELSE @ + 1])
    BY <2>1, <2>4 DEF Take
  <2>6. pending \in SUBSET Stored
    BY <2>3 DEF PendingInv, Stored, RunStates
  <2>7. PICK u \in pending : u = next
    BY <1>1, <2>5, <2>6, NextCandidate DEF IInv
  <2> HIDE DEF next
  <2>8. v = u
    <3>1. \A x \in Vacancies : x # u => run'[s].asked[x] = run[s].asked[x]
      <4> DEFINE asked == [run[s].asked EXCEPT ![u] = IF @ = 2 THEN 2 ELSE @ + 1]
      <4>1. run'[s] = [run[s] EXCEPT !.pending = @ \ {u}, !.asked = asked]
        BY <1>1, <2>5, <2>7 DEF Advance, IInv, TypeInv
      <4>2. \A x \in Vacancies : x # u => asked[x] = run[s].asked[x]
        BY <2>3 DEF RunStates
      <4> HIDE DEF asked
      <4>3. run'[s].asked = asked
        BY <2>3, <4>1 DEF RunStates
      <4> QED
        BY <4>2, <4>3
    <3> QED
      BY <1>1, <2>3, <3>1
  <2> QED
    BY <2>3, <2>7, <2>8 DEF FreshInv
<1>2. IInv /\ [Next]_vars => [\A s \in Searches, v \in Vacancies :
                               Undisturbed(s) /\ run'[s].asked[v] > run[s].asked[v]
                                 => ~Current(v) /\ run[s].loaded[v] = row[v].version]_vars
  BY <1>1
<1> QED
  BY <1>2, Invariant, PTL DEF Spec, NoRequestIsWasted
=============================================================================
