----------------------------- MODULE HHOAuthProofs -----------------------------
(***************************************************************************)
(* Proofs about HHOAuth, for any states, callbacks, callers and number of  *)
(* tokens: a code is exchanged once, and a refresh token is presented a    *)
(* second time only when the answer to the first was lost.                 *)
(*                                                                         *)
(* The first rests on the conditional UPDATE alone (CodeInv).  The second  *)
(* needs to follow a refresh token from HeadHunter's answer through the    *)
(* save into the row, under the lock and back to HeadHunter (RotationInv). *)
(***************************************************************************)
EXTENDS HHOAuth, TLAPS

Pair == [access : Token, refresh : Token]
TaskStates == [at : Steps, state : States \cup {None},
               seen : Pair, new : Pair, loaded : Pair]

\* The part of TypeOK the arguments use; the queue does not matter to them.
TypeInv ==
  /\ oauth \in [States -> {"absent", "live", "expired", "used"}]
  /\ stored \in Pair
  /\ issued \in Token
  /\ exchanged \in [States -> 0..2]
  /\ presented \in [Token -> 0..2]
  /\ lock \in Callers \cup {None}
  /\ task \in [Tasks -> TaskStates]

\* Only the callback whose UPDATE used a state carries its code.
CodeInv ==
  /\ CodeIsExchangedOnce
  /\ \A p \in Tasks :
       /\ task[p].at \in {"consume", "exchange"} => task[p].state \in States
       /\ task[p].at = "exchange" =>
            oauth[task[p].state] = "used" /\ exchanged[task[p].state] = 0
  /\ \A p, q \in Tasks :
       task[p].at = "exchange" /\ task[q].at = "exchange" /\ p # q
         => task[p].state # task[q].state

\* Under the lock.
Locked == {"locked", "refresh", "save", "saving"}

LockInv ==
  \A c \in Callers :
    /\ task[c].at \in Locked => lock = c
    /\ task[c].at \notin {"consume", "exchange", "whoami"}

\* With tokens that HeadHunter issued and the database does not have yet.
Holding(t) == t.at \in {"whoami", "save", "saving"}

\* Every refresh token that is around was issued, and only those were presented.
BoundInv ==
  /\ presented[0] = 0
  /\ \A n \in Token : n > issued => presented[n] = 0
  /\ stored.refresh <= issued
  /\ \A p \in Tasks : /\ task[p].seen.refresh <= issued
                      /\ task[p].loaded.refresh <= issued
                      /\ task[p].new.refresh <= issued

\* The refresh token a task brings is known to nobody else.
FreshInv ==
  \A p \in Tasks :
    LET n == task[p].new.refresh
    IN Holding(task[p]) /\ n # 0 =>
         /\ presented[n] = 0
         /\ stored.refresh # n
         /\ \A q \in Tasks : /\ task[q].seen.refresh # n
                             /\ task[q].loaded.refresh # n
                             /\ q # p /\ Holding(task[q]) => task[q].new.refresh # n

\* What a caller under the lock knows of the refresh token it has read.
CallerInv ==
  \A c \in Callers :
    LET old == task[c].seen.refresh
    IN /\ task[c].at \in {"refresh", "save", "saving"} => old # 0
       /\ task[c].at = "refresh" /\ presented[old] > 0 => old \in lost
       /\ task[c].at = "saving" /\ stored.refresh = old => task[c].loaded.refresh = old

RotationInv ==
  /\ LockInv
  /\ BoundInv
  /\ FreshInv
  /\ CallerInv
  /\ RefreshIsNotRepeated
  /\ StoredIsRenewable

IInv == TypeInv /\ CodeInv /\ RotationInv

-----------------------------------------------------------------------------
(* Types *)

LEMMA TokenFacts ==
  /\ MaxIssues \in Nat
  /\ Issues = 1..MaxIssues
  /\ Token = 0..MaxIssues
  /\ 0 \in Token
  /\ Issues \subseteq Token
  BY OAuthAssumption DEF Issues, Token

LEMMA IdleIsTask == /\ Idle \in TaskStates
                    /\ Idle.at = "idle"
                    /\ Idle.seen.refresh = 0
                    /\ Idle.new.refresh = 0
                    /\ Idle.loaded.refresh = 0
  BY TokenFacts DEF Idle, TaskStates, Steps, Pair, Disconnected

LEMMA InitIInv == Init => IInv
<1> SUFFICES ASSUME Init PROVE IInv
  OBVIOUS
<1>1. Disconnected \in Pair /\ Disconnected.refresh = 0
  BY TokenFacts DEF Disconnected, Pair
<1>2. TypeInv
  BY <1>1, TokenFacts, IdleIsTask DEF Init, TypeInv
<1>3. \A p \in Tasks : task[p] = Idle
  BY DEF Init
<1>4. CodeInv
  BY <1>3, IdleIsTask DEF Init, CodeInv, CodeIsExchangedOnce
<1>5. LockInv /\ FreshInv /\ CallerInv
  BY <1>3, IdleIsTask DEF LockInv, Locked, FreshInv, Holding, CallerInv, Tasks
<1>6. BoundInv /\ RefreshIsNotRepeated /\ StoredIsRenewable
  BY <1>1, <1>3, TokenFacts, IdleIsTask
     DEF Init, BoundInv, RefreshIsNotRepeated, StoredIsRenewable
<1> QED
  BY <1>2, <1>4, <1>5, <1>6 DEF IInv, RotationInv

\* The tokens of an answer.
LEMMA IssuedTokens ==
  ASSUME TypeInv, NEW new \in [access : Issues, refresh : Token], Issue(new)
  PROVE  /\ new \in Pair
         /\ issued' = issued + 1
         /\ issued' \in Token
         /\ new.refresh = 0 \/ new.refresh = issued + 1
         /\ new.refresh <= issued'
<1>1. issued \in 0..MaxIssues /\ issued < MaxIssues /\ issued' = issued + 1
  BY TokenFacts DEF TypeInv, Issue
<1>2. new.refresh \in {0, issued'}
  BY DEF Issue
<1>3. new \in Pair
  BY TokenFacts DEF Pair
<1> QED
  BY <1>1, <1>2, <1>3, TokenFacts

LEMMA OnceMoreCounts ==
  ASSUME NEW count \in 0..2
  PROVE  OnceMore(count) \in 0..2 /\ OnceMore(count) > 0 /\ (count = 0 => OnceMore(count) = 1)
  BY DEF OnceMore

-----------------------------------------------------------------------------
(* Steps that move one task and leave HeadHunter and the tokens alone *)

\* One task moves on; whatever it had in hand it keeps, or gives up as lost.
LEMMA TaskMoves ==
  ASSUME TypeInv, RotationInv,
         NEW p \in Tasks, NEW t \in TaskStates, Become(p, t),
         UNCHANGED <<stored, issued, presented>>,
         \A n \in lost : n \in lost',
         lock' \in Callers \cup {None},
         \A d \in Callers : d # p /\ lock = d => lock' = d,
         p \in Callers => /\ t.at \in Locked => lock' = p
                          /\ t.at \notin {"consume", "exchange", "whoami"},
         t.seen.refresh \in {0, task[p].seen.refresh, stored.refresh},
         t.loaded.refresh \in {0, task[p].loaded.refresh, stored.refresh},
         t.new.refresh \in {0, task[p].new.refresh},
         Holding(t) => Holding(task[p]),
         p \in Callers =>
           /\ t.at \in {"refresh", "save", "saving"} => t.seen.refresh # 0
           /\ t.at = "refresh" /\ presented[t.seen.refresh] > 0 => t.seen.refresh \in lost
           /\ t.at = "saving" /\ stored.refresh = t.seen.refresh
                => t.loaded.refresh = t.seen.refresh,
         p \in Callers /\ lock = p /\ task[p].at \in {"save", "saving"} =>
           \/ lock' = p /\ t.at \in {"save", "saving"} /\ t.seen = task[p].seen
           \/ task[p].seen.refresh \in lost' \cup {0}
           \/ stored.refresh # task[p].seen.refresh
  PROVE  RotationInv'
<1>1. task' \in [Tasks -> TaskStates] /\ task'[p] = t
      /\ \A q \in Tasks : q # p => task'[q] = task[q]
  BY DEF Become, TypeInv
<1>2. Callers \subseteq Tasks
  BY DEF Tasks
<1>3. \A q \in Tasks : /\ task[q].seen \in Pair /\ task[q].loaded \in Pair
                       /\ task[q].new \in Pair /\ task'[q].new \in Pair
  BY <1>1 DEF TypeInv, TaskStates
<1>4. stored.refresh \in Token /\ issued \in Token
      /\ \A q \in Tasks : /\ task[q].seen.refresh \in Token
                          /\ task[q].loaded.refresh \in Token
                          /\ task[q].new.refresh \in Token
  BY <1>3 DEF TypeInv, Pair
<1>5. LockInv'
  BY <1>1, <1>2 DEF RotationInv, LockInv, Locked
<1>6. BoundInv'
  BY <1>1, <1>4, TokenFacts DEF RotationInv, BoundInv
<1>7. FreshInv'
  <2> SUFFICES ASSUME NEW r \in Tasks, Holding(task'[r]), task'[r].new.refresh # 0
               PROVE  LET n == task'[r].new.refresh
                      IN /\ presented[n] = 0
                         /\ stored.refresh # n
                         /\ \A q \in Tasks :
                              /\ task'[q].seen.refresh # n
                              /\ task'[q].loaded.refresh # n
                              /\ q # r /\ Holding(task'[q]) => task'[q].new.refresh # n
    BY DEF FreshInv, Holding
  <2> DEFINE n == task'[r].new.refresh
  <2>1. Holding(task[r]) /\ task[r].new.refresh = n
    BY <1>1 DEF Holding
  <2>2. /\ presented[n] = 0
        /\ stored.refresh # n
        /\ \A q \in Tasks : /\ task[q].seen.refresh # n
                            /\ task[q].loaded.refresh # n
                            /\ q # r /\ Holding(task[q]) => task[q].new.refresh # n
    BY <2>1 DEF RotationInv, FreshInv
  <2>3. ASSUME NEW q \in Tasks
        PROVE  /\ task'[q].seen.refresh # n
               /\ task'[q].loaded.refresh # n
               /\ q # r /\ Holding(task'[q]) => task'[q].new.refresh # n
    BY <1>1, <2>2
  <2> QED
    BY <2>2, <2>3
<1>8. CallerInv'
  BY <1>1, <1>2 DEF RotationInv, CallerInv
<1>9. RefreshIsNotRepeated'
  BY DEF RotationInv, RefreshIsNotRepeated
<1>10. StoredIsRenewable'
  <2> SUFFICES ASSUME presented[stored.refresh] > 0
               PROVE  stored.refresh \in lost' \/ stored.refresh \in InHand'
    BY DEF StoredIsRenewable
  <2>1. stored.refresh # 0
    BY <1>4 DEF RotationInv, BoundInv
  <2>2. CASE stored.refresh \in lost
    BY <2>2
  <2>3. CASE stored.refresh \in InHand
    <3>1. PICK c \in Callers : /\ lock = c
                               /\ task[c].at \in {"save", "saving"}
                               /\ stored.refresh = task[c].seen.refresh
      BY <2>3 DEF InHand
    <3>2. CASE c # p
      <4>1. lock' = c /\ task'[c] = task[c]
        BY <1>1, <1>2, <3>1, <3>2
      <4> QED
        BY <3>1, <4>1 DEF InHand
    <3>3. CASE c = p
      BY <1>1, <2>1, <3>1, <3>3 DEF InHand
    <3> QED
      BY <3>2, <3>3
  <2> QED
    BY <2>2, <2>3 DEF RotationInv, StoredIsRenewable
<1> QED
  BY <1>5, <1>6, <1>7, <1>8, <1>9, <1>10 DEF RotationInv

LEMMA CodeMoves ==
  ASSUME TypeInv, CodeInv, NEW p \in Tasks, NEW t \in TaskStates, Become(p, t),
         UNCHANGED <<oauth, exchanged>>,
         t.at # "exchange",
         t.at = "consume" => t.state \in States
  PROVE  CodeInv'
<1>1. task'[p] = t /\ \A q \in Tasks : q # p => task'[q] = task[q]
  BY DEF Become, TypeInv
<1> QED
  BY <1>1 DEF CodeInv, CodeIsExchangedOnce

\* What most steps have in common: their task's state is well typed, and they
\* leave the codes alone.
LEMMA QuietMove ==
  ASSUME TypeInv, CodeInv, NEW p \in Tasks, NEW t \in TaskStates, Become(p, t),
         UNCHANGED <<oauth, stored, issued, exchanged, presented>>,
         lock' \in Callers \cup {None},
         t.at # "exchange",
         t.at = "consume" => t.state \in States
  PROVE  TypeInv' /\ CodeInv'
<1>1. CodeInv'
  BY CodeMoves
<1>2. TypeInv'
  BY DEF TypeInv, Become
<1> QED
  BY <1>1, <1>2

\* A task that gives up, with nothing in hand that is not lost.
LEMMA GivingUp ==
  ASSUME IInv, NEW p \in Tasks, GiveUp(p),
         UNCHANGED <<oauth, stored, issued, exchanged, presented>>,
         \A n \in lost : n \in lost',
         p \in Callers /\ task[p].at \in {"save", "saving"} =>
           task[p].seen.refresh \in lost' \cup {0}
  PROVE  IInv'
<1>1. Become(p, Idle) /\ lock' = IF lock = p THEN None ELSE lock
  BY DEF GiveUp, Release
<1>2. lock' \in Callers \cup {None} /\ \A d \in Callers : d # p /\ lock = d => lock' = d
  BY <1>1 DEF IInv, TypeInv
<1>3. TypeInv' /\ CodeInv'
  BY <1>1, <1>2, IdleIsTask, QuietMove DEF IInv
<1>4. ~Holding(Idle) /\ Idle.at \notin Locked
  BY IdleIsTask DEF Holding, Locked
<1>5. RotationInv'
  BY <1>1, <1>2, <1>4, IdleIsTask, TaskMoves DEF IInv
<1> QED
  BY <1>3, <1>5 DEF IInv

-----------------------------------------------------------------------------
(* Connecting an account *)

LEMMA StateSteps ==
  ASSUME IInv, NEW s \in States, CreateState(s) \/ ExpireState(s)
  PROVE  IInv'
<1>1. UNCHANGED <<stored, issued, exchanged, presented, lost, lock, task>>
  BY DEF CreateState, ExpireState
<1>2. /\ oauth' \in [States -> {"absent", "live", "expired", "used"}]
      /\ \A r \in States : oauth[r] = "used" => oauth'[r] = "used"
  BY DEF CreateState, ExpireState, IInv, TypeInv
<1>3. TypeInv'
  BY <1>1, <1>2 DEF IInv, TypeInv
<1>4. CodeInv'
  BY <1>1, <1>2 DEF IInv, CodeInv, CodeIsExchangedOnce
<1>5. RotationInv'
  BY <1>1 DEF IInv, RotationInv, LockInv, BoundInv, FreshInv, CallerInv,
              RefreshIsNotRepeated, StoredIsRenewable, InHand, Holding
<1> QED
  BY <1>3, <1>4, <1>5 DEF IInv

LEMMA CallbackStep ==
  ASSUME IInv, NEW p \in Callbacks, NEW s \in States, Callback(p, s)
  PROVE  IInv'
<1> DEFINE t == [Idle EXCEPT !.at = "consume", !.state = s]
<1>1. p \in Tasks /\ p \notin Callers
  BY OAuthAssumption DEF Tasks
<1>2. t \in TaskStates /\ t.at = "consume" /\ t.state = s
      /\ t.seen.refresh = 0 /\ t.loaded.refresh = 0 /\ t.new.refresh = 0
  BY IdleIsTask DEF TaskStates, Steps, Idle
<1>3. /\ Become(p, t)
      /\ UNCHANGED <<oauth, stored, issued, exchanged, presented, lost, lock>>
  BY DEF Callback
<1>4. TypeInv' /\ CodeInv'
  <2>1. lock' \in Callers \cup {None}
    BY <1>3 DEF IInv, TypeInv
  <2> QED
    BY <1>1, <1>2, <1>3, <2>1, QuietMove DEF IInv
<1>5. RotationInv'
  <2>1. lock' \in Callers \cup {None} /\ ~Holding(t)
    BY <1>2, <1>3 DEF IInv, TypeInv, Holding
  <2> QED
    BY <1>1, <1>2, <1>3, <2>1, TaskMoves DEF IInv
<1> QED
  BY <1>4, <1>5 DEF IInv

LEMMA ConsumeStep ==
  ASSUME IInv, NEW p \in Callbacks, ConsumeState(p)
  PROVE  IInv'
<1> DEFINE s == task[p].state
           t == [task[p] EXCEPT !.at = "exchange"]
<1>1. p \in Tasks /\ p \notin Callers /\ task[p] \in TaskStates
  BY OAuthAssumption DEF Tasks, IInv, TypeInv
<1>2. UNCHANGED <<stored, issued, exchanged, presented, lost, lock>>
  BY DEF ConsumeState
<1>3. CASE Become(p, Idle) /\ UNCHANGED oauth
  <2>1. lock' \in Callers \cup {None} /\ ~Holding(Idle)
    BY <1>2, IdleIsTask DEF IInv, TypeInv, Holding
  <2>2. TypeInv' /\ CodeInv'
    BY <1>1, <1>2, <1>3, <2>1, IdleIsTask, QuietMove DEF IInv
  <2>3. RotationInv'
    BY <1>1, <1>2, <1>3, <2>1, IdleIsTask, TaskMoves DEF IInv
  <2> QED
    BY <2>2, <2>3 DEF IInv
<1>4. CASE Unused(s) /\ oauth' = [oauth EXCEPT ![s] = "used"] /\ Become(p, t)
  <2>1. s \in States
    BY <1>1 DEF ConsumeState, IInv, CodeInv
  <2>2. /\ t \in TaskStates /\ t.at = "exchange" /\ t.state = s
        /\ t.seen = task[p].seen /\ t.loaded = task[p].loaded /\ t.new = task[p].new
    BY <1>1 DEF TaskStates, Steps
  <2>3. task'[p] = t /\ \A q \in Tasks : q # p => task'[q] = task[q]
    BY <1>1, <1>4 DEF Become, IInv, TypeInv
  <2>4. oauth[s] # "used" /\ exchanged[s] \in 0..2
    BY <1>4, <2>1 DEF Unused, IInv, TypeInv
  <2>5. exchanged[s] = 0
    BY <2>1, <2>4 DEF IInv, CodeInv, CodeIsExchangedOnce
  <2>6. /\ oauth'[s] = "used"
        /\ \A r \in States : r # s => oauth'[r] = oauth[r]
    BY <1>4, <2>1 DEF IInv, TypeInv
  <2>7. \A q \in Tasks : q # p /\ task[q].at = "exchange" => task[q].state # s
    BY <2>4 DEF IInv, CodeInv
  <2>8. CodeInv'
    <3>1. CodeIsExchangedOnce'
      BY <1>2, <2>5, <2>6 DEF IInv, CodeInv, CodeIsExchangedOnce
    <3>2. ASSUME NEW q \in Tasks
          PROVE  /\ task'[q].at \in {"consume", "exchange"} => task'[q].state \in States
                 /\ task'[q].at = "exchange" =>
                      oauth'[task'[q].state] = "used" /\ exchanged'[task'[q].state] = 0
      <4>1. CASE q = p
        <5>1. task'[q].at = "exchange" /\ task'[q].state = s
          BY <2>2, <2>3, <4>1
        <5> QED
          BY <1>2, <2>1, <2>5, <2>6, <5>1
      <4>2. CASE q # p
        <5>1. task'[q] = task[q]
          BY <2>3, <4>2
        <5>2. /\ task[q].at \in {"consume", "exchange"} => task[q].state \in States
              /\ task[q].at = "exchange" =>
                   oauth[task[q].state] = "used" /\ exchanged[task[q].state] = 0
          BY DEF IInv, CodeInv
        <5> QED
          BY <1>2, <2>6, <5>1, <5>2
      <4> QED
        BY <4>1, <4>2
    <3>3. ASSUME NEW q \in Tasks, NEW r \in Tasks, q # r,
                 task'[q].at = "exchange", task'[r].at = "exchange"
          PROVE  task'[q].state # task'[r].state
      <4>1. CASE q = p
        <5>1. task'[q].state = s /\ task'[r] = task[r] /\ r # p
          BY <2>2, <2>3, <3>3, <4>1
        <5> QED
          BY <2>7, <3>3, <5>1
      <4>2. CASE r = p
        <5>1. task'[r].state = s /\ task'[q] = task[q] /\ q # p
          BY <2>2, <2>3, <3>3, <4>2
        <5> QED
          BY <2>7, <3>3, <5>1
      <4>3. CASE q # p /\ r # p
        <5>1. task'[q] = task[q] /\ task'[r] = task[r]
          BY <2>3, <4>3
        <5> QED
          BY <3>3, <5>1 DEF IInv, CodeInv
      <4> QED
        BY <4>1, <4>2, <4>3
    <3> QED
      BY <3>1, <3>2, <3>3 DEF CodeInv
  <2>9. TypeInv'
    BY <1>2, <1>4, <2>2 DEF IInv, TypeInv, Become
  <2>10. RotationInv'
    <3>1. lock' \in Callers \cup {None} /\ ~Holding(t)
      BY <1>2, <2>2 DEF IInv, TypeInv, Holding
    <3> QED
      BY <1>1, <1>2, <1>4, <2>2, <3>1, TaskMoves DEF IInv
  <2> QED
    BY <2>8, <2>9, <2>10 DEF IInv
<1> QED
  BY <1>3, <1>4 DEF ConsumeState

LEMMA SaveLoadStep ==
  ASSUME IInv, NEW p \in Tasks, SaveLoad(p)
  PROVE  IInv'
<1> DEFINE t == [task[p] EXCEPT !.at = "saving", !.loaded = stored]
<1>1. task[p] \in TaskStates /\ stored \in Pair /\ lock \in Callers \cup {None}
  BY DEF IInv, TypeInv
<1>2. /\ t \in TaskStates /\ t.at = "saving" /\ t.loaded = stored
      /\ t.seen = task[p].seen /\ t.new = task[p].new
  BY <1>1 DEF TaskStates, Steps
<1>3. /\ Become(p, t) /\ task[p].at = "save"
      /\ UNCHANGED <<oauth, stored, issued, exchanged, presented, lost, lock>>
  BY DEF SaveLoad
<1>4. TypeInv' /\ CodeInv'
  BY <1>1, <1>2, <1>3, QuietMove DEF IInv
<1>5. p \in Callers => lock = p /\ task[p].seen.refresh # 0
  BY <1>3 DEF IInv, RotationInv, LockInv, Locked, CallerInv
<1>6. Holding(task[p])
  BY <1>3 DEF Holding
<1>7. RotationInv'
  BY <1>1, <1>2, <1>3, <1>5, <1>6, TaskMoves DEF IInv
<1> QED
  BY <1>4, <1>7 DEF IInv

LEMMA WhoAmIStep ==
  ASSUME IInv, NEW p \in Callbacks, WhoAmI(p)
  PROVE  IInv'
<1> DEFINE t == [task[p] EXCEPT !.at = "save"]
<1>1. p \in Tasks /\ p \notin Callers /\ task[p] \in TaskStates /\ lock \in Callers \cup {None}
  BY OAuthAssumption DEF Tasks, IInv, TypeInv
<1>2. UNCHANGED <<oauth, stored, issued, exchanged, presented, lost, lock>>
      /\ Holding(task[p])
  BY DEF WhoAmI, Holding
<1>3. CASE Become(p, Idle)
  <2>1. ~Holding(Idle)
    BY IdleIsTask DEF Holding
  <2>2. TypeInv' /\ CodeInv'
    BY <1>1, <1>2, <1>3, IdleIsTask, QuietMove DEF IInv
  <2>3. RotationInv'
    BY <1>1, <1>2, <1>3, <2>1, IdleIsTask, TaskMoves DEF IInv
  <2> QED
    BY <2>2, <2>3 DEF IInv
<1>4. CASE Become(p, t)
  <2>1. /\ t \in TaskStates /\ t.at = "save" /\ t.loaded = task[p].loaded
        /\ t.seen = task[p].seen /\ t.new = task[p].new
    BY <1>1 DEF TaskStates, Steps
  <2>2. TypeInv' /\ CodeInv'
    BY <1>1, <1>2, <1>4, <2>1, QuietMove DEF IInv
  <2>3. RotationInv'
    BY <1>1, <1>2, <1>4, <2>1, TaskMoves DEF IInv
  <2> QED
    BY <2>2, <2>3 DEF IInv
<1> QED
  BY <1>3, <1>4 DEF WhoAmI

LEMMA ExchangeFailsStep ==
  ASSUME IInv, NEW p \in Callbacks, ExchangeFails(p)
  PROVE  IInv'
<1>1. p \in Tasks /\ p \notin Callers /\ lock \in Callers \cup {None}
  BY OAuthAssumption DEF Tasks, IInv, TypeInv
<1>2. UNCHANGED <<oauth, stored, issued, exchanged, presented, lost, lock>>
      /\ Become(p, Idle)
  BY DEF ExchangeFails
<1>3. ~Holding(Idle)
  BY IdleIsTask DEF Holding
<1>4. TypeInv' /\ CodeInv'
  BY <1>1, <1>2, IdleIsTask, QuietMove DEF IInv
<1>5. RotationInv'
  BY <1>1, <1>2, <1>3, IdleIsTask, TaskMoves DEF IInv
<1> QED
  BY <1>4, <1>5 DEF IInv

\* An answer with tokens: what is new is known to nobody.
LEMMA NewTokens ==
  ASSUME TypeInv, RotationInv, NEW p \in Tasks, NEW t \in TaskStates, Become(p, t),
         NEW new \in [access : Issues, refresh : Token], Issue(new),
         UNCHANGED <<stored, lost, lock>>,
         t = [task[p] EXCEPT !.at = t.at, !.new = new],
         \A n \in Token : presented'[n] # presented[n] =>
           n # 0 /\ \E q \in Tasks : task[q].seen.refresh = n
  PROVE  BoundInv' /\ FreshInv'
<1>1. /\ new \in Pair
      /\ issued \in Nat /\ issued' = issued + 1 /\ issued' \in Token
      /\ new.refresh = 0 \/ new.refresh = issued + 1
  BY IssuedTokens, TokenFacts DEF TypeInv
<1>2. /\ task'[p] = t
      /\ \A q \in Tasks : q # p => task'[q] = task[q]
  BY DEF Become, TypeInv
<1>3. \A q \in Tasks : task[q] \in TaskStates
  BY DEF TypeInv
<1>4. t.new = new /\ t.seen = task[p].seen /\ t.loaded = task[p].loaded
  BY <1>3 DEF TaskStates
<1>5. \A q \in Tasks : task'[q].seen = task[q].seen /\ task'[q].loaded = task[q].loaded
  BY <1>2, <1>4
<1>6. /\ stored.refresh \in Token
      /\ \A q \in Tasks : /\ task[q].seen.refresh \in Token
                          /\ task[q].loaded.refresh \in Token
                          /\ task[q].new.refresh \in Token
  BY <1>3 DEF TypeInv, TaskStates, Pair
<1>7. /\ presented[0] = 0
      /\ \A n \in Token : n > issued => presented[n] = 0
      /\ stored.refresh <= issued
      /\ \A q \in Tasks : /\ task[q].seen.refresh <= issued
                          /\ task[q].loaded.refresh <= issued
                          /\ task[q].new.refresh <= issued
  BY DEF RotationInv, BoundInv
<1>8. BoundInv'
  <2>1. presented'[0] = 0
    BY <1>7, TokenFacts
  <2>2. \A n \in Token : n > issued' => presented'[n] = 0
    BY <1>1, <1>7, TokenFacts
  <2>3. stored'.refresh <= issued'
    BY <1>1, <1>6, <1>7, TokenFacts
  <2>4. ASSUME NEW q \in Tasks
        PROVE  /\ task'[q].seen.refresh <= issued'
               /\ task'[q].loaded.refresh <= issued'
               /\ task'[q].new.refresh <= issued'
    <3>1. task[q].seen.refresh <= issued' /\ task[q].loaded.refresh <= issued'
          /\ task[q].new.refresh <= issued' /\ new.refresh <= issued'
      BY <1>1, <1>6, <1>7, TokenFacts
    <3>2. task'[q].new = new \/ task'[q].new = task[q].new
      BY <1>2, <1>4
    <3> QED
      BY <1>5, <3>1, <3>2
  <2> QED
    BY <2>1, <2>2, <2>3, <2>4 DEF BoundInv
<1>9. FreshInv'
  <2> SUFFICES ASSUME NEW r \in Tasks, Holding(task'[r]), task'[r].new.refresh # 0
               PROVE  LET n == task'[r].new.refresh
                      IN /\ presented'[n] = 0
                         /\ stored'.refresh # n
                         /\ \A q \in Tasks :
                              /\ task'[q].seen.refresh # n
                              /\ task'[q].loaded.refresh # n
                              /\ q # r /\ Holding(task'[q]) => task'[q].new.refresh # n
    BY DEF FreshInv, Holding
  <2> DEFINE n == task'[r].new.refresh
  <2>1. CASE r = p
    <3>1. n = issued + 1 /\ n \in Token
      BY <1>1, <1>2, <1>4, <2>1 DEF Pair
    <3>2. presented'[n] = 0
      BY <1>1, <1>6, <1>7, <3>1, TokenFacts
    <3>3. stored'.refresh # n
      BY <1>1, <1>6, <1>7, <3>1, TokenFacts
    <3>4. ASSUME NEW q \in Tasks
          PROVE  /\ task'[q].seen.refresh # n
                 /\ task'[q].loaded.refresh # n
                 /\ q # r => task'[q].new.refresh # n
      <4>1. /\ task[q].seen.refresh # n /\ task[q].loaded.refresh # n
            /\ task[q].new.refresh # n
        BY <1>1, <1>6, <1>7, <3>1, TokenFacts
      <4> QED
        BY <1>2, <1>5, <2>1, <4>1
    <3> QED
      BY <3>2, <3>3, <3>4
  <2>2. CASE r # p
    <3>1. task'[r] = task[r] /\ Holding(task[r]) /\ n # 0 /\ n \in Token /\ n <= issued
      BY <1>2, <1>6, <1>7, <2>2
    <3>2. /\ presented[n] = 0
          /\ stored.refresh # n
          /\ \A q \in Tasks : /\ task[q].seen.refresh # n
                              /\ task[q].loaded.refresh # n
                              /\ q # r /\ Holding(task[q]) => task[q].new.refresh # n
      BY <3>1 DEF RotationInv, FreshInv
    <3>3. presented'[n] = 0
      BY <3>1, <3>2
    <3>4. new.refresh # n
      BY <1>1, <3>1, TokenFacts
    <3>5. ASSUME NEW q \in Tasks
          PROVE  /\ task'[q].seen.refresh # n
                 /\ task'[q].loaded.refresh # n
                 /\ q # r /\ Holding(task'[q]) => task'[q].new.refresh # n
      BY <1>2, <1>4, <1>5, <3>2, <3>4
    <3> QED
      BY <3>2, <3>3, <3>5
  <2> QED
    BY <2>1, <2>2
<1> QED
  BY <1>8, <1>9

LEMMA ExchangeCodeStep ==
  ASSUME IInv, NEW p \in Callbacks, ExchangeCode(p)
  PROVE  IInv'
<1> DEFINE s == task[p].state
<1>1. p \in Tasks /\ p \notin Callers /\ task[p] \in TaskStates /\ lock \in Callers \cup {None}
  BY OAuthAssumption DEF Tasks, IInv, TypeInv
<1>2. /\ task[p].at = "exchange"
      /\ exchanged' = [exchanged EXCEPT ![s] = OnceMore(@)]
      /\ UNCHANGED <<oauth, stored, presented, lost, lock>>
  BY DEF ExchangeCode
<1>3. s \in States /\ oauth[s] = "used" /\ exchanged[s] = 0
  BY <1>1, <1>2 DEF IInv, CodeInv
<1>4. /\ exchanged' \in [States -> 0..2]
      /\ exchanged'[s] = 1
      /\ \A r \in States : r # s => exchanged'[r] = exchanged[r]
  BY <1>2, <1>3 DEF OnceMore, IInv, TypeInv
<1>5. ASSUME NEW t \in TaskStates, Become(p, t), t.at \notin {"consume", "exchange"}
      PROVE  CodeInv'
  <2>1. task'[p] = t /\ \A q \in Tasks : q # p => task'[q] = task[q]
    BY <1>1, <1>5 DEF Become, IInv, TypeInv
  <2>2. CodeIsExchangedOnce'
    BY <1>2, <1>3, <1>4 DEF IInv, CodeInv, CodeIsExchangedOnce
  <2>3. \A q \in Tasks : q # p /\ task[q].at = "exchange" => task[q].state # s
    BY <1>1, <1>2 DEF IInv, CodeInv
  <2>4. ASSUME NEW q \in Tasks
        PROVE  /\ task'[q].at \in {"consume", "exchange"} => task'[q].state \in States
               /\ task'[q].at = "exchange" =>
                    oauth'[task'[q].state] = "used" /\ exchanged'[task'[q].state] = 0
    <3>1. CASE q = p
      BY <1>5, <2>1, <3>1
    <3>2. CASE q # p
      <4>1. task'[q] = task[q]
        BY <2>1, <3>2
      <4>2. /\ task[q].at \in {"consume", "exchange"} => task[q].state \in States
            /\ task[q].at = "exchange" =>
                 /\ oauth[task[q].state] = "used"
                 /\ exchanged[task[q].state] = 0
                 /\ task[q].state # s
        BY <2>3, <3>2 DEF IInv, CodeInv
      <4> QED
        BY <1>2, <1>4, <4>1, <4>2
    <3> QED
      BY <3>1, <3>2
  <2>5. \A q, r \in Tasks :
          task'[q].at = "exchange" /\ task'[r].at = "exchange" /\ q # r
            => task'[q].state # task'[r].state
    BY <1>5, <2>1 DEF IInv, CodeInv
  <2> QED
    BY <2>2, <2>4, <2>5 DEF CodeInv
<1>6. CASE Become(p, Idle) /\ UNCHANGED issued
  <2>1. ~Holding(Idle)
    BY IdleIsTask DEF Holding
  <2>2. CodeInv'
    BY <1>5, <1>6, IdleIsTask
  <2>3. TypeInv'
    BY <1>2, <1>4, <1>6, IdleIsTask DEF IInv, TypeInv, Become
  <2>4. RotationInv'
    BY <1>1, <1>2, <1>6, <2>1, IdleIsTask, TaskMoves DEF IInv
  <2> QED
    BY <2>2, <2>3, <2>4 DEF IInv
<1>7. ASSUME NEW new \in [access : Issues, refresh : Token], Issue(new),
             Become(p, [task[p] EXCEPT !.at = "whoami", !.new = new])
      PROVE  IInv'
  <2> DEFINE t == [task[p] EXCEPT !.at = "whoami", !.new = new]
  <2>1. new \in Pair /\ issued' \in Token
    BY <1>7, IssuedTokens DEF IInv
  <2>2. /\ t \in TaskStates /\ t.at = "whoami" /\ t.new = new
        /\ t.seen = task[p].seen /\ t.loaded = task[p].loaded
    BY <1>1, <2>1 DEF TaskStates, Steps
  <2>3. t = [task[p] EXCEPT !.at = t.at, !.new = new]
    BY <2>2
  <2>4. BoundInv' /\ FreshInv'
    BY <1>1, <1>2, <1>7, <2>2, <2>3, NewTokens DEF IInv
  <2>5. CodeInv'
    BY <1>5, <1>7, <2>2
  <2>6. TypeInv'
    BY <1>2, <1>4, <1>7, <2>1, <2>2 DEF IInv, TypeInv, Become
  <2>7. /\ \A c \in Callers : task'[c] = task[c]
        /\ UNCHANGED <<stored, presented, lost, lock>>
    BY <1>1, <1>2, <1>7 DEF Become, IInv, TypeInv, Tasks
  <2>8. LockInv' /\ CallerInv' /\ RefreshIsNotRepeated' /\ StoredIsRenewable'
    <3>1. InHand' = InHand
      BY <2>7 DEF InHand
    <3> QED
      BY <2>7, <3>1 DEF IInv, RotationInv, LockInv, CallerInv, RefreshIsNotRepeated,
                        StoredIsRenewable
  <2> QED
    BY <2>4, <2>5, <2>6, <2>8 DEF IInv, RotationInv
<1> QED
  BY <1>6, <1>7 DEF ExchangeCode

-----------------------------------------------------------------------------
(* Asking for an access token *)

LEMMA AskTokenStep ==
  ASSUME IInv, NEW c \in Callers, AskToken(c)
  PROVE  IInv'
<1> DEFINE t == [Idle EXCEPT !.at = "queued", !.seen = stored]
<1>1. c \in Tasks /\ stored \in Pair /\ lock \in Callers \cup {None}
  BY DEF Tasks, IInv, TypeInv
<1>2. /\ t \in TaskStates /\ t.at = "queued" /\ t.seen = stored
      /\ t.loaded.refresh = 0 /\ t.new.refresh = 0
  BY <1>1, IdleIsTask DEF TaskStates, Steps, Idle
<1>3. /\ Become(c, t) /\ task[c].at = "idle"
      /\ UNCHANGED <<oauth, stored, issued, exchanged, presented, lost, lock>>
  BY DEF AskToken
<1>4. ~Holding(t) /\ t.at \notin Locked
  BY <1>2 DEF Holding, Locked
<1>5. TypeInv' /\ CodeInv'
  BY <1>1, <1>2, <1>3, QuietMove DEF IInv
<1>6. RotationInv'
  BY <1>1, <1>2, <1>3, <1>4, TaskMoves DEF IInv
<1> QED
  BY <1>5, <1>6 DEF IInv

LEMMA TakeLockStep ==
  ASSUME IInv, NEW c \in Callers, TakeLock(c)
  PROVE  IInv'
<1> DEFINE t == [task[c] EXCEPT !.at = "locked"]
<1>1. c \in Tasks /\ task[c] \in TaskStates
  BY DEF Tasks, IInv, TypeInv
<1>2. /\ t \in TaskStates /\ t.at = "locked" /\ t.seen = task[c].seen
      /\ t.loaded = task[c].loaded /\ t.new = task[c].new
  BY <1>1 DEF TaskStates, Steps
<1>3. /\ Become(c, t) /\ lock = None /\ lock' = c
      /\ UNCHANGED <<oauth, stored, issued, exchanged, presented, lost>>
  BY DEF TakeLock
<1>4. ~Holding(t) /\ c # None
  BY <1>2, OAuthAssumption DEF Holding
<1>5. \A d \in Callers : lock # d
  BY <1>3, OAuthAssumption
<1>6. TypeInv' /\ CodeInv'
  BY <1>1, <1>2, <1>3, QuietMove DEF IInv
<1>7. RotationInv'
  BY <1>1, <1>2, <1>3, <1>4, <1>5, TaskMoves DEF IInv
<1> QED
  BY <1>6, <1>7 DEF IInv

LEMMA RecheckStep ==
  ASSUME IInv, NEW c \in Callers, Recheck(c)
  PROVE  IInv'
<1> DEFINE t == [task[c] EXCEPT !.at = "refresh", !.seen = stored]
<1>1. c \in Tasks /\ task[c] \in TaskStates /\ stored \in Pair /\ lock = c
  BY DEF Tasks, IInv, TypeInv, RotationInv, LockInv, Locked, Recheck
<1>2. task[c].at = "locked" /\ UNCHANGED <<oauth, stored, issued, exchanged, presented, lost>>
  BY DEF Recheck
<1>3. CASE GiveUp(c)
  BY <1>1, <1>2, <1>3, GivingUp
<1>4. CASE NeedsRefresh(stored) /\ Become(c, t) /\ UNCHANGED lock
  <2>1. /\ t \in TaskStates /\ t.at = "refresh" /\ t.seen = stored
        /\ t.loaded = task[c].loaded /\ t.new = task[c].new
    BY <1>1 DEF TaskStates, Steps
  <2>2. stored.refresh # 0
    BY <1>4 DEF NeedsRefresh
  <2>3. InHand = {}
    BY <1>1, <1>2 DEF InHand
  <2>4. presented[stored.refresh] > 0 => stored.refresh \in lost
    BY <2>3 DEF IInv, RotationInv, StoredIsRenewable
  <2>5. ~Holding(t)
    BY <2>1 DEF Holding
  <2>6. TypeInv' /\ CodeInv'
    BY <1>1, <1>2, <1>4, <2>1, QuietMove DEF IInv
  <2>7. RotationInv'
    BY <1>1, <1>2, <1>4, <2>1, <2>2, <2>4, <2>5, TaskMoves DEF IInv
  <2> QED
    BY <2>6, <2>7 DEF IInv
<1> QED
  BY <1>3, <1>4 DEF Recheck, ReadAgain

LEMMA RefreshFailsStep ==
  ASSUME IInv, NEW c \in Callers, RefreshFails(c)
  PROVE  IInv'
  BY GivingUp DEF RefreshFails, Tasks

LEMMA SaveFailsStep ==
  ASSUME IInv, NEW p \in Tasks, SaveFails(p)
  PROVE  IInv'
  BY GivingUp DEF SaveFails

\* HeadHunter takes a refresh token for the first time, or again after its
\* answer was lost.
LEMMA Presenting ==
  ASSUME IInv, NEW c \in Callers, task[c].at = "refresh",
         presented' = [presented EXCEPT ![task[c].seen.refresh] = OnceMore(@)]
  PROVE  LET old == task[c].seen.refresh
         IN /\ old \in Token
            /\ old # 0
            /\ presented' \in [Token -> 0..2]
            /\ \A n \in Token : n # old => presented'[n] = presented[n]
            /\ presented'[old] > 1 => old \in lost
<1> DEFINE old == task[c].seen.refresh
<1>1. old \in Token
  BY DEF IInv, TypeInv, TaskStates, Pair, Tasks
<1>2. old # 0 /\ (presented[old] > 0 => old \in lost)
  BY DEF IInv, RotationInv, CallerInv
<1>3. presented[old] \in 0..2 /\ presented \in [Token -> 0..2]
  BY <1>1 DEF IInv, TypeInv
<1>4. OnceMore(presented[old]) \in 0..2 /\ (presented[old] = 0 => OnceMore(presented[old]) = 1)
  BY <1>3, OnceMoreCounts
<1> QED
  BY <1>1, <1>2, <1>3, <1>4

LEMMA RefreshStep ==
  ASSUME IInv, NEW c \in Callers, Refresh(c)
  PROVE  IInv'
<1> DEFINE old == task[c].seen.refresh
<1>1. c \in Tasks /\ task[c] \in TaskStates
  BY DEF Tasks, IInv, TypeInv
<1>2. /\ task[c].at = "refresh"
      /\ presented' = [presented EXCEPT ![old] = OnceMore(@)]
      /\ UNCHANGED <<oauth, stored, exchanged, lost, lock>>
  BY DEF Refresh
<1>3. PICK new \in [access : Issues, refresh : Token] :
        /\ Issue(new)
        /\ Become(c, [task[c] EXCEPT !.at = "save", !.new = new])
  BY DEF Refresh
<1> DEFINE t == [task[c] EXCEPT !.at = "save", !.new = new]
<1>4. new \in Pair /\ issued' \in Token
  BY <1>3, IssuedTokens DEF IInv
<1>5. /\ t \in TaskStates /\ t.at = "save" /\ t.new = new
      /\ t.seen = task[c].seen /\ t.loaded = task[c].loaded
  BY <1>1, <1>4 DEF TaskStates, Steps
<1>6. t = [task[c] EXCEPT !.at = t.at, !.new = new]
  BY <1>5
<1>7. /\ old \in Token /\ old # 0
      /\ presented' \in [Token -> 0..2]
      /\ \A n \in Token : n # old => presented'[n] = presented[n]
      /\ presented'[old] > 1 => old \in lost
  BY <1>2, Presenting
<1>8. BoundInv' /\ FreshInv'
  <2>1. \A n \in Token : presented'[n] # presented[n] =>
          n # 0 /\ \E q \in Tasks : task[q].seen.refresh = n
    BY <1>1, <1>7
  <2> QED
    BY <1>1, <1>2, <1>3, <1>5, <1>6, <2>1, NewTokens DEF IInv
<1>9. TypeInv'
  BY <1>2, <1>3, <1>4, <1>5, <1>7 DEF IInv, TypeInv, Become
<1>10. CodeInv'
  BY <1>1, <1>2, <1>3, <1>5, CodeMoves DEF IInv
<1>11. lock = c
  BY <1>2 DEF IInv, RotationInv, LockInv, Locked
<1>12. task'[c] = t /\ \A d \in Callers : d # c => task'[d] = task[d]
  BY <1>1, <1>3 DEF Become, IInv, TypeInv, Tasks
<1>13. LockInv'
  BY <1>2, <1>5, <1>11, <1>12 DEF IInv, RotationInv, LockInv
<1>14. CallerInv'
  <2> SUFFICES ASSUME NEW d \in Callers
               PROVE  LET seen == task'[d].seen.refresh
                      IN /\ task'[d].at \in {"refresh", "save", "saving"} => seen # 0
                         /\ task'[d].at = "refresh" /\ presented'[seen] > 0 => seen \in lost'
                         /\ task'[d].at = "saving" /\ stored'.refresh = seen
                              => task'[d].loaded.refresh = seen
    BY DEF CallerInv
  <2>1. CASE d = c
    BY <1>5, <1>7, <1>12, <2>1
  <2>2. CASE d # c
    <3>1. task'[d] = task[d] /\ task[d].at \notin Locked
      BY <1>11, <1>12, <2>2 DEF IInv, RotationInv, LockInv
    <3> QED
      BY <3>1 DEF Locked
  <2> QED
    BY <2>1, <2>2
<1>15. RefreshIsNotRepeated'
  BY <1>2, <1>7, TokenFacts DEF IInv, RotationInv, RefreshIsNotRepeated
<1>16. StoredIsRenewable'
  <2>1. old \in InHand'
    BY <1>2, <1>5, <1>11, <1>12 DEF InHand
  <2>2. InHand = {}
    BY <1>2, <1>11 DEF InHand
  <2>3. stored.refresh \in Token
    BY DEF IInv, TypeInv, Pair
  <2> QED
    BY <1>2, <1>7, <2>1, <2>2, <2>3 DEF IInv, RotationInv, StoredIsRenewable
<1> QED
  BY <1>8, <1>9, <1>10, <1>13, <1>14, <1>15, <1>16 DEF IInv, RotationInv

\* The task that ends: nothing is asked of it any more.
LEMMA EndedTask ==
  ASSUME IInv, NEW p \in Tasks, GiveUp(p), UNCHANGED <<oauth, exchanged>>
  PROVE  /\ task' \in [Tasks -> TaskStates]
         /\ task'[p] = Idle
         /\ \A q \in Tasks : q # p => task'[q] = task[q]
         /\ lock' \in Callers \cup {None}
         /\ LockInv'
         /\ CodeInv'
<1>1. Become(p, Idle) /\ lock' = IF lock = p THEN None ELSE lock
  BY DEF GiveUp, Release
<1>2. /\ task' \in [Tasks -> TaskStates]
      /\ task'[p] = Idle
      /\ \A q \in Tasks : q # p => task'[q] = task[q]
  BY <1>1, IdleIsTask DEF Become, IInv, TypeInv
<1>3. lock' \in Callers \cup {None} /\ \A d \in Callers : d # p /\ lock = d => lock' = d
  BY <1>1 DEF IInv, TypeInv
<1>4. LockInv'
  <2> SUFFICES ASSUME NEW c \in Callers
               PROVE  /\ task'[c].at \in Locked => lock' = c
                      /\ task'[c].at \notin {"consume", "exchange", "whoami"}
    BY DEF LockInv, Locked
  <2>1. CASE c = p
    BY <1>2, <2>1, IdleIsTask DEF Locked
  <2>2. CASE c # p
    <3>1. task'[c] = task[c]
      BY <1>2, <2>2 DEF Tasks
    <3> QED
      BY <1>3, <2>2, <3>1 DEF IInv, RotationInv, LockInv
  <2> QED
    BY <2>1, <2>2
<1>5. CodeInv'
  BY <1>1, IdleIsTask, CodeMoves DEF IInv
<1> QED
  BY <1>2, <1>3, <1>4, <1>5

LEMMA RefreshLostStep ==
  ASSUME IInv, NEW c \in Callers, RefreshLost(c)
  PROVE  IInv'
<1> DEFINE old == task[c].seen.refresh
<1>1. /\ c \in Tasks /\ task[c].at = "refresh" /\ GiveUp(c)
      /\ presented' = [presented EXCEPT ![old] = OnceMore(@)]
      /\ lost' = lost \cup {old}
      /\ UNCHANGED <<oauth, stored, issued, exchanged>>
  BY DEF RefreshLost, Tasks
<1>2. /\ task' \in [Tasks -> TaskStates]
      /\ task'[c] = Idle
      /\ \A q \in Tasks : q # c => task'[q] = task[q]
      /\ lock' \in Callers \cup {None}
      /\ LockInv'
      /\ CodeInv'
  BY <1>1, EndedTask
<1>3. /\ old \in Token /\ old # 0
      /\ presented' \in [Token -> 0..2]
      /\ \A n \in Token : n # old => presented'[n] = presented[n]
  BY <1>1, Presenting
<1>4. TypeInv'
  BY <1>1, <1>2, <1>3 DEF IInv, TypeInv
<1>5. \A q \in Tasks : /\ task[q].new.refresh \in Token
                       /\ task[q].seen.refresh \in Token
                       /\ task[q].loaded.refresh \in Token
  BY DEF IInv, TypeInv, TaskStates, Pair
<1>6. stored.refresh \in Token /\ issued \in Token
  BY DEF IInv, TypeInv, Pair
<1>7. lock = c
  BY <1>1 DEF IInv, RotationInv, LockInv, Locked
<1>8. BoundInv'
  <2>1. old <= issued
    BY <1>1 DEF IInv, RotationInv, BoundInv
  <2>2. presented'[0] = 0 /\ \A n \in Token : n > issued => presented'[n] = 0
    BY <1>3, <1>6, <2>1, TokenFacts DEF IInv, RotationInv, BoundInv
  <2>3. ASSUME NEW q \in Tasks
        PROVE  /\ task'[q].seen.refresh <= issued
               /\ task'[q].loaded.refresh <= issued
               /\ task'[q].new.refresh <= issued
    <3>1. 0 <= issued
      BY <1>6, TokenFacts
    <3>2. CASE q = c
      BY <1>2, <3>1, <3>2, IdleIsTask
    <3>3. CASE q # c
      BY <1>2, <3>3 DEF IInv, RotationInv, BoundInv
    <3> QED
      BY <3>2, <3>3
  <2> QED
    BY <1>1, <2>2, <2>3 DEF BoundInv, IInv, RotationInv
<1>9. FreshInv'
  <2> SUFFICES ASSUME NEW r \in Tasks, Holding(task'[r]), task'[r].new.refresh # 0
               PROVE  LET n == task'[r].new.refresh
                      IN /\ presented'[n] = 0
                         /\ stored'.refresh # n
                         /\ \A q \in Tasks :
                              /\ task'[q].seen.refresh # n
                              /\ task'[q].loaded.refresh # n
                              /\ q # r /\ Holding(task'[q]) => task'[q].new.refresh # n
    BY DEF FreshInv, Holding
  <2> DEFINE n == task'[r].new.refresh
  <2>1. r # c /\ task'[r] = task[r]
    BY <1>2, IdleIsTask
  <2>2. /\ presented[n] = 0
        /\ stored.refresh # n
        /\ \A q \in Tasks : /\ task[q].seen.refresh # n
                            /\ task[q].loaded.refresh # n
                            /\ q # r /\ Holding(task[q]) => task[q].new.refresh # n
    BY <2>1 DEF IInv, RotationInv, FreshInv
  <2>3. presented'[n] = 0
    BY <1>1, <1>3, <1>5, <2>1, <2>2
  <2>4. ASSUME NEW q \in Tasks
        PROVE  /\ task'[q].seen.refresh # n
               /\ task'[q].loaded.refresh # n
               /\ q # r /\ Holding(task'[q]) => task'[q].new.refresh # n
    BY <1>2, <2>2, IdleIsTask DEF Holding
  <2> QED
    BY <1>1, <2>2, <2>3, <2>4
<1>10. CallerInv'
  <2> SUFFICES ASSUME NEW d \in Callers
               PROVE  task'[d].at \notin {"refresh", "save", "saving"}
    BY DEF CallerInv
  <2>1. CASE d = c
    BY <1>2, <2>1, IdleIsTask
  <2>2. CASE d # c
    <3>1. task'[d] = task[d] /\ task[d].at \notin Locked
      BY <1>2, <1>7, <2>2 DEF IInv, RotationInv, LockInv, Tasks
    <3> QED
      BY <3>1 DEF Locked
  <2> QED
    BY <2>1, <2>2
<1>11. RefreshIsNotRepeated'
  BY <1>1, <1>3, TokenFacts DEF IInv, RotationInv, RefreshIsNotRepeated
<1>12. StoredIsRenewable'
  <2>1. InHand = {}
    BY <1>1, <1>7 DEF InHand
  <2> QED
    BY <1>1, <1>3, <1>6, <2>1 DEF IInv, RotationInv, StoredIsRenewable
<1> QED
  BY <1>2, <1>4, <1>8, <1>9, <1>10, <1>11, <1>12 DEF IInv, RotationInv

-----------------------------------------------------------------------------
(* The commit of tokens *)

\* The row keeps its refresh token or gets the one its writer brings, and a
\* caller whose own token is still in the row replaces it.
LEMMA CommittedToken ==
  ASSUME IInv, NEW p \in Tasks, SaveCommit(p)
  PROVE  /\ stored' \in Pair
         /\ stored'.refresh \in {stored.refresh, task[p].new.refresh}
         /\ p \in Callers /\ stored.refresh = task[p].seen.refresh =>
              stored'.refresh = task[p].new.refresh
<1> DEFINE loaded == task[p].loaded
           new == task[p].new
<1>1. loaded \in Pair /\ new \in Pair /\ stored \in Pair
  BY DEF IInv, TypeInv, TaskStates
<1>2. /\ task[p].at = "saving"
      /\ stored' = IF loaded = Disconnected /\ stored # Disconnected THEN stored
                   ELSE FlushTokens(loaded, new)
  BY DEF SaveCommit
<1>3. /\ FlushTokens(loaded, new) \in Pair
      /\ FlushTokens(loaded, new).refresh =
           IF loaded # Disconnected /\ new.refresh = loaded.refresh
           THEN stored.refresh ELSE new.refresh
  BY <1>1 DEF FlushTokens, Pair
<1>4. ASSUME p \in Callers, stored.refresh = task[p].seen.refresh
      PROVE  stored'.refresh = new.refresh
  <2>1. loaded.refresh = stored.refresh /\ stored.refresh # 0
    BY <1>2, <1>4 DEF IInv, RotationInv, CallerInv
  <2>2. loaded # Disconnected
    BY <2>1 DEF Disconnected
  <2>3. new.refresh # loaded.refresh
    <3>1. Holding(task[p])
      BY <1>2 DEF Holding
    <3> QED
      BY <2>1, <3>1 DEF IInv, RotationInv, FreshInv
  <2> QED
    BY <1>2, <1>3, <2>2, <2>3
<1> QED
  BY <1>1, <1>2, <1>3, <1>4

LEMMA SaveCommitStep ==
  ASSUME IInv, NEW p \in Tasks, SaveCommit(p)
  PROVE  IInv'
<1> DEFINE new == task[p].new.refresh
<1>1. /\ task[p].at = "saving" /\ GiveUp(p)
      /\ UNCHANGED <<oauth, issued, exchanged, presented, lost>>
  BY DEF SaveCommit
<1>2. /\ task' \in [Tasks -> TaskStates]
      /\ task'[p] = Idle
      /\ \A q \in Tasks : q # p => task'[q] = task[q]
      /\ lock' \in Callers \cup {None}
      /\ LockInv'
      /\ CodeInv'
  BY <1>1, EndedTask
<1>3. /\ stored' \in Pair
      /\ stored'.refresh \in {stored.refresh, new}
      /\ p \in Callers /\ stored.refresh = task[p].seen.refresh => stored'.refresh = new
  BY CommittedToken
<1>4. TypeInv'
  BY <1>1, <1>2, <1>3 DEF IInv, TypeInv
<1>5. Holding(task[p]) /\ new \in Token /\ issued \in Token
  BY <1>1 DEF Holding, IInv, TypeInv, TaskStates, Pair
<1>6. new # 0 =>
        /\ presented[new] = 0
        /\ \A q \in Tasks : task[q].seen.refresh # new /\ task[q].loaded.refresh # new
  BY <1>5 DEF IInv, RotationInv, FreshInv
<1>7. BoundInv'
  <2>1. ASSUME NEW q \in Tasks
        PROVE  /\ task'[q].seen.refresh <= issued
               /\ task'[q].loaded.refresh <= issued
               /\ task'[q].new.refresh <= issued
    <3>1. 0 <= issued
      BY <1>5, TokenFacts
    <3>2. CASE q = p
      BY <1>2, <3>1, <3>2, IdleIsTask
    <3>3. CASE q # p
      BY <1>2, <3>3 DEF IInv, RotationInv, BoundInv
    <3> QED
      BY <3>2, <3>3
  <2> QED
    BY <1>1, <1>3, <2>1 DEF BoundInv, IInv, RotationInv
<1>8. FreshInv'
  <2> SUFFICES ASSUME NEW r \in Tasks, Holding(task'[r]), task'[r].new.refresh # 0
               PROVE  LET n == task'[r].new.refresh
                      IN /\ presented'[n] = 0
                         /\ stored'.refresh # n
                         /\ \A q \in Tasks :
                              /\ task'[q].seen.refresh # n
                              /\ task'[q].loaded.refresh # n
                              /\ q # r /\ Holding(task'[q]) => task'[q].new.refresh # n
    BY DEF FreshInv, Holding
  <2> DEFINE n == task'[r].new.refresh
  <2>1. r # p /\ task'[r] = task[r]
    BY <1>2, IdleIsTask DEF Holding
  <2>2. /\ presented[n] = 0
        /\ stored.refresh # n
        /\ \A q \in Tasks : /\ task[q].seen.refresh # n
                            /\ task[q].loaded.refresh # n
                            /\ q # r /\ Holding(task[q]) => task[q].new.refresh # n
    BY <2>1 DEF IInv, RotationInv, FreshInv
  <2>3. stored'.refresh # n
    BY <1>3, <1>5, <2>1, <2>2
  <2>4. ASSUME NEW q \in Tasks
        PROVE  /\ task'[q].seen.refresh # n
               /\ task'[q].loaded.refresh # n
               /\ q # r /\ Holding(task'[q]) => task'[q].new.refresh # n
    BY <1>2, <2>2, IdleIsTask DEF Holding
  <2> QED
    BY <1>1, <2>2, <2>3, <2>4
<1>9. CallerInv'
  <2> SUFFICES ASSUME NEW d \in Callers
               PROVE  LET old == task'[d].seen.refresh
                      IN /\ task'[d].at \in {"refresh", "save", "saving"} => old # 0
                         /\ task'[d].at = "refresh" /\ presented[old] > 0 => old \in lost
                         /\ task'[d].at = "saving" /\ stored'.refresh = old
                              => task'[d].loaded.refresh = old
    BY <1>1 DEF CallerInv
  <2>1. CASE d = p
    BY <1>2, <2>1, IdleIsTask
  <2>2. CASE d # p
    <3> DEFINE old == task[d].seen.refresh
    <3>1. task'[d] = task[d] /\ d \in Tasks
      BY <1>2, <2>2 DEF Tasks
    <3>2. /\ task[d].at \in {"refresh", "save", "saving"} => old # 0
          /\ task[d].at = "refresh" /\ presented[old] > 0 => old \in lost
          /\ task[d].at = "saving" /\ stored.refresh = old => task[d].loaded.refresh = old
      BY DEF IInv, RotationInv, CallerInv
    <3>3. old # 0 => old # new
      BY <1>6, <3>1
    <3> QED
      BY <1>3, <3>1, <3>2, <3>3
  <2> QED
    BY <2>1, <2>2
<1>10. RefreshIsNotRepeated'
  BY <1>1 DEF IInv, RotationInv, RefreshIsNotRepeated
<1>11. StoredIsRenewable'
  <2> SUFFICES ASSUME presented[stored'.refresh] > 0
               PROVE  stored'.refresh \in lost \/ stored'.refresh \in InHand'
    BY <1>1 DEF StoredIsRenewable
  <2>1. presented[new] = 0
    BY <1>6 DEF IInv, RotationInv, BoundInv
  <2>2. stored'.refresh = stored.refresh /\ stored.refresh # new
    BY <1>3, <2>1
  <2>3. CASE stored.refresh \in lost
    BY <2>2, <2>3
  <2>4. CASE stored.refresh \in InHand
    <3>1. PICK c \in Callers : /\ lock = c
                               /\ task[c].at \in {"save", "saving"}
                               /\ stored.refresh = task[c].seen.refresh
      BY <2>4 DEF InHand
    <3>2. c # p
      BY <1>3, <2>2, <3>1
    <3>3. lock' = c
      BY <1>1, <3>1, <3>2 DEF GiveUp, Release
    <3>4. task'[c] = task[c]
      BY <1>2, <3>2 DEF Tasks
    <3> QED
      BY <2>2, <3>1, <3>3, <3>4 DEF InHand
  <2> QED
    BY <2>2, <2>3, <2>4 DEF IInv, RotationInv, StoredIsRenewable
<1> QED
  BY <1>2, <1>4, <1>7, <1>8, <1>9, <1>10, <1>11 DEF IInv, RotationInv

-----------------------------------------------------------------------------
(* Crashes, and the invariant *)

LEMMA CrashStep ==
  ASSUME IInv, Crash
  PROVE  IInv'
<1>1. /\ lost' = lost \cup InHand
      /\ task' = [p \in Tasks |-> Idle]
      /\ lock' = None
      /\ UNCHANGED <<oauth, stored, issued, exchanged, presented>>
  BY DEF Crash
<1>2. \A p \in Tasks : task'[p] = Idle
  BY <1>1
<1>3. TypeInv'
  BY <1>1, IdleIsTask DEF IInv, TypeInv
<1>4. CodeInv'
  BY <1>1, <1>2, IdleIsTask DEF IInv, CodeInv, CodeIsExchangedOnce
<1>5. LockInv' /\ FreshInv' /\ CallerInv'
  BY <1>2, IdleIsTask DEF LockInv, Locked, FreshInv, Holding, CallerInv, Tasks
<1>6. BoundInv'
  <2>1. 0 <= issued
    BY TokenFacts DEF IInv, TypeInv
  <2> QED
    BY <1>1, <1>2, <2>1, IdleIsTask DEF IInv, RotationInv, BoundInv
<1>7. RefreshIsNotRepeated' /\ StoredIsRenewable'
  BY <1>1 DEF IInv, RotationInv, RefreshIsNotRepeated, StoredIsRenewable
<1> QED
  BY <1>3, <1>4, <1>5, <1>6, <1>7 DEF IInv, RotationInv

LEMMA NextIInv == IInv /\ [Next]_vars => IInv'
<1> SUFFICES ASSUME IInv, [Next]_vars PROVE IInv'
  OBVIOUS
<1>1. ASSUME UNCHANGED <<oauth, stored, issued, exchanged, presented, lost, lock, task>>
      PROVE  IInv'
  BY <1>1 DEF IInv, TypeInv, CodeInv, CodeIsExchangedOnce, RotationInv, LockInv, BoundInv,
              FreshInv, CallerInv, RefreshIsNotRepeated, StoredIsRenewable, InHand, Holding
<1>2. ASSUME NEW p \in Callbacks, Connect(p) PROVE IInv'
  <2>1. p \in Tasks
    BY DEF Tasks
  <2> QED
    BY <1>2, <2>1, ConsumeStep, ExchangeCodeStep, ExchangeFailsStep, WhoAmIStep,
       SaveLoadStep, SaveCommitStep, SaveFailsStep DEF Connect
<1>3. ASSUME NEW c \in Callers, GetToken(c) PROVE IInv'
  <2>1. c \in Tasks
    BY DEF Tasks
  <2> QED
    BY <1>3, <2>1, TakeLockStep, RecheckStep, RefreshStep, RefreshLostStep,
       RefreshFailsStep, SaveLoadStep, SaveCommitStep, SaveFailsStep DEF GetToken
<1>4. CASE ExpireToken
  BY <1>1, <1>4 DEF ExpireToken
<1>5. CASE UNCHANGED vars
  BY <1>1, <1>5 DEF vars
<1> QED
  BY <1>2, <1>3, <1>4, <1>5, StateSteps, CallbackStep, AskTokenStep, CrashStep DEF Next

LEMMA Invariant == Spec => []IInv
  BY InitIInv, NextIInv, PTL DEF Spec

\* A code is handed to HeadHunter at most once, and only after the use of its
\* state was committed, for any callbacks and crashes.
THEOREM OneExchange == Spec => []CodeIsExchangedOnce
<1>1. IInv => CodeIsExchangedOnce
  BY DEF IInv, CodeInv
<1> QED
  BY <1>1, Invariant, PTL

\* A refresh token is presented again only if the answer to it never reached
\* the database, for any callers, reconnections and crashes.
THEOREM OneRefresh == Spec => []RefreshIsNotRepeated
<1>1. IInv => RefreshIsNotRepeated
  BY DEF IInv, RotationInv
<1> QED
  BY <1>1, Invariant, PTL

\* The row keeps no refresh token that HeadHunter rotated away, unless its
\* replacement is on its way or was lost.
THEOREM RowIsRenewable == Spec => []StoredIsRenewable
<1>1. IInv => StoredIsRenewable
  BY DEF IInv, RotationInv
<1> QED
  BY <1>1, Invariant, PTL
=============================================================================
