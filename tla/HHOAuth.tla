-------------------------------- MODULE HHOAuth --------------------------------
(***************************************************************************)
(* The HeadHunter account of the user: the rows of `oauth_states`, the row *)
(* of `user_integrations`, the aiohttp callbacks that complete an          *)
(* authorization, the tasks that ask for an access token, and HeadHunter,  *)
(* which exchanges a code once and rotates refresh tokens.                 *)
(*                                                                         *)
(* Modelled from app/services/hh_oauth.py, the token requests of           *)
(* app/sources/hh.py, app/services/hh_oauth_callback.py and                *)
(* app/repositories/hh_integration_repository.py.  The bot has one user;   *)
(* tokens are numbered in the order HeadHunter issues them, 0 is no token. *)
(* The resumes fetched after an authorization are kept in other rows.      *)
(***************************************************************************)
EXTENDS Naturals, Sequences

CONSTANTS
  States,      \* OAuth states, one per authorization link
  Callbacks,   \* concurrent requests to the callback URL
  Callers,     \* concurrent calls of get_access_token
  None,
  MaxIssues    \* bound: how many tokens HeadHunter issues

ASSUME OAuthAssumption ==
  /\ Callbacks \cap Callers = {}
  /\ None \notin States \cup Callers
  /\ MaxIssues \in Nat

Tasks == Callbacks \cup Callers

VARIABLES
  oauth,      \* oauth_states
  stored,     \* user_integrations: access and refresh token
  expired,    \* tokens whose expires_at has passed
  issued,     \* tokens issued so far
  exchanged,  \* how often HeadHunter exchanged the code of a state, up to twice
  presented,  \* how often HeadHunter was handed a refresh token, up to twice
  lost,       \* refresh tokens whose replacement never reached the bot
  lock,       \* _refresh_lock: who holds it ...
  queue,      \* ... and who waits for it, in order
  task

vars == <<oauth, stored, expired, issued, exchanged, presented, lost, lock, queue, task>>

Issues == 1..MaxIssues
Token == 0..MaxIssues
Disconnected == [access |-> 0, refresh |-> 0]

\* Callbacks consume a state, exchange the code, ask who the user is; callers
\* wait for the lock, read again, refresh; both save what HeadHunter issued.
Steps == {"idle", "consume", "exchange", "whoami", "queued", "locked", "refresh",
          "save", "saving"}

Idle == [at |-> "idle", state |-> None, seen |-> Disconnected, new |-> Disconnected,
         loaded |-> Disconnected]

\* Nothing tells more than two of a kind apart: the bound of the counters.
OnceMore(count) == IF count = 2 THEN 2 ELSE count + 1

Become(p, state) == task' = [task EXCEPT ![p] = state]

\* Fault: the lock stays taken.
KeepLock(p) == UNCHANGED lock

\* get_access_token leaves the lock to whoever waits, however it ends.
Release(p) == lock' = IF lock = p THEN None ELSE lock

GiveUp(p) == Become(p, Idle) /\ Release(p)

-----------------------------------------------------------------------------
(* Connecting an account *)

\* create_authorization_url.
CreateState(s) ==
  /\ oauth[s] = "absent"
  /\ oauth' = [oauth EXCEPT ![s] = "live"]
  /\ UNCHANGED <<stored, expired, issued, exchanged, presented, lost, lock, queue, task>>

ExpireState(s) ==
  /\ oauth[s] = "live"
  /\ oauth' = [oauth EXCEPT ![s] = "expired"]
  /\ UNCHANGED <<stored, expired, issued, exchanged, presented, lost, lock, queue, task>>

\* The browser calls back; consume_oauth_state reads the row.
Callback(p, s) ==
  /\ task[p].at = "idle"
  /\ oauth[s] = "live"
  /\ Become(p, [Idle EXCEPT !.at = "consume", !.state = s])
  /\ UNCHANGED <<oauth, stored, expired, issued, exchanged, presented, lost, lock, queue>>

\* Fault: the UPDATE lost its WHERE used_at IS NULL.
AlwaysUnused(s) == oauth[s] # "absent"

\* UPDATE .. WHERE used_at IS NULL does not look at expires_at again.
Unused(s) == oauth[s] \in {"live", "expired"}

ConsumeState(p) ==
  LET s == task[p].state
  IN /\ task[p].at = "consume"
     /\ \/ /\ Unused(s)
           /\ oauth' = [oauth EXCEPT ![s] = "used"]
           /\ Become(p, [task[p] EXCEPT !.at = "exchange"])
        \/ /\ ~Unused(s)
           /\ Become(p, Idle)
           /\ UNCHANGED oauth
     /\ UNCHANGED <<stored, expired, issued, exchanged, presented, lost, lock, queue>>

\* HeadHunter issues tokens; the refresh token may be missing in its answer.
Issue(new) ==
  /\ issued < MaxIssues
  /\ issued' = issued + 1
  /\ new \in [access : {issued'}, refresh : {0, issued'}]

\* exchange_code, with or without its answer reaching the bot.
ExchangeCode(p) ==
  LET s == task[p].state
  IN /\ task[p].at = "exchange"
     /\ exchanged' = [exchanged EXCEPT ![s] = OnceMore(@)]
     /\ \/ \E new \in [access : Issues, refresh : Token] :
             /\ Issue(new)
             /\ Become(p, [task[p] EXCEPT !.at = "whoami", !.new = new])
        \/ Become(p, Idle) /\ UNCHANGED issued
     /\ UNCHANGED <<oauth, stored, expired, presented, lost, lock, queue>>

\* The code is refused or HeadHunter cannot be reached.
ExchangeFails(p) ==
  /\ task[p].at = "exchange"
  /\ Become(p, Idle)
  /\ UNCHANGED <<oauth, stored, expired, issued, exchanged, presented, lost, lock, queue>>

\* get_current_user, whose failure drops the tokens.
WhoAmI(p) ==
  /\ task[p].at = "whoami"
  /\ \/ Become(p, [task[p] EXCEPT !.at = "save"])
     \/ Become(p, Idle)
  /\ UNCHANGED <<oauth, stored, expired, issued, exchanged, presented, lost, lock, queue>>

-----------------------------------------------------------------------------
(* Saving tokens *)

\* save_integration: the SELECT ...
SaveLoad(p) ==
  /\ task[p].at = "save"
  /\ Become(p, [task[p] EXCEPT !.at = "saving", !.loaded = stored])
  /\ UNCHANGED <<oauth, stored, expired, issued, exchanged, presented, lost, lock, queue>>

\* ... the columns it flushes ...
FlushTokens(loaded, new) ==
  [access |-> IF new.access = loaded.access THEN stored.access ELSE new.access,
   refresh |-> IF loaded # Disconnected /\ new.refresh = loaded.refresh
               THEN stored.refresh ELSE new.refresh]

\* ... and the commit.  An insert that lost the race raises.
SaveCommit(p) ==
  LET loaded == task[p].loaded
  IN /\ task[p].at = "saving"
     /\ stored' = IF loaded = Disconnected /\ stored # Disconnected THEN stored
                  ELSE FlushTokens(loaded, task[p].new)
     /\ GiveUp(p)
     /\ UNCHANGED <<oauth, expired, issued, exchanged, presented, lost, queue>>

\* The database refuses: what HeadHunter issued is dropped with the call.
SaveFails(p) ==
  /\ task[p].at \in {"save", "saving"}
  /\ lost' = lost \cup ({task[p].seen.refresh} \ {0})
  /\ GiveUp(p)
  /\ UNCHANGED <<oauth, stored, expired, issued, exchanged, presented, queue>>

-----------------------------------------------------------------------------
(* Asking for an access token *)

Current(tokens) == tokens.access # 0 /\ tokens.access \notin expired

\* get_access_token returns at once, or fails if no account is connected; only
\* an expired token makes it wait for the lock.
AskToken(c) ==
  /\ task[c].at = "idle"
  /\ stored # Disconnected
  /\ ~Current(stored)
  /\ Become(c, [Idle EXCEPT !.at = "queued", !.seen = stored])
  /\ queue' = Append(queue, c)
  /\ UNCHANGED <<oauth, stored, expired, issued, exchanged, presented, lost, lock>>

\* asyncio.Lock is fair.
TakeLock(c) ==
  /\ lock = None
  /\ queue # <<>> /\ Head(queue) = c
  /\ lock' = c
  /\ queue' = Tail(queue)
  /\ Become(c, [task[c] EXCEPT !.at = "locked"])
  /\ UNCHANGED <<oauth, stored, expired, issued, exchanged, presented, lost>>

\* Fault: under the lock, the integration read before it is used.
ReadBeforeLock(c) == task[c].seen

\* Under the lock the integration is read again.
ReadAgain(c) == stored

NeedsRefresh(tokens) == ~Current(tokens) /\ tokens.refresh # 0

Recheck(c) ==
  LET tokens == ReadAgain(c)
  IN /\ task[c].at = "locked"
     /\ \/ /\ ~NeedsRefresh(tokens)
           /\ GiveUp(c)
        \/ /\ NeedsRefresh(tokens)
           /\ Become(c, [task[c] EXCEPT !.at = "refresh", !.seen = tokens])
           /\ UNCHANGED lock
     /\ UNCHANGED <<oauth, stored, expired, issued, exchanged, presented, lost, queue>>

\* refresh_access_token is answered with new tokens, which rotate the old ones.
Refresh(c) ==
  LET old == task[c].seen.refresh
  IN /\ task[c].at = "refresh"
     /\ presented' = [presented EXCEPT ![old] = OnceMore(@)]
     /\ \E new \in [access : Issues, refresh : Token] :
          /\ Issue(new)
          /\ Become(c, [task[c] EXCEPT !.at = "save", !.new = new])
     /\ UNCHANGED <<oauth, stored, expired, exchanged, lost, lock, queue>>

\* The request arrives, and its answer is a refusal or is lost: not repeated.
RefreshLost(c) ==
  LET old == task[c].seen.refresh
  IN /\ task[c].at = "refresh"
     /\ presented' = [presented EXCEPT ![old] = OnceMore(@)]
     /\ lost' = lost \cup {old}
     /\ GiveUp(c)
     /\ UNCHANGED <<oauth, stored, expired, issued, exchanged, queue>>

\* The request never arrives.
RefreshFails(c) ==
  /\ task[c].at = "refresh"
  /\ GiveUp(c)
  /\ UNCHANGED <<oauth, stored, expired, issued, exchanged, presented, lost, queue>>

-----------------------------------------------------------------------------
(* Time and crashes *)

ExpireToken ==
  /\ Current(stored)
  /\ expired' = expired \cup {stored.access}
  /\ UNCHANGED <<oauth, stored, issued, exchanged, presented, lost, lock, queue, task>>

\* Refresh tokens whose replacement is on its way to the database.
InHand == {task[c].seen.refresh : c \in {d \in Callers : /\ lock = d
                                                         /\ task[d].at \in {"save", "saving"}}}

\* The process dies with its tasks, its lock and the answers it had in hand.
Crash ==
  /\ \E p \in Tasks : task[p].at # "idle"
  /\ lost' = lost \cup InHand
  /\ task' = [p \in Tasks |-> Idle]
  /\ lock' = None
  /\ queue' = <<>>
  /\ UNCHANGED <<oauth, stored, expired, issued, exchanged, presented>>

Init ==
  /\ oauth = [s \in States |-> "absent"]
  /\ stored = Disconnected
  /\ expired = {}
  /\ issued = 0
  /\ exchanged = [s \in States |-> 0]
  /\ presented = [n \in Token |-> 0]
  /\ lost = {}
  /\ lock = None
  /\ queue = <<>>
  /\ task = [p \in Tasks |-> Idle]

Connect(p) ==
  \/ ConsumeState(p) \/ ExchangeCode(p) \/ ExchangeFails(p) \/ WhoAmI(p)
  \/ SaveLoad(p) \/ SaveCommit(p) \/ SaveFails(p)

GetToken(c) ==
  \/ TakeLock(c) \/ Recheck(c)
  \/ Refresh(c) \/ RefreshLost(c) \/ RefreshFails(c)
  \/ SaveLoad(c) \/ SaveCommit(c) \/ SaveFails(c)

Next ==
  \/ \E s \in States : CreateState(s) \/ ExpireState(s)
  \/ \E p \in Callbacks : Connect(p) \/ \E s \in States : Callback(p, s)
  \/ \E c \in Callers : GetToken(c) \/ AskToken(c)
  \/ ExpireToken
  \/ Crash

Spec == Init /\ [][Next]_vars

\* A started call goes on: every request to HeadHunter has a timeout.
FairSpec == Spec /\ \A c \in Callers : WF_vars(GetToken(c))

-----------------------------------------------------------------------------
(* Properties *)

TypeOK ==
  /\ oauth \in [States -> {"absent", "live", "expired", "used"}]
  /\ stored \in [access : Token, refresh : Token]
  /\ expired \subseteq Issues
  /\ issued \in Token
  /\ exchanged \in [States -> 0..2]
  /\ presented \in [Token -> 0..2]
  /\ lost \subseteq Issues
  /\ lock \in Callers \cup {None}
  /\ queue \in Seq(Callers)
  /\ task \in [Tasks -> [at : Steps, state : States \cup {None},
                         seen : [access : Token, refresh : Token],
                         new : [access : Token, refresh : Token],
                         loaded : [access : Token, refresh : Token]]]

\* An authorization code is exchanged at most once, and only after the use of
\* its state is committed: a reloaded callback, two callbacks at once or a
\* restart never present it again (consume_oauth_state).
CodeIsExchangedOnce ==
  \A s \in States : exchanged[s] <= 1 /\ (exchanged[s] = 1 => oauth[s] = "used")

\* Concurrent callers, and a reconnection in between, use a refresh token once:
\* it is presented again only if the answer to it never reached the database.
RefreshIsNotRepeated ==
  \A n \in Issues : presented[n] > 1 => n \in lost

\* The row never keeps a refresh token that HeadHunter has rotated away, except
\* while the caller with the lock brings its replacement or after the answer
\* was lost.
StoredIsRenewable ==
  presented[stored.refresh] > 0 => stored.refresh \in lost \cup InHand

\* Whoever waits for the lock gets it: a failed refresh, a refused one or a
\* failed save never leaves it taken (async with self._refresh_lock).
CallersGetTheLock ==
  \A c \in Callers : task[c].at = "queued" ~> task[c].at # "queued"
=============================================================================
