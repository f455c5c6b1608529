------------------------------- MODULE HHClient -------------------------------
(***************************************************************************)
(* The HeadHunter client's requests on behalf of the application: the      *)
(* cached application token, the lock under which it is renewed, and the   *)
(* transport that repeats a request.                                       *)
(*                                                                         *)
(* Modelled from app/sources/hh.py with client_id and client_secret        *)
(* configured.  The callers run concurrently: search_vacancies gathers two *)
(* scopes, a scope left behind by the failure of the other goes on beside  *)
(* the next query, and an application checks its vacancy meanwhile.        *)
(* Tokens are numbered in the order HeadHunter issues them, 0 is none.     *)
(* HeadHunter may revoke a token whenever it likes, and does so with the   *)
(* older ones when it issues a new one, or does not.                       *)
(***************************************************************************)
EXTENDS Naturals, Sequences

CONSTANTS
  Callers,      \* concurrent calls of _application_get
  None,
  MaxAttempts,  \* retry_policy.max_attempts
  MaxIssues     \* bound: how many tokens HeadHunter issues

ASSUME ClientAssumption ==
  /\ None \notin Callers
  /\ MaxAttempts \in Nat \ {0}
  /\ MaxIssues \in Nat

VARIABLES
  cached,    \* _application_access_token
  lock,      \* _application_token_lock: who holds it ...
  queue,     \* ... and who waits for it, in order
  call,
  issued,    \* tokens issued so far
  valid,     \* those HeadHunter accepts
  received   \* those whose answer reached the client

server == <<issued, valid>>
clientVars == <<cached, lock, queue, call, issued, valid, received>>

Tokens == 1..MaxIssues

\* About to get a token; waiting for the lock; the POST, its answer on the way,
\* and the GET, with the number of the attempt in `try`.  `round` is authorization_attempt,
\* `dead` are the tokens that were already revoked when the call began.
Steps == {"idle", "token", "queued", "locked", "post", "answer", "get"}

Idle == [at |-> "idle", token |-> 0, try |-> 0, round |-> 0, dead |-> {}]

Become(c, state) == call' = [call EXCEPT ![c] = state]

-----------------------------------------------------------------------------
(* The transport *)

\* What _send repeats: a request that is throttled or did not connect, and, if
\* it is idempotent, also one that timed out or met a server error.
MayRepeat(idempotent, failure) ==
  idempotent \/ failure \in {"connect", "throttled"}

Failures == {"connect", "lost", "throttled"}

\* The attempt failed and is repeated after a sleep.
Repeats(c, idempotent, failure) ==
  MayRepeat(idempotent, failure) /\ call[c].try < MaxAttempts

-----------------------------------------------------------------------------
(* The application token *)

Call(c) ==
  /\ call[c].at = "idle"
  /\ Become(c, [Idle EXCEPT !.at = "token", !.dead = (1..issued) \ valid])
  /\ UNCHANGED <<cached, lock, queue, server, received>>

\* The request itself, with the token in hand.
Asking(c, token) ==
  [call[c] EXCEPT !.at = "get", !.token = token, !.try = 1]

\* _get_application_access_token before the lock.
GetToken(c) ==
  /\ call[c].at = "token"
  /\ IF cached # 0
     THEN Become(c, Asking(c, cached)) /\ UNCHANGED queue
     ELSE /\ Become(c, [call[c] EXCEPT !.at = "queued"])
          /\ queue' = Append(queue, c)
  /\ UNCHANGED <<cached, lock, server, received>>

\* Fault: the lock is taken by whoever comes.
AnyWaiter(c) == lock = None

Free(c) == lock = None /\ Head(queue) = c

TakeLock(c) ==
  /\ call[c].at = "queued"
  /\ Free(c)
  /\ lock' = c
  /\ queue' = SelectSeq(queue, LAMBDA q : q # c)
  /\ Become(c, [call[c] EXCEPT !.at = "locked"])
  /\ UNCHANGED <<cached, server, received>>

Release(c) == lock' = IF lock = c THEN None ELSE lock

\* Somebody else has renewed the token while this call waited.
Renewed == cached # 0

Recheck(c) ==
  /\ call[c].at = "locked"
  /\ IF Renewed
     THEN Become(c, Asking(c, cached)) /\ Release(c)
     ELSE /\ Become(c, [call[c] EXCEPT !.at = "post", !.try = 1])
          /\ UNCHANGED lock
  /\ UNCHANGED <<cached, queue, server, received>>

\* HeadHunter carries out the token request.
Issue(c) ==
  /\ call[c].at = "post"
  /\ issued < MaxIssues
  /\ issued' = issued + 1
  /\ valid' \in {{issued'}, valid \cup {issued'}}
  /\ Become(c, [call[c] EXCEPT !.at = "answer", !.token = issued'])
  /\ UNCHANGED <<cached, lock, queue, received>>

TokenArrives(c) ==
  LET token == call[c].token
  IN /\ call[c].at = "answer"
     /\ cached' = token
     /\ received' = received \cup {token}
     /\ Become(c, Asking(c, token))
     /\ Release(c)
     /\ UNCHANGED <<queue, server>>

GiveUp(c) == Become(c, Idle) /\ Release(c)

\* HeadHunter refuses, or answers with something the client cannot read.
TokenRefused(c) ==
  /\ call[c].at \in {"post", "answer"}
  /\ GiveUp(c)
  /\ UNCHANGED <<cached, queue, server, received>>

\* The attempt fails; once HeadHunter has issued a token only the answer can be
\* lost.
TokenFails(c) ==
  /\ call[c].at \in {"post", "answer"}
  /\ \E failure \in IF call[c].at = "post" THEN Failures ELSE {"lost"} :
       IF Repeats(c, FALSE, failure)
       THEN Become(c, [call[c] EXCEPT !.at = "post", !.try = @ + 1]) /\ UNCHANGED lock
       ELSE GiveUp(c)
  /\ UNCHANGED <<cached, queue, server, received>>

-----------------------------------------------------------------------------
(* The request *)

\* HeadHunter answers with the vacancies, or with an error of another kind.
Answered(c) ==
  /\ call[c].at = "get"
  /\ call[c].token \in valid
  /\ Become(c, Idle)
  /\ UNCHANGED <<cached, lock, queue, server, received>>

\* Faults: the newer token is dropped with the old one; nothing is dropped.
DropAny(token) == cached' = 0
DropNone(token) == cached' = cached

\* A token that HeadHunter no longer accepts is dropped from the cache, unless
\* another one is there by now.
Drop(token) == cached' = IF cached = token THEN 0 ELSE cached

\* The oauth error: once in a call it is answered with another token.
Unauthorized(c) ==
  /\ call[c].at = "get"
  /\ call[c].token \notin valid
  /\ \/ /\ call[c].round = 0
        /\ Drop(call[c].token)
        /\ Become(c, [call[c] EXCEPT !.at = "token", !.round = 1])
     \/ /\ call[c].round = 1
        /\ Become(c, Idle)
        /\ UNCHANGED cached
  /\ UNCHANGED <<lock, queue, server, received>>

RequestFails(c) ==
  /\ call[c].at = "get"
  /\ \E failure \in Failures :
       Become(c, IF Repeats(c, TRUE, failure)
                 THEN [call[c] EXCEPT !.try = @ + 1] ELSE Idle)
  /\ UNCHANGED <<cached, lock, queue, server, received>>

\* HeadHunter revokes a token; the bound is the one on tokens.
Revoke ==
  /\ \E token \in valid : valid' = valid \ {token}
  /\ UNCHANGED <<cached, lock, queue, call, issued, received>>

ClientInit ==
  /\ cached = 0
  /\ lock = None
  /\ queue = <<>>
  /\ call = [c \in Callers |-> Idle]
  /\ issued = 0
  /\ valid = {}
  /\ received = {}

\* What a call does next, but for beginning.
Proceed(c) ==
  \/ GetToken(c) \/ TakeLock(c) \/ Recheck(c)
  \/ Issue(c) \/ TokenArrives(c) \/ TokenRefused(c) \/ TokenFails(c)
  \/ Answered(c) \/ Unauthorized(c) \/ RequestFails(c)

ClientNext ==
  \/ \E c \in Callers : Call(c) \/ Proceed(c)
  \/ Revoke

ClientSpec == ClientInit /\ [][ClientNext]_clientVars

\* Every request ends (the timeouts of httpx), and the lock is handed on.
ClientFairSpec == ClientSpec /\ \A c \in Callers : WF_clientVars(Proceed(c))

-----------------------------------------------------------------------------
(* Properties *)

ClientTypeOK ==
  /\ cached \in 0..issued
  /\ lock \in Callers \cup {None}
  /\ queue \in Seq(Callers)
  /\ call \in [Callers -> [at : Steps, token : 0..issued, try : 0..MaxAttempts,
                           round : {0, 1}, dead : SUBSET (1..issued)]]
  /\ issued \in 0..MaxIssues
  /\ valid \in SUBSET (1..issued)
  /\ received \in SUBSET (1..issued)

\* A token is asked for only when none of those the client was given works any
\* more: no token that another call has just fetched is dropped or fetched
\* twice, whatever the order of the answers (_application_get, the comparison
\* before the cache is cleared, and the second look under the lock).
TokensAreNotWasted ==
  (\E c \in Callers : call[c].at \in {"post", "answer"}) => received \cap valid = {}

\* The cache never goes back to an older token: what is cached is the newest
\* token that the client was given.
CacheIsNewest == cached # 0 => \A token \in received : token <= cached

\* A call gives up for want of authorization only if HeadHunter revoked, since
\* the call began, the token of its second try: one stale token never fails it.
OneStaleTokenIsSurvived ==
  [][\A c \in Callers :
       Unauthorized(c) /\ call'[c].at = "idle"
       => call[c].token \notin call[c].dead]_clientVars

\* Every call ends, and with it whoever waits for the token it was renewing.
CallsEnd == \A c \in Callers : call[c].at # "idle" ~> call[c].at = "idle"
=============================================================================
