------------------------ MODULE ConfirmationContract ------------------------
(***************************************************************************)
(* What the submission workflow promises the user, without databases,      *)
(* tasks or crashes: a confirmation is granted for one application, can be *)
(* redeemed once, and a redeemed confirmation lets at most one request     *)
(* reach HeadHunter, for the application it was granted for.  HeadHunter   *)
(* holds only applications made that way, or by the user on the site.      *)
(***************************************************************************)
EXTENDS Naturals

CONSTANTS Confirmations, Applications, None

VARIABLES
  grant,      \* the application a confirmation was granted for
  redeemed,   \* confirmations that were used up
  sent,       \* requests HeadHunter received under each confirmation
  held        \* applications HeadHunter holds

contractVars == <<grant, redeemed, sent, held>>

ContractInit ==
  /\ grant = [c \in Confirmations |-> None]
  /\ redeemed = {}
  /\ sent = [c \in Confirmations |-> 0]
  /\ held \subseteq Applications

Grant(c, a) ==
  /\ grant[c] = None
  /\ grant' = [grant EXCEPT ![c] = a]
  /\ UNCHANGED <<redeemed, sent, held>>

Redeem(c) ==
  /\ grant[c] # None
  /\ c \notin redeemed
  /\ redeemed' = redeemed \cup {c}
  /\ UNCHANGED <<grant, sent, held>>

Send(c) ==
  /\ c \in redeemed
  /\ sent[c] = 0
  /\ sent' = [sent EXCEPT ![c] = 1]
  /\ held' \in {held, held \cup {grant[c]}}
  /\ UNCHANGED <<grant, redeemed>>

OnSite(a) ==
  /\ held' = held \cup {a}
  /\ UNCHANGED <<grant, redeemed, sent>>

ContractNext ==
  \/ \E c \in Confirmations :
       Redeem(c) \/ Send(c) \/ \E a \in Applications : Grant(c, a)
  \/ \E a \in Applications : OnSite(a)

Contract == ContractInit /\ [][ContractNext]_contractVars
=============================================================================
