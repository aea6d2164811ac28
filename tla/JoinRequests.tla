---------------------------- MODULE JoinRequests ----------------------------
(***************************************************************************)
(* What becomes of the request to join of an account, of a resident or of  *)
(* an administrator, one step per visible change: what ResidentAccounts    *)
(* and AdminAccounts implement with reads, version tests and writes that   *)
(* interleave.                                                             *)
(*                                                                         *)
(* A decision is final with one exception, which is part of this promise   *)
(* because the code makes no better one: the decision on all requests is   *)
(* two steps, and what it found waiting at the first it decides at the     *)
(* second, whatever was decided in between.                                *)
(***************************************************************************)
CONSTANTS
  Requests,  \* who may decide on all requests at once
  Accounts,  \* ids of accounts
  Entry      \* the stages a new account may begin in

Waiting == {"NOT_JOINED", "PENDING"}
Verdicts == {"PENDING", "APPROVED", "REJECTED"}
Present == Waiting \cup Verdicts

VARIABLES
  stage,  \* where each account is in its life
  round   \* round[r] is what r has found waiting and will decide

joinVars == <<stage, round>>

Init ==
  /\ stage \in [Accounts -> Present \cup {"unused"}]
  /\ round = [r \in Requests |-> {}]

\* An id is used once, for an account that waits or that needs no decision.
Enter(c, s) ==
  /\ stage[c] = "unused" /\ s \in Entry
  /\ stage' = [stage EXCEPT ![c] = s]
  /\ UNCHANGED round

\* A resident who was registered signs up.
Join(c) ==
  /\ stage[c] = "NOT_JOINED"
  /\ stage' = [stage EXCEPT ![c] = "PENDING"]
  /\ UNCHANGED round

\* One account is decided about, once: what is decided waits no longer.
Decide(c, s) ==
  /\ stage[c] \in Waiting /\ s \in Verdicts
  /\ stage' = [stage EXCEPT ![c] = s]
  /\ UNCHANGED round

OpenRound(r) ==
  /\ round[r] = {}
  /\ round' = [round EXCEPT ![r] = {c \in Accounts : stage[c] = "PENDING"}]
  /\ UNCHANGED stage

CloseRound(r, s) ==
  /\ s \in Verdicts
  /\ stage' = [c \in Accounts |->
                 IF c \in round[r] /\ stage[c] \in Present THEN s ELSE stage[c]]
  /\ round' = [round EXCEPT ![r] = {}]

\* The round comes to nothing.
DropRound(r) == round' = [round EXCEPT ![r] = {}] /\ UNCHANGED stage

\* One account is deleted, or several that were rejected.
Remove(S) ==
  /\ \/ \E c \in Accounts : S = {c} /\ stage[c] \in Present
     \/ \A c \in S : stage[c] = "REJECTED"
  /\ stage' = [c \in Accounts |-> IF c \in S THEN "removed" ELSE stage[c]]
  /\ UNCHANGED round

Next ==
  \/ \E c \in Accounts :
       \/ \E s \in Entry : Enter(c, s)
       \/ Join(c)
       \/ \E s \in Verdicts : Decide(c, s)
  \/ \E r \in Requests :
       \/ OpenRound(r) \/ DropRound(r)
       \/ \E s \in Verdicts : CloseRound(r, s)
  \/ \E S \in SUBSET Accounts : Remove(S)

Spec == Init /\ [][Next]_joinVars
=============================================================================
