------------------------ MODULE ComplaintLifecycle ------------------------
(***************************************************************************)
(* The life of a complaint as residents and administrators see it, one     *)
(* step per visible change: what module Complaint implements with reads,   *)
(* version tests and writes that interleave.                               *)
(***************************************************************************)
CONSTANTS
  Complaints,  \* complaint ids
  Users,       \* who may file one
  Texts,       \* what it may say
  NoDetail     \* the detail of an id that holds no complaint

Stages == {"unfiled", "PENDING", "IN_PROGRESS", "RESOLVED", "REJECTED", "gone"}

Filed == {"PENDING", "IN_PROGRESS", "RESOLVED", "REJECTED"}

VARIABLES
  stage,   \* where each complaint is in its life
  detail   \* who filed it and what it says

lifeVars == <<stage, detail>>

Detail == [author : Users, text : Texts]

\* Complaints filed earlier may be waiting already.
Init ==
  /\ stage \in [Complaints -> {"unfiled", "PENDING"}]
  /\ detail \in [Complaints -> Detail \cup {NoDetail}]
  /\ \A c \in Complaints : stage[c] = "unfiled" <=> detail[c] = NoDetail

\* An id is used once: a complaint is filed under one that never held another.
File(c, d) ==
  /\ stage[c] = "unfiled"
  /\ stage' = [stage EXCEPT ![c] = "PENDING"]
  /\ detail' = [detail EXCEPT ![c] = d]

\* The author changes the text while the complaint waits; never the author.
Revise(c, t) ==
  /\ stage[c] = "PENDING"
  /\ detail' = [detail EXCEPT ![c].text = t]
  /\ UNCHANGED stage

\* Taken up, it is not put back; resolved or rejected, it is settled.
TakeUp(c) ==
  /\ stage[c] = "PENDING"
  /\ stage' = [stage EXCEPT ![c] = "IN_PROGRESS"]
  /\ UNCHANGED detail

Settle(c, s) ==
  /\ stage[c] \in {"PENDING", "IN_PROGRESS"}
  /\ s \in {"RESOLVED", "REJECTED"}
  /\ stage' = [stage EXCEPT ![c] = s]
  /\ UNCHANGED detail

\* Complaints disappear, one by a delete or several with their author.
Withdraw(S) ==
  /\ \A c \in S : stage[c] \in Filed
  /\ stage' = [c \in Complaints |-> IF c \in S THEN "gone" ELSE stage[c]]
  /\ detail' = [c \in Complaints |-> IF c \in S THEN NoDetail ELSE detail[c]]

Next ==
  \/ \E c \in Complaints :
       \/ \E d \in Detail : File(c, d)
       \/ \E t \in Texts : Revise(c, t)
       \/ TakeUp(c)
       \/ \E s \in {"RESOLVED", "REJECTED"} : Settle(c, s)
  \/ \E S \in SUBSET Complaints : Withdraw(S)

Spec == Init /\ [][Next]_lifeVars
=============================================================================
