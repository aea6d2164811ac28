----------------------------- MODULE PollProofs -----------------------------
(***************************************************************************)
(* What holds of the polls for any requests, users, polls and options.     *)
(*                                                                         *)
(* A request that was answered never moves again, and one that is under    *)
(* way keeps what it asked for (Facts).  A vote in flight has its key to   *)
(* itself (KeysAreFree), an id that was drawn is not drawn again           *)
(* (IdsUsedOnce), and a poll that was edited is past the version the edit  *)
(* was computed from (VersionsGrow).  Nobody has two votes on a poll, and  *)
(* what was stored after a request is known by name (OneVoteEach,          *)
(* StoredInOrder): so a vote that is gone has somebody who took it.  A     *)
(* vote in flight refers to a poll and an option that no open transaction  *)
(* deletes (References).                                                   *)
(***************************************************************************)
EXTENDS Poll, TLAPS

Creating(r) == job[r].op = "create" /\ pc[r] \in {"alarm", "commit"}
Voting(r) == job[r].op = "vote" /\ pc[r] \in {"evict", "commit"}

Transactions == {"create", "delete", "vote", "cancel"}

\* What is known of request r at each of its calls.
Facts(r) ==
  /\ pc[r] = "idle" => job[r] = NoJob /\ r \notin stored
  /\ pc[r] # "idle" => job[r] \in Jobs
  /\ pc[r] # "done" => result[r] = "none"
  /\ pc[r] = "alarm" => job[r].op = "create"
  /\ pc[r] = "write" => job[r].op = "edit" /\ seen[r] \in PollRow
  /\ pc[r] = "evict" => job[r].op \in {"edit", "delete", "vote", "cancel"}
  /\ pc[r] = "commit" => job[r].op \in Transactions
  /\ Creating(r) => seen[r] \in PollRow
  /\ r \in stored => pc[r] = "done" \/ (pc[r] = "evict" /\ job[r].op = "edit")
  /\ job[r].op = "vote" /\ result[r] = "ok" => r \in stored
  /\ job[r].op = "cancel" =>
       \A v \in gone[r] : v.user = job[r].user /\ v.option = job[r].option

Local == TypeOK /\ \A r \in Requests : Facts(r)

\* Ids of polls that were drawn are not drawn again.
IdsUsedOnce ==
  /\ \A p \in Polls \cap fresh : polls[p] = Absent /\ \A e \in edits : e[2] # p
  /\ \A r \in Requests : Creating(r) =>
       /\ job[r].poll \notin fresh /\ polls[job[r].poll] = Absent
       /\ \A e \in edits : e[2] # job[r].poll
       /\ \A s \in Requests \ {r} : Creating(s) => job[s].poll # job[r].poll

VersionsGrow ==
  \A e \in edits : polls[e[2]] = Absent \/ e[3] < polls[e[2]].version

\* Nobody else has or is about to have the vote that user u casts on poll p.
Free(r, u, p) ==
  /\ \A v \in votes : ~(v.user = u /\ v.poll = p)
  /\ \A s \in Requests \ {r} : Voting(s) => ~(job[s].user = u /\ job[s].poll = p)

KeysAreFree == \A r \in Requests : Voting(r) => Free(r, job[r].user, job[r].poll)

\* Nobody has two votes on a poll.
OneVoteEach == \A v, w \in votes : v.user = w.user /\ v.poll = w.poll => v = w

\* What stored its writes after another is stored, as the other is.
StoredInOrder == since \subseteq stored \X stored

Stored ==
  /\ OneVoteEach
  /\ StoredInOrder
  /\ AcknowledgedVotesStand
  /\ NoLostEdit
  /\ IdsUsedOnce
  /\ VersionsGrow
  /\ KeysAreFree

IInv == Local /\ Stored

-----------------------------------------------------------------------------
(***************************************************************************)
(* The requests.                                                           *)
(***************************************************************************)

LEMMA JobsAreWellFormed ==
  ASSUME NEW j \in Jobs
  PROVE  /\ j.op \in {"create", "edit", "delete", "vote", "cancel"}
         /\ j.poll \in Polls
         /\ j.op \in {"create", "edit"} => j.options \subseteq Options
         /\ j.op \in {"vote", "cancel"} => j.user \in Users /\ j.option \in Options
  BY DEF Jobs

LEMMA NothingIsAsked == NoJob.op = "none"
  BY DEF NoJob

\* The requests other than r stand still.
Others(r) ==
  \A s \in Requests \ {r} :
    /\ pc'[s] = pc[s] /\ job'[s] = job[s] /\ seen'[s] = seen[s]
    /\ gone'[s] = gone[s] /\ result'[s] = result[s]

LEMMA StepMoves ==
  ASSUME TypeOK, NEW r \in Requests, NEW j, NEW b, NEW d, NEW p, Step(r, j, b, d, p)
  PROVE  /\ Others(r) /\ pc'[r] = p /\ job'[r] = j /\ seen'[r] = b /\ gone'[r] = d
         /\ result' = result
  BY DEF TypeOK, Step, Others

LEMMA ConcludeMoves ==
  ASSUME TypeOK, NEW r \in Requests, NEW j, NEW b, NEW a, Conclude(r, j, b, a)
  PROVE  /\ Others(r) /\ pc'[r] = "done" /\ job'[r] = j /\ seen'[r] = b /\ result'[r] = a
         /\ gone' = gone
  BY DEF TypeOK, Conclude, Others

LEMMA GotoMoves ==
  ASSUME TypeOK, NEW r \in Requests, NEW p, Goto(r, p)
  PROVE  /\ Others(r) /\ pc'[r] = p /\ UNCHANGED <<job, seen, gone, result>>
  BY DEF TypeOK, Goto, Others

-----------------------------------------------------------------------------
(***************************************************************************)
(* Types, and what a request knows.                                        *)
(***************************************************************************)

Calls == {"idle", "alarm", "write", "evict", "commit", "done"}

RequestsOK ==
  /\ pc \in [Requests -> Calls]
  /\ job \in [Requests -> Jobs \cup {NoJob}]
  /\ seen \in [Requests -> PollRow \cup {Absent}]
  /\ gone \in [Requests -> SUBSET Vote]
  /\ result \in [Requests -> Result]

TablesOK ==
  /\ polls \in [Polls -> PollRow \cup {Absent}]
  /\ fresh \subseteq Polls \cup Options
  /\ votes \subseteq Vote
  /\ outbox \subseteq Polls
  /\ stored \subseteq Requests
  /\ since \subseteq Requests \X Requests
  /\ dropped \in [Requests -> SUBSET Options]
  /\ edits \subseteq Requests \X Polls \X Nat

LEMMA TypesAreTwo ==
  /\ TypeOK <=> RequestsOK /\ TablesOK
  /\ TypeOK' <=> RequestsOK' /\ TablesOK'
  BY DEF TypeOK, RequestsOK, TablesOK, Calls

LEMMA StepTypes ==
  ASSUME TypeOK, NEW r \in Requests, NEW j \in Jobs, NEW b \in PollRow \cup {Absent},
         NEW d \in SUBSET Vote, NEW p \in Calls, Step(r, j, b, d, p)
  PROVE  RequestsOK'
  BY DEF TypeOK, RequestsOK, Step, Calls

LEMMA ConcludeTypes ==
  ASSUME TypeOK, NEW r \in Requests, NEW j \in Jobs \cup {NoJob},
         NEW b \in PollRow \cup {Absent}, NEW a \in Result, Conclude(r, j, b, a)
  PROVE  RequestsOK'
  BY DEF TypeOK, RequestsOK, Conclude, Calls

LEMMA AnswerTypes ==
  ASSUME TypeOK, NEW r \in Requests, NEW a \in Result, Answer(r, a)
  PROVE  /\ RequestsOK' /\ Others(r) /\ pc'[r] = "done" /\ result'[r] = a
         /\ UNCHANGED <<job, seen, gone>>
<1>1. job[r] \in Jobs \cup {NoJob} /\ seen[r] \in PollRow \cup {Absent}
  BY DEF TypeOK
<1>2. Conclude(r, job[r], seen[r], a)
  BY DEF Answer
<1>3. job' = job /\ seen' = seen
  BY <1>2 DEF Conclude, TypeOK
<1> QED
  BY <1>1, <1>2, <1>3, ConcludeTypes, ConcludeMoves

LEMMA GotoTypes ==
  ASSUME TypeOK, NEW r \in Requests, NEW p \in Calls, Goto(r, p)
  PROVE  RequestsOK'
  BY DEF TypeOK, RequestsOK, Goto, Calls

LEMMA AbsentIsTyped ==
  /\ Absent \in PollRow \cup {Absent} /\ {} \in SUBSET Vote
  /\ {"ok", "ERROR", "POLL_NOT_FOUND", "ALREADY_VOTED", "FAIL_SAVE_POLL"} \subseteq Result
  BY DEF Result

\* A step of r tells the others nothing.
LEMMA OthersKnow ==
  ASSUME Local, NEW r \in Requests, Others(r), stored' \subseteq stored \cup {r},
         stored \subseteq stored', Facts(r)'
  PROVE  \A s \in Requests : Facts(s)'
<1> SUFFICES ASSUME NEW s \in Requests \ {r} PROVE Facts(s)'
  OBVIOUS
<1>1. Facts(s) /\ (s \in stored' <=> s \in stored)
  BY DEF Local
<1>2. /\ pc'[s] = pc[s] /\ job'[s] = job[s] /\ seen'[s] = seen[s]
      /\ result'[s] = result[s] /\ gone'[s] = gone[s]
  BY DEF Others
<1> QED
  BY <1>1, <1>2 DEF Facts, Creating

LEMMA LocalInit == Init => Local
<1> SUFFICES ASSUME Init PROVE Local
  OBVIOUS
<1>1. RequestsOK
  BY DEF Init, RequestsOK, Calls, Result
<1>2. polls \in [Polls -> PollRow \cup {Absent}]
  BY DEF Init, PollRow
<1>3. TablesOK
  BY <1>2 DEF Init, TablesOK
<1>4. \A r \in Requests : Facts(r)
  BY NothingIsAsked DEF Init, Facts, Creating
<1> QED
  BY <1>1, <1>3, <1>4, TypesAreTwo DEF Local

\* A step of r that changes no table keeps what is known if r knows its part.
LEMMA QuietTypes ==
  ASSUME Local, NEW r \in Requests, Others(r), RequestsOK', UNCHANGED tables, Facts(r)'
  PROVE  Local'
<1>1. TablesOK'
  BY TypesAreTwo DEF Local, TablesOK, tables, history
<1>2. stored' = stored
  BY DEF tables, history
<1> QED
  BY <1>1, <1>2, OthersKnow, TypesAreTwo DEF Local

LEMMA CreatePollKnows ==
  ASSUME Local, NEW r \in Requests, CreatePoll(r) PROVE Local'
<1>1. PICK j \in Jobs :
        /\ j.op = "create" /\ j.poll \in fresh /\ j.options \subseteq fresh
        /\ fresh' = fresh \ ({j.poll} \cup j.options)
        /\ Step(r, j, [options |-> j.options, version |-> 1], {}, "alarm")
  BY DEF CreatePoll
<1> DEFINE b == [options |-> j.options, version |-> 1]
<1>2. b \in PollRow
  BY <1>1, JobsAreWellFormed DEF PollRow
<1> HIDE DEF b
<1>3. RequestsOK' /\ Others(r) /\ pc'[r] = "alarm" /\ job'[r] = j /\ seen'[r] = b /\ result' = result
  BY <1>1, <1>2, StepTypes, StepMoves, AbsentIsTyped DEF Local, Calls, b
<1>4. UNCHANGED <<polls, votes, outbox, history>> /\ pc[r] = "idle"
  BY DEF CreatePoll
<1>5. TablesOK'
  BY <1>1, <1>4, TypesAreTwo DEF Local, TablesOK, history
<1>6. Facts(r)
  BY DEF Local
<1>7. Facts(r)'
  BY <1>1, <1>2, <1>3, <1>4, <1>6 DEF Facts, Creating, history
<1>8. stored' = stored
  BY <1>4 DEF history
<1> QED
  BY <1>3, <1>5, <1>7, <1>8, OthersKnow, TypesAreTwo DEF Local

LEMMA CreateAlarmKnows ==
  ASSUME Local, NEW r \in Requests, CreateAlarm(r) PROVE Local'
<1>1. pc[r] = "alarm" /\ Goto(r, "commit") /\ UNCHANGED tables
  BY DEF CreateAlarm
<1>2. RequestsOK' /\ Others(r) /\ pc'[r] = "commit" /\ UNCHANGED <<job, seen, gone, result>>
  BY <1>1, GotoTypes, GotoMoves DEF Local, Calls
<1>3. Facts(r) /\ stored' = stored
  BY <1>1 DEF Local, tables, history
<1>4. Facts(r)'
  BY <1>1, <1>2, <1>3 DEF Facts, Creating, Transactions
<1> QED
  BY <1>1, <1>2, <1>4, QuietTypes DEF Local, TypeOK

LEMMA FindToEditKnows ==
  ASSUME Local, NEW r \in Requests, FindToEdit(r) PROVE Local'
<1>1. PICK j \in Jobs :
        /\ j.op = "edit"
        /\ \/ polls[j.poll] = Absent /\ Conclude(r, j, Absent, "POLL_NOT_FOUND")
           \/ polls[j.poll] # Absent /\ Step(r, j, polls[j.poll], {}, "write")
  BY DEF FindToEdit
<1>2. pc[r] = "idle" /\ UNCHANGED tables /\ stored' = stored
  BY DEF FindToEdit, tables, history
<1>3. Facts(r) /\ polls[j.poll] \in PollRow \cup {Absent}
  BY JobsAreWellFormed DEF Local, TypeOK
<1>4. CASE Conclude(r, j, Absent, "POLL_NOT_FOUND")
  <2>1. RequestsOK' /\ Others(r) /\ pc'[r] = "done" /\ job'[r] = j
    BY <1>4, ConcludeTypes, ConcludeMoves, AbsentIsTyped DEF Local
  <2>2. Facts(r)'
    BY <1>1, <1>2, <1>3, <2>1 DEF Facts, Creating
  <2> QED
    BY <1>2, <2>1, <2>2, QuietTypes DEF Local, TypeOK
<1>5. CASE polls[j.poll] # Absent /\ Step(r, j, polls[j.poll], {}, "write")
  <2>1. polls[j.poll] \in PollRow
    BY <1>3, <1>5
  <2>2. /\ RequestsOK' /\ Others(r) /\ pc'[r] = "write" /\ job'[r] = j
        /\ seen'[r] = polls[j.poll] /\ result' = result
    BY <1>5, <2>1, StepTypes, StepMoves, AbsentIsTyped DEF Local, Calls
  <2>3. Facts(r)'
    BY <1>1, <1>2, <1>3, <2>1, <2>2 DEF Facts, Creating
  <2> QED
    BY <1>2, <2>2, <2>3, QuietTypes DEF Local, TypeOK
<1> QED
  BY <1>1, <1>4, <1>5

\* The row an edit leaves.
LEMMA EditedIsRow ==
  ASSUME Local, NEW r \in Requests, pc[r] = "write"
  PROVE  /\ Edited(r) \in PollRow /\ Edited(r).version = seen[r].version + 1
         /\ seen[r] \in PollRow /\ seen[r].version \in Nat
         /\ job[r].poll \in Polls /\ job[r].op = "edit"
<1>1. Facts(r)
  BY DEF Local
<1>2. job[r] \in Jobs /\ seen[r] \in PollRow /\ job[r].op = "edit"
  BY <1>1 DEF Facts
<1>3. job[r].options \subseteq Options /\ job[r].poll \in Polls
  BY <1>2, JobsAreWellFormed
<1> DEFINE kept == {o \in job[r].options : o \in seen[r].options \/ o \in fresh}
<1>4. kept \subseteq Options
  BY <1>3
<1> HIDE DEF kept
<1>5. Edited(r) = [seen[r] EXCEPT !.options = kept, !.version = @ + 1]
  BY DEF Edited, kept
<1>6. seen[r].version \in Nat
  BY <1>2 DEF PollRow
<1>7. Edited(r) = [options |-> kept, version |-> seen[r].version + 1]
  BY <1>2, <1>5 DEF PollRow
<1>8. Edited(r) \in PollRow
  BY <1>4, <1>6, <1>7 DEF PollRow
<1> QED
  BY <1>2, <1>3, <1>6, <1>7, <1>8

\* What the history of stored requests keeps.
LEMMA StoreTypes ==
  ASSUME TypeOK, NEW r \in Requests, NEW S \in SUBSET Options, Store(r, S)
  PROVE  /\ stored' \subseteq Requests /\ since' \subseteq Requests \X Requests
         /\ dropped' \in [Requests -> SUBSET Options]
  BY DEF TypeOK, Store

LEMMA OptionsAreOptions ==
  ASSUME TypeOK, NEW p \in Polls PROVE OptionsOf(p) \in SUBSET Options
<1>1. polls[p] \in PollRow \cup {Absent}
  BY DEF TypeOK
<1> QED
  BY <1>1 DEF OptionsOf, PollRow

LEMMA WriteEditKnows ==
  ASSUME Local, NEW r \in Requests, WriteEdit(r) PROVE Local'
<1> DEFINE p == job[r].poll
<1>1. /\ pc[r] = "write" /\ job[r].op = "edit" /\ Facts(r)
      /\ p \in Polls /\ Edited(r) \in PollRow /\ seen[r].version \in Nat
  BY EditedIsRow DEF WriteEdit, Local
<1>2. CASE Matches(r) /\ Goto(r, "evict") /\ Store(r, OptionsOf(p)) /\ UNCHANGED outbox
             /\ polls' = [polls EXCEPT ![p] = Edited(r)] /\ fresh' = fresh \ job[r].options
             /\ votes' = {v \in votes : v.option \notin OptionsOf(p)}
             /\ edits' = edits \cup {<<r, p, seen[r].version>>}
  <2>1. RequestsOK' /\ Others(r) /\ pc'[r] = "evict" /\ UNCHANGED <<job, seen, gone, result>>
    BY <1>2, GotoTypes, GotoMoves DEF Local, Calls
  <2>2. Facts(r)'
    BY <1>1, <2>1 DEF Facts, Creating
  <2>3. polls' \in [Polls -> PollRow \cup {Absent}]
    BY <1>1, <1>2 DEF Local, TypeOK
  <2>6. /\ stored' \subseteq Requests /\ since' \subseteq Requests \X Requests
        /\ dropped' \in [Requests -> SUBSET Options]
    BY <1>1, <1>2, OptionsAreOptions, StoreTypes DEF Local
  <2>4. edits' \subseteq Requests \X Polls \X Nat
    BY <1>1, <1>2 DEF Local, TypeOK
  <2> HIDE DEF p
  <2>5. TablesOK'
    BY <1>1, <1>2, <2>3, <2>4, <2>6, TypesAreTwo DEF Local, TablesOK
  <2> QED
    BY <1>2, <2>1, <2>2, <2>5, OthersKnow, TypesAreTwo DEF Local, Store
<1>3. CASE Answer(r, "FAIL_SAVE_POLL") /\ UNCHANGED tables
  <2>1. RequestsOK' /\ Others(r) /\ pc'[r] = "done" /\ job' = job
    BY <1>3, AnswerTypes, AbsentIsTyped DEF Local
  <2>2. Facts(r)'
    BY <1>1, <1>3, <2>1 DEF Facts, Creating
  <2> QED
    BY <1>1, <1>3, <2>1, <2>2, QuietTypes DEF Local, TypeOK, tables, history
<1> QED
  BY <1>2, <1>3 DEF WriteEdit

LEMMA DeletePollKnows ==
  ASSUME Local, NEW r \in Requests, DeletePoll(r) PROVE Local'
<1>1. PICK j \in Jobs : j.op = "delete" /\ Step(r, j, Absent, {}, "evict")
  BY DEF DeletePoll
<1>2. pc[r] = "idle" /\ UNCHANGED tables /\ stored' = stored /\ Facts(r)
  BY DEF DeletePoll, tables, history, Local
<1>3. /\ RequestsOK' /\ Others(r) /\ pc'[r] = "evict" /\ job'[r] = j /\ result' = result
  BY <1>1, StepTypes, StepMoves, AbsentIsTyped DEF Local, Calls
<1>4. Facts(r)'
  BY <1>1, <1>2, <1>3 DEF Facts, Creating
<1> QED
  BY <1>2, <1>3, <1>4, QuietTypes DEF Local, TypeOK

LEMMA CastVoteKnows ==
  ASSUME Local, NEW r \in Requests, CastVote(r) PROVE Local'
<1>1. PICK j \in Jobs :
        /\ j.op = "vote"
        /\ \/ Conclude(r, j, Absent, "ALREADY_VOTED") \/ Conclude(r, j, Absent, "ERROR")
           \/ Step(r, j, Absent, {}, "evict")
  BY DEF CastVote
<1>2. pc[r] = "idle" /\ UNCHANGED tables /\ stored' = stored /\ Facts(r)
  BY DEF CastVote, tables, history, Local
<1>3. CASE Conclude(r, j, Absent, "ALREADY_VOTED") \/ Conclude(r, j, Absent, "ERROR")
  <2>1. /\ RequestsOK' /\ Others(r) /\ pc'[r] = "done" /\ job'[r] = j
        /\ result'[r] \in {"ALREADY_VOTED", "ERROR"}
    BY <1>3, ConcludeTypes, ConcludeMoves, AbsentIsTyped DEF Local
  <2>2. Facts(r)'
    BY <1>1, <1>2, <2>1 DEF Facts, Creating
  <2> QED
    BY <1>2, <2>1, <2>2, QuietTypes DEF Local, TypeOK
<1>4. CASE Step(r, j, Absent, {}, "evict")
  <2>1. RequestsOK' /\ Others(r) /\ pc'[r] = "evict" /\ job'[r] = j /\ result' = result
    BY <1>4, StepTypes, StepMoves, AbsentIsTyped DEF Local, Calls
  <2>2. Facts(r)'
    BY <1>1, <1>2, <2>1 DEF Facts, Creating
  <2> QED
    BY <1>2, <2>1, <2>2, QuietTypes DEF Local, TypeOK
<1> QED
  BY <1>1, <1>3, <1>4

LEMMA CancelVoteKnows ==
  ASSUME Local, NEW r \in Requests, CancelVote(r) PROVE Local'
<1>1. PICK j \in Jobs :
        /\ j.op = "cancel"
        /\ Step(r, j, Absent, {v \in votes : v.user = j.user /\ v.option = j.option}, "evict")
  BY DEF CancelVote, Cancelled
<1>2. pc[r] = "idle" /\ UNCHANGED tables /\ stored' = stored /\ Facts(r)
  BY DEF CancelVote, tables, history, Local
<1> DEFINE mine == {v \in votes : v.user = j.user /\ v.option = j.option}
<1>3. mine \in SUBSET Vote
  BY DEF Local, TypeOK
<1> HIDE DEF mine
<1>4. /\ RequestsOK' /\ Others(r) /\ pc'[r] = "evict" /\ job'[r] = j /\ result' = result
      /\ gone'[r] = mine
  BY <1>1, <1>3, StepTypes, StepMoves, AbsentIsTyped DEF Local, Calls, mine
<1>5. Facts(r)'
  BY <1>1, <1>2, <1>4 DEF Facts, Creating, mine
<1> QED
  BY <1>2, <1>4, <1>5, QuietTypes DEF Local, TypeOK

LEMMA EvictKnows ==
  ASSUME Local, NEW r \in Requests, Evict(r) PROVE Local'
<1>1. pc[r] = "evict" /\ UNCHANGED tables /\ stored' = stored /\ Facts(r)
  BY DEF Evict, tables, history, Local
<1>3. CASE job[r].op = "edit" /\ Answer(r, "ok")
  <2>1. RequestsOK' /\ Others(r) /\ pc'[r] = "done" /\ result'[r] = "ok" /\ job' = job
    BY <1>3, AnswerTypes, AbsentIsTyped DEF Local
  <2>2. Facts(r)'
    BY <1>1, <1>3, <2>1 DEF Facts, Creating
  <2> QED
    BY <1>1, <2>1, <2>2, QuietTypes
<1>4. CASE job[r].op # "edit" /\ Goto(r, "commit")
  <2>1. RequestsOK' /\ Others(r) /\ pc'[r] = "commit" /\ UNCHANGED <<job, seen, gone, result>>
    BY <1>4, GotoTypes, GotoMoves DEF Local, Calls
  <2>2. Facts(r)'
    BY <1>1, <1>4, <2>1 DEF Facts, Creating, Transactions
  <2> QED
    BY <1>1, <2>1, <2>2, QuietTypes
<1> QED
  BY <1>3, <1>4 DEF Evict

LEMMA BallotIsVote ==
  ASSUME Local, NEW r \in Requests, job[r].op = "vote" PROVE Ballot(r) \in Vote
<1>1. job[r] \in Jobs
  BY NothingIsAsked DEF Local, TypeOK
<1> QED
  BY <1>1, JobsAreWellFormed DEF Ballot, Vote

LEMMA CommitKnows ==
  ASSUME Local, NEW r \in Requests,
         CommitCreate(r) \/ CommitDelete(r) \/ CommitVote(r) \/ CommitCancel(r)
  PROVE  Local'
<1>0. PICK res \in {"ok", "ERROR"} : Answer(r, res)
  BY DEF CommitCreate, CommitDelete, CommitVote, CommitCancel, Committed
<1>1. /\ pc[r] = "commit" /\ stored' = stored \cup {r}
      /\ UNCHANGED <<fresh, edits>> /\ Facts(r)
  BY DEF CommitCreate, CommitDelete, CommitVote, CommitCancel, Committed, Store, Local
<1>2. RequestsOK' /\ Others(r) /\ pc'[r] = "done" /\ UNCHANGED <<job, seen, gone>>
  BY <1>0, AnswerTypes, AbsentIsTyped DEF Local
<1>3. Facts(r)'
  BY <1>1, <1>2 DEF Facts, Creating
<1>4. job[r] \in Jobs /\ job[r].poll \in Polls
  BY <1>1, JobsAreWellFormed DEF Facts
<1>5. /\ polls' \in [Polls -> PollRow \cup {Absent}] /\ outbox' \subseteq Polls
      /\ votes' \subseteq Vote
  <2>1. CASE CommitCreate(r)
    <3>1. seen[r] \in PollRow
      BY <1>1, <2>1 DEF Facts, Creating, CommitCreate, Committed
    <3> QED
      BY <1>4, <2>1, <3>1 DEF CommitCreate, Local, TypeOK
  <2>2. CASE CommitDelete(r)
    BY <1>4, <2>2 DEF CommitDelete, Cascade, Local, TypeOK
  <2>3. CASE CommitVote(r)
    <3>1. Ballot(r) \in Vote
      BY <2>3, BallotIsVote DEF CommitVote, Committed
    <3> QED
      BY <2>3, <3>1 DEF CommitVote, Local, TypeOK
  <2>4. CASE CommitCancel(r)
    BY <2>4 DEF CommitCancel, Local, TypeOK
  <2> QED
    BY <2>1, <2>2, <2>3, <2>4
<1>6. \E S \in SUBSET Options : Store(r, S)
  BY <1>4, OptionsAreOptions DEF CommitCreate, CommitDelete, CommitVote, CommitCancel, Local
<1>7. /\ stored' \subseteq Requests /\ since' \subseteq Requests \X Requests
      /\ dropped' \in [Requests -> SUBSET Options]
  BY <1>6, StoreTypes DEF Local
<1>8. TablesOK'
  BY <1>1, <1>5, <1>7 DEF Local, TypeOK, TablesOK
<1> QED
  BY <1>1, <1>2, <1>3, <1>8, OthersKnow, TypesAreTwo DEF Local

LEMMA FailKnows ==
  ASSUME Local, NEW r \in Requests, Fail(r) PROVE Local'
<1>1. /\ pc[r] \in {"alarm", "write", "evict", "commit"} /\ Answer(r, "ERROR")
      /\ UNCHANGED tables /\ stored' = stored /\ Facts(r)
  BY DEF Fail, tables, history, Local
<1>2. /\ RequestsOK' /\ Others(r) /\ pc'[r] = "done" /\ result'[r] = "ERROR"
      /\ UNCHANGED <<job, gone>>
  BY <1>1, AnswerTypes, AbsentIsTyped DEF Local
<1>3. Facts(r)'
  BY <1>1, <1>2 DEF Facts, Creating
<1> QED
  BY <1>1, <1>2, <1>3, QuietTypes DEF Local, TypeOK

LEMMA LocalStep == Local /\ [Next]_vars => Local'
<1> SUFFICES ASSUME Local, [Next]_vars PROVE Local'
  OBVIOUS
<1>2. CASE UNCHANGED vars
  <2>1. TypeOK'
    BY <1>2 DEF vars, tables, history, reqVars, Local, TypeOK
  <2>2. \A r \in Requests : Facts(r)'
    BY <1>2 DEF Local, Facts, Creating, reqVars, vars, tables, history
  <2> QED
    BY <2>1, <2>2 DEF Local
<1> QED
  BY <1>2, CreatePollKnows, CreateAlarmKnows, FindToEditKnows, WriteEditKnows,
     DeletePollKnows, CastVoteKnows, CancelVoteKnows, EvictKnows, CommitKnows, FailKnows
     DEF Next

\* Every variable of the polls keeps its type.
THEOREM TypeCorrect == Spec => []TypeOK
<1>1. Spec => []Local
  BY LocalInit, LocalStep, PTL DEF Spec
<1>2. Local => TypeOK
  BY DEF Local
<1> QED
  BY <1>1, <1>2, PTL

-----------------------------------------------------------------------------
(***************************************************************************)
(* The tables.                                                             *)
(***************************************************************************)

LEMMA StoredInit == Init => Stored
<1> SUFFICES ASSUME Init PROVE Stored
  OBVIOUS
<1>1. OneVoteEach /\ StoredInOrder /\ NoLostEdit /\ VersionsGrow
  BY DEF Init, OneVoteEach, StoredInOrder, NoLostEdit, VersionsGrow
<1>2. AcknowledgedVotesStand
  BY DEF Init, AcknowledgedVotesStand
<1>3. IdsUsedOnce
  BY IdsDiffer DEF Init, IdsUsedOnce, Creating
<1>4. KeysAreFree
  BY DEF Init, KeysAreFree, Voting
<1> QED
  BY <1>1, <1>2, <1>3, <1>4 DEF Stored

\* What r has asked for stays as it was.
SameJob(r) == pc[r] # "idle" => job'[r] = job[r] /\ gone'[r] = gone[r]

\* Request r moves and no table does: it may begin to vote, if the key is free.
Quiet(r) ==
  /\ Others(r) /\ UNCHANGED tables
  /\ pc[r] # "done" /\ SameJob(r)
  /\ Creating(r)' => Creating(r)
  /\ Voting(r)' => Voting(r) \/ Free(r, job'[r].user, job'[r].poll)
  /\ result'[r] = "ok" => job'[r].op # "vote"

\* The part of the invariant about the answers, for a step of r after which the
\* stored requests are what they were.
LEMMA JobsStand ==
  ASSUME Local, NEW r \in Requests, Others(r), SameJob(r)
  PROVE  /\ \A s \in stored : s \in Requests /\ job'[s] = job[s] /\ gone'[s] = gone[s]
         /\ \A s \in Requests \ {r} : Ballot(s)' = Ballot(s) /\ (Voting(s)' <=> Voting(s))
                                       /\ (Creating(s)' <=> Creating(s))
<1>1. \A s \in stored : s \in Requests /\ pc[s] # "idle"
  BY DEF Local, TypeOK, Facts
<1> QED
  BY <1>1 DEF Others, SameJob, Ballot, Voting, Creating

\* A vote that was taken away before the step of r is known to be after it.
LEMMA TakenStays ==
  ASSUME Local, StoredInOrder, NEW r \in Requests, Others(r), SameJob(r),
         \A s \in stored : dropped'[s] = dropped[s], NEW q \in stored,
         NEW s, <<q, s>> \in since, TakesAway(s, q)
  PROVE  s \in Requests /\ TakesAway(s, q)'
<1>1. s \in stored
  BY DEF StoredInOrder
<1>2. job'[s] = job[s] /\ job'[q] = job[q] /\ dropped'[s] = dropped[s] /\ s \in Requests
  BY <1>1, JobsStand
<1> QED
  BY <1>2 DEF TakesAway

\* A step that takes votes and names them leaves every other vote where it is.
LEMMA TakingStep ==
  ASSUME Local, Local', Stored, NEW r \in Requests, Others(r), UNCHANGED <<job, gone>>,
         r \notin stored, NEW S, Store(r, S), job[r].op # "vote", votes' \subseteq votes,
         \A v \in votes \ votes' :
           \/ v.option \in S
           \/ job[r].op = "delete" /\ v.poll = job[r].poll
           \/ job[r].op = "cancel" /\ v.user = job[r].user /\ v.option = job[r].option
  PROVE  AcknowledgedVotesStand' /\ OneVoteEach' /\ StoredInOrder'
<1>1. OneVoteEach'
  BY DEF Stored, OneVoteEach
<1>2. StoredInOrder'
  BY DEF Stored, StoredInOrder, Store
<1>3. dropped \in [Requests -> SUBSET Options] /\ stored \subseteq Requests
  BY DEF Local, TypeOK
<1>4. dropped'[r] = S /\ \A s \in stored : dropped'[s] = dropped[s]
  BY <1>3 DEF Store
<1>5. AcknowledgedVotesStand'
  <2> SUFFICES ASSUME NEW q \in Requests, job[q].op = "vote", result'[q] = "ok"
               PROVE  \/ {v \in votes' : v.user = job[q].user /\ v.poll = job[q].poll} = {Ballot(q)}
                      \/ \E s \in Requests : <<q, s>> \in since' /\ TakesAway(s, q)'
    BY DEF AcknowledgedVotesStand, Ballot
  <2>1. q # r /\ result[q] = "ok" /\ q \in stored
    BY DEF Others, Local, Facts
  <2>2. <<q, r>> \in since' /\ since \subseteq since'
    BY <2>1 DEF Store
  <2>3. CASE {v \in votes : v.user = job[q].user /\ v.poll = job[q].poll} = {Ballot(q)}
    <3>1. CASE Ballot(q) \in votes'
      BY <2>3, <3>1
    <3>2. CASE Ballot(q) \notin votes'
      <4>1. Ballot(q) \in votes \ votes'
        BY <2>3, <3>2
      <4>2. TakesAway(r, q)'
        BY <1>4, <4>1 DEF TakesAway, Ballot
      <4> QED
        BY <2>2, <4>2
    <3> QED
      BY <3>1, <3>2
  <2>4. ASSUME NEW s \in Requests, <<q, s>> \in since, TakesAway(s, q)
        PROVE  <<q, s>> \in since' /\ TakesAway(s, q)'
    BY <1>4, <2>1, <2>2, <2>4, TakenStays DEF Stored, SameJob
  <2> QED
    BY <2>1, <2>3, <2>4 DEF Stored, AcknowledgedVotesStand
<1> QED
  BY <1>1, <1>2, <1>5

\* What r does without a table, or with nothing stored but new ids, takes no vote.
LEMMA QuietStands ==
  ASSUME Local, Local', Stored, NEW r \in Requests, Others(r), SameJob(r),
         UNCHANGED <<votes, stored, since, dropped>>, result'[r] = "ok" => job'[r].op # "vote"
  PROVE  AcknowledgedVotesStand'
<1> SUFFICES ASSUME NEW q \in Requests, job'[q].op = "vote", result'[q] = "ok"
             PROVE  \/ {v \in votes : v.user = job'[q].user /\ v.poll = job'[q].poll} = {Ballot(q)'}
                    \/ \E s \in Requests : <<q, s>> \in since /\ TakesAway(s, q)'
  BY DEF AcknowledgedVotesStand
<1>1. q # r /\ job'[q] = job[q] /\ result[q] = "ok" /\ Ballot(q)' = Ballot(q)
  BY DEF Others, Ballot
<1>2. q \in stored
  BY <1>1 DEF Local, Facts
<1>3. ASSUME NEW s \in Requests, <<q, s>> \in since, TakesAway(s, q) PROVE TakesAway(s, q)'
  BY <1>2, <1>3, TakenStays DEF Stored
<1> QED
  BY <1>1, <1>3 DEF Stored, AcknowledgedVotesStand

LEMMA QuietStep ==
  ASSUME Local, Local', Stored, NEW r \in Requests, Quiet(r) PROVE Stored'
<1> USE DEF Quiet, tables, history
<1>1. /\ \A s \in stored : s \in Requests /\ job'[s] = job[s] /\ gone'[s] = gone[s]
      /\ \A s \in Requests \ {r} : Ballot(s)' = Ballot(s) /\ (Voting(s)' <=> Voting(s))
                                    /\ (Creating(s)' <=> Creating(s))
  BY JobsStand
<1>2. OneVoteEach' /\ StoredInOrder'
  BY DEF Stored, OneVoteEach, StoredInOrder
<1>3. AcknowledgedVotesStand'
  BY QuietStands
<1>4. NoLostEdit' /\ VersionsGrow'
  BY DEF Stored, NoLostEdit, VersionsGrow
<1>5. IdsUsedOnce'
  <2>1. \A s \in Requests : Creating(s)' => Creating(s) /\ job'[s] = job[s]
    <3> SUFFICES ASSUME NEW s \in Requests, Creating(s)' PROVE Creating(s) /\ job'[s] = job[s]
      OBVIOUS
    <3>1. Creating(s)
      BY <1>1
    <3> QED
      BY <3>1 DEF Creating, SameJob, Others
  <2> QED
    BY <2>1 DEF Stored, IdsUsedOnce
<1>6. KeysAreFree'
  <2> SUFFICES ASSUME NEW s \in Requests, Voting(s)'
               PROVE  Free(s, job[s].user, job[s].poll)'
    BY DEF KeysAreFree
  <2>1. CASE s # r
    <3>1. Voting(s) /\ job'[s] = job[s]
      BY <1>1, <2>1 DEF Others
    <3>2. Free(s, job[s].user, job[s].poll)
      BY <3>1 DEF Stored, KeysAreFree
    <3>3. ASSUME NEW t \in Requests \ {s}, Voting(t)'
          PROVE  ~(job'[t].user = job[s].user /\ job'[t].poll = job[s].poll)
      <4>1. CASE t # r
        BY <1>1, <3>2, <3>3, <4>1 DEF Others, Free
      <4>2. CASE t = r /\ Voting(r)
        BY <3>2, <4>2 DEF SameJob, Voting, Free
      <4>3. CASE t = r /\ Free(r, job'[r].user, job'[r].poll)
        BY <2>1, <3>1, <4>3 DEF Free
      <4> QED
        BY <3>3, <4>1, <4>2, <4>3
    <3> QED
      BY <3>1, <3>2, <3>3 DEF Free
  <2>2. CASE s = r
    <3>1. Free(r, job'[r].user, job'[r].poll)
      BY <2>2 DEF Stored, KeysAreFree, SameJob, Voting
    <3>2. ASSUME NEW t \in Requests \ {r}, Voting(t)'
          PROVE  ~(job'[t].user = job'[r].user /\ job'[t].poll = job'[r].poll)
      BY <1>1, <3>1, <3>2 DEF Others, Free
    <3> QED
      BY <2>2, <3>1, <3>2 DEF Free
  <2> QED
    BY <2>1, <2>2
<1> QED
  BY <1>2, <1>3, <1>4, <1>5, <1>6 DEF Stored

LEMMA QuietActions ==
  ASSUME Local, NEW r \in Requests,
         \/ CreateAlarm(r) \/ FindToEdit(r) \/ DeletePoll(r) \/ CastVote(r) \/ CancelVote(r)
         \/ Evict(r) \/ Fail(r)
  PROVE  Quiet(r)
<1>1. Facts(r) /\ TypeOK
  BY DEF Local
<1>2. CASE CreateAlarm(r)
  <2>1. pc[r] = "alarm" /\ UNCHANGED tables /\ Goto(r, "commit")
    BY <1>2 DEF CreateAlarm
  <2>2. Others(r) /\ pc'[r] = "commit" /\ UNCHANGED <<job, seen, gone, result>>
    BY <1>1, <2>1, GotoMoves
  <2> QED
    BY <1>1, <2>1, <2>2 DEF Quiet, SameJob, Creating, Voting, Facts
<1>3. CASE FindToEdit(r)
  <2>1. PICK j \in Jobs :
          /\ j.op = "edit"
          /\ \/ Conclude(r, j, Absent, "POLL_NOT_FOUND") \/ Step(r, j, polls[j.poll], {}, "write")
    BY <1>3 DEF FindToEdit
  <2>2. pc[r] = "idle" /\ UNCHANGED tables
    BY <1>3 DEF FindToEdit
  <2>3. Others(r) /\ job'[r] = j
    BY <1>1, <2>1, ConcludeMoves, StepMoves
  <2> QED
    BY <2>1, <2>2, <2>3 DEF Quiet, SameJob, Creating, Voting
<1>4. CASE DeletePoll(r)
  <2>1. PICK j \in Jobs : j.op = "delete" /\ Step(r, j, Absent, {}, "evict")
    BY <1>4 DEF DeletePoll
  <2>2. pc[r] = "idle" /\ UNCHANGED tables
    BY <1>4 DEF DeletePoll
  <2>3. Others(r) /\ job'[r] = j
    BY <1>1, <2>1, StepMoves
  <2> QED
    BY <2>1, <2>2, <2>3 DEF Quiet, SameJob, Creating, Voting
<1>5. CASE CastVote(r)
  <2>1. PICK j \in Jobs :
          /\ j.op = "vote" /\ ~VoteWaits(j)
          /\ \/ Conclude(r, j, Absent, "ALREADY_VOTED") \/ Conclude(r, j, Absent, "ERROR")
             \/ /\ ~\E v \in votes : v.user = j.user /\ v.poll = j.poll
                /\ Step(r, j, Absent, {}, "evict")
    BY <1>5 DEF CastVote
  <2>2. pc[r] = "idle" /\ UNCHANGED tables
    BY <1>5 DEF CastVote
  <2>3. CASE Conclude(r, j, Absent, "ALREADY_VOTED") \/ Conclude(r, j, Absent, "ERROR")
    <3>1. Others(r) /\ job'[r] = j /\ pc'[r] = "done" /\ result'[r] \in {"ALREADY_VOTED", "ERROR"}
      BY <1>1, <2>3, ConcludeMoves
    <3> QED
      BY <2>1, <2>2, <3>1 DEF Quiet, SameJob, Creating, Voting
  <2>4. CASE /\ ~\E v \in votes : v.user = j.user /\ v.poll = j.poll
             /\ Step(r, j, Absent, {}, "evict")
    <3>1. Others(r) /\ job'[r] = j /\ pc'[r] = "evict" /\ result' = result
      BY <1>1, <2>4, StepMoves
    <3>2. Free(r, j.user, j.poll)
      BY <2>1, <2>4 DEF Free, VoteWaits, Open, Voting
    <3>3. result[r] = "none"
      BY <1>1, <2>2 DEF Facts
    <3> QED
      BY <2>1, <2>2, <3>1, <3>2, <3>3 DEF Quiet, SameJob, Creating
  <2> QED
    BY <2>1, <2>3, <2>4
<1>6. CASE CancelVote(r)
  <2>1. PICK j \in Jobs : j.op = "cancel" /\ \E d \in SUBSET votes : Step(r, j, Absent, d, "evict")
    BY <1>6 DEF CancelVote, Cancelled
  <2>2. pc[r] = "idle" /\ UNCHANGED tables
    BY <1>6 DEF CancelVote
  <2>3. Others(r) /\ job'[r] = j
    BY <1>1, <2>1, StepMoves
  <2> QED
    BY <2>1, <2>2, <2>3 DEF Quiet, SameJob, Creating, Voting
<1>7. CASE Evict(r)
  <2>1. pc[r] = "evict" /\ UNCHANGED tables
    BY <1>7 DEF Evict
  <2>2. CASE job[r].op = "edit" /\ Answer(r, "ok")
    <3>1. Others(r) /\ pc'[r] = "done" /\ UNCHANGED <<job, gone>>
      BY <1>1, <2>2, AnswerTypes, AbsentIsTyped
    <3> QED
      BY <2>1, <2>2, <3>1 DEF Quiet, SameJob, Creating, Voting
  <2>3. CASE job[r].op # "edit" /\ Goto(r, "commit")
    <3>1. Others(r) /\ pc'[r] = "commit" /\ UNCHANGED <<job, seen, gone, result>>
      BY <1>1, <2>3, GotoMoves
    <3> QED
      BY <1>1, <2>1, <2>3, <3>1 DEF Quiet, SameJob, Creating, Voting, Facts
  <2> QED
    BY <1>7, <2>2, <2>3 DEF Evict
<1>8. CASE Fail(r)
  <2>1. pc[r] \in {"alarm", "write", "evict", "commit"} /\ UNCHANGED tables /\ Answer(r, "ERROR")
    BY <1>8 DEF Fail
  <2>2. Others(r) /\ pc'[r] = "done" /\ result'[r] = "ERROR" /\ UNCHANGED <<job, gone>>
    BY <1>1, <2>1, AnswerTypes, AbsentIsTyped
  <2> QED
    BY <2>1, <2>2 DEF Quiet, SameJob, Creating, Voting
<1> QED
  BY <1>2, <1>3, <1>4, <1>5, <1>6, <1>7, <1>8

\* A poll id is drawn.
LEMMA CreatePollStores ==
  ASSUME Local, Local', Stored, NEW r \in Requests, CreatePoll(r) PROVE Stored'
<1>1. PICK j \in Jobs, b \in {[options |-> O, version |-> 1] : O \in SUBSET Options} :
        /\ j.op = "create" /\ j.poll \in fresh
        /\ fresh' = fresh \ ({j.poll} \cup j.options)
        /\ Step(r, j, b, {}, "alarm")
  BY JobsAreWellFormed DEF CreatePoll
<1>2. pc[r] = "idle" /\ UNCHANGED <<polls, votes, outbox, history>> /\ Facts(r) /\ TypeOK
  BY DEF CreatePoll, Local
<1>3. Others(r) /\ pc'[r] = "alarm" /\ job'[r] = j /\ result' = result /\ j.poll \in Polls
  BY <1>1, <1>2, StepMoves, JobsAreWellFormed
<1>4. \A s \in Requests \ {r} : (Voting(s)' <=> Voting(s)) /\ (Creating(s)' <=> Creating(s))
  BY <1>2, <1>3, JobsStand DEF SameJob
<1>5. OneVoteEach' /\ StoredInOrder'
  BY <1>2 DEF Stored, OneVoteEach, StoredInOrder, history
<1>6. AcknowledgedVotesStand'
  BY <1>1, <1>2, <1>3, QuietStands DEF SameJob, history
<1>7. NoLostEdit' /\ VersionsGrow'
  BY <1>2 DEF Stored, NoLostEdit, VersionsGrow, history
<1>8. IdsUsedOnce'
  <2>1. \A p \in Polls \cap fresh' : polls'[p] = Absent /\ \A e \in edits' : e[2] # p
    BY <1>1, <1>2 DEF Stored, IdsUsedOnce, history
  <2>2. polls[j.poll] = Absent /\ (\A e \in edits : e[2] # j.poll) /\ j.poll \notin fresh'
    BY <1>1, <1>3 DEF Stored, IdsUsedOnce
  <2>3. \A s \in Requests \ {r} : Creating(s) => job'[s] = job[s] /\ job[s].poll # j.poll
    BY <1>1, <1>3 DEF Stored, IdsUsedOnce, Others
  <2>4. ASSUME NEW s \in Requests \ {r}, Creating(s)'
        PROVE  /\ job'[s].poll \notin fresh' /\ polls'[job'[s].poll] = Absent
               /\ \A e \in edits' : e[2] # job'[s].poll
               /\ \A t \in Requests \ {s} : Creating(t)' => job'[t].poll # job'[s].poll
    <3>1. Creating(s) /\ job'[s] = job[s] /\ job[s].poll # j.poll
      BY <1>4, <2>3, <2>4
    <3>2. \A t \in Requests \ {s} : Creating(t)' => job'[t].poll # job[s].poll
      BY <1>3, <1>4, <2>3, <3>1 DEF Stored, IdsUsedOnce
    <3> QED
      BY <1>1, <1>2, <3>1, <3>2 DEF Stored, IdsUsedOnce, history
  <2>5. /\ job'[r].poll \notin fresh' /\ polls'[job'[r].poll] = Absent
        /\ \A e \in edits' : e[2] # job'[r].poll
        /\ \A t \in Requests \ {r} : Creating(t)' => job'[t].poll # job'[r].poll
    BY <1>2, <1>3, <1>4, <2>2, <2>3 DEF history
  <2> QED
    BY <2>1, <2>4, <2>5 DEF IdsUsedOnce
<1>9. KeysAreFree'
  <2>1. \A s \in Requests : Voting(s)' => Voting(s) /\ job'[s] = job[s]
    BY <1>1, <1>3, <1>4 DEF Voting, Others
  <2> QED
    BY <1>2, <2>1 DEF Stored, KeysAreFree, Free
<1> QED
  BY <1>5, <1>6, <1>7, <1>8, <1>9 DEF Stored

LEMMA WriteEditStores ==
  ASSUME Local, Local', Stored, NEW r \in Requests, WriteEdit(r) PROVE Stored'
<1> DEFINE p == job[r].poll
           v == seen[r].version
<1>1. /\ pc[r] = "write" /\ job[r].op = "edit" /\ TypeOK
      /\ p \in Polls /\ Edited(r) \in PollRow /\ Edited(r).version = v + 1 /\ v \in Nat
  BY EditedIsRow DEF WriteEdit, Local
<1>2. CASE Answer(r, "FAIL_SAVE_POLL") /\ UNCHANGED tables
  <2>1. Others(r) /\ pc'[r] = "done" /\ result'[r] = "FAIL_SAVE_POLL" /\ UNCHANGED <<job, gone>>
    BY <1>1, <1>2, AnswerTypes, AbsentIsTyped
  <2>2. Quiet(r)
    BY <1>1, <1>2, <2>1 DEF Quiet, SameJob, Creating, Voting, tables, history
  <2> QED
    BY <2>2, QuietStep
<1>3. CASE Matches(r) /\ Goto(r, "evict") /\ Store(r, OptionsOf(p))
             /\ polls' = [polls EXCEPT ![p] = Edited(r)] /\ fresh' = fresh \ job[r].options
             /\ votes' = {w \in votes : w.option \notin OptionsOf(p)}
             /\ edits' = edits \cup {<<r, p, v>>}
  <2>1. Others(r) /\ pc'[r] = "evict" /\ UNCHANGED <<job, seen, gone, result>>
    BY <1>1, <1>3, GotoMoves
  <2>2. polls[p] # Absent /\ polls[p].version = v
    BY <1>3 DEF Matches
  <2>3. \A s \in Requests : /\ Creating(s)' <=> Creating(s) /\ s # r
                            /\ Voting(s)' <=> Voting(s) /\ s # r
    BY <1>1, <2>1 DEF Creating, Voting, Others
  <2>4. Creating(r) = FALSE
    BY <1>1 DEF Creating
  <2>5. edits \subseteq Requests \X Polls \X Nat
    BY <1>1 DEF TypeOK
  <2> HIDE DEF p, v
  <2>6. polls'[p] = Edited(r) /\ polls'[p] # Absent /\ \A q \in Polls \ {p} : polls'[q] = polls[q]
    BY <1>1, <1>3, AbsentIsNoData DEF TypeOK
  <2>7. r \notin stored
    BY <1>1 DEF Local, Facts
  <2>8. AcknowledgedVotesStand' /\ OneVoteEach' /\ StoredInOrder'
    BY <1>1, <1>3, <2>1, <2>7, TakingStep
  <2>9. \A e \in edits : e[2] = p => e[3] < v
    BY <2>2 DEF Stored, VersionsGrow
  <2>10. NoLostEdit'
    <3> SUFFICES ASSUME NEW e \in edits', NEW f \in edits', e[2] = f[2], e[3] = f[3]
                 PROVE  e[1] = f[1]
      BY DEF NoLostEdit
    <3>1. \A d \in edits : ~(d[2] = p /\ d[3] = v)
      BY <1>1, <2>5, <2>9
    <3>2. CASE e \in edits /\ f \in edits
      BY <3>2 DEF Stored, NoLostEdit
    <3>3. CASE e = <<r, p, v>> \/ f = <<r, p, v>>
      BY <1>3, <3>1, <3>3
    <3> QED
      BY <1>3, <3>2, <3>3
  <2>11. VersionsGrow'
    <3> SUFFICES ASSUME NEW e \in edits' PROVE polls'[e[2]] = Absent \/ e[3] < polls'[e[2]].version
      BY DEF VersionsGrow
    <3>1. CASE e = <<r, p, v>>
      BY <1>1, <2>6, <3>1
    <3>2. CASE e \in edits /\ e[2] = p
      <4>1. e[3] \in Nat /\ e[3] < v
        BY <2>5, <2>9, <3>2
      <4> QED
        BY <1>1, <2>6, <3>2, <4>1
    <3>3. CASE e \in edits /\ e[2] # p
      <4>1. e[2] \in Polls
        BY <2>5, <3>3
      <4> QED
        BY <2>6, <3>3, <4>1 DEF Stored, VersionsGrow
    <3> QED
      BY <1>3, <3>1, <3>2, <3>3
  <2>12. IdsUsedOnce'
    <3>1. p \notin fresh
      BY <1>1, <2>2 DEF Stored, IdsUsedOnce
    <3>2. \A q \in Polls \cap fresh' : polls'[q] = Absent /\ \A e \in edits' : e[2] # q
      BY <1>3, <2>6, <3>1 DEF Stored, IdsUsedOnce
    <3>3. ASSUME NEW s \in Requests, Creating(s)'
          PROVE  /\ job'[s].poll \notin fresh' /\ polls'[job'[s].poll] = Absent
                 /\ \A e \in edits' : e[2] # job'[s].poll
                 /\ \A t \in Requests \ {s} : Creating(t)' => job'[t].poll # job'[s].poll
      <4>1. Creating(s) /\ job' = job
        BY <2>1, <2>3, <3>3
      <4>2. /\ job[s].poll \notin fresh /\ polls[job[s].poll] = Absent
            /\ \A e \in edits : e[2] # job[s].poll
            /\ \A t \in Requests \ {s} : Creating(t) => job[t].poll # job[s].poll
        BY <4>1 DEF Stored, IdsUsedOnce
      <4>3. job[s].poll \in Polls
        BY <4>1, JobsAreWellFormed, NothingIsAsked DEF Creating, Local, TypeOK
      <4> QED
        BY <1>3, <2>2, <2>3, <2>6, <4>1, <4>2, <4>3
    <3> QED
      BY <3>2, <3>3 DEF IdsUsedOnce
  <2>13. KeysAreFree'
    BY <1>3, <2>1, <2>3 DEF Stored, KeysAreFree, Free
  <2> QED
    BY <2>8, <2>10, <2>11, <2>12, <2>13 DEF Stored
<1> QED
  BY <1>2, <1>3 DEF WriteEdit

\* What every commit does.
LEMMA CommitMoves ==
  ASSUME Local, NEW r \in Requests,
         CommitCreate(r) \/ CommitDelete(r) \/ CommitVote(r) \/ CommitCancel(r)
  PROVE  /\ pc[r] = "commit" /\ pc'[r] = "done" /\ Others(r) /\ UNCHANGED <<job, gone>>
         /\ job[r] \in Jobs /\ job[r].poll \in Polls
         /\ r \notin stored /\ UNCHANGED <<fresh, edits>>
         /\ \A s \in Requests : /\ Creating(s)' <=> Creating(s) /\ s # r
                                /\ Voting(s)' <=> Voting(s) /\ s # r
<1>1. /\ pc[r] = "commit" /\ UNCHANGED <<fresh, edits>>
      /\ \E res \in {"ok", "ERROR"} : Answer(r, res)
  BY DEF CommitCreate, CommitDelete, CommitVote, CommitCancel, Committed
<1>2. Others(r) /\ pc'[r] = "done" /\ UNCHANGED <<job, gone>>
  BY <1>1, AnswerTypes, AbsentIsTyped DEF Local
<1>3. job[r] \in Jobs /\ r \notin stored
  BY <1>1 DEF Local, Facts
<1>4. \A s \in Requests : /\ Creating(s)' <=> Creating(s) /\ s # r
                          /\ Voting(s)' <=> Voting(s) /\ s # r
  BY <1>2 DEF Others, Creating, Voting
<1> QED
  BY <1>1, <1>2, <1>3, <1>4, JobsAreWellFormed DEF Others

\* The parts of the invariant a commit disturbs in the same way, whatever it is.
LEMMA CommitKeepsIds ==
  ASSUME Local, Stored, NEW r \in Requests,
         CommitCreate(r) \/ CommitDelete(r) \/ CommitVote(r) \/ CommitCancel(r),
         NEW b \in PollRow \cup {Absent},
         polls' = polls \/ polls' = [polls EXCEPT ![job[r].poll] = b],
         Creating(r) \/ b = Absent
  PROVE  IdsUsedOnce' /\ VersionsGrow' /\ NoLostEdit'
<1> DEFINE p == job[r].poll
<1>1. /\ Others(r) /\ UNCHANGED <<job, fresh, edits>> /\ p \in Polls
      /\ \A s \in Requests : Creating(s)' <=> Creating(s) /\ s # r
  BY CommitMoves
<1>2. polls \in [Polls -> PollRow \cup {Absent}] /\ edits \subseteq Requests \X Polls \X Nat
  BY DEF Local, TypeOK
<1>3. \A q \in Polls : polls'[q] = polls[q] \/ (q = p /\ polls'[q] = b)
  BY <1>1, <1>2
<1>4. b # Absent => p \notin fresh /\ \A e \in edits : e[2] # p
  BY DEF Stored, IdsUsedOnce
<1>5. b # Absent => \A s \in Requests \ {r} : Creating(s) => job[s].poll # p
  BY DEF Stored, IdsUsedOnce
<1> HIDE DEF p
<1>6. NoLostEdit'
  BY <1>1 DEF Stored, NoLostEdit
<1>7. VersionsGrow'
  <2> SUFFICES ASSUME NEW e \in edits PROVE polls'[e[2]] = Absent \/ e[3] < polls'[e[2]].version
    BY <1>1 DEF VersionsGrow
  <2>1. e[2] \in Polls
    BY <1>2
  <2> QED
    BY <1>3, <1>4, <2>1 DEF Stored, VersionsGrow
<1>8. \A q \in Polls \cap fresh' : polls'[q] = Absent /\ \A e \in edits' : e[2] # q
  BY <1>1, <1>3, <1>4 DEF Stored, IdsUsedOnce
<1>9. ASSUME NEW s \in Requests, Creating(s)'
      PROVE  /\ job'[s].poll \notin fresh' /\ polls'[job'[s].poll] = Absent
             /\ \A e \in edits' : e[2] # job'[s].poll
             /\ \A t \in Requests \ {s} : Creating(t)' => job'[t].poll # job'[s].poll
  <2>1. Creating(s) /\ s # r
    BY <1>1, <1>9
  <2>2. /\ job[s].poll \notin fresh /\ polls[job[s].poll] = Absent
        /\ \A e \in edits : e[2] # job[s].poll
        /\ \A t \in Requests \ {s} : Creating(t) => job[t].poll # job[s].poll
    BY <2>1 DEF Stored, IdsUsedOnce
  <2>3. job[s].poll \in Polls
    BY <2>1, JobsAreWellFormed, NothingIsAsked DEF Creating, Local, TypeOK
  <2>4. polls'[job[s].poll] = Absent
    BY <1>3, <1>5, <2>1, <2>2, <2>3
  <2> QED
    BY <1>1, <2>2, <2>4
<1> QED
  BY <1>6, <1>7, <1>8, <1>9 DEF IdsUsedOnce

\* A vote that is stored is the only one of its user on its poll, and the others
\* stand where they stood.
LEMMA BallotStands ==
  ASSUME Local, Local', Stored, NEW r \in Requests, Others(r), UNCHANGED <<job, gone>>,
         r \notin stored, Store(r, {}), votes' = votes \cup {Ballot(r)},
         Free(r, job[r].user, job[r].poll)
  PROVE  AcknowledgedVotesStand'
<1> SUFFICES ASSUME NEW q \in Requests, job[q].op = "vote", result'[q] = "ok"
             PROVE  \/ {v \in votes' : v.user = job[q].user /\ v.poll = job[q].poll} = {Ballot(q)}
                    \/ \E s \in Requests : <<q, s>> \in since' /\ TakesAway(s, q)'
  BY DEF AcknowledgedVotesStand, Ballot
<1>1. Ballot(r).user = job[r].user /\ Ballot(r).poll = job[r].poll
  BY DEF Ballot
<1>2. CASE q = r
  <2>1. \A v \in votes : ~(v.user = job[r].user /\ v.poll = job[r].poll)
    BY DEF Free
  <2> QED
    BY <1>1, <1>2, <2>1
<1>3. CASE q # r
  <2>1. result[q] = "ok" /\ q \in stored
    BY <1>3 DEF Others, Local, Facts
  <2>2. dropped \in [Requests -> SUBSET Options] /\ stored \subseteq Requests
    BY DEF Local, TypeOK
  <2>3. (\A s \in stored : dropped'[s] = dropped[s]) /\ since \subseteq since'
    BY <2>2 DEF Store
  <2>4. CASE {v \in votes : v.user = job[q].user /\ v.poll = job[q].poll} = {Ballot(q)}
    <3>1. Ballot(q) \in votes /\ Ballot(q).user = job[q].user /\ Ballot(q).poll = job[q].poll
      BY <2>4 DEF Ballot
    <3>2. ~(job[q].user = job[r].user /\ job[q].poll = job[r].poll)
      BY <3>1 DEF Free
    <3> QED
      BY <1>1, <2>4, <3>2
  <2>5. ASSUME NEW s \in Requests, <<q, s>> \in since, TakesAway(s, q)
        PROVE  <<q, s>> \in since' /\ TakesAway(s, q)'
    BY <2>1, <2>3, <2>5, TakenStays DEF Stored, SameJob
  <2> QED
    BY <2>1, <2>4, <2>5 DEF Stored, AcknowledgedVotesStand
<1> QED
  BY <1>2, <1>3

LEMMA CommitStores ==
  ASSUME Local, Local', Stored, NEW r \in Requests,
         CommitCreate(r) \/ CommitDelete(r) \/ CommitVote(r) \/ CommitCancel(r)
  PROVE  Stored'
<1>1. /\ pc[r] = "commit" /\ pc'[r] = "done" /\ Others(r) /\ UNCHANGED <<job, gone>>
      /\ job[r] \in Jobs /\ job[r].poll \in Polls
      /\ r \notin stored /\ UNCHANGED <<fresh, edits>>
      /\ \A s \in Requests : /\ Creating(s)' <=> Creating(s) /\ s # r
                             /\ Voting(s)' <=> Voting(s) /\ s # r
  BY CommitMoves
<1>2. votes' \subseteq votes => KeysAreFree'
  BY <1>1 DEF Stored, KeysAreFree, Free
<1>4. votes \subseteq Vote
  BY DEF Local, TypeOK
<1>5. CASE CommitCreate(r)
  <2>1. /\ job[r].op = "create" /\ votes' = votes /\ Store(r, {})
        /\ polls' = [polls EXCEPT ![job[r].poll] = seen[r]]
    BY <1>5 DEF CommitCreate, Committed
  <2>2. Creating(r) /\ seen[r] \in PollRow
    BY <1>1, <2>1 DEF Creating, Local, Facts
  <2>3. IdsUsedOnce' /\ VersionsGrow' /\ NoLostEdit'
    BY <1>5, <2>1, <2>2, CommitKeepsIds
  <2>4. AcknowledgedVotesStand' /\ OneVoteEach' /\ StoredInOrder'
    BY <1>1, <2>1, TakingStep
  <2> QED
    BY <1>2, <2>1, <2>3, <2>4 DEF Stored
<1>6. CASE CommitDelete(r)
  <2>1. /\ job[r].op = "delete" /\ Store(r, OptionsOf(job[r].poll))
        /\ votes' = votes \ Cascade(job[r].poll)
        /\ polls' = [polls EXCEPT ![job[r].poll] = Absent]
    BY <1>6 DEF CommitDelete, Committed
  <2>2. IdsUsedOnce' /\ VersionsGrow' /\ NoLostEdit'
    BY <1>6, <2>1, CommitKeepsIds
  <2>3. AcknowledgedVotesStand' /\ OneVoteEach' /\ StoredInOrder'
    BY <1>1, <2>1, TakingStep DEF Cascade
  <2> QED
    BY <1>2, <2>1, <2>2, <2>3 DEF Stored
<1>7. CASE CommitVote(r)
  <2>1. /\ job[r].op = "vote" /\ votes' = votes \cup {Ballot(r)} /\ Store(r, {})
        /\ polls' = polls
    BY <1>7 DEF CommitVote, Committed
  <2>2. IdsUsedOnce' /\ VersionsGrow' /\ NoLostEdit'
    BY <1>7, <2>1, CommitKeepsIds
  <2>3. /\ Voting(r) /\ Free(r, job[r].user, job[r].poll)
        /\ Ballot(r).user = job[r].user /\ Ballot(r).poll = job[r].poll
    BY <1>1, <2>1 DEF Voting, Stored, KeysAreFree, Ballot
  <2>4. OneVoteEach'
    BY <2>1, <2>3 DEF Free, Stored, OneVoteEach
  <2>5. StoredInOrder'
    BY <2>1 DEF Stored, StoredInOrder, Store
  <2>6. AcknowledgedVotesStand'
    BY <1>1, <2>1, <2>3, BallotStands
  <2>7. KeysAreFree'
    <3> SUFFICES ASSUME NEW s \in Requests, Voting(s)' PROVE Free(s, job[s].user, job[s].poll)'
      BY DEF KeysAreFree
    <3>1. Voting(s) /\ s # r
      BY <1>1
    <3>2. Free(s, job[s].user, job[s].poll) /\ ~(job[s].user = job[r].user /\ job[s].poll = job[r].poll)
      BY <2>3, <3>1 DEF Stored, KeysAreFree, Free
    <3> QED
      BY <1>1, <2>1, <2>3, <3>2 DEF Free
  <2> QED
    BY <2>2, <2>4, <2>5, <2>6, <2>7 DEF Stored
<1>8. CASE CommitCancel(r)
  <2>1. /\ job[r].op = "cancel" /\ votes' = votes \ gone[r] /\ polls' = polls /\ Store(r, {})
    BY <1>8 DEF CommitCancel, Committed
  <2>2. IdsUsedOnce' /\ VersionsGrow' /\ NoLostEdit'
    BY <1>8, <2>1, CommitKeepsIds
  <2>3. \A v \in gone[r] : v.user = job[r].user /\ v.option = job[r].option
    BY <2>1 DEF Local, Facts
  <2>4. AcknowledgedVotesStand' /\ OneVoteEach' /\ StoredInOrder'
    BY <1>1, <2>1, <2>3, TakingStep
  <2> QED
    BY <1>2, <2>1, <2>2, <2>4 DEF Stored
<1> QED
  BY <1>5, <1>6, <1>7, <1>8

-----------------------------------------------------------------------------
(***************************************************************************)
(* The theorems.                                                           *)
(***************************************************************************)

LEMMA InvariantStep == IInv /\ [Next]_vars => IInv'
<1> SUFFICES ASSUME Local, Stored, [Next]_vars PROVE Stored'
  BY LocalStep DEF IInv
<1>1. Local'
  BY LocalStep
<1>2. CASE UNCHANGED <<tables, reqVars>>
  BY <1>2 DEF tables, history, reqVars, Stored, OneVoteEach, StoredInOrder, AcknowledgedVotesStand, Ballot, TakesAway,
     NoLostEdit, IdsUsedOnce, VersionsGrow, KeysAreFree, Free, Creating, Voting
<1>4. CASE UNCHANGED vars
  BY <1>2, <1>4 DEF vars, tables, history
<1> QED
  BY <1>1, <1>4, CreatePollStores, WriteEditStores, CommitStores, QuietActions, QuietStep
     DEF Next

\* What a request knows at each call, and what the tables keep, in every state.
THEOREM PollInvariant == Spec => []IInv
<1>1. Init => IInv
  BY LocalInit, StoredInit DEF IInv
<1> QED
  BY <1>1, InvariantStep, PTL DEF Spec

\* A vote that was acknowledged is the one its user has on the poll, until a later
\* request that is named took it away.
THEOREM VotesStand == Spec => []AcknowledgedVotesStand
<1>1. IInv => AcknowledgedVotesStand
  BY DEF IInv, Stored
<1> QED
  BY <1>1, PollInvariant, PTL

\* Two edits computed from one version of a poll are never both stored.
THEOREM EditsAreNotLost == Spec => []NoLostEdit
<1>1. IInv => NoLostEdit
  BY DEF IInv, Stored
<1> QED
  BY <1>1, PollInvariant, PTL

-----------------------------------------------------------------------------
(***************************************************************************)
(* What the rows refer to.                                                 *)
(***************************************************************************)

Deleting(r) == job[r].op = "delete" /\ pc[r] \in {"evict", "commit"}

\* An option that was drawn is not drawn again, and one that is about to be stored
\* is nobody else's.
OptionsUsedOnce ==
  /\ \A p \in Polls : OptionsOf(p) \cap fresh = {}
  /\ \A r \in Requests : Creating(r) =>
       /\ seen[r].options \cap fresh = {}
       /\ \A p \in Polls : seen[r].options \cap OptionsOf(p) = {}
       /\ \A s \in Requests \ {r} : Creating(s) => seen[r].options \cap seen[s].options = {}

\* An edit whose version is still stored read the poll as it is.
ReadIsCurrent(r) ==
  pc[r] = "write" =>
    /\ job[r].poll \notin fresh
    /\ \A s \in Requests : Creating(s) => job[s].poll # job[r].poll
    /\ polls[job[r].poll] # Absent =>
         /\ seen[r].version <= polls[job[r].poll].version
         /\ seen[r].version = polls[job[r].poll].version => seen[r] = polls[job[r].poll]

\* No transaction is about to delete what this vote refers to.
Undisturbed(j) ==
  \A s \in Requests : Deleting(s) => job[s].poll # j.poll /\ j.option \notin OptionsOf(job[s].poll)

\* A vote in flight refers to rows that stay until it has ended.
BallotRefers(j) == polls[j.poll] # Absent /\ OptionExists(j.option) /\ Undisturbed(j)

References ==
  /\ RowsRefer /\ OptionsUsedOnce
  /\ \A r \in Requests : ReadIsCurrent(r) /\ (Voting(r) => BallotRefers(job[r]))

\* The delete of p finds no vote in flight on p or for an option of p.
NobodyVotes(p) ==
  \A s \in Requests : Voting(s) => job[s].poll # p /\ job[s].option \notin OptionsOf(p)

\* Request r goes on with what it has, or begins to edit, to vote or to delete.
Proceeds(r) ==
  /\ Others(r) /\ UNCHANGED tables
  /\ Creating(r)' => Creating(r) /\ job'[r] = job[r] /\ seen'[r] = seen[r]
  /\ pc'[r] = "write" => job'[r].poll \in Polls /\ polls[job'[r].poll] # Absent
                         /\ seen'[r] = polls[job'[r].poll]
  /\ Voting(r)' => (Voting(r) /\ job'[r] = job[r]) \/ BallotRefers(job'[r])
  /\ Deleting(r)' => (Deleting(r) /\ job'[r] = job[r]) \/ NobodyVotes(job'[r].poll)

\* A request that is under way asks about a poll.
LEMMA JobOfWriter ==
  ASSUME Local, NEW r \in Requests, pc[r] # "idle"
  PROVE  job[r] \in Jobs /\ job[r].poll \in Polls
<1>1. job[r] \in Jobs
  BY DEF Local, Facts
<1> QED
  BY <1>1, JobsAreWellFormed

\* What proceeds leaves every reference as it is.
LEMMA ProceedsStep ==
  ASSUME Local, Stored, References, NEW r \in Requests, Proceeds(r)
  PROVE  References'
<1>1. UNCHANGED <<polls, fresh, votes>>
  BY DEF Proceeds, tables, history
<1>2. \A p : OptionsOf(p)' = OptionsOf(p)
  BY <1>1 DEF OptionsOf
<1>3. \A o : OptionExists(o)' <=> OptionExists(o)
  BY <1>2 DEF OptionExists
<1>4. RowsRefer'
  BY <1>1, <1>2, <1>3 DEF References, RowsRefer
<1>5. \A s \in Requests \ {r} :
        /\ Creating(s)' <=> Creating(s)
        /\ Voting(s)' <=> Voting(s)
        /\ Deleting(s)' <=> Deleting(s)
        /\ pc'[s] = pc[s] /\ job'[s] = job[s] /\ seen'[s] = seen[s]
  BY DEF Proceeds, Others, Creating, Voting, Deleting
<1>6. \A s \in Requests : Creating(s)' => Creating(s) /\ job'[s] = job[s] /\ seen'[s] = seen[s]
  BY <1>5 DEF Proceeds
<1>7. OptionsUsedOnce'
  BY <1>1, <1>2, <1>6 DEF References, OptionsUsedOnce
<1>8. ASSUME NEW s \in Requests PROVE ReadIsCurrent(s)'
  <2>1. CASE s # r
    BY <1>1, <1>5, <1>6, <2>1 DEF References, ReadIsCurrent
  <2>2. CASE s = r
    <3> SUFFICES ASSUME pc'[r] = "write" PROVE ReadIsCurrent(r)'
      BY <2>2 DEF ReadIsCurrent
    <3>1. job'[r].poll \in Polls /\ polls[job'[r].poll] # Absent /\ seen'[r] = polls[job'[r].poll]
      BY DEF Proceeds
    <3>2. job'[r].poll \notin fresh
      BY <3>1 DEF Stored, IdsUsedOnce
    <3>3. \A t \in Requests : Creating(t) => job[t].poll # job'[r].poll
      BY <3>1 DEF Stored, IdsUsedOnce
    <3>4. seen'[r].version <= seen'[r].version
      BY <3>1 DEF Local, TypeOK, PollRow
    <3> QED
      BY <1>1, <1>6, <3>1, <3>2, <3>3, <3>4 DEF ReadIsCurrent
  <2> QED
    BY <2>1, <2>2
<1>9. ASSUME NEW s \in Requests, Voting(s)' PROVE BallotRefers(job[s])'
  <2>1. polls'[job'[s].poll] # Absent /\ OptionExists(job'[s].option)
    BY <1>1, <1>5, <1>9 DEF References, Proceeds, BallotRefers
  <2>2. OptionExists(job[s].option)'
    BY <1>2, <2>1 DEF OptionExists
  <2>3. ASSUME NEW t \in Requests, Deleting(t)'
        PROVE  job'[t].poll # job'[s].poll /\ job'[s].option \notin OptionsOf(job'[t].poll)
    <3>1. s # t
      BY <1>9, <2>3 DEF Voting, Deleting
    <3>2. CASE t # r /\ s # r
      BY <1>5, <1>9, <2>3, <3>2 DEF References, BallotRefers, Undisturbed
    <3>3. CASE s = r
      BY <1>5, <1>9, <2>3, <3>1, <3>3 DEF References, Proceeds, BallotRefers, Undisturbed
    <3>4. CASE t = r
      BY <1>5, <1>9, <2>3, <3>1, <3>4 DEF References, Proceeds, BallotRefers, Undisturbed, NobodyVotes
    <3> QED
      BY <3>2, <3>3, <3>4
  <2>4. Undisturbed(job[s])'
    BY <1>2, <2>3 DEF Undisturbed
  <2> QED
    BY <2>1, <2>2, <2>4 DEF BallotRefers
<1> QED
  BY <1>4, <1>7, <1>8, <1>9 DEF References

\* All calls but the inserts, the writes and the commits only proceed.
LEMMA ActionsProceed ==
  ASSUME Local, NEW r \in Requests,
         \/ CreateAlarm(r) \/ FindToEdit(r) \/ DeletePoll(r) \/ CastVote(r) \/ CancelVote(r)
         \/ Evict(r) \/ Fail(r)
  PROVE  Proceeds(r)
<1> USE DEF Proceeds, Creating, Voting, Deleting
<1>1. Facts(r) /\ TypeOK
  BY DEF Local
<1>2. CASE CreateAlarm(r)
  <2>1. pc[r] = "alarm" /\ UNCHANGED tables /\ Goto(r, "commit")
    BY <1>2 DEF CreateAlarm
  <2>2. Others(r) /\ pc'[r] = "commit" /\ UNCHANGED <<job, seen, gone, result>>
    BY <1>1, <2>1, GotoMoves
  <2> QED
    BY <1>1, <2>1, <2>2 DEF Facts
<1>3. CASE FindToEdit(r)
  <2>1. PICK j \in Jobs :
          /\ j.op = "edit"
          /\ \/ Conclude(r, j, Absent, "POLL_NOT_FOUND")
             \/ polls[j.poll] # Absent /\ Step(r, j, polls[j.poll], {}, "write")
    BY <1>3 DEF FindToEdit
  <2>2. UNCHANGED tables /\ j.poll \in Polls
    BY <1>3, JobsAreWellFormed DEF FindToEdit
  <2>3. CASE Conclude(r, j, Absent, "POLL_NOT_FOUND")
    <3>1. Others(r) /\ job'[r] = j /\ pc'[r] = "done"
      BY <1>1, <2>3, ConcludeMoves
    <3> QED
      BY <2>2, <3>1
  <2>4. CASE polls[j.poll] # Absent /\ Step(r, j, polls[j.poll], {}, "write")
    <3>1. Others(r) /\ job'[r] = j /\ pc'[r] = "write" /\ seen'[r] = polls[j.poll]
      BY <1>1, <2>4, StepMoves
    <3> QED
      BY <2>2, <2>4, <3>1
  <2> QED
    BY <2>1, <2>3, <2>4
<1>4. CASE DeletePoll(r)
  <2>1. PICK j \in Jobs : j.op = "delete" /\ ~AlterWaits(j.poll) /\ Step(r, j, Absent, {}, "evict")
    BY <1>4 DEF DeletePoll
  <2>2. UNCHANGED tables
    BY <1>4 DEF DeletePoll
  <2>3. Others(r) /\ job'[r] = j /\ pc'[r] = "evict"
    BY <1>1, <2>1, StepMoves
  <2>4. NobodyVotes(j.poll)
    BY <2>1 DEF AlterWaits, Open, NobodyVotes
  <2> QED
    BY <2>1, <2>2, <2>3, <2>4
<1>5. CASE CastVote(r)
  <2>1. PICK j \in Jobs :
          /\ j.op = "vote" /\ ~VoteWaits(j)
          /\ \/ Conclude(r, j, Absent, "ALREADY_VOTED") \/ Conclude(r, j, Absent, "ERROR")
             \/ /\ polls[j.poll] # Absent /\ OptionExists(j.option)
                /\ Step(r, j, Absent, {}, "evict")
    BY <1>5 DEF CastVote
  <2>2. UNCHANGED tables
    BY <1>5 DEF CastVote
  <2>3. CASE Conclude(r, j, Absent, "ALREADY_VOTED") \/ Conclude(r, j, Absent, "ERROR")
    <3>1. Others(r) /\ job'[r] = j /\ pc'[r] = "done"
      BY <1>1, <2>3, ConcludeMoves
    <3> QED
      BY <2>1, <2>2, <3>1
  <2>4. CASE /\ polls[j.poll] # Absent /\ OptionExists(j.option)
             /\ Step(r, j, Absent, {}, "evict")
    <3>1. Others(r) /\ job'[r] = j /\ pc'[r] = "evict"
      BY <1>1, <2>4, StepMoves
    <3>2. Undisturbed(j)
      BY <2>1 DEF VoteWaits, Open, Undisturbed
    <3>3. BallotRefers(j)
      BY <2>4, <3>2 DEF BallotRefers
    <3> QED
      BY <2>1, <2>2, <3>1, <3>3
  <2> QED
    BY <2>1, <2>3, <2>4
<1>6. CASE CancelVote(r)
  <2>1. PICK j \in Jobs : j.op = "cancel" /\ \E d \in SUBSET votes : Step(r, j, Absent, d, "evict")
    BY <1>6 DEF CancelVote, Cancelled
  <2>2. UNCHANGED tables
    BY <1>6 DEF CancelVote
  <2>3. Others(r) /\ job'[r] = j /\ pc'[r] = "evict"
    BY <1>1, <2>1, StepMoves
  <2> QED
    BY <2>1, <2>2, <2>3
<1>7. CASE Evict(r)
  <2>1. pc[r] = "evict" /\ UNCHANGED tables
    BY <1>7 DEF Evict
  <2>2. CASE job[r].op = "edit" /\ Answer(r, "ok")
    <3>1. Others(r) /\ pc'[r] = "done" /\ UNCHANGED <<job, gone>>
      BY <1>1, <2>2, AnswerTypes, AbsentIsTyped
    <3> QED
      BY <2>1, <3>1
  <2>3. CASE job[r].op # "edit" /\ Goto(r, "commit")
    <3>1. Others(r) /\ pc'[r] = "commit" /\ UNCHANGED <<job, seen, gone, result>>
      BY <1>1, <2>3, GotoMoves
    <3> QED
      BY <1>1, <2>1, <3>1 DEF Facts
  <2> QED
    BY <1>7, <2>2, <2>3 DEF Evict
<1>8. CASE Fail(r)
  <2>1. UNCHANGED tables /\ Answer(r, "ERROR")
    BY <1>8 DEF Fail
  <2>2. Others(r) /\ pc'[r] = "done"
    BY <1>1, <2>1, AnswerTypes, AbsentIsTyped
  <2> QED
    BY <2>1, <2>2
<1> QED
  BY <1>2, <1>3, <1>4, <1>5, <1>6, <1>7, <1>8

\* The options of a new poll are drawn for it alone.
LEMMA CreatePollRefers ==
  ASSUME Local, Stored, References, NEW r \in Requests, CreatePoll(r) PROVE References'
<1>1. PICK j \in Jobs :
        /\ j.op = "create" /\ j.poll \in fresh /\ j.options \subseteq fresh
        /\ fresh' = fresh \ ({j.poll} \cup j.options)
        /\ Step(r, j, [options |-> j.options, version |-> 1], {}, "alarm")
  BY DEF CreatePoll
<1>2. UNCHANGED <<polls, votes>> /\ TypeOK
  BY DEF CreatePoll, Local
<1>3. /\ Others(r) /\ pc'[r] = "alarm" /\ job'[r] = j
      /\ seen'[r] = [options |-> j.options, version |-> 1]
  BY <1>1, <1>2, StepMoves
<1>4. seen'[r].options = j.options
  BY <1>3
<1>5. \A p : OptionsOf(p)' = OptionsOf(p)
  BY <1>2 DEF OptionsOf
<1>6. \A o : OptionExists(o)' <=> OptionExists(o)
  BY <1>5 DEF OptionExists
<1>7. /\ \A s \in Requests \ {r} :
           /\ Creating(s)' <=> Creating(s)
           /\ Voting(s)' <=> Voting(s)
           /\ Deleting(s)' <=> Deleting(s)
           /\ pc'[s] = pc[s] /\ job'[s] = job[s] /\ seen'[s] = seen[s]
      /\ Creating(r)' /\ ~Voting(r)' /\ ~Deleting(r)'
  BY <1>1, <1>3 DEF Others, Creating, Voting, Deleting
<1>8. RowsRefer'
  BY <1>2, <1>5, <1>6 DEF References, RowsRefer
<1>9. OptionsUsedOnce'
  <2>1. \A p \in Polls : OptionsOf(p)' \cap fresh' = {}
    BY <1>1, <1>5 DEF References, OptionsUsedOnce
  <2>2. ASSUME NEW s \in Requests, Creating(s)'
        PROVE  /\ seen'[s].options \cap fresh' = {}
               /\ \A p \in Polls : seen'[s].options \cap OptionsOf(p)' = {}
    <3>1. CASE s = r
      BY <1>1, <1>4, <1>5, <3>1 DEF References, OptionsUsedOnce
    <3>2. CASE s # r
      BY <1>1, <1>5, <1>7, <2>2, <3>2 DEF References, OptionsUsedOnce
    <3> QED
      BY <3>1, <3>2
  <2>3. ASSUME NEW s \in Requests, Creating(s)', NEW t \in Requests \ {s}, Creating(t)'
        PROVE  seen'[s].options \cap seen'[t].options = {}
    <3>1. \A u \in Requests \ {r} : Creating(u) => seen'[u].options \cap fresh = {}
      BY <1>7 DEF References, OptionsUsedOnce
    <3>2. CASE s = r
      <4>1. Creating(t) /\ t # r
        BY <1>7, <2>3, <3>2
      <4> QED
        BY <1>1, <1>4, <3>1, <3>2, <4>1
    <3>3. CASE t = r
      <4>1. Creating(s) /\ s # r
        BY <1>7, <2>3, <3>3
      <4> QED
        BY <1>1, <1>4, <3>1, <3>3, <4>1
    <3>4. CASE s # r /\ t # r
      BY <1>7, <2>3, <3>4 DEF References, OptionsUsedOnce
    <3> QED
      BY <3>2, <3>3, <3>4
  <2> QED
    BY <2>1, <2>2, <2>3 DEF OptionsUsedOnce
<1>10. ASSUME NEW s \in Requests PROVE ReadIsCurrent(s)'
  <2> SUFFICES ASSUME pc'[s] = "write" PROVE ReadIsCurrent(s)'
    BY DEF ReadIsCurrent
  <2>1. s # r /\ ReadIsCurrent(s) /\ pc[s] = "write"
    BY <1>3, <1>7 DEF References
  <2>2. \A t \in Requests : Creating(t)' => job'[t].poll # job[s].poll
    BY <1>1, <1>3, <1>7, <2>1 DEF ReadIsCurrent
  <2> QED
    BY <1>1, <1>2, <1>7, <2>1, <2>2 DEF ReadIsCurrent
<1>11. ASSUME NEW s \in Requests, Voting(s)' PROVE BallotRefers(job[s])'
  <2>1. s # r /\ BallotRefers(job[s])
    BY <1>7, <1>11 DEF References
  <2>2. job'[s] = job[s]
    BY <1>7, <2>1
  <2>3. Undisturbed(job[s])'
    BY <1>5, <1>7, <2>1, <2>2 DEF BallotRefers, Undisturbed
  <2>4. OptionExists(job[s].option)'
    BY <1>5, <2>1, <2>2 DEF BallotRefers, OptionExists
  <2> QED
    BY <1>2, <2>1, <2>2, <2>3, <2>4 DEF BallotRefers
<1> QED
  BY <1>8, <1>9, <1>10, <1>11 DEF References

\* What the options are when one poll changes.
LEMMA OneRowChanges ==
  ASSUME TypeOK, NEW p \in Polls, NEW b \in PollRow \cup {Absent},
         polls' = [polls EXCEPT ![p] = b]
  PROVE  /\ polls'[p] = b /\ \A q \in Polls \ {p} : polls'[q] = polls[q] /\ OptionsOf(q)' = OptionsOf(q)
         /\ OptionsOf(p)' = IF b = Absent THEN {} ELSE b.options
  BY DEF TypeOK, OptionsOf

\* The tables the system starts with refer to rows they hold.
LEMMA InitRefers == Init => References
<1> SUFFICES ASSUME Init PROVE References
  OBVIOUS
<1>1. \A p \in Polls : polls[p] # Absent => polls[p].version = 1
  BY DEF Init
<1>2. RowsRefer
  BY DEF Init, RowsRefer, OptionsOf, OptionExists, Vote
<1>3. \A p \in Polls : OptionsOf(p) \cap fresh = {}
  <2>1. \A p \in Polls : OptionsOf(p) \subseteq Options
    BY DEF Init, OptionsOf
  <2> QED
    BY <2>1, IdsDiffer DEF Init, OptionsOf
<1>4. OptionsUsedOnce
  BY <1>3 DEF Init, OptionsUsedOnce, Creating
<1> QED
  BY <1>2, <1>4 DEF Init, References, ReadIsCurrent, Voting

\* An edit keeps options of its own poll or takes drawn ones, and the votes on the
\* options it deletes go with them; nobody is about to vote on one.
LEMMA WriteEditRefers ==
  ASSUME Local, Stored, References, NEW r \in Requests, WriteEdit(r) PROVE References'
<1>1. /\ pc[r] = "write" /\ job[r].op = "edit" /\ TypeOK
      /\ Edited(r) \in PollRow /\ Edited(r).version = seen[r].version + 1
      /\ seen[r] \in PollRow /\ seen[r].version \in Nat
  BY EditedIsRow DEF WriteEdit, Local
<1>0. PICK p \in Polls : p = job[r].poll /\ ~AlterWaits(p)
  BY <1>1, EditedIsRow DEF WriteEdit
<1>2. CASE Answer(r, "FAIL_SAVE_POLL") /\ UNCHANGED tables
  <2>1. Others(r) /\ pc'[r] = "done" /\ UNCHANGED tables
    BY <1>1, <1>2, AnswerTypes, AbsentIsTyped DEF WriteEdit, tables, history
  <2>2. Proceeds(r)
    BY <2>1 DEF Proceeds, Creating, Voting, Deleting
  <2> QED
    BY <2>2, ProceedsStep
<1>3. CASE Matches(r) /\ Goto(r, "evict")
             /\ polls' = [polls EXCEPT ![p] = Edited(r)] /\ fresh' = fresh \ job[r].options
             /\ votes' = {w \in votes : w.option \notin OptionsOf(p)}
  <2>1. Others(r) /\ pc'[r] = "evict" /\ UNCHANGED <<job, seen, gone, result>>
    BY <1>1, <1>3, GotoMoves
  <2>2. seen[r] = polls[p] /\ polls[p] # Absent
    BY <1>1, <1>3, <1>0 DEF Matches, References, ReadIsCurrent
  <2>3. Edited(r).options = {o \in job[r].options : o \in OptionsOf(p) \/ o \in fresh}
    BY <1>1, <2>2 DEF Edited, OptionsOf, PollRow
  <2>4. Edited(r) # Absent
    BY <1>1, AbsentIsNoData
  <2>5. /\ polls'[p] = Edited(r)
        /\ \A q \in Polls \ {p} : polls'[q] = polls[q] /\ OptionsOf(q)' = OptionsOf(q)
        /\ OptionsOf(p)' = {o \in job[r].options : o \in OptionsOf(p) \/ o \in fresh}
    BY <1>1, <1>3, <2>3, <2>4, OneRowChanges
  <2>6. \A s \in Requests :
          /\ Creating(s)' <=> Creating(s)
          /\ Voting(s)' <=> Voting(s)
          /\ Deleting(s)' <=> Deleting(s)
    BY <1>1, <2>1 DEF Others, Creating, Voting, Deleting
  <2>7. \A q \in Polls : OptionsOf(q) \cap fresh = {}
    BY DEF References, OptionsUsedOnce
  <2>8. \A q \in Polls : \A t \in Polls \ {q} : OptionsOf(q)' \cap OptionsOf(t)' = {}
    <3>1. \A q \in Polls \ {p} : OptionsOf(q) \cap OptionsOf(p)' = {}
      BY <1>1, <2>5, <2>7 DEF References, RowsRefer
    <3> QED
      BY <1>1, <2>5, <3>1 DEF References, RowsRefer
  <2>9. RowsRefer'
    <3>1. ASSUME NEW v \in votes' PROVE polls'[v.poll] # Absent /\ OptionExists(v.option)'
      <4>1. v \in votes /\ v.option \notin OptionsOf(p) /\ v.poll \in Polls
        BY <1>1, <1>3, <3>1 DEF TypeOK, Vote
      <4>2. polls[v.poll] # Absent /\ OptionExists(v.option)
        BY <4>1 DEF References, RowsRefer
      <4>3. polls'[v.poll] # Absent
        BY <2>4, <2>5, <4>1, <4>2
      <4>4. OptionExists(v.option)'
        BY <2>5, <4>1, <4>2 DEF OptionExists
      <4> QED
        BY <4>3, <4>4
    <3> QED
      BY <2>8, <3>1 DEF RowsRefer
  <2>10. OptionsUsedOnce'
    <3>1. \A q \in Polls : OptionsOf(q)' \cap fresh' = {}
      BY <1>3, <2>5, <2>7
    <3>2. ASSUME NEW s \in Requests, Creating(s)'
          PROVE  /\ seen'[s].options \cap fresh' = {}
                 /\ \A q \in Polls : seen'[s].options \cap OptionsOf(q)' = {}
                 /\ \A t \in Requests \ {s} : Creating(t)' => seen'[s].options \cap seen'[t].options = {}
      <4>1. /\ seen[s].options \cap fresh = {}
            /\ \A q \in Polls : seen[s].options \cap OptionsOf(q) = {}
            /\ \A t \in Requests \ {s} : Creating(t) => seen[s].options \cap seen[t].options = {}
        BY <2>6, <3>2 DEF References, OptionsUsedOnce
      <4>2. \A q \in Polls : seen[s].options \cap OptionsOf(q)' = {}
        BY <1>1, <2>5, <4>1
      <4> QED
        BY <1>3, <2>1, <2>6, <4>1, <4>2
    <3> QED
      BY <3>1, <3>2 DEF OptionsUsedOnce
  <2>11. ASSUME NEW s \in Requests PROVE ReadIsCurrent(s)'
    <3> SUFFICES ASSUME pc'[s] = "write" PROVE ReadIsCurrent(s)'
      BY DEF ReadIsCurrent
    <3>1. s # r /\ pc[s] = "write" /\ ReadIsCurrent(s)
      BY <2>1 DEF Others, References
    <3>2. seen[s].version \in Nat /\ job[s].poll \in Polls
      BY <3>1, EditedIsRow
    <3>3. job[s].poll \notin fresh' /\ \A t \in Requests : Creating(t)' => job[t].poll # job[s].poll
      BY <1>3, <2>6, <3>1 DEF ReadIsCurrent
    <3>4. CASE job[s].poll = p
      <4>1. seen[s].version <= seen[r].version
        BY <2>2, <3>1, <3>4 DEF ReadIsCurrent
      <4>2. seen[s].version < polls'[p].version
        BY <1>1, <2>5, <3>2, <4>1
      <4>3. polls'[p].version \in Nat
        BY <1>1, <2>5
      <4> QED
        BY <2>1, <3>2, <3>3, <3>4, <4>2, <4>3 DEF ReadIsCurrent
    <3>5. CASE job[s].poll # p
      BY <2>1, <2>5, <3>1, <3>2, <3>3, <3>5 DEF ReadIsCurrent
    <3> QED
      BY <3>4, <3>5
  <2>12. ASSUME NEW s \in Requests, Voting(s)' PROVE BallotRefers(job[s])'
    <3>1. Voting(s) /\ BallotRefers(job[s])
      BY <2>6, <2>12 DEF References
    <3>2. job[s].poll # p /\ job[s].option \notin OptionsOf(p)
      BY <1>0, <3>1 DEF AlterWaits, Open, Voting
    <3>3. job[s].poll \in Polls
      BY <3>1, JobOfWriter DEF Voting
    <3>4. polls'[job[s].poll] # Absent
      BY <2>5, <3>1, <3>2, <3>3 DEF BallotRefers
    <3>5. OptionExists(job[s].option)'
      BY <2>1, <2>5, <3>1, <3>2 DEF BallotRefers, OptionExists
    <3>6. ASSUME NEW t \in Requests, Deleting(t)'
          PROVE  job[t].poll # job[s].poll /\ job[s].option \notin OptionsOf(job[t].poll)'
      <4>1. Deleting(t) /\ job[t].poll \in Polls
        BY <2>6, <3>6, JobOfWriter DEF Deleting
      <4>2. job[t].poll # p
        BY <1>0, <4>1 DEF AlterWaits, Open, Deleting
      <4>3. OptionsOf(job[t].poll)' = OptionsOf(job[t].poll)
        BY <2>1, <2>5, <4>1, <4>2 DEF OptionsOf
      <4> QED
        BY <3>1, <4>1, <4>3 DEF BallotRefers, Undisturbed
    <3>7. Undisturbed(job[s])'
      BY <2>1, <3>6 DEF Undisturbed, OptionsOf
    <3> QED
      BY <2>1, <3>4, <3>5, <3>7 DEF BallotRefers
  <2> QED
    BY <2>9, <2>10, <2>11, <2>12 DEF References
<1> QED
  BY <1>2, <1>3, <1>0 DEF WriteEdit

\* What a commit stores refers to rows, and what it deletes nobody refers to.
LEMMA CommitRefers ==
  ASSUME Local, Stored, References, NEW r \in Requests,
         CommitCreate(r) \/ CommitDelete(r) \/ CommitVote(r) \/ CommitCancel(r)
  PROVE  References'
<1>0. PICK p \in Polls : p = job[r].poll
  BY CommitMoves
<1>1. /\ pc[r] = "commit" /\ pc'[r] = "done" /\ Others(r) /\ UNCHANGED <<job, fresh>> /\ TypeOK
      /\ \A s \in Requests : /\ Creating(s)' <=> Creating(s) /\ s # r
                             /\ Voting(s)' <=> Voting(s) /\ s # r
                             /\ Deleting(s)' <=> Deleting(s) /\ s # r
  BY CommitMoves DEF Others, Deleting, Local
<1>2. \A s \in Requests \ {r} : pc'[s] = pc[s] /\ seen'[s] = seen[s]
  BY <1>1 DEF Others
<1>3. CASE polls' = polls
  <2>1. \A q : OptionsOf(q)' = OptionsOf(q)
    BY <1>3 DEF OptionsOf
  <2>2. \A o : OptionExists(o)' <=> OptionExists(o)
    BY <2>1 DEF OptionExists
  <2>3. \A v \in votes' : v \in votes \/ (v = Ballot(r) /\ Voting(r))
    <3>1. CommitVote(r) => votes' = votes \cup {Ballot(r)} /\ Voting(r)
      BY <1>1 DEF CommitVote, Committed, Voting
    <3>2. CommitCreate(r) \/ CommitDelete(r) \/ CommitCancel(r) => votes' \subseteq votes
      BY DEF CommitCreate, CommitDelete, CommitCancel
    <3> QED
      BY <3>1, <3>2
  <2>4. RowsRefer'
    <3>1. Voting(r) => polls[Ballot(r).poll] # Absent /\ OptionExists(Ballot(r).option)
      BY DEF References, BallotRefers, Ballot
    <3> QED
      BY <1>3, <2>1, <2>2, <2>3, <3>1 DEF References, RowsRefer
  <2>5. OptionsUsedOnce'
    BY <1>1, <1>2, <2>1 DEF References, OptionsUsedOnce
  <2>6. \A s \in Requests : ReadIsCurrent(s)'
    BY <1>1, <1>2, <1>3 DEF References, ReadIsCurrent
  <2>7. ASSUME NEW s \in Requests, Voting(s)' PROVE BallotRefers(job[s])'
    <3>1. BallotRefers(job[s])
      BY <1>1, <2>7 DEF References
    <3>2. Undisturbed(job[s])'
      BY <1>1, <2>1, <3>1 DEF BallotRefers, Undisturbed
    <3>3. OptionExists(job[s].option)'
      BY <1>1, <2>1, <3>1 DEF BallotRefers, OptionExists
    <3> QED
      BY <1>1, <1>3, <3>1, <3>2, <3>3 DEF BallotRefers
  <2> QED
    BY <2>4, <2>5, <2>6, <2>7 DEF References
<1>4. CASE CommitCreate(r)
  <2>1. Creating(r) /\ votes' = votes /\ polls' = [polls EXCEPT ![p] = seen[r]] /\ seen[r] \in PollRow
    BY <1>0, <1>1, <1>4 DEF CommitCreate, Committed, Creating, Local, Facts
  <2>2. /\ polls'[p] = seen[r] /\ seen[r] # Absent
        /\ \A q \in Polls \ {p} : polls'[q] = polls[q] /\ OptionsOf(q)' = OptionsOf(q)
        /\ OptionsOf(p)' = seen[r].options
    BY <1>1, <2>1, OneRowChanges, AbsentIsNoData
  <2>3. /\ polls[p] = Absent /\ OptionsOf(p) = {}
        /\ \A s \in Requests \ {r} : Creating(s) => job[s].poll # p
    BY <1>0, <2>1 DEF Stored, IdsUsedOnce, OptionsOf
  <2>4. /\ seen[r].options \cap fresh = {}
        /\ \A q \in Polls : seen[r].options \cap OptionsOf(q) = {}
        /\ \A s \in Requests \ {r} : Creating(s) => seen[r].options \cap seen[s].options = {}
    BY <2>1 DEF References, OptionsUsedOnce
  <2>5. \A o : OptionExists(o) => OptionExists(o)'
    BY <2>2, <2>3 DEF OptionExists
  <2>6. RowsRefer'
    <3>1. \A v \in votes' : polls'[v.poll] # Absent /\ OptionExists(v.option)'
      BY <1>1, <2>1, <2>2, <2>3, <2>5 DEF References, RowsRefer, TypeOK, Vote
    <3>2. \A q \in Polls : \A t \in Polls \ {q} : OptionsOf(q)' \cap OptionsOf(t)' = {}
      BY <2>2, <2>4 DEF References, RowsRefer
    <3> QED
      BY <3>1, <3>2 DEF RowsRefer
  <2>7. OptionsUsedOnce'
    <3>1. \A q \in Polls : OptionsOf(q)' \cap fresh' = {}
      BY <1>1, <2>2, <2>4 DEF References, OptionsUsedOnce
    <3>2. ASSUME NEW s \in Requests, Creating(s)'
          PROVE  /\ seen'[s].options \cap fresh' = {}
                 /\ \A q \in Polls : seen'[s].options \cap OptionsOf(q)' = {}
                 /\ \A t \in Requests \ {s} : Creating(t)' => seen'[s].options \cap seen'[t].options = {}
      <4>1. /\ seen[s].options \cap fresh = {}
            /\ \A q \in Polls : seen[s].options \cap OptionsOf(q) = {}
            /\ \A t \in Requests \ {s} : Creating(t) => seen[s].options \cap seen[t].options = {}
        BY <1>1, <3>2 DEF References, OptionsUsedOnce
      <4>2. \A q \in Polls : seen[s].options \cap OptionsOf(q)' = {}
        BY <1>1, <2>1, <2>2, <3>2, <4>1
      <4> QED
        BY <1>1, <1>2, <3>2, <4>1, <4>2
    <3> QED
      BY <3>1, <3>2 DEF OptionsUsedOnce
  <2>8. ASSUME NEW s \in Requests PROVE ReadIsCurrent(s)'
    <3> SUFFICES ASSUME pc'[s] = "write" PROVE ReadIsCurrent(s)'
      BY DEF ReadIsCurrent
    <3>1. s # r /\ pc[s] = "write" /\ ReadIsCurrent(s)
      BY <1>1, <1>2 DEF References
    <3>2. job[s].poll # p /\ job[s].poll \in Polls
      BY <1>0, <2>1, <3>1, EditedIsRow DEF ReadIsCurrent
    <3> QED
      BY <1>1, <1>2, <2>2, <3>1, <3>2 DEF ReadIsCurrent
  <2>9. ASSUME NEW s \in Requests, Voting(s)' PROVE BallotRefers(job[s])'
    <3>1. Voting(s) /\ BallotRefers(job[s]) /\ job[s].poll \in Polls
      BY <1>1, <2>9, JobOfWriter DEF References, Voting
    <3>2. polls'[job[s].poll] # Absent
      BY <2>2, <3>1 DEF BallotRefers
    <3>3. PICK q \in Polls : job[s].option \in OptionsOf(q)
      BY <3>1 DEF BallotRefers, OptionExists
    <3>4. OptionExists(job[s].option)'
      BY <1>1, <2>2, <2>3, <3>3 DEF OptionExists
    <3>5. ASSUME NEW t \in Requests, Deleting(t)'
          PROVE  job[t].poll # job[s].poll /\ job[s].option \notin OptionsOf(job[t].poll)'
      <4>1. Deleting(t) /\ job[t].poll \in Polls
        BY <1>1, <3>5, JobOfWriter DEF Deleting
      <4>2. job[t].poll # job[s].poll /\ job[s].option \notin OptionsOf(job[t].poll)
        BY <3>1, <4>1 DEF BallotRefers, Undisturbed
      <4>3. CASE job[t].poll = p
        <5>1. job[s].option \notin seen[r].options
          BY <2>4, <3>3
        <5>2. OptionsOf(job[t].poll)' = seen[r].options
          BY <1>1, <2>2, <4>3 DEF OptionsOf
        <5> QED
          BY <4>2, <5>1, <5>2
      <4>4. CASE job[t].poll # p
        <5>1. OptionsOf(job[t].poll)' = OptionsOf(job[t].poll)
          BY <1>1, <2>2, <4>1, <4>4 DEF OptionsOf
        <5> QED
          BY <4>2, <5>1
      <4> QED
        BY <4>3, <4>4
    <3>6. Undisturbed(job[s])'
      BY <1>1, <3>5 DEF Undisturbed, OptionsOf
    <3> QED
      BY <1>1, <3>2, <3>4, <3>6 DEF BallotRefers
  <2> QED
    BY <2>6, <2>7, <2>8, <2>9 DEF References
<1>5. CASE CommitDelete(r)
  <2>1. /\ Deleting(r) /\ votes' = {v \in votes : v.poll # p /\ v.option \notin OptionsOf(p)}
        /\ polls' = [polls EXCEPT ![p] = Absent]
    BY <1>0, <1>1, <1>5 DEF CommitDelete, Committed, Deleting, Cascade
  <2>2. /\ polls'[p] = Absent /\ OptionsOf(p)' = {}
        /\ \A q \in Polls \ {p} : polls'[q] = polls[q] /\ OptionsOf(q)' = OptionsOf(q)
    BY <1>1, <2>1, OneRowChanges
  <2>3. \A o : OptionExists(o) /\ o \notin OptionsOf(p) => OptionExists(o)'
    BY <2>2 DEF OptionExists
  <2>4. RowsRefer'
    <3>1. \A v \in votes' : polls'[v.poll] # Absent /\ OptionExists(v.option)'
      BY <1>1, <2>1, <2>2, <2>3 DEF References, RowsRefer, TypeOK, Vote
    <3>2. \A q \in Polls : \A t \in Polls \ {q} : OptionsOf(q)' \cap OptionsOf(t)' = {}
      BY <2>2 DEF References, RowsRefer
    <3> QED
      BY <3>1, <3>2 DEF RowsRefer
  <2>5. OptionsUsedOnce'
    <3>1. \A q \in Polls : OptionsOf(q)' \subseteq OptionsOf(q)
      BY <2>2
    <3> QED
      BY <1>1, <1>2, <3>1 DEF References, OptionsUsedOnce
  <2>6. ASSUME NEW s \in Requests PROVE ReadIsCurrent(s)'
    <3> SUFFICES ASSUME pc'[s] = "write" PROVE ReadIsCurrent(s)'
      BY DEF ReadIsCurrent
    <3>1. s # r /\ pc[s] = "write" /\ ReadIsCurrent(s) /\ job[s].poll \in Polls
      BY <1>1, <1>2, EditedIsRow DEF References
    <3> QED
      BY <1>1, <1>2, <2>2, <3>1 DEF ReadIsCurrent
  <2>7. ASSUME NEW s \in Requests, Voting(s)' PROVE BallotRefers(job[s])'
    <3>1. Voting(s) /\ BallotRefers(job[s]) /\ job[s].poll \in Polls
      BY <1>1, <2>7, JobOfWriter DEF References, Voting
    <3>2. job[s].poll # p /\ job[s].option \notin OptionsOf(p)
      BY <1>0, <2>1, <3>1 DEF BallotRefers, Undisturbed
    <3>3. polls'[job[s].poll] # Absent
      BY <2>2, <3>1, <3>2 DEF BallotRefers
    <3>4. OptionExists(job[s].option)'
      BY <1>1, <2>2, <3>1, <3>2 DEF BallotRefers, OptionExists
    <3>5. ASSUME NEW t \in Requests, Deleting(t)'
          PROVE  job[t].poll # job[s].poll /\ job[s].option \notin OptionsOf(job[t].poll)'
      <4>1. Deleting(t) /\ job[t].poll \in Polls
        BY <1>1, <3>5, JobOfWriter DEF Deleting
      <4>2. job[t].poll # job[s].poll /\ job[s].option \notin OptionsOf(job[t].poll)
        BY <3>1, <4>1 DEF BallotRefers, Undisturbed
      <4>3. OptionsOf(job[t].poll)' \subseteq OptionsOf(job[t].poll)
        BY <1>1, <2>2, <4>1 DEF OptionsOf
      <4> QED
        BY <4>2, <4>3
    <3>6. Undisturbed(job[s])'
      BY <1>1, <3>5 DEF Undisturbed, OptionsOf
    <3> QED
      BY <1>1, <3>3, <3>4, <3>6 DEF BallotRefers
  <2> QED
    BY <2>4, <2>5, <2>6, <2>7 DEF References
<1>6. CommitVote(r) \/ CommitCancel(r) => polls' = polls
  BY DEF CommitVote, CommitCancel
<1> QED
  BY <1>3, <1>4, <1>5, <1>6

\* No step leaves a reference to nothing.
LEMMA ReferencesStep == IInv /\ References /\ [Next]_vars => References'
<1> SUFFICES ASSUME Local, Stored, References, [Next]_vars PROVE References'
  BY DEF IInv
<1>1. CASE UNCHANGED <<tables, reqVars>>
  BY <1>1 DEF tables, history, reqVars, References, RowsRefer, OptionsUsedOnce, ReadIsCurrent, BallotRefers,
     Undisturbed, OptionExists, OptionsOf, Creating, Voting, Deleting
<1>3. CASE UNCHANGED vars
  BY <1>1, <1>3 DEF vars, tables, history
<1> QED
  BY <1>3, CreatePollRefers, WriteEditRefers, CommitRefers, ActionsProceed, ProceedsStep
     DEF Next

\* Every vote is on a poll and for an option that exist, and no option is of two polls.
THEOREM VotesReferToRows == Spec => []RowsRefer
<1>1. Init => References
  BY InitRefers
<1>2. References => RowsRefer
  BY DEF References
<1> QED
  BY <1>1, <1>2, ReferencesStep, PollInvariant, PTL DEF Spec
=============================================================================
