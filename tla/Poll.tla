-------------------------------- MODULE Poll --------------------------------
(***************************************************************************)
(* The polls of an apartment and the votes of its residents: the commands  *)
(* of poll-command.ts over the tables Polls, Options and UserVoteOption.   *)
(*                                                                         *)
(* createPoll, deletePoll, vote and cancle run in READ COMMITTED           *)
(* transactions.  What such a request wrote is invisible until it commits, *)
(* and who would touch the same rows, or delete rows that they refer to,   *)
(* waits; so the write is applied at the commit and the waiting is a       *)
(* guard.  updatePoll reads the poll and writes it under the version it    *)
(* read, in one statement that deletes the options and creates them again. *)
(* Votes refer to poll and option and are deleted with either.             *)
(*                                                                         *)
(* No command tests the status of a poll, so a poll has none here; titles, *)
(* dates and buildings are left out.  The cached view is module            *)
(* RedisLocker: deleting its key is a call that may fail.                  *)
(***************************************************************************)
EXTENDS Naturals, FiniteSets

CONSTANTS
  Requests,   \* HTTP requests; each is served once, which bounds the model
  Users,
  Polls,      \* poll ids, drawn by randomUUID and never drawn twice
  Options,    \* option ids, likewise
  Absent      \* no row, no id

PollRow == [options : SUBSET Options, version : Nat]
Vote == [user : Users, poll : Polls, option : Options]

ASSUME AbsentIsNoData ==
  /\ Absent \notin Users /\ Absent \notin Polls /\ Absent \notin Options
  /\ Absent \notin PollRow
ASSUME IdsDiffer == Polls \cap Options = {}

VARIABLES
  polls,    \* polls[p] is the row of poll p with its options, or Absent
  fresh,    \* the ids of polls and options nothing was stored under
  votes,    \* the table UserVoteOption
  outbox,   \* the polls whose registration is in the outbox
  pc,       \* pc[r] is the call request r makes next
  job,      \* job[r] is what request r asks for
  seen,     \* seen[r] is the poll r read or inserts, or Absent
  gone,     \* gone[r] is the set of votes r deletes
  result,   \* result[r] is the answer to r
  stored,   \* history: the requests whose writes are in the tables
  since,    \* history: <<q, s>> is in it if s stored its writes after q did
  dropped,  \* history: dropped[r] is the set of options r deleted
  edits     \* history: which edit was computed from which version of a poll

reqVars == <<pc, job, seen, gone, result>>
history == <<stored, since, dropped, edits>>
tables == <<polls, fresh, votes, outbox, history>>
vars == <<tables, reqVars>>

\* The requests the handlers accept: one that creates or edits a poll names the
\* options that it adds or keeps.
Jobs ==
  [op : {"create", "edit"}, poll : Polls, options : SUBSET Options]
  \cup [op : {"delete"}, poll : Polls]
  \cup [op : {"vote", "cancel"}, poll : Polls, user : Users, option : Options]

NoJob == [op |-> "none"]

Result == {"none", "ok", "ERROR", "POLL_NOT_FOUND", "ALREADY_VOTED", "FAIL_SAVE_POLL"}

TypeOK ==
  /\ polls \in [Polls -> PollRow \cup {Absent}]
  /\ fresh \subseteq Polls \cup Options
  /\ votes \subseteq Vote
  /\ outbox \subseteq Polls
  /\ pc \in [Requests -> {"idle", "alarm", "write", "evict", "commit", "done"}]
  /\ job \in [Requests -> Jobs \cup {NoJob}]
  /\ seen \in [Requests -> PollRow \cup {Absent}]
  /\ gone \in [Requests -> SUBSET Vote]
  /\ result \in [Requests -> Result]
  /\ stored \subseteq Requests
  /\ since \subseteq Requests \X Requests
  /\ dropped \in [Requests -> SUBSET Options]
  /\ edits \subseteq Requests \X Polls \X Nat

\* Polls with some of the options, and one vote on them or none.
Init ==
  /\ polls \in [Polls -> {Absent} \cup {[options |-> S, version |-> 1] : S \in SUBSET Options}]
  /\ \A p, q \in Polls :
       p # q /\ polls[p] # Absent /\ polls[q] # Absent => polls[p].options \cap polls[q].options = {}
  /\ votes \in {{}} \cup {{v} : v \in {w \in Vote :
       polls[w.poll] # Absent /\ w.option \in polls[w.poll].options}}
  /\ fresh = {p \in Polls : polls[p] = Absent}
       \cup {o \in Options : \A p \in Polls : polls[p] # Absent => o \notin polls[p].options}
  /\ outbox = {}
  /\ pc = [r \in Requests |-> "idle"] /\ job = [r \in Requests |-> NoJob]
  /\ seen = [r \in Requests |-> Absent] /\ gone = [r \in Requests |-> {}]
  /\ result = [r \in Requests |-> "none"]
  /\ stored = {} /\ since = {} /\ edits = {} /\ dropped = [r \in Requests |-> {}]

-----------------------------------------------------------------------------
Step(r, j, s, d, p) ==
  /\ job' = [job EXCEPT ![r] = j]
  /\ seen' = [seen EXCEPT ![r] = s]
  /\ gone' = [gone EXCEPT ![r] = d]
  /\ pc' = [pc EXCEPT ![r] = p]
  /\ UNCHANGED result

Conclude(r, j, s, res) ==
  /\ job' = [job EXCEPT ![r] = j]
  /\ seen' = [seen EXCEPT ![r] = s]
  /\ pc' = [pc EXCEPT ![r] = "done"]
  /\ result' = [result EXCEPT ![r] = res]
  /\ UNCHANGED gone

Answer(r, res) == Conclude(r, job[r], seen[r], res)

Goto(r, p) == pc' = [pc EXCEPT ![r] = p] /\ UNCHANGED <<job, seen, gone, result>>

\* What request r wrote is in the tables, and the options S are not any more.
Store(r, S) ==
  /\ stored' = stored \cup {r}
  /\ since' = since \cup (stored \X {r})
  /\ dropped' = [dropped EXCEPT ![r] = S]

\* The transactions that wrote and did not end yet.
Open(op) == {s \in Requests : job[s].op = op /\ pc[s] \in {"alarm", "evict", "commit"}}

OptionsOf(p) == IF polls[p] = Absent THEN {} ELSE polls[p].options

\* The option is a row of its table, and so is the poll.
OptionExists(o) == \E p \in Polls : o \in OptionsOf(p)

\* An insert of a vote waits for a transaction that writes the same key, and
\* for one that deletes the poll or the option.
VoteWaits(j) ==
  \/ \E s \in Open("vote") : job[s].user = j.user /\ job[s].poll = j.poll
  \/ \E s \in Open("cancel") : \E v \in gone[s] : v.user = j.user /\ v.poll = j.poll
  \/ \E s \in Open("delete") : job[s].poll = j.poll \/ j.option \in OptionsOf(job[s].poll)

\* Deleting the options of p waits for the votes on them that are in flight.
AlterWaits(p) ==
  \/ \E s \in Open("vote") : job[s].poll = p \/ job[s].option \in OptionsOf(p)
  \/ \E s \in Open("cancel") : \E v \in gone[s] : v.poll = p \/ v.option \in OptionsOf(p)
  \/ \E s \in Open("delete") : job[s].poll = p

-----------------------------------------------------------------------------
(***************************************************************************)
(* createPoll and updatePoll.                                              *)
(***************************************************************************)

\* The poll and its options are inserted.
CreatePoll(r) ==
  /\ pc[r] = "idle"
  /\ \E j \in Jobs :
       /\ j.op = "create" /\ j.poll \in fresh /\ j.options \subseteq fresh
       /\ fresh' = fresh \ ({j.poll} \cup j.options)
       /\ Step(r, j, [options |-> j.options, version |-> 1], {}, "alarm")
  /\ UNCHANGED <<polls, votes, outbox, history>>

\* The alarm to the residents, inserted in the same transaction.
CreateAlarm(r) ==
  /\ pc[r] = "alarm" /\ Goto(r, "commit")
  /\ UNCHANGED tables

FindToEdit(r) ==
  /\ pc[r] = "idle"
  /\ \E j \in Jobs :
       /\ j.op = "edit"
       /\ \/ polls[j.poll] = Absent /\ Conclude(r, j, Absent, "POLL_NOT_FOUND")
          \/ polls[j.poll] # Absent /\ Step(r, j, polls[j.poll], {}, "write")
  /\ UNCHANGED tables

\* Mutant: the version is counted down.
EditedDown(r) ==
  [seen[r] EXCEPT !.options = {o \in job[r].options : o \in seen[r].options \/ o \in fresh},
                  !.version = @ - 1]

\* PollEntity.update: the options it names of those it read, and new ones.
Edited(r) ==
  [seen[r] EXCEPT !.options = {o \in job[r].options : o \in seen[r].options \/ o \in fresh},
                  !.version = @ + 1]

\* Mutant: the where clause of the update names the id and forgets the version.
MatchesById(r) == polls[job[r].poll] # Absent

Matches(r) ==
  polls[job[r].poll] # Absent /\ polls[job[r].poll].version = seen[r].version

\* pollCommandRepo.update.  The votes go with the options that are deleted,
\* and do not come back with those that are created under the same ids.  A
\* lost race is RECORD_NOT_FOUND, which the unit of work does not retry.
WriteEdit(r) ==
  LET p == job[r].poll
  IN /\ pc[r] = "write" /\ job[r].op = "edit" /\ ~AlterWaits(p)
     /\ \/ /\ Matches(r)
           /\ polls' = [polls EXCEPT ![p] = Edited(r)]
           /\ fresh' = fresh \ job[r].options
           /\ votes' = {v \in votes : v.option \notin OptionsOf(p)}
           /\ Store(r, OptionsOf(p))
           /\ edits' = edits \cup {<<r, p, seen[r].version>>}
           /\ Goto(r, "evict") /\ UNCHANGED outbox
        \/ ~Matches(r) /\ Answer(r, "FAIL_SAVE_POLL") /\ UNCHANGED tables

-----------------------------------------------------------------------------
(***************************************************************************)
(* deletePoll, vote, cancle.                                               *)
(***************************************************************************)
DeletePoll(r) ==
  /\ pc[r] = "idle"
  /\ \E j \in Jobs : j.op = "delete" /\ ~AlterWaits(j.poll) /\ Step(r, j, Absent, {}, "evict")
  /\ UNCHANGED tables

\* userVoteOptionCommandRepo.vote: the key is user and poll; poll and option
\* have to exist, each for itself.
CastVote(r) ==
  /\ pc[r] = "idle"
  /\ \E j \in Jobs :
       /\ j.op = "vote" /\ ~VoteWaits(j)
       /\ LET taken == \E v \in votes : v.user = j.user /\ v.poll = j.poll
              refers == polls[j.poll] # Absent /\ OptionExists(j.option)
          IN \/ taken /\ Conclude(r, j, Absent, "ALREADY_VOTED")
             \/ ~taken /\ ~refers /\ Conclude(r, j, Absent, "ERROR")
             \/ ~taken /\ refers /\ Step(r, j, Absent, {}, "evict")
  /\ UNCHANGED tables

\* Mutant: the where clause of cancle names the option and forgets the user.
VotesForOption(j) == {v \in votes : v.option = j.option}

\* userVoteOptionCommandRepo.cancle deletes by user and option.
Cancelled(j) == {v \in votes : v.user = j.user /\ v.option = j.option}

CancelVote(r) ==
  /\ pc[r] = "idle"
  /\ \E j \in Jobs :
       /\ j.op = "cancel"
       /\ \A s \in Open("cancel") : gone[s] \cap Cancelled(j) = {}
       /\ \A s \in Open("delete") : \A v \in Cancelled(j) :
            v.poll # job[s].poll /\ v.option \notin OptionsOf(job[s].poll)
       /\ Step(r, j, Absent, Cancelled(j), "evict")
  /\ UNCHANGED tables

\* redisExternal.del: the last call of an edit, the last before the commit of
\* the transactions.
Evict(r) ==
  /\ pc[r] = "evict"
  /\ \/ job[r].op = "edit" /\ Answer(r, "ok")
     \/ job[r].op # "edit" /\ Goto(r, "commit")
  /\ UNCHANGED tables

\* The answer to a commit may be lost although the commit went through.
Committed(r, op) ==
  /\ pc[r] = "commit" /\ job[r].op = op
  /\ \E res \in {"ok", "ERROR"} : Answer(r, res)

CommitCreate(r) ==
  /\ Committed(r, "create") /\ Store(r, {})
  /\ polls' = [polls EXCEPT ![job[r].poll] = seen[r]]
  /\ outbox' = outbox \cup {job[r].poll}
  /\ UNCHANGED <<fresh, votes, edits>>

\* Mutant: the votes on the poll go with it, those for its options do not.
CascadeOfPoll(p) == {v \in votes : v.poll = p}

\* The votes that are deleted with poll p.
Cascade(p) == {v \in votes : v.poll = p \/ v.option \in OptionsOf(p)}

CommitDelete(r) ==
  LET p == job[r].poll
  IN /\ Committed(r, "delete") /\ Store(r, OptionsOf(p))
     /\ votes' = votes \ Cascade(p)
     /\ polls' = [polls EXCEPT ![p] = Absent]
     /\ UNCHANGED <<fresh, outbox, edits>>

Ballot(r) == [user |-> job[r].user, poll |-> job[r].poll, option |-> job[r].option]

CommitVote(r) ==
  /\ Committed(r, "vote") /\ Store(r, {})
  /\ votes' = votes \cup {Ballot(r)}
  /\ UNCHANGED <<polls, fresh, outbox, edits>>

CommitCancel(r) ==
  /\ Committed(r, "cancel") /\ Store(r, {})
  /\ votes' = votes \ gone[r]
  /\ UNCHANGED <<polls, fresh, outbox, edits>>

\* A call throws, the transaction runs out of time or is a deadlock's victim,
\* or the server stops: the transaction is rolled back, an edit stays.
Fail(r) ==
  /\ pc[r] \in {"alarm", "write", "evict", "commit"} /\ Answer(r, "ERROR")
  /\ UNCHANGED tables

Next ==
  \E r \in Requests :
       \/ CreatePoll(r) \/ CreateAlarm(r) \/ FindToEdit(r) \/ WriteEdit(r)
       \/ DeletePoll(r) \/ CastVote(r) \/ CancelVote(r) \/ Evict(r)
       \/ CommitCreate(r) \/ CommitDelete(r) \/ CommitVote(r) \/ CommitCancel(r)
       \/ Fail(r)

Spec == Init /\ [][Next]_vars

-----------------------------------------------------------------------------
(***************************************************************************)
(* Properties.                                                             *)
(***************************************************************************)

\* The write of s deletes the vote r cast.
TakesAway(s, r) ==
  \/ job[s].op = "cancel" /\ job[s].user = job[r].user /\ job[s].option = job[r].option
  \/ job[s].op = "delete" /\ job[s].poll = job[r].poll
  \/ job[r].option \in dropped[s]

\* Whoever is told that the vote counted has this vote on the poll and no other,
\* unless a later request took it away: the user's own cancellation of that
\* option, a delete of the poll, or an edit or delete of the poll the option is
\* of.  What others do, or was done before the vote, is no excuse.
AcknowledgedVotesStand ==
  \A r \in Requests :
    job[r].op = "vote" /\ result[r] = "ok" =>
      \/ {v \in votes : v.user = job[r].user /\ v.poll = job[r].poll} = {Ballot(r)}
      \/ \E s \in Requests : <<r, s>> \in since /\ TakesAway(s, r)

\* Whatever is created, edited and deleted while votes are cast, every vote is on
\* a poll and for an option that exist, and no option is of two polls.
RowsRefer ==
  /\ \A v \in votes : polls[v.poll] # Absent /\ OptionExists(v.option)
  /\ \A p \in Polls : \A q \in Polls \ {p} : OptionsOf(p) \cap OptionsOf(q) = {}

\* Two edits computed from one version of a poll are never both stored.
NoLostEdit ==
  \A e, f \in edits : e[2] = f[2] /\ e[3] = f[3] => e[1] = f[1]

=============================================================================
