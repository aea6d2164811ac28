---------------------------- MODULE NoticeProofs ----------------------------
(***************************************************************************)
(* What holds of the notices and comments for any requests, accounts, ids  *)
(* and retries.                                                            *)
(*                                                                         *)
(* What the answers promise follows from what each request knows of itself *)
(* (Facts).  What becomes of the rows rests on three facts more: an id     *)
(* that is reserved or was read is not drawn again (IdsUsedOnce), an edit  *)
(* whose version is still stored read all of the row (SnapshotIntegrity),  *)
(* and who was allowed to change a comment still is when the write comes   *)
(* (MayStillChange), though the write does not test it.                    *)
(***************************************************************************)
EXTENDS NoticeBoard, TLAPS

\* What request r knows at each of its calls.
Facts(r) ==
  /\ pc[r] = "idle" => job[r] = NoJob /\ r \notin stored /\ r \notin outbox
  /\ pc[r] # "idle" => job[r] \in Jobs
  /\ pc[r] # "done" => result[r] = "none"
  /\ pc[r] \in {"alarm", "commit"} => job[r].op = "create" /\ r \notin stored /\ r \notin outbox
  /\ pc[r] = "read" => job[r].op = "edit" /\ r \notin stored
  /\ pc[r] = "write" => job[r].op \in {"edit", "editComment", "deleteComment"} /\ r \notin stored
  /\ pc[r] = "write" /\ job[r].op = "edit" => seen[r] \in Notice
  /\ pc[r] = "evict" => job[r].op \in {"edit", "delete"} /\ (job[r].op = "edit" => r \in stored)
  /\ job[r].op = "create" =>
       /\ r \in stored <=> r \in outbox
       /\ result[r] = "ok" => r \in stored
  /\ job[r].op \in {"edit", "comment", "editComment"} /\ result[r] = "ok" => r \in stored
  /\ result[r] \in Result \ {"none", "ok", "ERROR"} => r \notin stored

Local == TypeOK /\ \A r \in Requests : Facts(r)

\* The edit that has read its notice, and the change of a comment that has.
Editing(r) == pc[r] = "write" /\ job[r].op = "edit"
Changing(r) == pc[r] = "write" /\ job[r].op \in {"editComment", "deleteComment"}

\* An id that was not drawn names no row.
Unused ==
  /\ \A n \in Notices \cap fresh : notices[n] = Absent
  /\ \A k \in Comments \cap fresh : comments[k] = Absent

\* A new notice has its id to itself; what was read is not drawn again.
IdsUsedOnce(r) ==
  /\ Creating(r) =>
       /\ job[r].notice \in fresh
       /\ \A s \in Requests \ {r} : Creating(s) => job[s].notice # job[r].notice
  /\ Editing(r) => job[r].notice \notin fresh
  /\ Changing(r) => job[r].comment \notin fresh

\* A stored version is never below the one that was read, and equal versions of
\* a notice mean equal rows.
SnapshotIntegrity(r) ==
  Editing(r) /\ notices[job[r].notice] # Absent =>
    /\ seen[r].version <= notices[job[r].notice].version
    /\ seen[r].version = notices[job[r].notice].version => seen[r] = notices[job[r].notice]

\* The comment, if it is there, is one that request r may change.
MayStillChange(r) ==
  Changing(r) /\ comments[job[r].comment] # Absent => MayChange(job[r], comments[job[r].comment])

Knowledge(r) == IdsUsedOnce(r) /\ SnapshotIntegrity(r) /\ MayStillChange(r)

Stored == Unused /\ \A r \in Requests : Knowledge(r)

IInv == Local /\ Stored

-----------------------------------------------------------------------------
(***************************************************************************)
(* The requests.                                                           *)
(***************************************************************************)

LEMMA JobsAreWellFormed ==
  ASSUME NEW j \in Jobs
  PROVE  /\ j.op \in {"create", "edit", "delete", "comment", "editComment", "deleteComment"}
         /\ j.fields \subseteq Fields
         /\ j.op = "create" => j.user \in Admins /\ j.notice \in Notices
         /\ j.op \in {"edit", "delete"} => j.notice \in Notices
         /\ j.op = "comment" => j.user \in Users /\ j.notice \in Notices /\ j.comment \in Comments
         /\ j.op \in {"editComment", "deleteComment"} => j.user \in Users /\ j.comment \in Comments
  BY DEF Jobs, Bodies, None, Fields

LEMMA NothingIsAsked == NoJob.op = "none"
  BY DEF NoJob

Calls == {"idle", "read", "alarm", "commit", "write", "evict", "done"}

RequestsOK ==
  /\ pc \in [Requests -> Calls]
  /\ job \in [Requests -> Jobs \cup {NoJob}]
  /\ seen \in [Requests -> Notice \cup {Absent}]
  /\ tries \in [Requests -> 0..MaxRetries]
  /\ result \in [Requests -> Result]

TablesOK ==
  /\ users \subseteq Users
  /\ notices \in [Notices -> Notice \cup {Absent}]
  /\ comments \in [Comments -> Comment \cup {Absent}]
  /\ fresh \subseteq Notices \cup Comments
  /\ outbox \subseteq Requests /\ stored \subseteq Requests

LEMMA TypesAreTwo ==
  /\ TypeOK <=> RequestsOK /\ TablesOK
  /\ TypeOK' <=> RequestsOK' /\ TablesOK'
  BY DEF TypeOK, RequestsOK, TablesOK, Calls

\* The requests other than r stand still.
Others(r) ==
  \A s \in Requests \ {r} :
    pc'[s] = pc[s] /\ job'[s] = job[s] /\ seen'[s] = seen[s] /\ result'[s] = result[s]

LEMMA ProceedMoves ==
  ASSUME TypeOK, NEW r \in Requests, NEW j \in Jobs, NEW b \in Notice \cup {Absent},
         NEW p \in Calls, Proceed(r, j, b, p)
  PROVE  /\ RequestsOK' /\ Others(r)
         /\ pc'[r] = p /\ job'[r] = j /\ seen'[r] = b /\ result'[r] = result[r]
  BY DEF TypeOK, RequestsOK, Proceed, Calls, Others

LEMMA ConcludeMoves ==
  ASSUME TypeOK, NEW r \in Requests, NEW j \in Jobs, NEW a \in Result, Conclude(r, j, a)
  PROVE  /\ RequestsOK' /\ Others(r)
         /\ pc'[r] = "done" /\ job'[r] = j /\ seen'[r] = seen[r] /\ result'[r] = a
  BY DEF TypeOK, RequestsOK, Conclude, Calls, Others

LEMMA AnswerMoves ==
  ASSUME TypeOK, NEW r \in Requests, job[r] \in Jobs, NEW a \in Result, Answer(r, a)
  PROVE  /\ RequestsOK' /\ Others(r)
         /\ pc'[r] = "done" /\ job'[r] = job[r] /\ seen'[r] = seen[r] /\ result'[r] = a
  BY ConcludeMoves DEF Answer

LEMMA GotoMoves ==
  ASSUME TypeOK, NEW r \in Requests, job[r] \in Jobs, NEW p \in Calls, Goto(r, p)
  PROVE  /\ RequestsOK' /\ Others(r)
         /\ pc'[r] = p /\ job'[r] = job[r] /\ seen'[r] = seen[r] /\ result'[r] = result[r]
<1>1. seen[r] \in Notice \cup {Absent}
  BY DEF TypeOK
<1> QED
  BY <1>1, ProceedMoves DEF Goto

LEMMA ConflictMoves ==
  ASSUME TypeOK, NEW r \in Requests, job[r] \in Jobs, Conflict(r)
  PROVE  /\ RequestsOK' /\ Others(r) /\ job'[r] = job[r] /\ seen'[r] = seen[r]
         /\ \/ pc'[r] = "read" /\ result'[r] = result[r]
            \/ pc'[r] = "done" /\ result'[r] = "CONCURRENT_MODIFICATION"
<1>1. CASE tries[r] < MaxRetries /\ Retry(r)
  <2>1. tries[r] + 1 \in 0..MaxRetries
    BY <1>1, RetriesAreCounted DEF TypeOK
  <2> QED
    BY <1>1, <2>1 DEF TypeOK, RequestsOK, Retry, Calls, Others
<1>2. CASE Answer(r, "CONCURRENT_MODIFICATION")
  <2>1. "CONCURRENT_MODIFICATION" \in Result
    BY DEF Result
  <2> QED
    BY <1>2, <2>1, AnswerMoves
<1> QED
  BY <1>1, <1>2 DEF Conflict

LEMMA AsksForJobs ==
  ASSUME Local, NEW r \in Requests, NEW j \in Asks(r)
  PROVE  /\ j \in Jobs /\ pc[r] \in {"idle", "read"} /\ r \notin stored /\ result[r] = "none"
         /\ pc[r] = "read" => j.op = "edit"
         /\ j.op # "edit" => r \notin outbox
<1>1. Facts(r)
  BY DEF Local
<1> QED
  BY <1>1 DEF Facts, Asks

\* A step of r tells the others nothing.
LEMMA OthersKnow ==
  ASSUME Local, NEW r \in Requests, Others(r), Facts(r)',
         \A s \in Requests \ {r} : (s \in stored' <=> s \in stored) /\ (s \in outbox' <=> s \in outbox)
  PROVE  \A s \in Requests : Facts(s)'
<1> SUFFICES ASSUME NEW s \in Requests \ {r} PROVE Facts(s)'
  OBVIOUS
<1>1. Facts(s) /\ (s \in stored' <=> s \in stored) /\ (s \in outbox' <=> s \in outbox)
  BY DEF Local
<1>2. pc'[s] = pc[s] /\ job'[s] = job[s] /\ seen'[s] = seen[s] /\ result'[s] = result[s]
  BY DEF Others
<1> QED
  BY <1>1, <1>2 DEF Facts

-----------------------------------------------------------------------------
(***************************************************************************)
(* Types, and what a request knows.                                        *)
(***************************************************************************)

LEMMA LocalInit == Init => Local
<1> SUFFICES ASSUME Init PROVE Local
  OBVIOUS
<1>1. RequestsOK
  BY RetriesAreCounted DEF Init, RequestsOK, Calls, Result
<1>2. notices \in [Notices -> Notice \cup {Absent}]
  <2>1. {[author |-> u, title |-> Earlier, event |-> e, version |-> 1] :
           u \in Admins, e \in {Earlier, Absent}} \subseteq Notice
    BY AdminsAreUsers DEF Notice, Origin
  <2> QED
    BY <2>1 DEF Init
<1>3. comments \in [Comments -> Comment \cup {Absent}]
  BY DEF Init, Comment, Origin
<1>4. TablesOK
  BY <1>2, <1>3 DEF Init, TablesOK
<1>5. \A r \in Requests : Facts(r)
  BY NothingIsAsked DEF Init, Facts
<1> QED
  BY <1>1, <1>4, <1>5, TypesAreTwo DEF Local

\* A step of r that changes no table keeps what is known if r knows its part.
LEMMA QuietTypes ==
  ASSUME Local, NEW r \in Requests, Others(r), RequestsOK', UNCHANGED tableVars, Facts(r)'
  PROVE  Local'
<1>1. TablesOK' /\ stored' = stored /\ outbox' = outbox
  BY TypesAreTwo DEF Local, TablesOK, tableVars
<1> QED
  BY <1>1, OthersKnow, TypesAreTwo DEF Local

LEMMA InsertNoticeKnows ==
  ASSUME Local, NEW r \in Requests, InsertNotice(r) PROVE Local'
<1>1. PICK j \in Asks(r) :
        /\ j.op = "create"
        /\ Proceed(r, j, Absent, "alarm") \/ Conclude(r, j, "ERROR")
  BY DEF InsertNotice
<1>2. /\ j \in Jobs /\ pc[r] = "idle" /\ r \notin stored /\ r \notin outbox /\ result[r] = "none"
      /\ UNCHANGED tableVars /\ stored' = stored /\ outbox' = outbox
  BY <1>1, AsksForJobs DEF InsertNotice, tableVars
<1>3. CASE Proceed(r, j, Absent, "alarm")
  <2>1. /\ RequestsOK' /\ Others(r) /\ pc'[r] = "alarm" /\ job'[r] = j /\ result'[r] = "none"
    BY <1>2, <1>3, ProceedMoves DEF Local, Calls
  <2>2. Facts(r)'
    BY <1>1, <1>2, <2>1 DEF Facts
  <2> QED
    BY <1>2, <2>1, <2>2, QuietTypes
<1>4. CASE Conclude(r, j, "ERROR")
  <2>1. /\ RequestsOK' /\ Others(r) /\ pc'[r] = "done" /\ job'[r] = j /\ result'[r] = "ERROR"
    BY <1>2, <1>4, ConcludeMoves DEF Local, Result
  <2>2. Facts(r)'
    BY <1>1, <1>2, <2>1 DEF Facts
  <2> QED
    BY <1>2, <2>1, <2>2, QuietTypes
<1> QED
  BY <1>1, <1>3, <1>4

LEMMA CreateAlarmKnows ==
  ASSUME Local, NEW r \in Requests, CreateAlarm(r) PROVE Local'
<1>1. /\ pc[r] = "alarm" /\ Goto(r, "commit") /\ UNCHANGED tableVars
      /\ stored' = stored /\ outbox' = outbox /\ Facts(r)
  BY DEF CreateAlarm, tableVars, Local
<1>2. job[r] \in Jobs
  BY <1>1 DEF Facts
<1>3. RequestsOK' /\ Others(r) /\ pc'[r] = "commit" /\ job'[r] = job[r] /\ result'[r] = result[r]
  BY <1>1, <1>2, GotoMoves DEF Local, Calls
<1>4. Facts(r)'
  BY <1>1, <1>3 DEF Facts
<1> QED
  BY <1>1, <1>3, <1>4, QuietTypes

LEMMA CommitKnows ==
  ASSUME Local, NEW r \in Requests, Commit(r) PROVE Local'
<1> DEFINE n == job[r].notice
<1>1. PICK res \in {"ok", "ERROR"} :
        /\ pc[r] = "commit" /\ Answer(r, res)
        /\ notices' = [notices EXCEPT ![n] = NewNotice(r)]
        /\ fresh' = fresh \ {n} /\ stored' = stored \cup {r} /\ outbox' = outbox \cup {r}
        /\ UNCHANGED <<users, comments>>
  BY DEF Commit
<1>2. Facts(r) /\ res \in Result
  BY DEF Local, Result
<1>3. job[r] \in Jobs /\ job[r].op = "create"
  BY <1>1, <1>2 DEF Facts
<1>4. RequestsOK' /\ Others(r) /\ pc'[r] = "done" /\ job'[r] = job[r] /\ result'[r] = res
  BY <1>1, <1>2, <1>3, AnswerMoves DEF Local
<1>5. NewNotice(r) \in Notice
  BY <1>3, JobsAreWellFormed, AdminsAreUsers DEF NewNotice, Notice, Origin
<1>6. TablesOK'
  <2> HIDE DEF n
  <2> QED
    BY <1>1, <1>5, TypesAreTwo DEF Local, TablesOK
<1>7. Facts(r)'
  BY <1>1, <1>2, <1>3, <1>4 DEF Facts
<1> QED
  BY <1>1, <1>4, <1>6, <1>7, OthersKnow, TypesAreTwo DEF Local

LEMMA FindNoticeKnows ==
  ASSUME Local, NEW r \in Requests, FindNotice(r) PROVE Local'
<1>1. PICK j \in Asks(r) :
        /\ j.op = "edit"
        /\ \/ Conclude(r, j, "NOTICE_NOT_FOUND")
           \/ notices[j.notice] # Absent /\ Proceed(r, j, notices[j.notice], "write")
  BY DEF FindNotice
<1>2. /\ j \in Jobs /\ r \notin stored /\ result[r] = "none"
      /\ UNCHANGED tableVars /\ stored' = stored /\ outbox' = outbox
  BY <1>1, AsksForJobs DEF FindNotice, tableVars
<1>3. j.notice \in Notices /\ notices[j.notice] \in Notice \cup {Absent}
  BY <1>1, <1>2, JobsAreWellFormed DEF Local, TypeOK
<1>4. CASE Conclude(r, j, "NOTICE_NOT_FOUND")
  <2>1. /\ RequestsOK' /\ Others(r) /\ pc'[r] = "done" /\ job'[r] = j
        /\ result'[r] = "NOTICE_NOT_FOUND"
    BY <1>2, <1>4, ConcludeMoves DEF Local, Result
  <2>2. Facts(r)'
    BY <1>1, <1>2, <2>1 DEF Facts
  <2> QED
    BY <1>2, <2>1, <2>2, QuietTypes
<1>5. CASE notices[j.notice] # Absent /\ Proceed(r, j, notices[j.notice], "write")
  <2>1. /\ RequestsOK' /\ Others(r) /\ pc'[r] = "write" /\ job'[r] = j /\ result'[r] = "none"
        /\ seen'[r] = notices[j.notice]
    BY <1>2, <1>3, <1>5, ProceedMoves DEF Local, Calls
  <2>2. Facts(r)'
    BY <1>1, <1>2, <1>3, <1>5, <2>1 DEF Facts
  <2> QED
    BY <1>2, <2>1, <2>2, QuietTypes
<1> QED
  BY <1>1, <1>4, <1>5

LEMMA EditedIsNotice ==
  ASSUME Local, NEW r \in Requests, Editing(r)
  PROVE  /\ Edited(r) \in Notice /\ Edited(r).version = seen[r].version + 1
         /\ \A f \in Fields : Edited(r)[f] = IF f \in job[r].fields THEN r ELSE seen[r][f]
         /\ seen[r] \in Notice /\ seen[r].version \in Nat
         /\ job[r] \in Jobs /\ job[r].notice \in Notices
<1>1. Facts(r)
  BY DEF Local
<1>2. job[r] \in Jobs /\ seen[r] \in Notice
  BY <1>1 DEF Facts, Editing
<1>3. job[r].notice \in Notices
  BY <1>2, JobsAreWellFormed DEF Editing
<1> DEFINE title == IF "title" \in job[r].fields THEN r ELSE seen[r].title
           event == IF "event" \in job[r].fields THEN r ELSE seen[r].event
<1>4. /\ seen[r].author \in Users /\ seen[r].version \in Nat
      /\ title \in Origin /\ event \in Origin \cup {Absent}
  BY <1>2 DEF Notice, Origin
<1>5. Edited(r) = [author |-> seen[r].author, title |-> title, event |-> event,
                   version |-> seen[r].version + 1]
  <2>1. Edited(r) = [seen[r] EXCEPT !.title = title, !.event = event, !.version = seen[r].version + 1]
    BY DEF Edited
  <2> HIDE DEF title, event
  <2> QED
    BY <1>2, <2>1 DEF Notice
<1>6. \A f \in Fields : Edited(r)[f] = IF f \in job[r].fields THEN r ELSE seen[r][f]
  BY <1>5 DEF Fields
<1> HIDE DEF title, event
<1>7. Edited(r) \in Notice /\ Edited(r).version = seen[r].version + 1
  BY <1>4, <1>5 DEF Notice
<1> QED
  BY <1>2, <1>3, <1>4, <1>6, <1>7

LEMMA UpdateNoticeKnows ==
  ASSUME Local, NEW r \in Requests, UpdateNotice(r) PROVE Local'
<1> DEFINE n == job[r].notice
<1>1. Editing(r) /\ UNCHANGED <<users, comments, fresh, outbox>> /\ Facts(r)
  BY DEF UpdateNotice, Editing, Local
<1>2. /\ Edited(r) \in Notice /\ job[r] \in Jobs /\ n \in Notices
      /\ pc[r] = "write" /\ job[r].op = "edit"
  BY <1>1, EditedIsNotice DEF Editing
<1>3. CASE /\ notices' = [notices EXCEPT ![n] = Edited(r)] /\ stored' = stored \cup {r}
           /\ Goto(r, "evict")
  <2>1. RequestsOK' /\ Others(r) /\ pc'[r] = "evict" /\ job'[r] = job[r] /\ result'[r] = result[r]
    BY <1>2, <1>3, GotoMoves DEF Local, Calls
  <2>2. TablesOK'
    <3> HIDE DEF n
    <3> QED
      BY <1>1, <1>2, <1>3, TypesAreTwo DEF Local, TablesOK
  <2>3. Facts(r)'
    BY <1>1, <1>2, <1>3, <2>1 DEF Facts
  <2> QED
    BY <1>1, <1>3, <2>1, <2>2, <2>3, OthersKnow, TypesAreTwo DEF Local
<1>4. CASE Conflict(r) /\ UNCHANGED <<notices, stored>>
  <2>1. /\ RequestsOK' /\ Others(r) /\ job'[r] = job[r]
        /\ \/ pc'[r] = "read" /\ result'[r] = result[r]
           \/ pc'[r] = "done" /\ result'[r] = "CONCURRENT_MODIFICATION"
    BY <1>2, <1>4, ConflictMoves DEF Local
  <2>2. Facts(r)'
    BY <1>1, <1>2, <1>4, <2>1 DEF Facts
  <2> QED
    BY <1>1, <1>4, <2>1, <2>2, QuietTypes DEF tableVars
<1> QED
  BY <1>3, <1>4 DEF UpdateNotice

LEMMA DeleteNoticeKnows ==
  ASSUME Local, NEW r \in Requests, DeleteNotice(r) PROVE Local'
<1>1. PICK j \in Asks(r) :
        /\ j.op = "delete"
        /\ notices' = [notices EXCEPT ![j.notice] = Absent]
        /\ comments' = [k \in Comments |->
             IF comments[k] # Absent /\ comments[k].notice = j.notice THEN Absent ELSE comments[k]]
        /\ Proceed(r, j, Absent, "evict")
        /\ UNCHANGED <<users, fresh, outbox, stored>>
  BY DEF DeleteNotice
<1>2. j \in Jobs /\ r \notin stored /\ result[r] = "none"
  BY <1>1, AsksForJobs
<1>3. RequestsOK' /\ Others(r) /\ pc'[r] = "evict" /\ job'[r] = j /\ result'[r] = "none"
  BY <1>1, <1>2, ProceedMoves DEF Local, Calls
<1>4. comments' \in [Comments -> Comment \cup {Absent}]
  BY <1>1 DEF Local, TypeOK
<1>5. TablesOK'
  BY <1>1, <1>4, TypesAreTwo DEF Local, TablesOK
<1>6. Facts(r)'
  BY <1>1, <1>2, <1>3 DEF Facts
<1> QED
  BY <1>1, <1>3, <1>5, <1>6, OthersKnow, TypesAreTwo DEF Local

LEMMA EvictKnows ==
  ASSUME Local, NEW r \in Requests, Evict(r) PROVE Local'
<1>1. /\ pc[r] = "evict" /\ Answer(r, "ok") /\ UNCHANGED tableVars
      /\ stored' = stored /\ outbox' = outbox /\ Facts(r)
  BY DEF Evict, tableVars, Local
<1>2. job[r] \in Jobs
  BY <1>1 DEF Facts
<1>3. RequestsOK' /\ Others(r) /\ pc'[r] = "done" /\ job'[r] = job[r] /\ result'[r] = "ok"
  BY <1>1, <1>2, AnswerMoves DEF Local, Result
<1>4. Facts(r)'
  BY <1>1, <1>3 DEF Facts
<1> QED
  BY <1>1, <1>3, <1>4, QuietTypes

LEMMA CreateCommentKnows ==
  ASSUME Local, NEW r \in Requests, CreateComment(r) PROVE Local'
<1>1. PICK j \in Asks(r) :
        /\ j.op = "comment"
        /\ \/ /\ comments' = [comments EXCEPT ![j.comment] =
                                [author |-> j.user, notice |-> j.notice, text |-> r]]
              /\ fresh' = fresh \ {j.comment} /\ stored' = stored \cup {r}
              /\ \E res \in {"ok", "ERROR"} : Conclude(r, j, res)
           \/ Conclude(r, j, "ERROR") /\ UNCHANGED <<comments, fresh, stored>>
        /\ UNCHANGED <<users, notices, outbox>>
  BY DEF CreateComment
<1>2. j \in Jobs /\ r \notin stored /\ result[r] = "none"
  BY <1>1, AsksForJobs
<1>3. CASE /\ comments' = [comments EXCEPT ![j.comment] =
                             [author |-> j.user, notice |-> j.notice, text |-> r]]
           /\ fresh' = fresh \ {j.comment} /\ stored' = stored \cup {r}
           /\ \E res \in {"ok", "ERROR"} : Conclude(r, j, res)
  <2>1. PICK res \in {"ok", "ERROR"} : Conclude(r, j, res)
    BY <1>3
  <2>2. RequestsOK' /\ Others(r) /\ pc'[r] = "done" /\ job'[r] = j /\ result'[r] = res
    BY <1>2, <2>1, ConcludeMoves DEF Local, Result
  <2>3. [author |-> j.user, notice |-> j.notice, text |-> r] \in Comment
    BY <1>1, <1>2, JobsAreWellFormed DEF Comment, Origin
  <2>4. TablesOK'
    BY <1>1, <1>3, <2>3, TypesAreTwo DEF Local, TablesOK
  <2>5. Facts(r)'
    BY <1>1, <1>2, <1>3, <2>2 DEF Facts
  <2> QED
    BY <1>1, <1>3, <2>2, <2>4, <2>5, OthersKnow, TypesAreTwo DEF Local
<1>4. CASE Conclude(r, j, "ERROR") /\ UNCHANGED <<comments, fresh, stored>>
  <2>1. RequestsOK' /\ Others(r) /\ pc'[r] = "done" /\ job'[r] = j /\ result'[r] = "ERROR"
    BY <1>2, <1>4, ConcludeMoves DEF Local, Result
  <2>2. Facts(r)'
    BY <1>1, <1>2, <1>4, <2>1 DEF Facts
  <2> QED
    BY <1>1, <1>4, <2>1, <2>2, QuietTypes DEF tableVars
<1> QED
  BY <1>1, <1>3, <1>4

LEMMA FindCommentKnows ==
  ASSUME Local, NEW r \in Requests, FindComment(r) PROVE Local'
<1>1. PICK j \in Asks(r) :
        /\ j.op \in {"editComment", "deleteComment"}
        /\ \/ Conclude(r, j, "REQ_INFO_INVALID") \/ Conclude(r, j, "FORBIDDEN")
           \/ Proceed(r, j, Absent, "write")
  BY DEF FindComment
<1>2. /\ j \in Jobs /\ r \notin stored /\ r \notin outbox /\ result[r] = "none"
      /\ UNCHANGED tableVars /\ stored' = stored /\ outbox' = outbox
  BY <1>1, AsksForJobs DEF FindComment, tableVars
<1>3. CASE Conclude(r, j, "REQ_INFO_INVALID") \/ Conclude(r, j, "FORBIDDEN")
  <2>1. /\ RequestsOK' /\ Others(r) /\ pc'[r] = "done" /\ job'[r] = j
        /\ result'[r] \in {"REQ_INFO_INVALID", "FORBIDDEN"}
    BY <1>2, <1>3, ConcludeMoves DEF Local, Result
  <2>2. Facts(r)'
    BY <1>1, <1>2, <2>1 DEF Facts
  <2> QED
    BY <1>2, <2>1, <2>2, QuietTypes
<1>4. CASE Proceed(r, j, Absent, "write")
  <2>1. RequestsOK' /\ Others(r) /\ pc'[r] = "write" /\ job'[r] = j /\ result'[r] = "none"
    BY <1>2, <1>4, ProceedMoves DEF Local, Calls
  <2>2. Facts(r)'
    BY <1>1, <1>2, <2>1 DEF Facts
  <2> QED
    BY <1>2, <2>1, <2>2, QuietTypes
<1> QED
  BY <1>1, <1>3, <1>4

LEMMA UpdateCommentKnows ==
  ASSUME Local, NEW r \in Requests, UpdateComment(r) PROVE Local'
<1> DEFINE k == job[r].comment
<1>1. /\ pc[r] = "write" /\ job[r].op = "editComment"
      /\ UNCHANGED <<users, notices, fresh, outbox>> /\ Facts(r)
  BY DEF UpdateComment, Local
<1>2. job[r] \in Jobs /\ k \in Comments
  BY <1>1, JobsAreWellFormed DEF Facts
<1>3. CASE /\ comments[k] # Absent
           /\ comments' = [comments EXCEPT ![k].text = r] /\ stored' = stored \cup {r}
           /\ \E res \in {"ok", "ERROR"} : Answer(r, res)
  <2>1. PICK res \in {"ok", "ERROR"} : Answer(r, res)
    BY <1>3
  <2>2. RequestsOK' /\ Others(r) /\ pc'[r] = "done" /\ job'[r] = job[r] /\ result'[r] = res
    BY <1>2, <2>1, AnswerMoves DEF Local, Result
  <2>3. comments' \in [Comments -> Comment \cup {Absent}]
    <3>1. comments[k] \in Comment
      BY <1>2, <1>3 DEF Local, TypeOK
    <3>2. [comments[k] EXCEPT !.text = r] \in Comment
      BY <3>1 DEF Comment, Origin
    <3> HIDE DEF k
    <3> QED
      BY <1>2, <1>3, <3>2 DEF Local, TypeOK
  <2>4. TablesOK'
    BY <1>1, <1>3, <2>3, TypesAreTwo DEF Local, TablesOK
  <2>5. Facts(r)'
    BY <1>1, <1>2, <1>3, <2>2 DEF Facts
  <2> QED
    BY <1>1, <1>3, <2>2, <2>4, <2>5, OthersKnow, TypesAreTwo DEF Local
<1>4. CASE Answer(r, "FAIL_SAVE_COMMENT") /\ UNCHANGED <<comments, stored>>
  <2>1. /\ RequestsOK' /\ Others(r) /\ pc'[r] = "done" /\ job'[r] = job[r]
        /\ result'[r] = "FAIL_SAVE_COMMENT"
    BY <1>2, <1>4, AnswerMoves DEF Local, Result
  <2>2. Facts(r)'
    BY <1>1, <1>2, <1>4, <2>1 DEF Facts
  <2> QED
    BY <1>1, <1>4, <2>1, <2>2, QuietTypes DEF tableVars
<1> QED
  BY <1>3, <1>4 DEF UpdateComment

LEMMA DeleteCommentKnows ==
  ASSUME Local, NEW r \in Requests, DeleteComment(r) PROVE Local'
<1>1. PICK res \in {"DELETED", "ok"} :
        /\ pc[r] = "write" /\ job[r].op = "deleteComment" /\ Answer(r, res)
        /\ comments' = [comments EXCEPT ![job[r].comment] = Absent]
        /\ UNCHANGED <<users, notices, fresh, outbox, stored>> /\ Facts(r)
  BY DEF DeleteComment, Local
<1>2. job[r] \in Jobs
  BY <1>1 DEF Facts
<1>3. RequestsOK' /\ Others(r) /\ pc'[r] = "done" /\ job'[r] = job[r] /\ result'[r] = res
  BY <1>1, <1>2, AnswerMoves DEF Local, Result
<1>4. TablesOK'
  BY <1>1, TypesAreTwo DEF Local, TablesOK
<1>5. Facts(r)'
  BY <1>1, <1>2, <1>3 DEF Facts
<1> QED
  BY <1>1, <1>3, <1>4, <1>5, OthersKnow, TypesAreTwo DEF Local

LEMMA FailKnows ==
  ASSUME Local, NEW r \in Requests, Fail(r) PROVE Local'
<1>1. /\ pc[r] \notin {"idle", "done"} /\ Answer(r, "ERROR") /\ UNCHANGED tableVars
      /\ stored' = stored /\ outbox' = outbox /\ Facts(r)
  BY DEF Fail, tableVars, Local
<1>2. job[r] \in Jobs
  BY <1>1 DEF Facts
<1>3. RequestsOK' /\ Others(r) /\ pc'[r] = "done" /\ job'[r] = job[r] /\ result'[r] = "ERROR"
  BY <1>1, <1>2, AnswerMoves DEF Local, Result
<1>4. Facts(r)'
  BY <1>1, <1>3 DEF Facts
<1> QED
  BY <1>1, <1>3, <1>4, QuietTypes

LEMMA RemoveAccountKnows ==
  ASSUME Local, NEW u \in Users, RemoveAccount(u) PROVE Local'
<1>1. RequestsOK' /\ TablesOK'
  BY TypesAreTwo DEF RemoveAccount, Local, RequestsOK, TablesOK
<1>2. \A r \in Requests : Facts(r)'
  BY DEF RemoveAccount, Local, Facts
<1> QED
  BY <1>1, <1>2, TypesAreTwo DEF Local

LEMMA LocalStep == Local /\ [Next]_vars => Local'
<1> SUFFICES ASSUME Local, [Next]_vars PROVE Local'
  OBVIOUS
<1>1. ASSUME NEW r \in Requests,
             \/ InsertNotice(r) \/ CreateAlarm(r) \/ Commit(r) \/ FindNotice(r) \/ UpdateNotice(r)
             \/ DeleteNotice(r) \/ Evict(r)
             \/ CreateComment(r) \/ FindComment(r) \/ UpdateComment(r) \/ DeleteComment(r)
             \/ Fail(r)
      PROVE  Local'
  BY <1>1, InsertNoticeKnows, CreateAlarmKnows, CommitKnows, FindNoticeKnows, UpdateNoticeKnows,
     DeleteNoticeKnows, EvictKnows, CreateCommentKnows, FindCommentKnows, UpdateCommentKnows,
     DeleteCommentKnows, FailKnows
<1>2. ASSUME NEW u \in Users, RemoveAccount(u) PROVE Local'
  BY <1>2, RemoveAccountKnows
<1>3. CASE UNCHANGED vars
  <2>1. RequestsOK' /\ TablesOK'
    BY <1>3, TypesAreTwo DEF Local, RequestsOK, TablesOK, vars, tableVars
  <2>2. \A r \in Requests : Facts(r)'
    BY <1>3 DEF Local, Facts, vars, tableVars
  <2> QED
    BY <2>1, <2>2, TypesAreTwo DEF Local
<1> QED
  BY <1>1, <1>2, <1>3 DEF Next

\* Rows, requests and answers have the types the schema and the handlers give
\* them, and no edit is tried more often than the unit of work allows.
THEOREM TypeCorrect == Spec => []TypeOK
<1>1. Local => TypeOK
  BY DEF Local
<1> QED
  BY LocalInit, LocalStep, <1>1, PTL DEF Spec

\* Success is answered for what was stored, a refusal for what was not, however
\* often doWork runs an edit again.
THEOREM AnswersTellTheTruth == Spec => []AnswersAreTrue
<1>1. Local => AnswersAreTrue
  BY DEF Local, Facts, AnswersAreTrue
<1> QED
  BY LocalInit, LocalStep, <1>1, PTL DEF Spec

-----------------------------------------------------------------------------
(***************************************************************************)
(* Ids, versions and authors.                                              *)
(***************************************************************************)

LEMMA StoredInit == Init => Stored
<1> SUFFICES ASSUME Init PROVE Stored
  OBVIOUS
<1>1. fresh = {n \in Notices : notices[n] = Absent} \cup {k \in Comments : comments[k] = Absent}
  BY DEF Init
<1>2. Unused
  BY <1>1, IdsDiffer DEF Unused
<1>3. \A r \in Requests : Knowledge(r)
  BY DEF Init, Knowledge, IdsUsedOnce, SnapshotIntegrity, MayStillChange, Creating, Editing, Changing
<1> QED
  BY <1>2, <1>3 DEF Stored

\* A request between its calls on the rows claims nothing about them.
LEMMA NothingToKnow ==
  ASSUME NEW r \in Requests, pc'[r] \in {"read", "evict", "done"}
  PROVE  Knowledge(r)'
  BY DEF Knowledge, IdsUsedOnce, SnapshotIntegrity, MayStillChange, Creating, Editing, Changing

LEMMA ClaimsOfOthers ==
  ASSUME NEW r \in Requests, Others(r), NEW s \in Requests \ {r}
  PROVE  /\ Creating(s)' <=> Creating(s)
         /\ Editing(s)' <=> Editing(s)
         /\ Changing(s)' <=> Changing(s)
         /\ job'[s] = job[s] /\ seen'[s] = seen[s]
  BY DEF Others, Creating, Editing, Changing

\* Who has reserved an id still has it to itself when r reserves none.
LEMMA ReservationsStand ==
  ASSUME Stored, NEW r \in Requests, Others(r), Creating(r)' => Creating(r) /\ job'[r] = job[r],
         NEW s \in Requests \ {r}, Creating(s)', job[s].notice \in fresh'
  PROVE  /\ job'[s].notice \in fresh'
         /\ \A t \in Requests \ {s} : Creating(t)' => job'[t].notice # job'[s].notice
<1>1. Creating(s) /\ job'[s] = job[s] /\ IdsUsedOnce(s)
  BY ClaimsOfOthers DEF Stored, Knowledge
<1>2. ASSUME NEW t \in Requests \ {s}, Creating(t)' PROVE job'[t].notice # job'[s].notice
  <2>1. Creating(t) /\ job'[t] = job[t]
    BY <1>2, ClaimsOfOthers
  <2> QED
    BY <1>1, <2>1 DEF IdsUsedOnce
<1> QED
  BY <1>1, <1>2

\* What the others know survives a step of r that changes no row.
LEMMA QuietStored ==
  ASSUME Stored, NEW r \in Requests, Others(r), UNCHANGED tableVars,
         Creating(r)' => Creating(r) /\ job'[r] = job[r], Knowledge(r)'
  PROVE  Stored'
<1>1. notices' = notices /\ comments' = comments /\ fresh' = fresh
  BY DEF tableVars
<1>2. ASSUME NEW s \in Requests \ {r} PROVE Knowledge(s)'
  <2>1. Knowledge(s)
    BY DEF Stored
  <2>2. Creating(s)' => job[s].notice \in fresh'
    BY <1>1, <2>1, ClaimsOfOthers DEF Knowledge, IdsUsedOnce
  <2>3. IdsUsedOnce(s)'
    BY <1>1, <2>1, <2>2, ClaimsOfOthers, ReservationsStand DEF Knowledge, IdsUsedOnce
  <2>4. SnapshotIntegrity(s)'
    BY <1>1, <2>1, ClaimsOfOthers DEF Knowledge, SnapshotIntegrity
  <2>5. MayStillChange(s)'
    BY <1>1, <2>1, ClaimsOfOthers DEF Knowledge, MayStillChange, MayChange
  <2> QED
    BY <2>3, <2>4, <2>5 DEF Knowledge
<1> QED
  BY <1>1, <1>2 DEF Stored, Unused

LEMMA InsertNoticeKeeps ==
  ASSUME IInv, NEW r \in Requests, InsertNotice(r) PROVE Stored'
<1>1. PICK j \in Asks(r) :
        /\ j.op = "create"
        /\ \/ /\ j.notice \in fresh
              /\ \A s \in Requests : Creating(s) => job[s].notice # j.notice
              /\ Proceed(r, j, Absent, "alarm")
           \/ Conclude(r, j, "ERROR")
  BY DEF InsertNotice
<1>2. j \in Jobs /\ UNCHANGED tableVars /\ Local
  BY AsksForJobs DEF InsertNotice, IInv
<1>3. CASE /\ j.notice \in fresh
           /\ \A s \in Requests : Creating(s) => job[s].notice # j.notice
           /\ Proceed(r, j, Absent, "alarm")
  <2>1. Others(r) /\ pc'[r] = "alarm" /\ job'[r] = j
    BY <1>2, <1>3, ProceedMoves DEF Local, Calls
  <2>2. notices' = notices /\ comments' = comments /\ fresh' = fresh
    BY <1>2 DEF tableVars
  <2>3. Knowledge(r)'
    <3>1. \A s \in Requests \ {r} : Creating(s)' => job'[s].notice # j.notice
      BY <1>3, <2>1, ClaimsOfOthers
    <3> QED
      BY <1>1, <1>3, <2>1, <2>2, <3>1
      DEF Knowledge, IdsUsedOnce, SnapshotIntegrity, MayStillChange, Editing, Changing
  <2>4. ASSUME NEW s \in Requests \ {r} PROVE Knowledge(s)'
    <3>1. Knowledge(s)
      BY DEF IInv, Stored
    <3>2. ASSUME Creating(s)', NEW t \in Requests \ {s}, Creating(t)'
          PROVE  job'[t].notice # job'[s].notice
      <4>1. Creating(s) /\ job'[s] = job[s]
        BY <2>1, <3>2, ClaimsOfOthers
      <4>2. CASE t = r
        BY <1>3, <2>1, <4>1, <4>2
      <4>3. CASE t # r
        <5>1. Creating(t) /\ job'[t] = job[t]
          BY <2>1, <3>2, <4>3, ClaimsOfOthers
        <5> QED
          BY <3>1, <4>1, <5>1 DEF Knowledge, IdsUsedOnce
      <4> QED
        BY <4>2, <4>3
    <3>3. IdsUsedOnce(s)'
      BY <2>1, <2>2, <3>1, <3>2, ClaimsOfOthers DEF Knowledge, IdsUsedOnce
    <3>4. SnapshotIntegrity(s)'
      BY <2>1, <2>2, <3>1, ClaimsOfOthers DEF Knowledge, SnapshotIntegrity
    <3>5. MayStillChange(s)'
      BY <2>1, <2>2, <3>1, ClaimsOfOthers DEF Knowledge, MayStillChange, MayChange
    <3> QED
      BY <3>3, <3>4, <3>5 DEF Knowledge
  <2> QED
    BY <2>2, <2>3, <2>4 DEF IInv, Stored, Unused
<1>4. CASE Conclude(r, j, "ERROR")
  <2>1. Others(r) /\ pc'[r] = "done"
    BY <1>2, <1>4, ConcludeMoves DEF Local, Result
  <2> QED
    BY <1>2, <2>1, NothingToKnow, QuietStored DEF IInv, Creating
<1> QED
  BY <1>1, <1>3, <1>4

LEMMA CreateAlarmKeeps ==
  ASSUME IInv, NEW r \in Requests, CreateAlarm(r) PROVE Stored'
<1>1. /\ pc[r] = "alarm" /\ Goto(r, "commit") /\ UNCHANGED tableVars /\ fresh' = fresh
      /\ Facts(r) /\ Knowledge(r) /\ Local
  BY DEF CreateAlarm, tableVars, IInv, Local, Stored
<1>2. job[r] \in Jobs
  BY <1>1 DEF Facts
<1>3. Others(r) /\ pc'[r] = "commit" /\ job'[r] = job[r]
  BY <1>1, <1>2, GotoMoves DEF Local, Calls
<1>4. Creating(r) /\ Creating(r)'
  BY <1>1, <1>3 DEF Creating
<1>5. \A s \in Requests \ {r} : Creating(s)' => job'[s].notice # job'[r].notice
  BY <1>1, <1>3, <1>4, ClaimsOfOthers DEF Knowledge, IdsUsedOnce
<1>6. Knowledge(r)'
  BY <1>1, <1>3, <1>4, <1>5
  DEF Knowledge, IdsUsedOnce, SnapshotIntegrity, MayStillChange, Editing, Changing
<1> QED
  BY <1>1, <1>3, <1>4, <1>6, QuietStored DEF IInv

LEMMA FindNoticeKeeps ==
  ASSUME IInv, NEW r \in Requests, FindNotice(r) PROVE Stored'
<1>1. PICK j \in Asks(r) :
        /\ j.op = "edit"
        /\ \/ Conclude(r, j, "NOTICE_NOT_FOUND")
           \/ notices[j.notice] # Absent /\ Proceed(r, j, notices[j.notice], "write")
  BY DEF FindNotice
<1>2. /\ j \in Jobs /\ UNCHANGED tableVars /\ Local
      /\ notices' = notices /\ comments' = comments /\ fresh' = fresh
  BY AsksForJobs DEF FindNotice, IInv, tableVars
<1>3. j.notice \in Notices /\ notices[j.notice] \in Notice \cup {Absent}
  BY <1>1, <1>2, JobsAreWellFormed DEF Local, TypeOK
<1>4. CASE Conclude(r, j, "NOTICE_NOT_FOUND")
  <2>1. Others(r) /\ pc'[r] = "done"
    BY <1>2, <1>4, ConcludeMoves DEF Local, Result
  <2> QED
    BY <1>2, <2>1, NothingToKnow, QuietStored DEF IInv, Creating
<1>5. CASE notices[j.notice] # Absent /\ Proceed(r, j, notices[j.notice], "write")
  <2>1. /\ Others(r) /\ pc'[r] = "write" /\ job'[r] = j /\ seen'[r] = notices[j.notice]
    BY <1>2, <1>3, <1>5, ProceedMoves DEF Local, Calls
  <2>2. j.notice \notin fresh
    BY <1>3, <1>5 DEF IInv, Stored, Unused
  <2>3. notices[j.notice].version \in Nat
    BY <1>3, <1>5 DEF Notice
  <2>4. Knowledge(r)'
    BY <1>1, <1>2, <2>1, <2>2, <2>3
    DEF Knowledge, IdsUsedOnce, SnapshotIntegrity, MayStillChange, Creating, Editing, Changing
  <2> QED
    BY <1>2, <2>1, <2>4, QuietStored DEF IInv, Creating
<1> QED
  BY <1>1, <1>4, <1>5

LEMMA FindCommentKeeps ==
  ASSUME IInv, NEW r \in Requests, FindComment(r) PROVE Stored'
<1>1. PICK j \in Asks(r) :
        /\ j.op \in {"editComment", "deleteComment"}
        /\ \/ Conclude(r, j, "REQ_INFO_INVALID") \/ Conclude(r, j, "FORBIDDEN")
           \/ /\ comments[j.comment] # Absent /\ MayChange(j, comments[j.comment])
              /\ Proceed(r, j, Absent, "write")
  BY DEF FindComment
<1>2. /\ j \in Jobs /\ UNCHANGED tableVars /\ Local
      /\ notices' = notices /\ comments' = comments /\ fresh' = fresh
  BY AsksForJobs DEF FindComment, IInv, tableVars
<1>3. j.comment \in Comments
  BY <1>1, <1>2, JobsAreWellFormed
<1>4. CASE Conclude(r, j, "REQ_INFO_INVALID") \/ Conclude(r, j, "FORBIDDEN")
  <2>1. Others(r) /\ pc'[r] = "done"
    BY <1>2, <1>4, ConcludeMoves DEF Local, Result
  <2> QED
    BY <1>2, <2>1, NothingToKnow, QuietStored DEF IInv, Creating
<1>5. CASE /\ comments[j.comment] # Absent /\ MayChange(j, comments[j.comment])
           /\ Proceed(r, j, Absent, "write")
  <2>1. Others(r) /\ pc'[r] = "write" /\ job'[r] = j
    BY <1>2, <1>5, ProceedMoves DEF Local, Calls
  <2>2. j.comment \notin fresh
    BY <1>3, <1>5 DEF IInv, Stored, Unused
  <2>3. IdsUsedOnce(r)' /\ SnapshotIntegrity(r)'
    BY <1>1, <1>2, <2>1, <2>2 DEF IdsUsedOnce, SnapshotIntegrity, Creating, Editing, Changing
  <2>4. MayStillChange(r)'
    BY <1>2, <1>5, <2>1 DEF MayStillChange, MayChange
  <2> QED
    BY <1>2, <2>1, <2>3, <2>4, QuietStored DEF IInv, Creating, Knowledge
<1> QED
  BY <1>1, <1>4, <1>5

LEMMA EvictKeeps ==
  ASSUME IInv, NEW r \in Requests, Evict(r) \/ Fail(r) PROVE Stored'
<1>1. PICK a \in {"ok", "ERROR"} :
        /\ pc[r] \notin {"idle", "done"} /\ Answer(r, a) /\ UNCHANGED tableVars
        /\ Local /\ Facts(r)
  BY DEF Evict, Fail, IInv, Local
<1>2. job[r] \in Jobs
  BY <1>1 DEF Facts
<1>3. Others(r) /\ pc'[r] = "done"
  BY <1>1, <1>2, AnswerMoves DEF Local, Result
<1> QED
  BY <1>1, <1>3, NothingToKnow, QuietStored DEF IInv, Creating

\* What s knows when another request changes rows: its own are as before, or
\* gone, or of a higher version.
LEMMA RowsMoveOn ==
  ASSUME IInv, NEW r \in Requests, Others(r), ~Creating(r)', NEW s \in Requests \ {r},
         fresh' \subseteq fresh,
         Creating(s) => job[s].notice \in fresh',
         Editing(s) =>
           \/ notices'[job[s].notice] = notices[job[s].notice]
           \/ notices'[job[s].notice] = Absent
           \/ /\ notices[job[s].notice] # Absent
              /\ notices'[job[s].notice].version > notices[job[s].notice].version
              /\ notices'[job[s].notice].version \in Nat,
         Changing(s) =>
           \/ comments'[job[s].comment] = Absent
           \/ /\ comments[job[s].comment] # Absent
              /\ comments'[job[s].comment].author = comments[job[s].comment].author
  PROVE  Knowledge(s)'
<1>1. Knowledge(s) /\ Facts(s)
  BY DEF IInv, Stored, Local
<1>2. IdsUsedOnce(s)'
  BY <1>1, ClaimsOfOthers, ReservationsStand DEF IInv, Knowledge, IdsUsedOnce
<1>3. SnapshotIntegrity(s)'
  <2> SUFFICES ASSUME Editing(s), notices'[job[s].notice] # Absent
               PROVE  /\ seen[s].version <= notices'[job[s].notice].version
                      /\ seen[s].version = notices'[job[s].notice].version =>
                           seen[s] = notices'[job[s].notice]
    BY ClaimsOfOthers DEF SnapshotIntegrity
  <2>1. seen[s].version \in Nat /\ job[s].notice \in Notices
    BY EditedIsNotice DEF IInv
  <2>2. CASE notices'[job[s].notice] = notices[job[s].notice]
    BY <1>1, <2>2 DEF Knowledge, SnapshotIntegrity
  <2>3. CASE /\ notices[job[s].notice] # Absent
             /\ notices'[job[s].notice].version > notices[job[s].notice].version
             /\ notices'[job[s].notice].version \in Nat
    <3>1. notices[job[s].notice] \in Notice
      BY <2>1, <2>3 DEF IInv, Local, TypeOK
    <3>2. notices[job[s].notice].version \in Nat
      BY <3>1 DEF Notice
    <3>3. seen[s].version <= notices[job[s].notice].version
      BY <1>1, <2>3 DEF Knowledge, SnapshotIntegrity
    <3> QED
      BY <2>1, <2>3, <3>2, <3>3
  <2> QED
    BY <2>2, <2>3
<1>4. MayStillChange(s)'
  BY <1>1, ClaimsOfOthers DEF Knowledge, MayStillChange, MayChange
<1> QED
  BY <1>2, <1>3, <1>4 DEF Knowledge

LEMMA CommitKeeps ==
  ASSUME IInv, NEW r \in Requests, Commit(r) PROVE Stored'
<1> DEFINE n == job[r].notice
<1>1. PICK res \in {"ok", "ERROR"} :
        /\ pc[r] = "commit" /\ Answer(r, res)
        /\ notices' = [notices EXCEPT ![n] = NewNotice(r)]
        /\ fresh' = fresh \ {n} /\ UNCHANGED <<users, comments>>
  BY DEF Commit
<1>2. Facts(r) /\ Local /\ IdsUsedOnce(r) /\ Creating(r)
  BY <1>1 DEF IInv, Local, Stored, Knowledge, Creating
<1>3. job[r] \in Jobs /\ n \in fresh
  BY <1>1, <1>2 DEF Facts, IdsUsedOnce
<1>4. Others(r) /\ pc'[r] = "done"
  BY <1>1, <1>2, <1>3, AnswerMoves DEF Local, Result
<1>5. ~Creating(r)' /\ Knowledge(r)'
  BY <1>4, NothingToKnow DEF Creating
<1>6. ASSUME NEW m \in Notices, m # n PROVE notices'[m] = notices[m]
  BY <1>1, <1>6 DEF IInv, Local, TypeOK
<1>7. ASSUME NEW s \in Requests \ {r} PROVE Knowledge(s)'
  <2>1. Knowledge(s)
    BY DEF IInv, Stored
  <2>2. Creating(s) => job[s].notice \in fresh'
    BY <1>1, <1>2, <2>1 DEF Knowledge, IdsUsedOnce
  <2>3. Editing(s) => notices'[job[s].notice] = notices[job[s].notice]
    BY <1>3, <1>6, <2>1, EditedIsNotice DEF IInv, Knowledge, IdsUsedOnce
  <2>4. Changing(s) =>
          \/ comments'[job[s].comment] = Absent
          \/ /\ comments[job[s].comment] # Absent
             /\ comments'[job[s].comment].author = comments[job[s].comment].author
    BY <1>1
  <2> HIDE DEF n
  <2> QED
    BY <1>1, <1>4, <1>5, <2>2, <2>3, <2>4, RowsMoveOn
<1>8. Unused'
  <2> HIDE DEF n
  <2> QED
    BY <1>1, <1>6 DEF IInv, Stored, Unused
<1> QED
  BY <1>5, <1>7, <1>8 DEF Stored

LEMMA UpdateNoticeKeeps ==
  ASSUME IInv, NEW r \in Requests, UpdateNotice(r) PROVE Stored'
<1> DEFINE n == job[r].notice
<1>1. Editing(r) /\ UNCHANGED <<users, comments, fresh, outbox>> /\ Local
  BY DEF UpdateNotice, Editing, IInv
<1>2. /\ Edited(r) \in Notice /\ Edited(r).version = seen[r].version + 1
      /\ seen[r].version \in Nat /\ job[r] \in Jobs /\ n \in Notices
  BY <1>1, EditedIsNotice
<1>3. CASE /\ Matches(r, n) /\ notices' = [notices EXCEPT ![n] = Edited(r)]
           /\ Goto(r, "evict")
  <2>1. Others(r) /\ pc'[r] = "evict"
    BY <1>1, <1>2, <1>3, GotoMoves DEF Local, Calls
  <2>2. ~Creating(r)' /\ Knowledge(r)'
    BY <2>1, NothingToKnow DEF Creating
  <2>3. notices[n] # Absent /\ notices[n].version = seen[r].version /\ n \notin fresh
    BY <1>1, <1>3 DEF Matches, IInv, Stored, Knowledge, IdsUsedOnce
  <2>4. /\ notices'[n] = Edited(r)
        /\ \A m \in Notices : m # n => notices'[m] = notices[m]
    BY <1>2, <1>3 DEF IInv, Local, TypeOK
  <2>5. notices'[n].version > notices[n].version /\ notices'[n].version \in Nat
    BY <1>2, <2>3, <2>4
  <2>6. ASSUME NEW s \in Requests \ {r} PROVE Knowledge(s)'
    <3>1. Knowledge(s)
      BY DEF IInv, Stored
    <3>2. Creating(s) => job[s].notice \in fresh'
      BY <1>1, <3>1 DEF Knowledge, IdsUsedOnce
    <3>3. Editing(s) => job[s].notice \in Notices
      BY EditedIsNotice DEF IInv
    <3> HIDE DEF n
    <3>4. Editing(s) =>
            \/ notices'[job[s].notice] = notices[job[s].notice]
            \/ /\ notices[job[s].notice] # Absent
               /\ notices'[job[s].notice].version > notices[job[s].notice].version
               /\ notices'[job[s].notice].version \in Nat
      BY <2>3, <2>4, <2>5, <3>3
    <3>5. Changing(s) =>
            \/ comments'[job[s].comment] = Absent
            \/ /\ comments[job[s].comment] # Absent
               /\ comments'[job[s].comment].author = comments[job[s].comment].author
      BY <1>1
    <3> QED
      BY <1>1, <2>1, <2>2, <3>2, <3>4, <3>5, RowsMoveOn
  <2>7. Unused'
    <3> HIDE DEF n
    <3> QED
      BY <1>1, <2>3, <2>4 DEF IInv, Stored, Unused
  <2> QED
    BY <2>2, <2>6, <2>7 DEF Stored
<1>4. CASE Conflict(r) /\ UNCHANGED <<notices, stored>>
  <2>1. Others(r) /\ pc'[r] \in {"read", "done"}
    BY <1>1, <1>2, <1>4, ConflictMoves DEF Local
  <2> QED
    BY <1>1, <1>4, <2>1, NothingToKnow, QuietStored DEF IInv, Creating, tableVars
<1> QED
  BY <1>3, <1>4 DEF UpdateNotice

LEMMA DeleteNoticeKeeps ==
  ASSUME IInv, NEW r \in Requests, DeleteNotice(r) PROVE Stored'
<1>1. PICK j \in Asks(r) :
        /\ j.op = "delete"
        /\ notices' = [notices EXCEPT ![j.notice] = Absent]
        /\ comments' = [k \in Comments |->
             IF comments[k] # Absent /\ comments[k].notice = j.notice THEN Absent ELSE comments[k]]
        /\ Proceed(r, j, Absent, "evict")
        /\ UNCHANGED <<users, fresh, outbox, stored>>
  BY DEF DeleteNotice
<1>2. Local /\ j \in Jobs
  BY AsksForJobs DEF IInv
<1>3. Others(r) /\ pc'[r] = "evict"
  BY <1>1, <1>2, ProceedMoves DEF Local, Calls
<1>4. ~Creating(r)' /\ Knowledge(r)'
  BY <1>3, NothingToKnow DEF Creating
<1>5. \A m \in Notices : notices'[m] \in {notices[m], Absent}
  BY <1>1, <1>2 DEF Local, TypeOK
<1>6. \A k \in Comments : comments'[k] \in {comments[k], Absent}
  BY <1>1
<1>7. ASSUME NEW s \in Requests \ {r} PROVE Knowledge(s)'
  <2>1. Knowledge(s) /\ Facts(s)
    BY DEF IInv, Local, Stored
  <2>2. Creating(s) => job[s].notice \in fresh'
    BY <1>1, <2>1 DEF Knowledge, IdsUsedOnce
  <2>3. Editing(s) =>
          \/ notices'[job[s].notice] = notices[job[s].notice]
          \/ notices'[job[s].notice] = Absent
    BY <1>5, EditedIsNotice DEF IInv
  <2>4. Changing(s) => job[s].comment \in Comments
    BY <2>1, JobsAreWellFormed DEF Facts, Changing
  <2>5. Changing(s) =>
          \/ comments'[job[s].comment] = Absent
          \/ /\ comments[job[s].comment] # Absent
             /\ comments'[job[s].comment].author = comments[job[s].comment].author
    BY <1>6, <2>4
  <2> QED
    BY <1>1, <1>3, <1>4, <2>2, <2>3, <2>5, RowsMoveOn
<1>8. Unused'
  BY <1>1, <1>5, <1>6 DEF IInv, Stored, Unused
<1> QED
  BY <1>4, <1>7, <1>8 DEF Stored

LEMMA CreateCommentKeeps ==
  ASSUME IInv, NEW r \in Requests, CreateComment(r) PROVE Stored'
<1>1. PICK j \in Asks(r) :
        /\ j.op = "comment" /\ j.comment \in fresh
        /\ \/ /\ comments' = [comments EXCEPT ![j.comment] =
                                [author |-> j.user, notice |-> j.notice, text |-> r]]
              /\ fresh' = fresh \ {j.comment}
              /\ \E res \in {"ok", "ERROR"} : Conclude(r, j, res)
           \/ Conclude(r, j, "ERROR") /\ UNCHANGED <<comments, fresh, stored>>
        /\ UNCHANGED <<users, notices, outbox>>
  BY DEF CreateComment
<1>2. Local /\ j \in Jobs
  BY AsksForJobs DEF IInv
<1>3. j.comment \in Comments
  BY <1>1, <1>2, JobsAreWellFormed
<1>4. PICK res \in {"ok", "ERROR"} : Conclude(r, j, res)
  BY <1>1
<1>5. Others(r) /\ pc'[r] = "done"
  BY <1>2, <1>4, ConcludeMoves DEF Local, Result
<1>6. ~Creating(r)' /\ Knowledge(r)'
  BY <1>5, NothingToKnow DEF Creating
<1>7. CASE /\ comments' = [comments EXCEPT ![j.comment] =
                             [author |-> j.user, notice |-> j.notice, text |-> r]]
           /\ fresh' = fresh \ {j.comment}
  <2>1. \A k \in Comments : k # j.comment => comments'[k] = comments[k]
    BY <1>7 DEF IInv, Local, TypeOK
  <2>2. ASSUME NEW s \in Requests \ {r} PROVE Knowledge(s)'
    <3>1. Knowledge(s) /\ Facts(s)
      BY DEF IInv, Local, Stored
    <3>2. Creating(s) => job[s].notice \in Notices
      BY <3>1, JobsAreWellFormed DEF Creating, Facts
    <3>3. Creating(s) => job[s].notice \in fresh'
      BY <1>3, <1>7, <3>1, <3>2, IdsDiffer DEF Knowledge, IdsUsedOnce
    <3>4. Changing(s) => job[s].comment \in Comments /\ job[s].comment \notin fresh
      BY <3>1, JobsAreWellFormed DEF Facts, Changing, Knowledge, IdsUsedOnce
    <3>5. Changing(s) =>
            \/ comments'[job[s].comment] = Absent
            \/ /\ comments[job[s].comment] # Absent
               /\ comments'[job[s].comment].author = comments[job[s].comment].author
      BY <1>1, <2>1, <3>1, <3>4 DEF Knowledge, MayStillChange
    <3>6. fresh' \subseteq fresh /\ notices' = notices
      BY <1>1, <1>7
    <3> QED
      BY <1>5, <1>6, <3>3, <3>5, <3>6, RowsMoveOn
  <2>3. Unused'
    BY <1>1, <1>7, <2>1 DEF IInv, Stored, Unused
  <2> QED
    BY <1>6, <2>2, <2>3 DEF Stored
<1>8. CASE UNCHANGED <<comments, fresh, stored>>
  BY <1>1, <1>5, <1>6, <1>8, QuietStored DEF IInv, tableVars
<1> QED
  BY <1>1, <1>7, <1>8

LEMMA CommentsMoveOn ==
  ASSUME IInv, NEW r \in Requests, job[r] \in Jobs, pc[r] = "write",
         job[r].op \in {"editComment", "deleteComment"}, NEW res \in Result, Answer(r, res),
         UNCHANGED <<users, notices, fresh, outbox>>,
         \A k \in Comments :
           \/ comments'[k] = comments[k] \/ comments'[k] = Absent
           \/ comments[k] # Absent /\ comments'[k].author = comments[k].author
  PROVE  Stored'
<1>1. Local
  BY DEF IInv
<1>2. Others(r) /\ pc'[r] = "done"
  BY <1>1, AnswerMoves DEF Local
<1>3. ~Creating(r)' /\ Knowledge(r)'
  BY <1>2, NothingToKnow DEF Creating
<1>4. ASSUME NEW s \in Requests \ {r} PROVE Knowledge(s)'
  <2>1. Knowledge(s) /\ Facts(s)
    BY DEF IInv, Local, Stored
  <2>2. Creating(s) => job[s].notice \in fresh'
    BY <2>1 DEF Knowledge, IdsUsedOnce
  <2>3. Changing(s) => job[s].comment \in Comments
    BY <2>1, JobsAreWellFormed DEF Facts, Changing
  <2>4. Changing(s) =>
          \/ comments'[job[s].comment] = Absent
          \/ /\ comments[job[s].comment] # Absent
             /\ comments'[job[s].comment].author = comments[job[s].comment].author
    BY <2>3
  <2> QED
    BY <1>2, <1>3, <2>2, <2>4, RowsMoveOn
<1>5. Unused'
  BY DEF IInv, Stored, Unused
<1> QED
  BY <1>3, <1>4, <1>5 DEF Stored

LEMMA ChangeCommentKeeps ==
  ASSUME IInv, NEW r \in Requests, UpdateComment(r) \/ DeleteComment(r) PROVE Stored'
<1>1. Local /\ Facts(r) /\ pc[r] = "write" /\ UNCHANGED <<users, notices, fresh, outbox>>
  BY DEF UpdateComment, DeleteComment, IInv, Local
<1>2. job[r] \in Jobs /\ comments \in [Comments -> Comment \cup {Absent}]
  BY <1>1 DEF Facts, Local, TypeOK
<1>3. CASE UpdateComment(r)
  <2>1. job[r].op = "editComment" /\ job[r].comment \in Comments
    BY <1>2, <1>3, JobsAreWellFormed DEF UpdateComment
  <2>2. PICK res \in {"ok", "ERROR", "FAIL_SAVE_COMMENT"} : Answer(r, res)
    BY <1>3 DEF UpdateComment
  <2>3. res \in Result
    BY DEF Result
  <2>4. \/ comments' = comments
        \/ /\ comments[job[r].comment] # Absent
           /\ comments' = [comments EXCEPT ![job[r].comment].text = r]
    BY <1>3 DEF UpdateComment
  <2>5. comments[job[r].comment] # Absent =>
          [comments[job[r].comment] EXCEPT !.text = r].author = comments[job[r].comment].author
    BY <1>2, <2>1 DEF Comment
  <2>6. ASSUME NEW k \in Comments
        PROVE  \/ comments'[k] = comments[k]
               \/ comments[k] # Absent /\ comments'[k].author = comments[k].author
    BY <1>2, <2>1, <2>4, <2>5
  <2> QED
    BY <1>1, <1>2, <2>1, <2>2, <2>3, <2>6, CommentsMoveOn
<1>4. CASE DeleteComment(r)
  <2>1. job[r].op = "deleteComment"
    BY <1>4 DEF DeleteComment
  <2>2. PICK res \in {"DELETED", "ok"} : Answer(r, res)
    BY <1>4 DEF DeleteComment
  <2>3. res \in Result
    BY DEF Result
  <2>4. comments' = [comments EXCEPT ![job[r].comment] = Absent]
    BY <1>4 DEF DeleteComment
  <2>5. \A k \in Comments : comments'[k] = comments[k] \/ comments'[k] = Absent
    BY <1>2, <2>4
  <2> QED
    BY <1>1, <1>2, <2>1, <2>2, <2>3, <2>5, CommentsMoveOn
<1> QED
  BY <1>3, <1>4

LEMMA RemoveAccountKeeps ==
  ASSUME IInv, NEW u \in Users, RemoveAccount(u) PROVE Stored'
<1>1. /\ UNCHANGED <<notices, fresh, pc, job, seen>>
      /\ \A k \in Comments : comments'[k] \in {comments[k], Absent}
  BY DEF RemoveAccount
<1>2. ASSUME NEW s \in Requests PROVE Knowledge(s)'
  <2>1. Knowledge(s) /\ Facts(s)
    BY DEF IInv, Local, Stored
  <2>2. IdsUsedOnce(s)' /\ SnapshotIntegrity(s)'
    BY <1>1, <2>1
    DEF Knowledge, IdsUsedOnce, SnapshotIntegrity, Creating, Editing, Changing
  <2>3. Changing(s) => job[s].comment \in Comments
    BY <2>1, JobsAreWellFormed DEF Facts, Changing
  <2>4. MayStillChange(s)'
    BY <1>1, <2>1, <2>3 DEF Knowledge, MayStillChange, MayChange, Changing
  <2> QED
    BY <2>2, <2>4 DEF Knowledge
<1>3. Unused'
  BY <1>1 DEF IInv, Stored, Unused
<1> QED
  BY <1>2, <1>3 DEF Stored

LEMMA StoredStep == IInv /\ [Next]_vars => Stored'
<1> SUFFICES ASSUME IInv, [Next]_vars PROVE Stored'
  OBVIOUS
<1>1. ASSUME NEW r \in Requests,
             \/ InsertNotice(r) \/ CreateAlarm(r) \/ Commit(r) \/ FindNotice(r) \/ UpdateNotice(r)
             \/ DeleteNotice(r) \/ Evict(r)
             \/ CreateComment(r) \/ FindComment(r) \/ UpdateComment(r) \/ DeleteComment(r)
             \/ Fail(r)
      PROVE  Stored'
  BY <1>1, InsertNoticeKeeps, CreateAlarmKeeps, CommitKeeps, FindNoticeKeeps, UpdateNoticeKeeps,
     DeleteNoticeKeeps, EvictKeeps, CreateCommentKeeps, FindCommentKeeps, ChangeCommentKeeps
<1>2. ASSUME NEW u \in Users, RemoveAccount(u) PROVE Stored'
  BY <1>2, RemoveAccountKeeps
<1>3. CASE UNCHANGED vars
  BY <1>3 DEF IInv, Stored, Unused, Knowledge, IdsUsedOnce, SnapshotIntegrity, MayStillChange,
     Creating, Editing, Changing, MayChange, vars, tableVars
<1> QED
  BY <1>1, <1>2, <1>3 DEF Next

\* At every call the handlers of notices and comments know what Facts says, no
\* id is drawn twice, an edit whose version is stored read the stored row, and a
\* comment about to be written is one the request may change.
THEOREM NoticeInvariant == Spec => []IInv
<1>1. Init => IInv
  BY LocalInit, StoredInit DEF IInv
<1>2. IInv /\ [Next]_vars => IInv'
  BY LocalStep, StoredStep DEF IInv
<1> QED
  BY <1>1, <1>2, PTL DEF Spec

-----------------------------------------------------------------------------
(***************************************************************************)
(* What a step may do to a row.                                            *)
(***************************************************************************)

LEMMA OnlyEditsChangeNotices ==
  ASSUME IInv, Next, NEW n \in Notices,
         notices[n] # Absent, notices'[n] # Absent, notices'[n] # notices[n]
  PROVE  \E r \in Requests :
           /\ Editing(r) /\ job[r].notice = n /\ Matches(r, n) /\ notices'[n] = Edited(r)
<1>0. notices \in [Notices -> Notice \cup {Absent}]
  BY DEF IInv, Local, TypeOK
<1>1. ASSUME NEW r \in Requests, Commit(r) PROVE FALSE
  <2>1. notices' = [notices EXCEPT ![job[r].notice] = NewNotice(r)]
    BY <1>1 DEF Commit
  <2>2. job[r].notice \in fresh
    BY <1>1 DEF Commit, IInv, Stored, Knowledge, IdsUsedOnce, Creating
  <2>3. n \notin fresh
    BY DEF IInv, Stored, Unused
  <2> QED
    BY <1>0, <2>1, <2>2, <2>3
<1>2. ASSUME NEW r \in Requests, DeleteNotice(r) PROVE FALSE
  BY <1>0, <1>2 DEF DeleteNotice
<1>3. ASSUME NEW r \in Requests, UpdateNotice(r)
      PROVE  Editing(r) /\ job[r].notice = n /\ Matches(r, n) /\ notices'[n] = Edited(r)
  <2>1. /\ Editing(r) /\ Matches(r, job[r].notice)
        /\ notices' = [notices EXCEPT ![job[r].notice] = Edited(r)]
    BY <1>3 DEF UpdateNotice, Editing
  <2> QED
    BY <1>0, <2>1
<1>4. \/ \E r \in Requests : Commit(r) \/ DeleteNotice(r) \/ UpdateNotice(r)
      \/ notices' = notices
  BY DEF Next, InsertNotice, CreateAlarm, FindNotice, Evict, CreateComment, FindComment,
     UpdateComment, DeleteComment, Fail, RemoveAccount, tableVars
<1> QED
  BY <1>1, <1>2, <1>3, <1>4

\* The version test of the edit of a notice is enough: all of the row but the
\* fields the edit names is as it was, though the edit writes every column.
THEOREM FieldsAreKept == Spec => OnlyNamedFieldsChange
<1> DEFINE Named(n) ==
      notices[n] # Absent /\ notices'[n] # Absent /\ notices'[n] # notices[n] =>
        \E r \in Requests :
          /\ job[r].op = "edit" /\ job[r].notice = n /\ r \notin stored
          /\ \A f \in Fields :
               notices'[n][f] = IF f \in job[r].fields THEN r ELSE notices[n][f]
<1>1. IInv /\ [Next]_vars => [\A n \in Notices : Named(n)]_vars
  <2> SUFFICES ASSUME IInv, Next, NEW n \in Notices,
                      notices[n] # Absent, notices'[n] # Absent, notices'[n] # notices[n]
               PROVE  \E r \in Requests :
                        /\ job[r].op = "edit" /\ job[r].notice = n /\ r \notin stored
                        /\ \A f \in Fields :
                             notices'[n][f] = IF f \in job[r].fields THEN r ELSE notices[n][f]
    OBVIOUS
  <2>1. PICK r \in Requests :
          Editing(r) /\ job[r].notice = n /\ Matches(r, n) /\ notices'[n] = Edited(r)
    BY OnlyEditsChangeNotices
  <2>2. seen[r] = notices[n]
    BY <2>1 DEF Matches, IInv, Stored, Knowledge, SnapshotIntegrity
  <2>3. \A f \in Fields : Edited(r)[f] = IF f \in job[r].fields THEN r ELSE seen[r][f]
    BY <2>1, EditedIsNotice DEF IInv
  <2>4. job[r].op = "edit" /\ r \notin stored
    BY <2>1 DEF IInv, Local, Facts, Editing
  <2> QED
    BY <2>1, <2>2, <2>3, <2>4
<1> QED
  BY <1>1, NoticeInvariant, PTL DEF Spec, OnlyNamedFieldsChange

LEMMA WhoChangesComments ==
  ASSUME IInv, Next, NEW k \in Comments, comments[k] # Absent, comments'[k] # comments[k]
  PROVE  \/ /\ comments'[k] = Absent
            /\ \/ notices'[comments[k].notice] = Absent
               \/ comments[k].author \notin users'
         \/ \E r \in Requests :
              /\ job[r].comment = k /\ pc[r] = "write"
              /\ \/ comments'[k] = Absent /\ job[r].user \in Admins \cup {comments[k].author}
                 \/ comments'[k] = [comments[k] EXCEPT !.text = r] /\ job[r].user = comments[k].author
<1>0. comments \in [Comments -> Comment \cup {Absent}] /\ notices \in [Notices -> Notice \cup {Absent}]
  BY DEF IInv, Local, TypeOK
<1>1. ASSUME NEW r \in Requests, DeleteNotice(r)
      PROVE  comments'[k] = Absent /\ notices'[comments[k].notice] = Absent
  <2>1. comments[k].notice \in Notices
    BY <1>0 DEF Comment
  <2> QED
    BY <1>0, <1>1, <2>1 DEF DeleteNotice
<1>2. ASSUME NEW r \in Requests, CreateComment(r) PROVE FALSE
  <2>1. k \notin fresh
    BY DEF IInv, Stored, Unused
  <2> QED
    BY <1>0, <1>2, <2>1 DEF CreateComment
<1>3. ASSUME NEW r \in Requests, UpdateComment(r)
      PROVE  /\ job[r].comment = k /\ pc[r] = "write"
             /\ comments'[k] = [comments[k] EXCEPT !.text = r] /\ job[r].user = comments[k].author
  <2>1. /\ pc[r] = "write" /\ job[r].op = "editComment" /\ job[r].comment = k
        /\ comments'[k] = [comments[k] EXCEPT !.text = r]
    BY <1>0, <1>3 DEF UpdateComment
  <2>2. MayChange(job[r], comments[k])
    BY <2>1 DEF IInv, Stored, Knowledge, MayStillChange, Changing
  <2> QED
    BY <2>1, <2>2 DEF MayChange
<1>4. ASSUME NEW r \in Requests, DeleteComment(r)
      PROVE  /\ job[r].comment = k /\ pc[r] = "write"
             /\ comments'[k] = Absent /\ job[r].user \in Admins \cup {comments[k].author}
  <2>1. /\ pc[r] = "write" /\ job[r].op = "deleteComment" /\ job[r].comment = k
        /\ comments'[k] = Absent
    BY <1>0, <1>4 DEF DeleteComment
  <2>2. MayChange(job[r], comments[k])
    BY <2>1 DEF IInv, Stored, Knowledge, MayStillChange, Changing
  <2> QED
    BY <2>1, <2>2 DEF MayChange
<1>5. ASSUME NEW u \in Users, RemoveAccount(u)
      PROVE  comments'[k] = Absent /\ comments[k].author \notin users'
  BY <1>5 DEF RemoveAccount
<1>6. \/ \E r \in Requests : DeleteNotice(r) \/ CreateComment(r) \/ UpdateComment(r) \/ DeleteComment(r)
      \/ \E u \in Users : RemoveAccount(u)
      \/ comments' = comments
  BY DEF Next, InsertNotice, CreateAlarm, Commit, FindNotice, UpdateNotice, Evict, FindComment,
     Fail, tableVars
<1> QED
  BY <1>1, <1>2, <1>3, <1>4, <1>5, <1>6

\* Comments are changed by who may and disappear with what they belong to,
\* though the writes of updateComment and deleteComment test the id alone.
THEOREM CommentsAreTheirAuthors == Spec => CommentsStand
<1>1. IInv /\ [Next]_vars =>
        [\A k \in Comments :
           comments[k] # Absent /\ comments'[k] # comments[k] =>
             \/ /\ comments'[k] = Absent
                /\ \/ notices'[comments[k].notice] = Absent
                   \/ comments[k].author \notin users'
             \/ \E r \in Requests :
                  /\ job[r].comment = k /\ pc[r] = "write"
                  /\ \/ comments'[k] = Absent /\ job[r].user \in Admins \cup {comments[k].author}
                     \/ comments'[k] = [comments[k] EXCEPT !.text = r] /\ job[r].user = comments[k].author]_vars
  BY WhoChangesComments
<1> QED
  BY <1>1, NoticeInvariant, PTL DEF Spec, CommentsStand
=============================================================================
