---------------------------- MODULE NoticeBoard ----------------------------
(***************************************************************************)
(* The notices of an apartment, each with an event or none, and the        *)
(* comments on them: the commands of notice-command.ts and                 *)
(* comment-command.ts over the tables Notices, Events and Comment.         *)
(*                                                                         *)
(* createNotice stores notice and alarm in one READ COMMITTED transaction; *)
(* nobody reads what it wrote before the commit, so the writes are applied *)
(* there.  updateNotice reads the notice and writes all its columns, and   *)
(* its event, under the version it read, and starts over when that version *)
(* is gone, up to MAX_RETRIES times.  The commands on comments read who    *)
(* wrote the comment and then write by id alone.                           *)
(*                                                                         *)
(* A field is the request its value came from: "title" stands for title,   *)
(* content, category and pin, "event" for the dates of the event.  A field *)
(* the entity ignores (an empty title, an isPinned of false) counts as not *)
(* named by the request.  View counts and cache are left to the modules    *)
(* ViewCount and RedisLocker.                                              *)
(***************************************************************************)
EXTENDS Naturals

CONSTANTS
  Requests,    \* HTTP requests; each is served once, which bounds the model
  Users,       \* accounts
  Admins,      \* the accounts with the role of an administrator
  Notices,     \* ids of notices, drawn by randomUUID and never drawn twice
  Comments,    \* ids of comments, likewise
  MaxRetries,  \* MAX_RETRIES
  Absent,      \* no row, no id, no event
  Earlier      \* the origin of what was stored before

Fields == {"title", "event"}
Origin == Requests \cup {Earlier}

Notice == [author : Users, title : Origin, event : Origin \cup {Absent}, version : Nat]
Comment == [author : Users, notice : Notices, text : Origin]

ASSUME AdminsAreUsers == Admins \subseteq Users
ASSUME IdsDiffer == Notices \cap Comments = {}
ASSUME RetriesAreCounted == MaxRetries \in Nat
ASSUME AbsentIsNoData ==
  /\ Absent \notin Notice /\ Absent \notin Comment
  /\ Absent \notin Users /\ Absent \notin Notices /\ Absent \notin Comments /\ Absent \notin Origin

VARIABLES
  users,     \* the accounts that exist
  notices,   \* notices[n] is the row of notice n with its event, or Absent
  comments,  \* comments[k] is the row of comment k, or Absent
  fresh,     \* the ids of notices and comments nothing was stored under
  outbox,    \* the requests whose alarm is in the outbox
  pc,        \* pc[r] is the call request r makes next
  job,       \* job[r] is what request r asks for
  seen,      \* seen[r] is the notice r read, or Absent
  tries,     \* tries[r] counts the attempts of r that lost a race
  result,    \* result[r] is the answer to r
  stored     \* history: the requests whose write is, or was, in the tables

tableVars == <<users, notices, comments, fresh, outbox, stored>>
vars == <<tableVars, pc, job, seen, tries, result>>

-----------------------------------------------------------------------------
NoJob == [op |-> "none", user |-> Absent, notice |-> Absent, comment |-> Absent, fields |-> {}]

None == {Absent}

Bodies(op, user, notice, comment, fields) ==
  [op : op, user : user, notice : notice, comment : comment, fields : fields]

\* The requests the routers let through; an edit of a notice asks for no
\* account, and the token of a deleted account is good until it expires.
Jobs ==
  Bodies({"create"}, Admins, Notices, None, {{"title"}, Fields})
  \cup Bodies({"edit"}, None, Notices, None, SUBSET Fields)
  \cup Bodies({"delete"}, None, Notices, None, {{}})
  \cup Bodies({"comment"}, Users, Notices, Comments, {{}})
  \cup Bodies({"editComment", "deleteComment"}, Users, None, Comments, {{}})

Result ==
  {"none", "ok", "ERROR", "NOTICE_NOT_FOUND", "CONCURRENT_MODIFICATION", "REQ_INFO_INVALID",
   "FORBIDDEN", "FAIL_SAVE_COMMENT", "DELETED"}

TypeOK ==
  /\ users \subseteq Users
  /\ notices \in [Notices -> Notice \cup {Absent}]
  /\ comments \in [Comments -> Comment \cup {Absent}]
  /\ fresh \subseteq Notices \cup Comments
  /\ outbox \subseteq Requests /\ stored \subseteq Requests
  /\ pc \in [Requests -> {"idle", "read", "alarm", "commit", "write", "evict", "done"}]
  /\ job \in [Requests -> Jobs \cup {NoJob}]
  /\ seen \in [Requests -> Notice \cup {Absent}]
  /\ tries \in [Requests -> 0..MaxRetries]
  /\ result \in [Requests -> Result]

\* Notices by an administrator, with an event or none, and comments on them.
Init ==
  /\ users = Users
  /\ notices \in [Notices -> {Absent} \cup {[author |-> u, title |-> Earlier, event |-> e, version |-> 1] :
                                              u \in Admins, e \in {Earlier, Absent}}]
  /\ comments \in [Comments -> {Absent} \cup [author : Users, notice : Notices, text : {Earlier}]]
  /\ \A k \in Comments : comments[k] # Absent => notices[comments[k].notice] # Absent
  /\ fresh = {n \in Notices : notices[n] = Absent} \cup {k \in Comments : comments[k] = Absent}
  /\ outbox = {} /\ stored = {}
  /\ pc = [r \in Requests |-> "idle"] /\ job = [r \in Requests |-> NoJob]
  /\ seen = [r \in Requests |-> Absent] /\ tries = [r \in Requests |-> 0]
  /\ result = [r \in Requests |-> "none"]

-----------------------------------------------------------------------------
(***************************************************************************)
(* The path of a request through its handler and UnitOfWork.doWork.        *)
(***************************************************************************)
Asks(r) == IF pc[r] = "idle" THEN Jobs ELSE IF pc[r] = "read" THEN {job[r]} ELSE {}

\* r asks for j, has read notice b, and next makes call p.
Proceed(r, j, b, p) ==
  /\ job' = [job EXCEPT ![r] = j]
  /\ seen' = [seen EXCEPT ![r] = b]
  /\ pc' = [pc EXCEPT ![r] = p]
  /\ UNCHANGED <<tries, result>>

Goto(r, p) == Proceed(r, job[r], seen[r], p)

Conclude(r, j, res) ==
  /\ job' = [job EXCEPT ![r] = j]
  /\ pc' = [pc EXCEPT ![r] = "done"]
  /\ result' = [result EXCEPT ![r] = res]
  /\ UNCHANGED <<seen, tries>>

Answer(r, res) == Conclude(r, job[r], res)

Retry(r) ==
  /\ tries' = [tries EXCEPT ![r] = @ + 1]
  /\ pc' = [pc EXCEPT ![r] = "read"]
  /\ UNCHANGED <<job, seen, result>>

\* Mutant: one attempt too many.
ConflictOnceMore(r) == Retry(r)

\* Mutant: the last attempt returns where it should throw.
ConflictSwallowed(r) ==
  \/ tries[r] < MaxRetries /\ Retry(r)
  \/ tries[r] = MaxRetries /\ Answer(r, "ok")

\* OPTIMISTIC_LOCK_FAILED: doWork runs the edit once more, or gives up.
Conflict(r) ==
  \/ tries[r] < MaxRetries /\ Retry(r)
  \/ tries[r] = MaxRetries /\ Answer(r, "CONCURRENT_MODIFICATION")

-----------------------------------------------------------------------------
(***************************************************************************)
(* Notices.                                                                *)
(***************************************************************************)
NewNotice(r) ==
  [author |-> job[r].user, title |-> r, event |-> IF "event" \in job[r].fields THEN r ELSE Absent,
   version |-> 1]

\* The transaction of createNotice that has inserted its notice.
Creating(r) == pc[r] \in {"alarm", "commit"}

\* noticeRepo.create; the author has to exist.
InsertNotice(r) ==
  /\ \E j \in Asks(r) :
       /\ j.op = "create"
       /\ \/ /\ j.user \in users /\ j.notice \in fresh
             /\ \A s \in Requests : Creating(s) => job[s].notice # j.notice
             /\ Proceed(r, j, Absent, "alarm")
          \/ j.user \notin users /\ Conclude(r, j, "ERROR")
  /\ UNCHANGED tableVars

\* stateRepo.create, in the transaction too.
CreateAlarm(r) == pc[r] = "alarm" /\ Goto(r, "commit") /\ UNCHANGED tableVars

\* The transaction ends; the answer of the database may get lost.
Commit(r) ==
  LET n == job[r].notice
  IN /\ pc[r] = "commit"
     /\ notices' = [notices EXCEPT ![n] = NewNotice(r)]
     /\ fresh' = fresh \ {n} /\ stored' = stored \cup {r} /\ outbox' = outbox \cup {r}
     /\ \E res \in {"ok", "ERROR"} : Answer(r, res)
     /\ UNCHANGED <<users, comments>>

FindNotice(r) ==
  /\ \E j \in Asks(r) :
       /\ j.op = "edit"
       /\ IF notices[j.notice] = Absent
          THEN Conclude(r, j, "NOTICE_NOT_FOUND")
          ELSE Proceed(r, j, notices[j.notice], "write")
  /\ UNCHANGED tableVars

\* NoticeEntity.update on the row r read: an event is changed or created.
Edited(r) ==
  [seen[r] EXCEPT !.title = IF "title" \in job[r].fields THEN r ELSE @,
                  !.event = IF "event" \in job[r].fields THEN r ELSE @,
                  !.version = @ + 1]

\* Mutant: the where clause names the id and forgets the version.
MatchesById(r, n) == notices[n] # Absent

Matches(r, n) == notices[n] # Absent /\ notices[n].version = seen[r].version

\* noticeRepo.update; no row matches the version, nor a deleted notice.
UpdateNotice(r) ==
  LET n == job[r].notice
  IN /\ pc[r] = "write" /\ job[r].op = "edit"
     /\ \/ /\ Matches(r, n)
           /\ notices' = [notices EXCEPT ![n] = Edited(r)] /\ stored' = stored \cup {r}
           /\ Goto(r, "evict")
        \/ ~Matches(r, n) /\ Conflict(r) /\ UNCHANGED <<notices, stored>>
     /\ UNCHANGED <<users, comments, fresh, outbox>>

\* deleteMany, with the comments and the event; there may be no such notice.
DeleteNotice(r) ==
  \E j \in Asks(r) :
    /\ j.op = "delete"
    /\ notices' = [notices EXCEPT ![j.notice] = Absent]
    /\ comments' = [k \in Comments |->
         IF comments[k] # Absent /\ comments[k].notice = j.notice THEN Absent ELSE comments[k]]
    /\ Proceed(r, j, Absent, "evict")
    /\ UNCHANGED <<users, fresh, outbox, stored>>

\* The cached notice is deleted after the edit or the delete.
Evict(r) == pc[r] = "evict" /\ Answer(r, "ok") /\ UNCHANGED tableVars

-----------------------------------------------------------------------------
(***************************************************************************)
(* Comments.                                                               *)
(***************************************************************************)

\* One insert.  The handler of a foreign key error calls a method strings do
\* not have, so a missing notice or author is answered as any other error.
CreateComment(r) ==
  \E j \in Asks(r) :
    /\ j.op = "comment" /\ j.comment \in fresh
    /\ LET refers == j.user \in users /\ notices[j.notice] # Absent
       IN \/ /\ refers
             /\ comments' = [comments EXCEPT ![j.comment] =
                               [author |-> j.user, notice |-> j.notice, text |-> r]]
             /\ fresh' = fresh \ {j.comment} /\ stored' = stored \cup {r}
             /\ \E res \in {"ok", "ERROR"} : Conclude(r, j, res)
          \/ ~refers /\ Conclude(r, j, "ERROR") /\ UNCHANGED <<comments, fresh, stored>>
    /\ UNCHANGED <<users, notices, outbox>>

\* Mutant: the test of deleteComment compares roles and forgets the author.
MayChangeAny(j, b) == j.op = "deleteComment" \/ j.user = b.author

\* An author may edit, an author or an administrator delete.
MayChange(j, b) == j.user = b.author \/ (j.op = "deleteComment" /\ j.user \in Admins)

FindComment(r) ==
  /\ \E j \in Asks(r) :
       /\ j.op \in {"editComment", "deleteComment"}
       /\ LET b == comments[j.comment]
          IN \/ b = Absent /\ Conclude(r, j, "REQ_INFO_INVALID")
             \/ b # Absent /\ ~MayChange(j, b) /\ Conclude(r, j, "FORBIDDEN")
             \/ b # Absent /\ MayChange(j, b) /\ Proceed(r, j, Absent, "write")
  /\ UNCHANGED tableVars

UpdateComment(r) ==
  LET k == job[r].comment
  IN /\ pc[r] = "write" /\ job[r].op = "editComment"
     /\ \/ /\ comments[k] # Absent
           /\ comments' = [comments EXCEPT ![k].text = r] /\ stored' = stored \cup {r}
           /\ \E res \in {"ok", "ERROR"} : Answer(r, res)
        \/ comments[k] = Absent /\ Answer(r, "FAIL_SAVE_COMMENT") /\ UNCHANGED <<comments, stored>>
     /\ UNCHANGED <<users, notices, fresh, outbox>>

DeleteComment(r) ==
  LET k == job[r].comment
  IN /\ pc[r] = "write" /\ job[r].op = "deleteComment"
     /\ comments' = [comments EXCEPT ![k] = Absent]
     /\ Answer(r, IF comments[k] = Absent THEN "DELETED" ELSE "ok")
     /\ UNCHANGED <<users, notices, fresh, outbox, stored>>

-----------------------------------------------------------------------------
\* deleteUser of the user service, with the comments of the account; the
\* author of a notice, stored or in an open transaction, is not deleted.
RemoveAccount(u) ==
  /\ u \in users
  /\ \A n \in Notices : notices[n] # Absent => notices[n].author # u
  /\ \A r \in Requests : Creating(r) => job[r].user # u
  /\ users' = users \ {u}
  /\ comments' = [k \in Comments |->
       IF comments[k] # Absent /\ comments[k].author = u THEN Absent ELSE comments[k]]
  /\ UNCHANGED <<notices, fresh, outbox, stored, pc, job, seen, tries, result>>

\* A call throws, or the server stops: an open transaction is rolled back.
Fail(r) ==
  /\ pc[r] \notin {"idle", "done"}
  /\ Answer(r, "ERROR")
  /\ UNCHANGED tableVars

Next ==
  \/ \E r \in Requests :
       \/ InsertNotice(r) \/ CreateAlarm(r) \/ Commit(r) \/ FindNotice(r) \/ UpdateNotice(r)
       \/ DeleteNotice(r) \/ Evict(r)
       \/ CreateComment(r) \/ FindComment(r) \/ UpdateComment(r) \/ DeleteComment(r)
       \/ Fail(r)
  \/ \E u \in Users : RemoveAccount(u)

Spec == Init /\ [][Next]_vars

-----------------------------------------------------------------------------
(***************************************************************************)
(* Properties.                                                             *)
(***************************************************************************)

\* Success is answered only for what was stored, and a refusal only for what
\* was not: an attempt that lost its race left nothing behind, and a retry
\* never repeats an edit that went through.
AnswersAreTrue ==
  \A r \in Requests :
    /\ job[r].op \in {"edit", "comment", "editComment"} /\ result[r] = "ok" => r \in stored
    /\ result[r] \in Result \ {"none", "ok", "ERROR"} => r \notin stored

\* A step that changes a notice is one edit's and changes the fields it names:
\* what others stored since the edit read the notice is kept.
OnlyNamedFieldsChange ==
  [][\A n \in Notices :
       notices[n] # Absent /\ notices'[n] # Absent /\ notices'[n] # notices[n] =>
         \E r \in Requests :
           /\ job[r].op = "edit" /\ job[r].notice = n /\ r \notin stored
           /\ \A f \in Fields :
                notices'[n][f] = IF f \in job[r].fields THEN r ELSE notices[n][f]]_vars

\* A comment disappears by the hand of its author or an administrator, or with
\* its notice or the account of its author, and is reworded by its author.
CommentsStand ==
  [][\A k \in Comments :
       comments[k] # Absent /\ comments'[k] # comments[k] =>
         \/ /\ comments'[k] = Absent
            /\ \/ notices'[comments[k].notice] = Absent
               \/ comments[k].author \notin users'
         \/ \E r \in Requests :
              /\ job[r].comment = k /\ pc[r] = "write"
              /\ \/ comments'[k] = Absent /\ job[r].user \in Admins \cup {comments[k].author}
                 \/ comments'[k] = [comments[k] EXCEPT !.text = r] /\ job[r].user = comments[k].author]_vars
=============================================================================
