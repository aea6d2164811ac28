----------------------------- MODULE Complaint -----------------------------
(***************************************************************************)
(* The complaint command service: createComplaint, updateComplaint,        *)
(* deleteComplaint and updateComplaintStatus, each a chain of awaited      *)
(* database and Redis calls.  Any other request may run between two calls  *)
(* of a handler, so every call is a step of its own.                       *)
(*                                                                         *)
(* A complaint row keeps what the handlers test: its status, its author,   *)
(* its version and its text, which stands for the title, the content and   *)
(* the visibility that one update writes together.  The entry a command    *)
(* evicts from Redis belongs to module RedisLocker; here the eviction is   *)
(* the step that may throw between the write and the alarm.                *)
(*                                                                         *)
(* updateComplaint and updateComplaintStatus run under UnitOfWork.doWork,  *)
(* which repeats the work on OPTIMISTIC_LOCK_FAILED only.  The complaint   *)
(* repository reports a lost version race as RECORD_NOT_FOUND, so the loop *)
(* runs once and a request here takes each step at most once.              *)
(***************************************************************************)
EXTENDS Naturals

CONSTANTS
  Requests,    \* HTTP requests; each is served once, which bounds the model
  Complaints,  \* complaint ids, drawn by randomUUID and never drawn twice
  Residents,   \* accounts of role USER
  Admins,      \* accounts of role ADMIN
  Texts,       \* what a complaint says
  NoText,      \* the text of a request that carries none
  NoRow        \* what findById returns for an id with no row

Users == Residents \cup Admins

Status == {"PENDING", "IN_PROGRESS", "RESOLVED", "REJECTED"}

Row == [status : Status, author : Users, text : Texts, version : Nat]

ASSUME RolesDisjoint == Residents \cap Admins = {}
ASSUME NoRowIsNoRow == NoRow \notin Row /\ NoRow \notin [author : Users, text : Texts]
ASSUME NoTextIsNoText == NoText \notin Texts

VARIABLES
  accounts,  \* the users that still have an account
  unused,    \* the ids no complaint was ever stored under
  db,        \* db[c] is the row of complaint c, or NoRow
  outbox,    \* the State rows of type ALARM the service has created
  pc,        \* pc[r] is the call request r makes next
  job,       \* job[r] is what request r asks for
  seen,      \* seen[r] is the row r read: beforeContext
  result,    \* result[r] is the answer to r
  written    \* history: the requests whose write reached the database

vars == <<accounts, unused, db, outbox, pc, job, seen, result, written>>

handlerVars == <<accounts, unused, db, outbox, written>>

-----------------------------------------------------------------------------
Job == [op : {"none", "create", "update", "delete", "status"},
        user : Users, target : Complaints,
        status : Status, text : Texts \cup {NoText}]

PC == {"idle", "write", "erase", "evict", "alarm", "done"}

Refusals ==
  {"FAIL_SAVE_COMPALINT", "REQ_INFO_INVALID", "FORBIDDEN",
   "DONT_MODIFY_COMPLAINT", "DONT_DELETE_COMPLAINT", "DONT_MODIFY_PENDING",
   "DONT_MODIFY_RESOLVED", "DONT_MODIFY_REJECTED", "DELETED"}

Result == {"none", "ok", "ERROR"} \cup Refusals

Label == {"IN_PROGRESS", "RESOLVED", "undefined"}

AdminAlarm == [by : Requests, receiverType : {"ADMIN"}]
AuthorAlarm == [by : Requests, receiverType : {"INDIVIDUAL_USER"},
                userId : Users, label : Label]

TypeOK ==
  /\ accounts \subseteq Users
  /\ unused \subseteq Complaints
  /\ db \in [Complaints -> Row \cup {NoRow}]
  /\ outbox \subseteq (AdminAlarm \cup AuthorAlarm)
  /\ pc \in [Requests -> PC]
  /\ job \in [Requests -> Job \cup {NoRow}]
  /\ seen \in [Requests -> Row \cup {NoRow}]
  /\ result \in [Requests -> Result]
  /\ written \subseteq Requests

\* The row createComplaint stores: ComplaintEntity.create.
NewRow(u, t) ==
  [status |-> "PENDING", author |-> u, text |-> t, version |-> 1]

\* The service starts on a table of complaints nobody has touched since they
\* were created, every account in place and every earlier alarm delivered.
Init ==
  /\ accounts = Users
  /\ db \in [Complaints -> {NoRow} \cup {NewRow(u, t) : u \in Users, t \in Texts}]
  /\ unused = {c \in Complaints : db[c] = NoRow}
  /\ outbox = {}
  /\ pc = [r \in Requests |-> "idle"]
  /\ job = [r \in Requests |-> NoRow]
  /\ seen = [r \in Requests |-> NoRow]
  /\ result = [r \in Requests |-> "none"]
  /\ written = {}

-----------------------------------------------------------------------------
(***************************************************************************)
(* The path of a request through its handler.                              *)
(***************************************************************************)

\* The request is served: it asks for j, saw row b, and next makes call p.
Proceed(r, j, b, p) ==
  /\ job' = [job EXCEPT ![r] = j]
  /\ seen' = [seen EXCEPT ![r] = b]
  /\ pc' = [pc EXCEPT ![r] = p]
  /\ UNCHANGED result

\* The request is refused before it wrote anything.
Refuse(r, j, b, why) ==
  /\ job' = [job EXCEPT ![r] = j]
  /\ seen' = [seen EXCEPT ![r] = b]
  /\ pc' = [pc EXCEPT ![r] = "done"]
  /\ result' = [result EXCEPT ![r] = why]

\* The handler goes on to call p.
Goto(r, p) ==
  /\ pc' = [pc EXCEPT ![r] = p]
  /\ UNCHANGED <<job, seen, result>>

\* The handler ends with this answer.
Answer(r, res) ==
  /\ pc' = [pc EXCEPT ![r] = "done"]
  /\ result' = [result EXCEPT ![r] = res]
  /\ UNCHANGED <<job, seen>>

\* Mutant: the where clause names the id and forgets the version.
RowMatchesById(c, v) == db[c] # NoRow

\* complaintRepo.update and updateStatus: where id and version both match.
RowMatches(c, v) == db[c] # NoRow /\ db[c].version = v

\* A write of request r reaches the database.
Commit(r, c, row) ==
  /\ db' = [db EXCEPT ![c] = row]
  /\ written' = written \cup {r}

-----------------------------------------------------------------------------
(***************************************************************************)
(* createComplaint: the row, then the alarm to the administrators, in two  *)
(* statements that share no transaction.                                   *)
(***************************************************************************)
NewJob(u, c, t) ==
  [op |-> "create", user |-> u, target |-> c, status |-> "PENDING", text |-> t]

CreateComplaint(r) ==
  \E u \in Users, c \in unused, t \in Texts :
    /\ pc[r] = "idle"
    /\ \/ /\ u \in accounts
          /\ Commit(r, c, NewRow(u, t))
          /\ unused' = unused \ {c}
          /\ Proceed(r, NewJob(u, c, t), NoRow, "alarm")
       \/ /\ u \notin accounts           \* P2003 on Complaint_userId_fkey
          /\ Refuse(r, NewJob(u, c, t), NoRow, "FAIL_SAVE_COMPALINT")
          /\ UNCHANGED <<db, unused, written>>
    /\ UNCHANGED <<accounts, outbox>>

(***************************************************************************)
(* updateComplaint: read, test, write if the version is still the one read.*)
(***************************************************************************)
EditJob(u, c, t) ==
  [op |-> "update", user |-> u, target |-> c, status |-> "PENDING", text |-> t]

EditVerdict(u, b) ==
  IF b = NoRow THEN "REQ_INFO_INVALID"
  ELSE IF b.author # u THEN "FORBIDDEN"
  ELSE IF b.status # "PENDING" THEN "DONT_MODIFY_COMPLAINT"
  ELSE "none"

UpdateComplaint(r) ==
  \E u \in Users, c \in Complaints, t \in Texts :
    /\ pc[r] = "idle"
    /\ \/ /\ EditVerdict(u, db[c]) = "none"
          /\ Proceed(r, EditJob(u, c, t), db[c], "write")
       \/ /\ EditVerdict(u, db[c]) # "none"
          /\ Refuse(r, EditJob(u, c, t), db[c], EditVerdict(u, db[c]))
    /\ UNCHANGED handlerVars

\* complaintRepo.update writes the text and leaves the status column alone.
Edited(b, t) ==
  [status |-> b.status, author |-> b.author, text |-> t, version |-> b.version + 1]

UpdateWrite(r) ==
  LET c == job[r].target
      b == seen[r]
  IN /\ pc[r] = "write" /\ job[r].op = "update"
     /\ \/ /\ RowMatches(c, b.version)
           /\ Commit(r, c, Edited(db[c], job[r].text))
           /\ Goto(r, "evict")
        \/ /\ ~RowMatches(c, b.version)
           /\ Answer(r, "FAIL_SAVE_COMPALINT")
           /\ UNCHANGED <<db, written>>
     /\ UNCHANGED <<accounts, unused, outbox>>

-----------------------------------------------------------------------------
(***************************************************************************)
(* deleteComplaint: read, test, delete by id alone.                        *)
(***************************************************************************)
DeleteJob(u, c) ==
  [op |-> "delete", user |-> u, target |-> c, status |-> "PENDING", text |-> NoText]

DeleteVerdict(u, b) ==
  IF b = NoRow THEN "REQ_INFO_INVALID"
  ELSE IF b.status # "PENDING" THEN "DONT_DELETE_COMPLAINT"
  ELSE IF u \in Residents /\ b.author # u THEN "FORBIDDEN"
  ELSE "none"

DeleteComplaint(r) ==
  \E u \in Users, c \in Complaints :
    /\ pc[r] = "idle"
    /\ \/ /\ DeleteVerdict(u, db[c]) = "none"
          /\ Proceed(r, DeleteJob(u, c), db[c], "erase")
       \/ /\ DeleteVerdict(u, db[c]) # "none"
          /\ Refuse(r, DeleteJob(u, c), db[c], DeleteVerdict(u, db[c]))
    /\ UNCHANGED handlerVars

DeleteWrite(r) ==
  LET c == job[r].target
  IN /\ pc[r] = "erase"
     /\ \/ /\ db[c] # NoRow
           /\ Commit(r, c, NoRow)
           /\ Goto(r, "evict")
        \/ /\ db[c] = NoRow
           /\ Answer(r, "DELETED")
           /\ UNCHANGED <<db, written>>
     /\ UNCHANGED <<accounts, unused, outbox>>

-----------------------------------------------------------------------------
(***************************************************************************)
(* updateComplaintStatus: read, test, write if the version is still the    *)
(* one read, evict, and put an alarm to the author into the outbox.        *)
(***************************************************************************)
StatusJob(u, c, s) ==
  [op |-> "status", user |-> u, target |-> c, status |-> s, text |-> NoText]

\* Mutant: a complaint in progress may be put back.
StatusVerdictLax(u, b, s) ==
  IF u \notin Admins THEN "FORBIDDEN"
  ELSE IF b = NoRow THEN "REQ_INFO_INVALID"
  ELSE IF b.status = "RESOLVED" /\ s # "RESOLVED" THEN "DONT_MODIFY_RESOLVED"
  ELSE IF b.status = "REJECTED" /\ s # "REJECTED" THEN "DONT_MODIFY_REJECTED"
  ELSE "none"

StatusVerdict(u, b, s) ==
  IF u \notin Admins THEN "FORBIDDEN"
  ELSE IF b = NoRow THEN "REQ_INFO_INVALID"
  ELSE IF b.status = "IN_PROGRESS" /\ s = "PENDING" THEN "DONT_MODIFY_PENDING"
  ELSE IF b.status = "RESOLVED" /\ s # "RESOLVED" THEN "DONT_MODIFY_RESOLVED"
  ELSE IF b.status = "REJECTED" /\ s # "REJECTED" THEN "DONT_MODIFY_REJECTED"
  ELSE "none"

UpdateComplaintStatus(r) ==
  \E u \in Users, c \in Complaints, s \in Status :
    /\ pc[r] = "idle"
    /\ \/ /\ StatusVerdict(u, db[c], s) = "none"
          /\ Proceed(r, StatusJob(u, c, s), db[c], "write")
       \/ /\ StatusVerdict(u, db[c], s) # "none"
          /\ Refuse(r, StatusJob(u, c, s), db[c], StatusVerdict(u, db[c], s))
    /\ UNCHANGED handlerVars

\* complaintRepo.updateStatus writes the status and leaves the text alone.
Moved(b, s) ==
  [status |-> s, author |-> b.author, text |-> b.text, version |-> b.version + 1]

\* Mutant: a lost version race is swallowed and the handler goes on.
StatusWriteSwallowing(r) ==
  LET c == job[r].target
  IN /\ pc[r] = "write" /\ job[r].op = "status"
     /\ \/ RowMatches(c, seen[r].version) /\ Commit(r, c, Moved(db[c], job[r].status))
        \/ ~RowMatches(c, seen[r].version) /\ UNCHANGED <<db, written>>
     /\ Goto(r, "evict")
     /\ UNCHANGED <<accounts, unused, outbox>>

StatusWrite(r) ==
  LET c == job[r].target
      b == seen[r]
  IN /\ pc[r] = "write" /\ job[r].op = "status"
     /\ \/ /\ RowMatches(c, b.version)
           /\ Commit(r, c, Moved(db[c], job[r].status))
           /\ Goto(r, "evict")
        \/ /\ ~RowMatches(c, b.version)
           /\ Answer(r, "FAIL_SAVE_COMPALINT")
           /\ UNCHANGED <<db, written>>
     /\ UNCHANGED <<accounts, unused, outbox>>

-----------------------------------------------------------------------------
(***************************************************************************)
(* The calls after the write.                                              *)
(***************************************************************************)

\* redisExternal.del(`complaint:${complaintId}`).
Evict(r) ==
  /\ pc[r] = "evict"
  /\ \/ job[r].op = "status" /\ Goto(r, "alarm")
     \/ job[r].op # "status" /\ Answer(r, "ok")
  /\ UNCHANGED handlerVars

\* Mutant: the alarm carries the status itself.
LabelOfRaw(s) == s

\* The name the alarm gives the new status; the last branch of the code is an
\* expression statement that assigns nothing.
LabelOf(s) ==
  IF s \in {"IN_PROGRESS", "RESOLVED"} THEN s ELSE "undefined"

AlarmOf(r) ==
  IF job[r].op = "create"
  THEN [by |-> r, receiverType |-> "ADMIN"]
  ELSE [by |-> r, receiverType |-> "INDIVIDUAL_USER",
        userId |-> seen[r].author, label |-> LabelOf(job[r].status)]

\* stateCommandRepo.create, the last call of both handlers that make it.
CreateAlarm(r) ==
  /\ pc[r] = "alarm"
  /\ outbox' = outbox \cup {AlarmOf(r)}
  /\ Answer(r, "ok")
  /\ UNCHANGED <<accounts, unused, db, written>>

\* The next call of a handler throws, or the server stops: what the handler
\* has written stays and the rest of the handler does not happen.
Fail(r) ==
  /\ pc[r] \notin {"idle", "done"}
  /\ Answer(r, "ERROR")
  /\ UNCHANGED handlerVars

\* A resident's account is deleted; the foreign key deletes the complaints.
RemoveResident ==
  \E u \in Residents \cap accounts :
    /\ accounts' = accounts \ {u}
    /\ db' = [c \in Complaints |->
                IF db[c] # NoRow /\ db[c].author = u THEN NoRow ELSE db[c]]
    /\ UNCHANGED <<unused, outbox, pc, job, seen, result, written>>

Serve(r) ==
  \/ CreateComplaint(r)
  \/ UpdateComplaint(r) \/ UpdateWrite(r)
  \/ DeleteComplaint(r) \/ DeleteWrite(r)
  \/ UpdateComplaintStatus(r) \/ StatusWrite(r)
  \/ Evict(r) \/ CreateAlarm(r) \/ Fail(r)

Next == RemoveResident \/ \E r \in Requests : Serve(r)

Spec == Init /\ [][Next]_vars

-----------------------------------------------------------------------------
(***************************************************************************)
(* Properties.                                                             *)
(***************************************************************************)

\* What a row that request r read tells it about the row stored now: the
\* stored one is the same or a later version, and equal versions mean equal
\* rows.  This is what makes the version test of the repository sound.
SnapshotIntegrity ==
  \A r \in Requests :
    LET c == job[r].target
    IN seen[r] # NoRow /\ db[c] # NoRow =>
         /\ seen[r].version <= db[c].version
         /\ seen[r].version = db[c].version => seen[r] = db[c]

VersionedWrites == {r \in written : job[r].op \in {"update", "status"}}

\* No lost update: of the edits and status changes that reached the database,
\* no two were computed from the same version of the same complaint, however
\* the reads and writes of their handlers interleave.
NoLostUpdate ==
  \A r, s \in VersionedWrites :
    r # s /\ job[r].target = job[s].target => seen[r].version # seen[s].version

\* An alarm in the outbox is about a write that reached the database, and a
\* creation or status change answered with success has put its alarm there:
\* a handler that loses its version race must not announce anything.
AlarmsMatchWrites ==
  /\ \A a \in outbox : a.by \in written
  /\ \A r \in Requests :
       result[r] = "ok" /\ job[r].op \in {"create", "status"} =>
         \E a \in outbox : a.by = r

\* The statuses a complaint may take after status s.
Reachable(s) ==
  CASE s = "PENDING" -> Status
    [] s = "IN_PROGRESS" -> Status \ {"PENDING"}
    [] s \in {"RESOLVED", "REJECTED"} -> {s}

\* Whatever two administrators do at the same time, a complaint never returns
\* to PENDING once taken up and never leaves RESOLVED or REJECTED.
StatusNeverRegresses ==
  [][\A c \in Complaints :
       db[c] # NoRow /\ db'[c] # NoRow => db'[c].status \in Reachable(db[c].status)]_vars

\* The text of a complaint changes only while the stored status is PENDING,
\* also when an administrator takes it up between the author's read and write.
EditOnlyWhilePending ==
  [][\A c \in Complaints :
       db[c] # NoRow /\ db'[c] # NoRow /\ db'[c].text # db[c].text =>
         db[c].status = "PENDING"]_vars

-----------------------------------------------------------------------------
(***************************************************************************)
(* The inductive invariant behind the properties above.                    *)
(***************************************************************************)

\* What a handler knows at each of its calls.
FactsOf(r) ==
  /\ pc[r] = "idle" => seen[r] = NoRow /\ result[r] = "none"
  /\ pc[r] # "idle" => job[r] \in Job /\ job[r].op # "none"
  /\ pc[r] \in {"write", "erase", "evict"} => seen[r] # NoRow
  /\ pc[r] = "write" =>
       \/ /\ job[r].op = "update" /\ job[r].text \in Texts
          /\ EditVerdict(job[r].user, seen[r]) = "none"
       \/ /\ job[r].op = "status"
          /\ StatusVerdict(job[r].user, seen[r], job[r].status) = "none"
  /\ pc[r] = "erase" => job[r].op = "delete"
  /\ pc[r] = "evict" => job[r].op \in {"update", "delete", "status"}
  /\ pc[r] = "alarm" =>
       job[r].op = "create" \/ (job[r].op = "status" /\ seen[r] # NoRow)
  /\ pc[r] # "done" => result[r] = "none"

HandlerFacts == \A r \in Requests : FactsOf(r)

\* A request has written exactly when it is past its write; one that has
\* written from a version read has seen a row that is now out of date.
WriteFacts ==
  /\ \A r \in Requests :
       /\ pc[r] \in {"evict", "alarm"} => r \in written
       /\ pc[r] \in {"idle", "write", "erase"} => r \notin written
  /\ \A r \in VersionedWrites :
       LET c == job[r].target
       IN seen[r] # NoRow /\ (db[c] # NoRow => seen[r].version < db[c].version)

\* An id that was never stored under has no row, and nobody has read one.
IdsUsedOnce ==
  /\ \A c \in unused : db[c] = NoRow
  /\ \A r \in Requests : seen[r] # NoRow => job[r].target \notin unused

\* What an administrator or an author relies on, and why it is inductive.
IInv ==
  /\ TypeOK
  /\ SnapshotIntegrity
  /\ NoLostUpdate
  /\ AlarmsMatchWrites
  /\ HandlerFacts
  /\ WriteFacts
  /\ IdsUsedOnce

-----------------------------------------------------------------------------
(***************************************************************************)
(* The service implements the life of a complaint as its users see it.     *)
(***************************************************************************)
StageOf(c) ==
  IF c \in unused THEN "unfiled" ELSE IF db[c] = NoRow THEN "gone" ELSE db[c].status

DetailOf(c) ==
  IF db[c] = NoRow THEN NoRow ELSE [author |-> db[c].author, text |-> db[c].text]

Lifecycle == INSTANCE ComplaintLifecycle WITH
  NoDetail <- NoRow,
  stage <- [c \in Complaints |-> StageOf(c)],
  detail <- [c \in Complaints |-> DetailOf(c)]

\* Every behaviour of the service is a behaviour of the lifecycle.
ImplementsLifecycle == Lifecycle!Spec

-----------------------------------------------------------------------------
(***************************************************************************)
(* What the README says of the service and the code does not keep.         *)
(***************************************************************************)

\* README, complaint deletion: a complaint in progress or done cannot be
\* deleted.  The delete statement does not test what the handler tested.
DeleteOnlyWhilePending ==
  [][\A c \in Complaints :
       db[c] # NoRow /\ db'[c] = NoRow /\ accounts' = accounts =>
         db[c].status = "PENDING"]_vars
=============================================================================
