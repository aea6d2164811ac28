-------------------------- MODULE ResidentAccounts --------------------------
(***************************************************************************)
(* The resident half of the user command service: sign-up, registration by *)
(* an administrator, the decisions on join requests one by one and all at  *)
(* once, the edits of profile, password and avatar, and the deletes.       *)
(*                                                                         *)
(* A handler reads a row, tests it and writes it where id and version are  *)
(* the ones it read.  A lost race throws OPTIMISTIC_LOCK_FAILED, on which  *)
(* UnitOfWork.doWork runs the whole work again, up to MAX_RETRIES times.   *)
(* updateJoinedStatuses, which decides all requests at once, tests nothing *)
(* in its where clause.                                                    *)
(*                                                                         *)
(* A profile stands for the name, the contact and the address of one       *)
(* resident.  User names and contacts are unique over the whole table; the *)
(* rows that may hold them already are not modelled, so such a violation   *)
(* may happen at any write of them.                                        *)
(***************************************************************************)
EXTENDS Naturals

CONSTANTS
  Requests,    \* HTTP requests; each is served once, which bounds the model
  Accounts,    \* user ids, drawn by randomUUID and never drawn twice
  Emails,
  Profiles,
  Passwords,
  MaxRetries,  \* MAX_RETRIES
  Absent       \* no row, no password, a field the request does not have

Joined == {"PENDING", "APPROVED", "REJECTED"}
Decided == {"APPROVED", "REJECTED"}

Row == [email : Emails, status : Joined \cup {"NOT_JOINED"}, profile : Profiles,
        password : Passwords \cup {Absent}, version : Nat]

ASSUME RetriesAreCounted == MaxRetries \in Nat
ASSUME AbsentIsNoData ==
  /\ Absent \notin Row /\ Absent \notin Accounts /\ Absent \notin Emails
  /\ Absent \notin Profiles /\ Absent \notin Passwords

VARIABLES
  db,       \* db[c] is the row of account c, or Absent
  unused,   \* the ids no account was ever stored under
  outbox,   \* the requests that put a join alarm into the outbox
  pc,       \* pc[r] is the call request r makes next
  job,      \* job[r] is what request r asks for
  seen,     \* seen[r] is the row r read
  pending,  \* pending[r] is the set of rows r read to decide all at once
  tries,    \* tries[r] counts the attempts of r that lost a race
  result,   \* result[r] is the answer to r
  written   \* history: which request stored which account

vars == <<db, unused, outbox, pc, job, seen, pending, tries, result, written>>

-----------------------------------------------------------------------------
Ops == {"signUp", "register", "decide", "decideAll", "edit", "password",
        "avatar", "delete", "deleteRejected"}

NoJob == [op |-> "none", target |-> Absent, email |-> Absent, profile |-> Absent,
          old |-> Absent, new |-> Absent, status |-> Absent]

None == {Absent}

Bodies(op, target, email, profile, old, new, status) ==
  [op : op, target : target, email : email, profile : profile, old : old, new : new,
   status : status]

\* The requests the handlers accept; decisions take joinedStatusSchema.
Jobs ==
  Bodies({"signUp"}, None, Emails, Profiles, None, Passwords, None)
  \cup Bodies({"register"}, None, Emails, Profiles, None, None, None)
  \cup Bodies({"decide"}, Accounts, None, None, None, None, Joined)
  \cup Bodies({"decideAll"}, None, None, None, None, None, Joined)
  \cup Bodies({"edit"}, Accounts, None, Profiles, None, None, None)
  \cup Bodies({"password"}, Accounts, None, None, Passwords, Passwords, None)
  \cup Bodies({"avatar", "delete"}, Accounts, None, None, None, None, None)
  \cup Bodies({"deleteRejected"}, None, None, None, None, None, None)

JobType ==
  Bodies(Ops \cup {"none"}, Accounts \cup None, Emails \cup None, Profiles \cup None,
         Passwords \cup None, Passwords \cup None, Joined \cup None)

Result ==
  {"none", "ok", "ERROR", "USER_NOT_FOUND", "EMAIL_ALREADY_IN_USE", "ALREADY_IN_USE",
   "NOT_UPDATE_JOINEDSTATUS", "INCORRECT_PASSWORD", "CORRECT_PASSWORD",
   "CONCURRENT_MODIFICATION"}

TypeOK ==
  /\ db \in [Accounts -> Row \cup {Absent}]
  /\ unused \subseteq Accounts
  /\ outbox \subseteq Requests
  /\ pc \in [Requests -> {"idle", "read", "insert", "write", "writeAll", "alarm", "show", "done"}]
  /\ job \in [Requests -> JobType]
  /\ seen \in [Requests -> Row \cup {Absent}]
  /\ pending \in [Requests -> SUBSET Accounts]
  /\ tries \in [Requests -> 0..MaxRetries]
  /\ result \in [Requests -> Result]
  /\ written \subseteq Requests \X Accounts

\* NotJoinedResidentEntity.create and ResidentAccountEntity.create.
Registered(e, p) ==
  [email |-> e, status |-> "NOT_JOINED", profile |-> p, password |-> Absent, version |-> 1]

Applied(e, p, w) ==
  [email |-> e, status |-> "PENDING", profile |-> p, password |-> w, version |-> 1]

\* The service starts on a table of residents who were registered, who asked to
\* join or who were decided about, one account per email.
Init ==
  /\ db \in [Accounts -> {Absent} \cup {Registered(e, p) : e \in Emails, p \in Profiles}
       \cup {[Applied(e, p, w) EXCEPT !.status = s] :
               e \in Emails, p \in Profiles, w \in Passwords, s \in Joined}]
  /\ \A b, c \in Accounts :
       db[b] # Absent /\ db[c] # Absent /\ db[b].email = db[c].email => b = c
  /\ unused = {c \in Accounts : db[c] = Absent}
  /\ outbox = {}
  /\ pc = [r \in Requests |-> "idle"] /\ job = [r \in Requests |-> NoJob]
  /\ seen = [r \in Requests |-> Absent] /\ pending = [r \in Requests |-> {}]
  /\ tries = [r \in Requests |-> 0] /\ result = [r \in Requests |-> "none"]
  /\ written = {}

-----------------------------------------------------------------------------
(***************************************************************************)
(* The path of a request through its handler.                              *)
(***************************************************************************)
tableVars == <<db, unused, outbox, written>>

\* What r may ask for at its first read, and what it asks for again when
\* doWork runs the work once more.
Asks(r) == IF pc[r] = "idle" THEN Jobs ELSE IF pc[r] = "read" THEN {job[r]} ELSE {}

\* r asks for j, has read row b, and next makes call p.
Proceed(r, j, b, p) ==
  /\ job' = [job EXCEPT ![r] = j]
  /\ seen' = [seen EXCEPT ![r] = b]
  /\ pc' = [pc EXCEPT ![r] = p]
  /\ UNCHANGED <<pending, tries, result>>

\* r asks for j and is answered at once.
Conclude(r, j, res) ==
  /\ job' = [job EXCEPT ![r] = j]
  /\ pc' = [pc EXCEPT ![r] = "done"]
  /\ result' = [result EXCEPT ![r] = res]
  /\ UNCHANGED <<seen, pending, tries>>

Answer(r, res) == Conclude(r, job[r], res)

Goto(r, p) ==
  /\ pc' = [pc EXCEPT ![r] = p]
  /\ UNCHANGED <<job, seen, pending, tries, result>>

\* What a handler answers when its last attempt lost the race: the decision on
\* one resident returns as if it had been made.
LostRace(op) == IF op = "decide" THEN "ok" ELSE "CONCURRENT_MODIFICATION"

\* Mutant: one attempt too many.
ConflictOnceMore(r) ==
  \/ /\ tries[r] <= MaxRetries
     /\ tries' = [tries EXCEPT ![r] = @ + 1]
     /\ pc' = [pc EXCEPT ![r] = "read"]
     /\ UNCHANGED <<job, seen, pending, result>>
  \/ tries[r] > MaxRetries /\ Answer(r, LostRace(job[r].op))

\* doWork begins again at the read, unless this was its last attempt.
Conflict(r) ==
  \/ /\ tries[r] < MaxRetries
     /\ tries' = [tries EXCEPT ![r] = @ + 1]
     /\ pc' = [pc EXCEPT ![r] = "read"]
     /\ UNCHANGED <<job, seen, pending, result>>
  \/ tries[r] = MaxRetries /\ Answer(r, LostRace(job[r].op))

\* Mutant: the where clause names the id and forgets the version.
RowMatchesById(c, v) == db[c] # Absent

RowMatches(c, v) == db[c] # Absent /\ db[c].version = v

\* Request r writes row where id and version are the ones it read.
Versioned(r, row) ==
  LET c == job[r].target
  IN /\ \/ /\ RowMatches(c, seen[r].version)
           /\ db' = [db EXCEPT ![c] = [row EXCEPT !.version = db[c].version + 1]]
           /\ written' = written \cup {<<r, c>>}
           /\ Answer(r, "ok")
        \/ /\ ~RowMatches(c, seen[r].version)
           /\ Conflict(r)
           /\ UNCHANGED <<db, written>>
     /\ UNCHANGED <<unused, outbox>>

\* A user name or a contact of the row to write belongs to another row.
OtherUnique(r) ==
  Answer(r, "ALREADY_IN_USE") /\ UNCHANGED tableVars

EmailTaken(e) == \E c \in Accounts : db[c] # Absent /\ db[c].email = e

-----------------------------------------------------------------------------
(***************************************************************************)
(* createResidentAccount and createResident.                               *)
(***************************************************************************)

\* findNotJoinedResidentByEmail; a resident who is registered with the same
\* profile is promoted, one who is unknown is inserted.
FindRegistered(r) ==
  /\ \E j \in Asks(r) :
       /\ j.op = "signUp"
       /\ LET found == {c \in Accounts : db[c] # Absent /\ db[c].email = j.email
                                                        /\ db[c].status = "NOT_JOINED"}
          IN \/ found = {} /\ Proceed(r, [j EXCEPT !.target = Absent], Absent, "insert")
             \/ \E c \in found :
                  /\ db[c].profile = j.profile
                  /\ Proceed(r, [j EXCEPT !.target = c], db[c], "write")
             \/ \E c \in found :
                  /\ db[c].profile # j.profile
                  /\ Conclude(r, j, "EMAIL_ALREADY_IN_USE")
  /\ UNCHANGED tableVars

\* createResident inserts without a read.
Register(r) ==
  /\ \E j \in Asks(r) : j.op = "register" /\ Proceed(r, j, Absent, "insert")
  /\ UNCHANGED tableVars

NewRow(j) ==
  IF j.op = "signUp" THEN Applied(j.email, j.profile, j.new) ELSE Registered(j.email, j.profile)

\* userCommandRepo.create swallows every error but a unique violation: the
\* handler goes on as if the row were stored.
Insert(r) ==
  /\ pc[r] = "insert"
  /\ \/ /\ EmailTaken(job[r].email)
        /\ Answer(r, "EMAIL_ALREADY_IN_USE")
        /\ UNCHANGED tableVars
     \/ OtherUnique(r)
     \/ /\ ~EmailTaken(job[r].email)
        /\ \E c \in unused :
             /\ db' = [db EXCEPT ![c] = NewRow(job[r])]
             /\ unused' = unused \ {c}
             /\ written' = written \cup {<<r, c>>}
        /\ Goto(r, IF job[r].op = "signUp" THEN "alarm" ELSE "show")
        /\ UNCHANGED outbox
     \/ /\ Goto(r, IF job[r].op = "signUp" THEN "alarm" ELSE "show")
        /\ UNCHANGED tableVars

\* ResidentAccountEntity.requestJoin, stored by userCommandRepo.update.
Promoted(b, w) == [b EXCEPT !.status = "PENDING", !.password = w]

Promote(r) ==
  /\ pc[r] = "write" /\ job[r].op = "signUp"
  /\ \/ Versioned(r, Promoted(db[job[r].target], job[r].new))
     \/ OtherUnique(r)

\* The alarm to the administrators of the apartment, for an inserted row only.
CreateAlarm(r) ==
  /\ pc[r] = "alarm"
  /\ outbox' = outbox \cup {r}
  /\ Answer(r, "ok")
  /\ UNCHANGED <<db, unused, written>>

\* The handler answers createResident with the resident it finds by the email,
\* whatever became of him since.
ShowResident(r) ==
  /\ pc[r] = "show"
  /\ Answer(r, IF EmailTaken(job[r].email) THEN "ok" ELSE "USER_NOT_FOUND")
  /\ UNCHANGED tableVars

-----------------------------------------------------------------------------
(***************************************************************************)
(* The decisions on join requests.                                         *)
(***************************************************************************)

\* updateResidentAccountJoinStatus
FindToDecide(r) ==
  /\ \E j \in Asks(r) :
       /\ j.op = "decide"
       /\ LET b == db[j.target]
          IN \/ b = Absent /\ Conclude(r, j, "USER_NOT_FOUND")
             \/ b # Absent /\ b.status \in Decided /\ Conclude(r, j, "NOT_UPDATE_JOINEDSTATUS")
             \/ b # Absent /\ b.status \notin Decided /\ Proceed(r, j, b, "write")
  /\ UNCHANGED tableVars

Decide(r) ==
  /\ pc[r] = "write" /\ job[r].op = "decide"
  /\ Versioned(r, [db[job[r].target] EXCEPT !.status = job[r].status])

\* updateResidentAccountJoinStatuses: findPendingResidentUsers.
FindPending(r) ==
  /\ \E j \in Asks(r) :
       /\ j.op = "decideAll"
       /\ LET found == {c \in Accounts : db[c] # Absent /\ db[c].status = "PENDING"}
          IN \/ found = {} /\ Conclude(r, j, "USER_NOT_FOUND")
             \/ /\ found # {}
                /\ pending' = [pending EXCEPT ![r] = found]
                /\ job' = [job EXCEPT ![r] = j] /\ pc' = [pc EXCEPT ![r] = "writeAll"]
                /\ UNCHANGED <<seen, tries, result>>
  /\ UNCHANGED tableVars

\* Mutant: the bulk write does not count up the version.
DecideAllInPlace(r) ==
  LET found == {c \in pending[r] : db[c] # Absent}
  IN /\ pc[r] = "writeAll"
     /\ db' = [c \in Accounts |->
                 IF c \in found THEN [db[c] EXCEPT !.status = job[r].status] ELSE db[c]]
     /\ written' = written \cup {<<r, c>> : c \in found}
     /\ Answer(r, "ok")
     /\ UNCHANGED <<unused, outbox>>

\* updateMany where the id is one of those read.
DecideAll(r) ==
  LET found == {c \in pending[r] : db[c] # Absent}
  IN /\ pc[r] = "writeAll"
     /\ db' = [c \in Accounts |->
                 IF c \in found
                 THEN [db[c] EXCEPT !.status = job[r].status, !.version = @ + 1]
                 ELSE db[c]]
     /\ written' = written \cup {<<r, c>> : c \in found}
     /\ Answer(r, "ok")
     /\ UNCHANGED <<unused, outbox>>

-----------------------------------------------------------------------------
(***************************************************************************)
(* The edits and the deletes.                                              *)
(***************************************************************************)

\* updateResident and updateAvatarUrl read the row and refuse nothing else.
FindToEdit(r) ==
  /\ \E j \in Asks(r) :
       /\ j.op \in {"edit", "avatar"}
       /\ LET b == db[j.target]
          IN \/ b = Absent /\ Conclude(r, j, "USER_NOT_FOUND")
             \/ b # Absent /\ Proceed(r, j, b, "write")
  /\ UNCHANGED tableVars

\* The update writes every column it read, the join status and the password
\* only for a resident who had joined then.
Edited(b, read, p) ==
  IF read.status = "NOT_JOINED" THEN [b EXCEPT !.profile = p, !.email = read.email]
  ELSE [read EXCEPT !.profile = p]

Edit(r) ==
  /\ pc[r] = "write" /\ job[r].op = "edit"
  /\ \/ Versioned(r, Edited(db[job[r].target], seen[r], job[r].profile))
     \/ OtherUnique(r)

\* The avatar is no part of the row here; the version is.
UpdateAvatar(r) ==
  /\ pc[r] = "write" /\ job[r].op = "avatar"
  /\ Versioned(r, db[job[r].target])

\* updatePassword compares both passwords with the one it read.  The caller is
\* logged in, so that the account has one.
FindToRekey(r) ==
  /\ \E j \in Asks(r) :
       /\ j.op = "password"
       /\ LET b == db[j.target]
          IN \/ b = Absent /\ Conclude(r, j, "USER_NOT_FOUND")
             \/ /\ b # Absent /\ b.password \notin {Absent, j.old}
                /\ Conclude(r, j, "INCORRECT_PASSWORD")
             \/ /\ b # Absent /\ b.password = j.old
                /\ \/ j.new = j.old /\ Conclude(r, j, "CORRECT_PASSWORD")
                   \/ j.new # j.old /\ Proceed(r, j, b, "write")
  /\ UNCHANGED tableVars

UpdatePassword(r) ==
  /\ pc[r] = "write" /\ job[r].op = "password"
  /\ Versioned(r, [db[job[r].target] EXCEPT !.password = job[r].new])

\* deleteResident; an id without a row is no error.
DeleteResident(r) ==
  \E j \in Asks(r) :
    /\ j.op = "delete"
    /\ db' = [db EXCEPT ![j.target] = Absent]
    /\ Conclude(r, j, "ok")
    /\ UNCHANGED <<unused, outbox, written>>

\* deleteResidentAccounts
DeleteRejected(r) ==
  \E j \in Asks(r) :
    /\ j.op = "deleteRejected"
    /\ db' = [c \in Accounts |->
                IF db[c] # Absent /\ db[c].status = "REJECTED" THEN Absent ELSE db[c]]
    /\ Conclude(r, j, "ok")
    /\ UNCHANGED <<unused, outbox, written>>

\* A call throws, or the server stops: what was written stays.
Fail(r) ==
  /\ pc[r] \notin {"idle", "done"}
  /\ Answer(r, "ERROR")
  /\ UNCHANGED tableVars

-----------------------------------------------------------------------------
Next ==
  \E r \in Requests :
    \/ FindRegistered(r) \/ Register(r) \/ Insert(r) \/ Promote(r)
    \/ CreateAlarm(r) \/ ShowResident(r)
    \/ FindToDecide(r) \/ Decide(r) \/ FindPending(r) \/ DecideAll(r)
    \/ FindToEdit(r) \/ Edit(r) \/ UpdateAvatar(r)
    \/ FindToRekey(r) \/ UpdatePassword(r)
    \/ DeleteResident(r) \/ DeleteRejected(r) \/ Fail(r)

Spec == Init /\ [][Next]_vars

-----------------------------------------------------------------------------
(***************************************************************************)
(* Properties.                                                             *)
(***************************************************************************)

\* A row that still has the version a request read is the row it read, so that
\* no write under a version test is computed from columns that are gone.
SnapshotIntegrity ==
  \A r \in Requests :
    pc[r] = "write" /\ RowMatches(job[r].target, seen[r].version) => db[job[r].target] = seen[r]

\* Two sign-ups never take the same account, be it inserted or promoted: what
\* one applicant is told is not about the account of the other.
OneSignUpPerAccount ==
  \A c \in Accounts : \A r, s \in Requests :
    /\ <<r, c>> \in written /\ job[r].op = "signUp"
    /\ <<s, c>> \in written /\ job[s].op = "signUp"
    => r = s

\* Where the account is in the life that JoinRequests describes.
StageOf(c) ==
  IF db[c] # Absent THEN db[c].status ELSE IF c \in unused THEN "unused" ELSE "removed"

Join == INSTANCE JoinRequests WITH
  Entry <- {"NOT_JOINED", "PENDING"},
  stage <- [c \in Accounts |-> StageOf(c)],
  round <- [r \in Requests |-> IF pc[r] = "writeAll" THEN pending[r] ELSE {}]

\* Reads, version tests, retries and writes that interleave amount to the life
\* of a join request: a resident is decided about once, by nobody who read the
\* account before it was decided, edits and retries change no decision, and
\* only the decision on all requests overturns what it did not see.
ImplementsJoinRequests == Join!Spec

\* Whoever changes a password knew the one it replaces, however many changes of
\* it ran at the same time.
PasswordIsProved ==
  [][\A c \in Accounts :
       /\ db[c] # Absent /\ db[c].password # Absent
       /\ db'[c] # Absent /\ db'[c].password # db[c].password
       => \E r \in Requests : /\ pc[r] = "write" /\ job[r].target = c
                               /\ job[r].op = "password" /\ job[r].old = db[c].password]_vars
=============================================================================
