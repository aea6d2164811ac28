--------------------------- MODULE AdminAccounts ---------------------------
(***************************************************************************)
(* The administrators' half of the user command service: the sign-up of an *)
(* administrator together with an apartment, the edit of both, the         *)
(* decisions on join requests one by one and all at once, the deletes, and *)
(* the sign-up of a super administrator.                                   *)
(*                                                                         *)
(* Sign-up and edit run in a READ COMMITTED transaction of UnitOfWork:     *)
(* what they write is a draft no other request reads, until the commit; a  *)
(* row they updated is locked, and other writers of it wait.  The edit is  *)
(* run again when a version test fails, up to MAX_RETRIES times.  The      *)
(* other operations are single statements.                                 *)
(*                                                                         *)
(* Which names, emails, contacts and addresses are taken is not modelled:  *)
(* a write of them may violate their uniqueness at any time.               *)
(***************************************************************************)
EXTENDS Naturals

CONSTANTS
  Requests,    \* HTTP requests; each is served once, which bounds the model
  Accounts,    \* ids of administrators, drawn by randomUUID
  Apartments,  \* ids of apartments, drawn by randomUUID
  MaxRetries,  \* MAX_RETRIES
  Absent       \* no row, no id

Decided == {"APPROVED", "REJECTED"}
Statuses == Decided \cup {"PENDING"}

\* by and founder are history: the request whose data the row has and the one
\* that inserted it, Absent for what was there before.
Row == [role : {"ADMIN", "SUPER_ADMIN"}, status : Statuses, home : Apartments \cup {Absent},
        version : Nat, by : Requests \cup {Absent}]

Apartment == [version : Nat, by : Requests \cup {Absent}, founder : Requests \cup {Absent}]

Draft == [account : Accounts \cup {Absent}, row : Row \cup {Absent},
          home : Apartments \cup {Absent}, flat : Apartment \cup {Absent}]

NoDraft == [account |-> Absent, row |-> Absent, home |-> Absent, flat |-> Absent]

ASSUME RetriesAreCounted == MaxRetries \in Nat
ASSUME AbsentIsNoData ==
  /\ Absent \notin Row /\ Absent \notin Apartment
  /\ Absent \notin Accounts /\ Absent \notin Apartments /\ Absent \notin Requests

VARIABLES
  db,       \* db[c] is the committed row of administrator c, or Absent
  apts,     \* apts[a] is the committed row of apartment a, or Absent
  unused,   \* the ids no administrator was ever stored under
  outbox,   \* the requests whose join alarm is in the outbox
  pc,       \* pc[r] is the call request r makes next
  job,      \* job[r] is what request r asks for
  seen,     \* seen[r] is the row r read
  flat,     \* flat[r] is the apartment r read
  pending,  \* pending[r] is the set of rows r read to decide all at once
  draft,    \* draft[r] is what the transaction of r has written so far
  tries,    \* tries[r] counts the attempts of r that lost a race
  result,   \* result[r] is the answer to r
  joined    \* history: the sign-ups whose account was stored

vars == <<db, apts, unused, outbox, pc, job, seen, flat, pending, draft, tries, result, joined>>

\* The row b, of an account or an apartment, that request r has rewritten.
Rewritten(b, r) == [b EXCEPT !.by = r, !.version = @ + 1]

\* The row b of an account that was decided about.
DecidedAs(b, s) == [b EXCEPT !.status = s, !.version = @ + 1]

\* The draft d with row b of account c, and with row f of apartment a.
WithAccount(d, c, b) == [d EXCEPT !.account = c, !.row = b]
WithFlat(d, a, f) == [d EXCEPT !.home = a, !.flat = f]

-----------------------------------------------------------------------------
NoJob == [op |-> "none", target |-> Absent, status |-> Absent]

None == {Absent}

Bodies(op, target, status) == [op : op, target : target, status : status]

Jobs ==
  Bodies({"signUp", "signUpSuper", "deleteRejected"}, None, None)
  \cup Bodies({"edit", "delete"}, Accounts, None)
  \cup Bodies({"decide"}, Accounts, Statuses)
  \cup Bodies({"decideAll"}, None, Statuses)

Result ==
  {"none", "ok", "ERROR", "USER_NOT_FOUND", "APARTMENT_NOT_FOUND", "ALREADY_IN_USE",
   "NOT_UPDATE_JOINEDSTATUS", "CONCURRENT_MODIFICATION"}

TypeOK ==
  /\ db \in [Accounts -> Row \cup {Absent}]
  /\ apts \in [Apartments -> Apartment \cup {Absent}]
  /\ unused \subseteq Accounts
  /\ outbox \subseteq Requests
  /\ pc \in [Requests -> {"idle", "read", "insert", "doomed", "alarm", "write", "findApt",
                          "writeApt", "commit", "writeAll", "done"}]
  /\ job \in [Requests -> Jobs \cup {NoJob}]
  /\ seen \in [Requests -> Row \cup {Absent}]
  /\ flat \in [Requests -> Apartment \cup {Absent}]
  /\ pending \in [Requests -> SUBSET Accounts]
  /\ draft \in [Requests -> Draft]
  /\ tries \in [Requests -> 0..MaxRetries]
  /\ result \in [Requests -> Result]
  /\ joined \subseteq Requests

SuperRow(r) ==
  [role |-> "SUPER_ADMIN", status |-> "APPROVED", home |-> Absent, version |-> 1, by |-> r]

AdminRow(a, r) ==
  [role |-> "ADMIN", status |-> "PENDING", home |-> a, version |-> 1, by |-> r]

NewApartment(r) == [version |-> 1, by |-> r, founder |-> r]

\* Every administrator came with an apartment; an apartment stays when its
\* administrator is deleted.
Init ==
  /\ db \in [Accounts -> {Absent, SuperRow(Absent)}
       \cup {[AdminRow(a, Absent) EXCEPT !.status = s] : a \in Apartments, s \in Statuses}]
  /\ apts \in [Apartments -> {Absent, NewApartment(Absent)}]
  /\ \A b, c \in Accounts :
       db[b] # Absent /\ db[c] # Absent /\ db[b].home # Absent =>
         apts[db[b].home] # Absent /\ (db[b].home = db[c].home => b = c)
  /\ unused = {c \in Accounts : db[c] = Absent}
  /\ outbox = {}
  /\ pc = [r \in Requests |-> "idle"] /\ job = [r \in Requests |-> NoJob]
  /\ seen = [r \in Requests |-> Absent] /\ flat = [r \in Requests |-> Absent]
  /\ pending = [r \in Requests |-> {}] /\ draft = [r \in Requests |-> NoDraft]
  /\ tries = [r \in Requests |-> 0] /\ result = [r \in Requests |-> "none"]
  /\ joined = {}

-----------------------------------------------------------------------------
(***************************************************************************)
(* The path of a request through its handler and UnitOfWork.doWork.        *)
(***************************************************************************)
tableVars == <<db, apts, unused, outbox, joined>>

Asks(r) == IF pc[r] = "idle" THEN Jobs ELSE IF pc[r] = "read" THEN {job[r]} ELSE {}

\* r asks for j, has read row b, and next makes call p.
Proceed(r, j, b, p) ==
  /\ job' = [job EXCEPT ![r] = j]
  /\ seen' = [seen EXCEPT ![r] = b]
  /\ pc' = [pc EXCEPT ![r] = p]
  /\ UNCHANGED <<flat, pending, draft, tries, result>>

\* r is answered; what its transaction did not commit is rolled back.
Conclude(r, j, res) ==
  /\ job' = [job EXCEPT ![r] = j]
  /\ pc' = [pc EXCEPT ![r] = "done"]
  /\ draft' = [draft EXCEPT ![r] = NoDraft]
  /\ result' = [result EXCEPT ![r] = res]
  /\ UNCHANGED <<seen, flat, pending, tries>>

Answer(r, res) == Conclude(r, job[r], res)

\* The transaction of r has written d and goes on with call p.
Drafted(r, d, p) ==
  /\ draft' = [draft EXCEPT ![r] = d]
  /\ pc' = [pc EXCEPT ![r] = p]
  /\ UNCHANGED <<job, seen, flat, pending, tries, result>>

\* Mutant: one attempt too many.
ConflictOnceMore(r) ==
  /\ tries' = [tries EXCEPT ![r] = @ + 1]
  /\ pc' = [pc EXCEPT ![r] = "read"]
  /\ draft' = [draft EXCEPT ![r] = NoDraft]
  /\ UNCHANGED <<job, seen, flat, pending, result>>

\* OPTIMISTIC_LOCK_FAILED: doWork rolls back and runs the edit once more.
Conflict(r) ==
  \/ /\ tries[r] < MaxRetries
     /\ tries' = [tries EXCEPT ![r] = @ + 1]
     /\ pc' = [pc EXCEPT ![r] = "read"]
     /\ draft' = [draft EXCEPT ![r] = NoDraft]
     /\ UNCHANGED <<job, seen, flat, pending, result>>
  \/ tries[r] = MaxRetries /\ Answer(r, "CONCURRENT_MODIFICATION")

\* Mutant: an update does not wait for the transaction that updated the row.
LockedByNobody(r, S) == FALSE

\* Some row of S was updated by the open transaction of another request.
Locked(r, S) == \E s \in Requests \ {r} : draft[s].account \in S

\* Mutant: the where clause names the id and forgets the version.
RowMatchesById(r, c) == db[c] # Absent

RowMatches(r, c) == db[c] # Absent /\ db[c].version = seen[r].version

-----------------------------------------------------------------------------
(***************************************************************************)
(* createAdmin and createSuperAdmin.                                       *)
(***************************************************************************)
CreateApartment(r) ==
  /\ \E j \in Asks(r) :
       /\ j.op = "signUp"
       /\ \/ Conclude(r, j, "ALREADY_IN_USE")
          \/ \E a \in Apartments :
               /\ apts[a] = Absent /\ \A s \in Requests : draft[s].home # a
               /\ job' = [job EXCEPT ![r] = j] /\ pc' = [pc EXCEPT ![r] = "insert"]
               /\ draft' = [draft EXCEPT ![r] = WithFlat(NoDraft, a, NewApartment(r))]
               /\ UNCHANGED <<seen, flat, pending, tries, result>>
  /\ UNCHANGED tableVars

\* Mutant: what userCommandRepo.create swallows does not end the transaction.
InsertAdminSwallowing(r) ==
  /\ pc[r] = "insert" /\ Drafted(r, draft[r], "alarm")
  /\ UNCHANGED tableVars

\* userCommandRepo.create swallows every error but a unique violation; the
\* database refuses what follows in a transaction with a failed statement.
InsertAdmin(r) ==
  /\ pc[r] = "insert"
  /\ \/ Answer(r, "ALREADY_IN_USE")
     \/ \E c \in unused :
          /\ ~Locked(r, {c})
          /\ Drafted(r, WithAccount(draft[r], c, AdminRow(draft[r].home, r)), "alarm")
     \/ Drafted(r, draft[r], "doomed")
  /\ UNCHANGED tableVars

\* stateCommandRepo.create, in the transaction too.
CreateAlarm(r) ==
  \/ pc[r] = "alarm" /\ Drafted(r, draft[r], "commit") /\ UNCHANGED tableVars
  \/ pc[r] = "doomed" /\ Answer(r, "ERROR") /\ UNCHANGED tableVars

\* createSuperAdmin is one insert without a transaction, approved from the
\* start; an error it swallows is answered like a success.
CreateSuperAdmin(r) ==
  \E j \in Asks(r) :
    /\ j.op = "signUpSuper"
    /\ \/ Conclude(r, j, "ALREADY_IN_USE") /\ UNCHANGED <<db, unused>>
       \/ /\ \E c \in unused :
               /\ ~Locked(r, {c})
               /\ db' = [db EXCEPT ![c] = SuperRow(r)] /\ unused' = unused \ {c}
          /\ Conclude(r, j, "ok")
       \/ Conclude(r, j, "ok") /\ UNCHANGED <<db, unused>>
    /\ UNCHANGED <<apts, outbox, joined>>

-----------------------------------------------------------------------------
(***************************************************************************)
(* updateAdmin.                                                            *)
(***************************************************************************)

\* findAdminById, for the edit, the decision on one request and the delete.
FindAdmin(r) ==
  /\ \E j \in Asks(r) :
       /\ j.op \in {"edit", "decide", "delete"}
       /\ LET b == db[j.target]
              over == j.op = "decide" /\ b.status \in Decided
          IN \/ b = Absent /\ Conclude(r, j, "USER_NOT_FOUND")
             \/ b # Absent /\ over /\ Conclude(r, j, "NOT_UPDATE_JOINEDSTATUS")
             \/ b # Absent /\ ~over /\ Proceed(r, j, b, "write")
  /\ UNCHANGED tableVars

\* Mutant: the update is not part of the transaction.
UpdateAdminAtOnce(r) ==
  LET c == job[r].target
  IN /\ pc[r] = "write" /\ job[r].op = "edit" /\ RowMatches(r, c)
     /\ db' = [db EXCEPT ![c].by = r, ![c].version = @ + 1]
     /\ IF seen[r].home = Absent THEN Answer(r, "ERROR") ELSE Drafted(r, draft[r], "findApt")
     /\ UNCHANGED <<apts, unused, outbox, joined>>

\* userCommandRepo.update; a super administrator has no link to an apartment
\* and the next expression throws.
UpdateAdmin(r) ==
  LET c == job[r].target
  IN /\ pc[r] = "write" /\ job[r].op = "edit" /\ ~Locked(r, {c})
     /\ \/ Answer(r, "ALREADY_IN_USE")
        \/ RowMatches(r, c) /\ seen[r].home = Absent /\ Answer(r, "ERROR")
        \/ /\ RowMatches(r, c) /\ seen[r].home # Absent
           /\ Drafted(r, WithAccount(draft[r], c, Rewritten(db[c], r)), "findApt")
        \/ ~RowMatches(r, c) /\ Conflict(r)
     /\ UNCHANGED tableVars

FindApartment(r) ==
  LET a == seen[r].home
  IN /\ pc[r] = "findApt"
     /\ flat' = [flat EXCEPT ![r] = apts[a]]
     /\ IF apts[a] = Absent
        THEN /\ pc' = [pc EXCEPT ![r] = "done"]
             /\ result' = [result EXCEPT ![r] = "APARTMENT_NOT_FOUND"]
             /\ draft' = [draft EXCEPT ![r] = NoDraft]
        ELSE pc' = [pc EXCEPT ![r] = "writeApt"] /\ UNCHANGED <<result, draft>>
     /\ UNCHANGED <<job, seen, pending, tries, tableVars>>

\* apartmentCommandRepo.update
UpdateApartment(r) ==
  LET a == seen[r].home
  IN /\ pc[r] = "writeApt" /\ \A s \in Requests \ {r} : draft[s].home # a
     /\ \/ Answer(r, "ALREADY_IN_USE")
        \/ /\ apts[a].version = flat[r].version
           /\ Drafted(r, WithFlat(draft[r], a, Rewritten(apts[a], r)), "commit")
        \/ apts[a].version # flat[r].version /\ Conflict(r)
     /\ UNCHANGED tableVars

\* The transaction ends; the answer of the database may get lost.
Commit(r) ==
  LET d == draft[r]
  IN /\ pc[r] = "commit"
     /\ db' = [c \in Accounts |-> IF c = d.account THEN d.row ELSE db[c]]
     /\ apts' = [apts EXCEPT ![d.home] = d.flat]
     /\ unused' = unused \ {d.account}
     /\ outbox' = IF job[r].op = "signUp" THEN outbox \cup {r} ELSE outbox
     /\ joined' = IF job[r].op = "signUp" /\ d.row # Absent THEN joined \cup {r} ELSE joined
     /\ \E res \in {"ok", "ERROR"} : Answer(r, res)

-----------------------------------------------------------------------------
(***************************************************************************)
(* The decisions and the deletes.                                          *)
(***************************************************************************)

\* updateAdminJoinedStatus; a lost race is thrown as it is.
DecideAdmin(r) ==
  LET c == job[r].target
  IN /\ pc[r] = "write" /\ job[r].op = "decide" /\ ~Locked(r, {c})
     /\ \/ /\ RowMatches(r, c)
           /\ db' = [db EXCEPT ![c] = DecidedAs(@, job[r].status)]
           /\ Answer(r, "ok")
        \/ ~RowMatches(r, c) /\ Answer(r, "ERROR") /\ UNCHANGED db
     /\ UNCHANGED <<apts, unused, outbox, joined>>

\* updateAdminJoinedStatuses: findPendingAdminUsers.
FindPending(r) ==
  /\ \E j \in Asks(r) :
       /\ j.op = "decideAll"
       /\ LET found == {c \in Accounts : db[c] # Absent /\ db[c].status = "PENDING"}
          IN \/ found = {} /\ Conclude(r, j, "USER_NOT_FOUND")
             \/ /\ found # {}
                /\ pending' = [pending EXCEPT ![r] = found]
                /\ job' = [job EXCEPT ![r] = j] /\ pc' = [pc EXCEPT ![r] = "writeAll"]
                /\ UNCHANGED <<seen, flat, draft, tries, result>>
  /\ UNCHANGED tableVars

\* updateMany where the id is one of those read, whatever became of them.
DecideAll(r) ==
  /\ pc[r] = "writeAll" /\ ~Locked(r, pending[r])
  /\ db' = [c \in Accounts |->
              IF c \in pending[r] /\ db[c] # Absent
              THEN DecidedAs(db[c], job[r].status)
              ELSE db[c]]
  /\ Answer(r, "ok")
  /\ UNCHANGED <<apts, unused, outbox, joined>>

DeleteAdmin(r) ==
  LET c == job[r].target
  IN /\ pc[r] = "write" /\ job[r].op = "delete" /\ ~Locked(r, {c})
     /\ db' = [db EXCEPT ![c] = Absent]
     /\ Answer(r, "ok")
     /\ UNCHANGED <<apts, unused, outbox, joined>>

DeleteRejected(r) ==
  LET found == {c \in Accounts : db[c] # Absent /\ db[c].role = "ADMIN"
                                                /\ db[c].status = "REJECTED"}
  IN \E j \in Asks(r) :
       /\ j.op = "deleteRejected" /\ ~Locked(r, found)
       /\ db' = [c \in Accounts |-> IF c \in found THEN Absent ELSE db[c]]
       /\ Conclude(r, j, "ok")
       /\ UNCHANGED <<apts, unused, outbox, joined>>

\* A call throws, the five seconds of a transaction are over, or the server
\* stops: an open transaction is rolled back.
Fail(r) ==
  /\ pc[r] \notin {"idle", "done"}
  /\ Answer(r, "ERROR")
  /\ UNCHANGED tableVars

-----------------------------------------------------------------------------
Next ==
  \E r \in Requests :
    \/ CreateApartment(r) \/ InsertAdmin(r) \/ CreateAlarm(r) \/ CreateSuperAdmin(r)
    \/ FindAdmin(r) \/ UpdateAdmin(r) \/ FindApartment(r) \/ UpdateApartment(r) \/ Commit(r)
    \/ DecideAdmin(r) \/ FindPending(r) \/ DecideAll(r)
    \/ DeleteAdmin(r) \/ DeleteRejected(r) \/ Fail(r)

Spec == Init /\ [][Next]_vars

-----------------------------------------------------------------------------
(***************************************************************************)
(* Properties.                                                             *)
(***************************************************************************)

\* An administrator and the apartment always have the data of one request:
\* nobody sees the new name of one beside the old address of the other, and
\* two edits at a time do not each leave a half.
EditsAreWhole ==
  \A c \in Accounts :
    db[c] # Absent /\ db[c].home # Absent =>
      apts[db[c].home] # Absent /\ apts[db[c].home].by = db[c].by

\* A sign-up stores the apartment, the account and the alarm to the super
\* administrators, or nothing; when it is answered with success it stored them,
\* although the insert of the account swallows errors.
SignUpsAreWhole ==
  \A r \in Requests :
    job[r].op = "signUp" =>
      /\ r \in outbox <=> r \in joined
      /\ r \in outbox <=> \E a \in Apartments : apts[a] # Absent /\ apts[a].founder = r
      /\ result[r] = "ok" => r \in joined

\* The version test on the apartment never fails: whoever got as far holds the
\* lock on the only account the apartment can be edited through.
ApartmentIsQuiet ==
  \A r \in Requests : pc[r] = "writeApt" => apts[seen[r].home] = flat[r]

\* Where the account is in the life that JoinRequests describes.
StageOf(c) ==
  IF db[c] # Absent THEN db[c].status ELSE IF c \in unused THEN "unused" ELSE "removed"

Join == INSTANCE JoinRequests WITH
  Entry <- {"PENDING", "APPROVED"},
  stage <- [c \in Accounts |-> StageOf(c)],
  round <- [r \in Requests |-> IF pc[r] = "writeAll" THEN pending[r] ELSE {}]

\* Reads, version tests, retries and writes that interleave amount to the life
\* of a join request: an administrator is decided about once, by nobody who read the
\* account before it was decided, edits and retries change no decision, and
\* only the decision on all requests overturns what it did not see.
ImplementsJoinRequests == Join!Spec
=============================================================================
