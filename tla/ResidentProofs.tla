--------------------------- MODULE ResidentProofs ---------------------------
(***************************************************************************)
(* What holds of module ResidentAccounts for any number of requests,       *)
(* accounts, emails, profiles, passwords and retries.                      *)
(*                                                                         *)
(* The invariant has two layers: Local, which no other request can         *)
(* disturb, and Stored, which relates what requests have read and written  *)
(* to the table.  With both, every step has one of five effects on the     *)
(* table (Effect), from which the theorems follow.                         *)
(***************************************************************************)
EXTENDS ResidentAccounts, TLAPS

\* A request the handlers accept, as the body of a retry finds it.
WellFormed(j) ==
  /\ j \in JobType
  /\ j.op \in {"signUp", "register"} => j.email \in Emails /\ j.profile \in Profiles
  /\ j.op = "signUp" => j.new \in Passwords
  /\ j.op \in {"decide", "edit", "password", "avatar", "delete"} => j.target \in Accounts
  /\ j.op \in {"decide", "decideAll"} => j.status \in Joined
  /\ j.op = "edit" => j.profile \in Profiles
  /\ j.op = "password" => j.old \in Passwords /\ j.new \in Passwords

\* What r knows at the call it makes next: a versioned write has a row that
\* passed the tests of its handler.
FactsOf(r) ==
  /\ pc[r] # "idle" => WellFormed(job[r])
  /\ pc[r] = "insert" => job[r].op \in {"signUp", "register"}
  /\ pc[r] = "writeAll" => job[r].op = "decideAll"
  /\ pc[r] = "write" =>
       /\ job[r].op \in {"signUp", "decide", "edit", "password", "avatar"}
       /\ job[r].target \in Accounts /\ seen[r] \in Row
       /\ job[r].op = "signUp" => seen[r].status = "NOT_JOINED"
       /\ job[r].op = "decide" => seen[r].status \in {"NOT_JOINED", "PENDING"}
       /\ job[r].op = "password" => seen[r].password = job[r].old

Calls == {"idle", "read", "insert", "write", "writeAll", "alarm", "show", "done"}

Local == TypeOK /\ \A r \in Requests : FactsOf(r)

-----------------------------------------------------------------------------
(***************************************************************************)
(* Local.                                                                  *)
(***************************************************************************)
LEMMA JobsAreWellFormed == \A j \in Jobs : WellFormed(j)
  BY DEF Jobs, Bodies, None, WellFormed, JobType, Ops

\* A repeated work asks for what the first attempt asked for.
LEMMA AsksAreWellFormed ==
  ASSUME Local, NEW r \in Requests, NEW j \in Asks(r)
  PROVE  WellFormed(j) /\ pc[r] \in {"idle", "read"}
  BY JobsAreWellFormed DEF Local, FactsOf, Asks

LEMMA FactsAreLocal ==
  ASSUME NEW q \in Requests, FactsOf(q),
         pc'[q] = pc[q], job'[q] = job[q], seen'[q] = seen[q]
  PROVE  FactsOf(q)'
  BY DEF FactsOf, WellFormed

\* What the commands store is a row.
LEMMA RegisteredRow ==
  ASSUME NEW e \in Emails, NEW p \in Profiles
  PROVE  Registered(e, p) \in Row
  BY DEF Registered, Row, Joined

LEMMA AppliedRow ==
  ASSUME NEW e \in Emails, NEW p \in Profiles, NEW w \in Passwords
  PROVE  Applied(e, p, w) \in Row
  BY DEF Applied, Row, Joined

LEMMA NewRowIsRow ==
  ASSUME NEW j, WellFormed(j), j.op \in {"signUp", "register"}
  PROVE  NewRow(j) \in Row
  BY RegisteredRow, AppliedRow DEF NewRow, WellFormed

LEMMA DecidedRow ==
  ASSUME NEW b \in Row, NEW s \in Joined
  PROVE  [b EXCEPT !.status = s, !.version = @ + 1] \in Row
<1>1. [b EXCEPT !.status = s] \in Row /\ [b EXCEPT !.status = s].version = b.version
  BY DEF Row
<1>2. [b EXCEPT !.status = s, !.version = @ + 1] = [[b EXCEPT !.status = s] EXCEPT !.version = b.version + 1]
  BY DEF Row
<1>3. b.version + 1 \in Nat
  BY DEF Row
<1> QED
  BY <1>1, <1>2, <1>3 DEF Row

LEMMA LocalInit == Init => Local
<1> SUFFICES ASSUME Init PROVE Local
  OBVIOUS
<1>1. NoJob \in JobType
  BY DEF NoJob, JobType, Bodies, None, Ops
<1>2. db \in [Accounts -> Row \cup {Absent}]
  <2>1. \A e \in Emails, p \in Profiles : Registered(e, p) \in Row
    BY RegisteredRow
  <2>2. \A e \in Emails, p \in Profiles, w \in Passwords, s \in Joined :
          [Applied(e, p, w) EXCEPT !.status = s] \in Row
    BY DEF Applied, Row
  <2> QED
    BY <2>1, <2>2 DEF Init
<1> QED
  BY <1>1, <1>2, RetriesAreCounted DEF Init, Local, TypeOK, FactsOf, Result

\* A refused or repeated attempt stays within the types.
LEMMA AnswerStep ==
  ASSUME TypeOK, NEW r \in Requests, NEW j \in JobType, NEW res \in Result, Conclude(r, j, res)
  PROVE  /\ pc' \in [Requests -> Calls]
         /\ job' \in [Requests -> JobType] /\ seen' \in [Requests -> Row \cup {Absent}]
         /\ pending' \in [Requests -> SUBSET Accounts] /\ tries' \in [Requests -> 0..MaxRetries]
         /\ result' \in [Requests -> Result]
         /\ pc'[r] = "done" /\ job'[r] = j
         /\ \A q \in Requests : q # r => pc'[q] = pc[q] /\ job'[q] = job[q] /\ seen'[q] = seen[q]
  BY DEF TypeOK, Calls, Conclude

LEMMA ProceedStep ==
  ASSUME TypeOK, NEW r \in Requests, NEW j \in JobType, NEW b \in Row \cup {Absent},
         NEW p \in {"insert", "write"}, Proceed(r, j, b, p)
  PROVE  /\ pc' \in [Requests -> Calls]
         /\ job' \in [Requests -> JobType] /\ seen' \in [Requests -> Row \cup {Absent}]
         /\ pending' \in [Requests -> SUBSET Accounts] /\ tries' \in [Requests -> 0..MaxRetries]
         /\ result' \in [Requests -> Result]
         /\ pc'[r] = p /\ job'[r] = j /\ seen'[r] = b
         /\ \A q \in Requests : q # r => pc'[q] = pc[q] /\ job'[q] = job[q] /\ seen'[q] = seen[q]
  BY DEF TypeOK, Calls, Proceed

\* A conflict repeats the work or ends it.
LEMMA ConflictStep ==
  ASSUME TypeOK, NEW r \in Requests, Conflict(r)
  PROVE  /\ pc' \in [Requests -> Calls] /\ job' = job /\ seen' = seen /\ pending' = pending
         /\ tries' \in [Requests -> 0..MaxRetries] /\ result' \in [Requests -> Result]
         /\ pc'[r] \in {"read", "done"}
         /\ \A q \in Requests : q # r => pc'[q] = pc[q]
<1>1. job[r] \in JobType /\ [job EXCEPT ![r] = job[r]] = job
  BY DEF TypeOK
<1>2. CASE tries[r] < MaxRetries
  <2>1. tries[r] \in Nat /\ tries[r] + 1 \in 0..MaxRetries
    BY <1>2, RetriesAreCounted DEF TypeOK
  <2> QED
    BY <1>2, <2>1 DEF Conflict, TypeOK, Calls, Answer, Conclude
<1>3. CASE tries[r] = MaxRetries /\ Answer(r, LostRace(job[r].op))
  BY <1>1, <1>3 DEF LostRace, TypeOK, Calls, Answer, Conclude, Result
<1> QED
  BY <1>2, <1>3 DEF Conflict

\* A versioned write stores a row where there is one with the version read.
LEMMA VersionedStep ==
  ASSUME Local, NEW r \in Requests, pc[r] = "write", NEW row,
         db[job[r].target] # Absent => row \in Row,
         Versioned(r, row)
  PROVE  Local'
<1> DEFINE c == job[r].target
<1> USE DEF Local
<1>1. c \in Accounts
  BY DEF FactsOf
<1>2. CASE RowMatches(c, seen[r].version)
  <2>1. [row EXCEPT !.version = db[c].version + 1] \in Row
    BY <1>1, <1>2 DEF RowMatches, TypeOK, Row
  <2>2. /\ db' = [db EXCEPT ![c] = [row EXCEPT !.version = db[c].version + 1]]
        /\ written' = written \cup {<<r, c>>} /\ Conclude(r, job[r], "ok")
        /\ UNCHANGED <<unused, outbox>>
    BY <1>2 DEF Versioned, Answer
  <2>3. TypeOK'
    BY <1>1, <2>1, <2>2, AnswerStep DEF TypeOK, Calls, Result
  <2>4. FactsOf(r)'
    BY <2>2 DEF TypeOK, Conclude, FactsOf, WellFormed
  <2>5. ASSUME NEW q \in Requests, q # r PROVE FactsOf(q)'
    BY <2>2, <2>5, FactsAreLocal DEF Conclude, TypeOK
  <2> QED
    BY <2>3, <2>4, <2>5
<1>3. CASE ~RowMatches(c, seen[r].version)
  <2>1. Conflict(r) /\ UNCHANGED <<db, written, unused, outbox>>
    BY <1>3 DEF Versioned
  <2>2. TypeOK'
    BY <2>1, ConflictStep DEF TypeOK, Calls
  <2>3. FactsOf(r)'
    BY <2>1, ConflictStep DEF FactsOf, WellFormed
  <2>4. ASSUME NEW q \in Requests, q # r PROVE FactsOf(q)'
    BY <2>1, <2>4, ConflictStep, FactsAreLocal
  <2> QED
    BY <2>2, <2>3, <2>4
<1> QED
  BY <1>2, <1>3

\* An answer leaves the table and the others alone.
LEMMA RefusalStep ==
  ASSUME Local, NEW r \in Requests, NEW j, WellFormed(j), NEW res \in Result,
         Conclude(r, j, res),
         db' \in [Accounts -> Row \cup {Absent}], unused' \subseteq Accounts,
         outbox' \subseteq Requests, written' \subseteq Requests \X Accounts
  PROVE  Local'
<1> USE DEF Local
<1>1. j \in JobType
  BY DEF WellFormed
<1>2. TypeOK'
  BY <1>1, AnswerStep DEF TypeOK, Calls
<1>3. FactsOf(r)'
  BY <1>1, AnswerStep DEF FactsOf, WellFormed
<1>4. ASSUME NEW q \in Requests, q # r PROVE FactsOf(q)'
  BY <1>1, <1>4, AnswerStep, FactsAreLocal
<1> QED
  BY <1>2, <1>3, <1>4

\* A read takes a request to a write with a row that passed the tests.
LEMMA ReadStep ==
  ASSUME Local, NEW r \in Requests, NEW j, WellFormed(j), NEW b \in Row \cup {Absent},
         NEW p \in {"insert", "write"}, Proceed(r, j, b, p), UNCHANGED tableVars,
         p = "insert" => j.op \in {"signUp", "register"},
         p = "write" =>
           /\ j.op \in {"signUp", "decide", "edit", "password", "avatar"}
           /\ j.target \in Accounts /\ b \in Row
           /\ j.op = "signUp" => b.status = "NOT_JOINED"
           /\ j.op = "decide" => b.status \in {"NOT_JOINED", "PENDING"}
           /\ j.op = "password" => b.password = j.old
  PROVE  Local'
<1> USE DEF Local, tableVars
<1>1. j \in JobType
  BY DEF WellFormed
<1>2. TypeOK'
  BY <1>1, ProceedStep DEF TypeOK, Calls
<1>3. FactsOf(r)'
  BY <1>1, ProceedStep DEF FactsOf, WellFormed
<1>4. ASSUME NEW q \in Requests, q # r PROVE FactsOf(q)'
  BY <1>1, <1>4, ProceedStep, FactsAreLocal
<1> QED
  BY <1>2, <1>3, <1>4

\* Every call keeps the types and what each request knows.
LEMMA LocalStep == Local /\ [Next]_vars => Local'
<1> SUFFICES ASSUME Local, [Next]_vars PROVE Local'
  OBVIOUS
<1>1. ASSUME NEW r \in Requests, FindRegistered(r) PROVE Local'
  <2>1. PICK j \in Asks(r) :
          /\ j.op = "signUp" /\ UNCHANGED tableVars
          /\ \/ Proceed(r, [j EXCEPT !.target = Absent], Absent, "insert")
             \/ \E c \in Accounts :
                  /\ db[c] # Absent /\ db[c].status = "NOT_JOINED"
                  /\ Proceed(r, [j EXCEPT !.target = c], db[c], "write")
             \/ Conclude(r, j, "EMAIL_ALREADY_IN_USE")
    BY <1>1 DEF FindRegistered
  <2>2. WellFormed(j)
    BY AsksAreWellFormed
  <2>3. \A c \in Accounts \cup {Absent} :
          /\ WellFormed([j EXCEPT !.target = c])
          /\ [j EXCEPT !.target = c].op = "signUp" /\ [j EXCEPT !.target = c].target = c
    BY <2>1, <2>2 DEF WellFormed, JobType, Bodies, None
  <2>4. CASE Proceed(r, [j EXCEPT !.target = Absent], Absent, "insert")
    BY <2>1, <2>3, <2>4, ReadStep
  <2>5. ASSUME NEW c \in Accounts, db[c] # Absent, db[c].status = "NOT_JOINED",
               Proceed(r, [j EXCEPT !.target = c], db[c], "write")
        PROVE  Local'
    <3> DEFINE k == [j EXCEPT !.target = c]
    <3>1. WellFormed(k) /\ k.op = "signUp" /\ k.target = c /\ db[c] \in Row
      BY <2>3, <2>5 DEF Local, TypeOK
    <3>2. Proceed(r, k, db[c], "write")
      BY <2>5
    <3> HIDE DEF k
    <3> QED
      BY <2>1, <2>5, <3>1, <3>2, ReadStep
  <2>6. CASE Conclude(r, j, "EMAIL_ALREADY_IN_USE")
    BY <2>1, <2>2, <2>6, RefusalStep DEF Result, tableVars, Local, TypeOK
  <2> QED
    BY <2>1, <2>4, <2>5, <2>6
<1>2. ASSUME NEW r \in Requests, Register(r) PROVE Local'
  BY <1>2, AsksAreWellFormed, ReadStep DEF Register
<1>3. ASSUME NEW r \in Requests, Insert(r) PROVE Local'
  <2>1. WellFormed(job[r]) /\ job[r].op \in {"signUp", "register"}
    BY <1>3 DEF Insert, Local, FactsOf
  <2>2. ASSUME NEW res \in Result, Conclude(r, job[r], res), UNCHANGED tableVars PROVE Local'
    BY <2>1, <2>2, RefusalStep DEF tableVars, Local, TypeOK
  <2>3. ASSUME NEW p \in {"alarm", "show"}, Goto(r, p), UNCHANGED outbox,
               db' \in [Accounts -> Row \cup {Absent}], unused' \subseteq Accounts,
               written' \subseteq Requests \X Accounts
        PROVE  Local'
    <3>1. TypeOK'
      BY <2>3 DEF Goto, Local, TypeOK, Calls
    <3>2. FactsOf(r)'
      BY <2>1, <2>3 DEF Goto, Local, TypeOK, FactsOf, WellFormed
    <3>3. ASSUME NEW q \in Requests, q # r PROVE FactsOf(q)'
      BY <2>3, <3>3, FactsAreLocal DEF Goto, Local, TypeOK
    <3> QED
      BY <3>1, <3>2, <3>3 DEF Local
  <2>4. ASSUME NEW c \in unused, db' = [db EXCEPT ![c] = NewRow(job[r])],
               unused' = unused \ {c}, written' = written \cup {<<r, c>>},
               NEW p \in {"alarm", "show"}, Goto(r, p), UNCHANGED outbox
        PROVE  Local'
    <3>1. NewRow(job[r]) \in Row /\ c \in Accounts
      BY <2>1, NewRowIsRow DEF Local, TypeOK
    <3>2. /\ db' \in [Accounts -> Row \cup {Absent}] /\ unused' \subseteq Accounts
          /\ written' \subseteq Requests \X Accounts
      BY <2>4, <3>1 DEF Local, TypeOK
    <3> QED
      BY <2>3, <2>4, <3>2
  <2>5. ASSUME NEW p \in {"alarm", "show"}, Goto(r, p), UNCHANGED tableVars PROVE Local'
    BY <2>3, <2>5 DEF tableVars, Local, TypeOK
  <2>6. \/ \E res \in Result : Conclude(r, job[r], res) /\ UNCHANGED tableVars
        \/ \E p \in {"alarm", "show"} :
             /\ Goto(r, p)
             /\ \/ UNCHANGED tableVars
                \/ \E c \in unused :
                     /\ db' = [db EXCEPT ![c] = NewRow(job[r])] /\ unused' = unused \ {c}
                     /\ written' = written \cup {<<r, c>>} /\ UNCHANGED outbox
    BY <1>3 DEF Insert, OtherUnique, Answer, Result
  <2> QED
    BY <2>2, <2>4, <2>5, <2>6
<1>4. ASSUME NEW r \in Requests, Promote(r) PROVE Local'
  <2>1. CASE OtherUnique(r)
    BY <1>4, <2>1, RefusalStep DEF Promote, OtherUnique, Answer, Result, tableVars, Local, TypeOK, FactsOf
  <2>2. CASE Versioned(r, Promoted(db[job[r].target], job[r].new))
    <3>1. db[job[r].target] # Absent => Promoted(db[job[r].target], job[r].new) \in Row
      <4>1. /\ db[job[r].target] \in Row \cup {Absent}
            /\ job[r].new \in Passwords
        BY <1>4 DEF Promote, Local, TypeOK, FactsOf, WellFormed
      <4> QED
        BY <4>1 DEF Promoted, Row, Joined
    <3> QED
      BY <1>4, <2>2, <3>1, VersionedStep DEF Promote
  <2> QED
    BY <1>4, <2>1, <2>2 DEF Promote
<1>5. ASSUME NEW r \in Requests, CreateAlarm(r) PROVE Local'
  BY <1>5, RefusalStep DEF CreateAlarm, Answer, Result, Local, TypeOK, FactsOf
<1>6. ASSUME NEW r \in Requests, ShowResident(r) PROVE Local'
  BY <1>6, RefusalStep DEF ShowResident, Answer, Result, tableVars, Local, TypeOK, FactsOf
<1>7. ASSUME NEW r \in Requests, FindToDecide(r) PROVE Local'
  <2>1. PICK j \in Asks(r) :
          /\ j.op = "decide" /\ UNCHANGED tableVars
          /\ \/ \E res \in Result : Conclude(r, j, res)
             \/ /\ db[j.target] # Absent /\ db[j.target].status \notin Decided
                /\ Proceed(r, j, db[j.target], "write")
    BY <1>7 DEF FindToDecide, Result
  <2>2. WellFormed(j)
    BY AsksAreWellFormed
  <2>3. ASSUME NEW res \in Result, Conclude(r, j, res) PROVE Local'
    BY <2>1, <2>2, <2>3, RefusalStep DEF tableVars, Local, TypeOK
  <2>4. ASSUME db[j.target] # Absent, db[j.target].status \notin Decided,
               Proceed(r, j, db[j.target], "write")
        PROVE  Local'
    <3>1. j.target \in Accounts /\ db[j.target] \in Row
      BY <2>1, <2>2, <2>4 DEF WellFormed, Local, TypeOK
    <3>2. db[j.target].status \in {"NOT_JOINED", "PENDING"}
      BY <3>1, <2>4 DEF Row, Joined, Decided
    <3> QED
      BY <2>1, <2>2, <2>4, <3>1, <3>2, ReadStep
  <2> QED
    BY <2>1, <2>3, <2>4
<1>8. ASSUME NEW r \in Requests, Decide(r) PROVE Local'
  <2>1. db[job[r].target] # Absent => [db[job[r].target] EXCEPT !.status = job[r].status] \in Row
    BY <1>8 DEF Decide, Local, TypeOK, FactsOf, WellFormed, Row, Joined
  <2> QED
    BY <1>8, <2>1, VersionedStep DEF Decide
<1>9. ASSUME NEW r \in Requests, FindPending(r) PROVE Local'
  <2>1. PICK j \in Asks(r) :
          /\ j.op = "decideAll" /\ UNCHANGED tableVars
          /\ \/ Conclude(r, j, "USER_NOT_FOUND")
             \/ /\ \E S \in SUBSET Accounts : pending' = [pending EXCEPT ![r] = S]
                /\ job' = [job EXCEPT ![r] = j] /\ pc' = [pc EXCEPT ![r] = "writeAll"]
                /\ UNCHANGED <<seen, tries, result>>
    BY <1>9 DEF FindPending
  <2>2. WellFormed(j) /\ j \in JobType
    BY AsksAreWellFormed DEF WellFormed
  <2>3. CASE Conclude(r, j, "USER_NOT_FOUND")
    BY <2>1, <2>2, <2>3, RefusalStep DEF Result, tableVars, Local, TypeOK
  <2>4. CASE /\ \E S \in SUBSET Accounts : pending' = [pending EXCEPT ![r] = S]
             /\ job' = [job EXCEPT ![r] = j] /\ pc' = [pc EXCEPT ![r] = "writeAll"]
             /\ UNCHANGED <<seen, tries, result>>
    <3>1. TypeOK'
      BY <2>1, <2>2, <2>4 DEF Local, TypeOK, Calls, tableVars
    <3>2. FactsOf(r)'
      BY <2>1, <2>2, <2>4 DEF Local, TypeOK, FactsOf, WellFormed
    <3>3. ASSUME NEW q \in Requests, q # r PROVE FactsOf(q)'
      BY <2>4, <3>3, FactsAreLocal DEF Local, TypeOK
    <3> QED
      BY <3>1, <3>2, <3>3 DEF Local
  <2> QED
    BY <2>1, <2>3, <2>4
<1>10. ASSUME NEW r \in Requests, DecideAll(r) PROVE Local'
  <2>1. WellFormed(job[r]) /\ job[r].status \in Joined
    BY <1>10 DEF DecideAll, Local, FactsOf, WellFormed
  <2>2. db' \in [Accounts -> Row \cup {Absent}]
    <3> SUFFICES ASSUME NEW c \in Accounts PROVE db'[c] \in Row \cup {Absent}
      BY <1>10 DEF DecideAll
    <3> QED
      <4>1. CASE c \in pending[r] /\ db[c] # Absent
        <5>1. db'[c] = [db[c] EXCEPT !.status = job[r].status, !.version = @ + 1]
          BY <1>10, <4>1 DEF DecideAll
        <5>2. db[c] \in Row
          BY <4>1 DEF Local, TypeOK
        <5> QED
          BY <2>1, <5>1, <5>2, DecidedRow
      <4>2. CASE ~(c \in pending[r] /\ db[c] # Absent)
        BY <1>10, <4>2 DEF DecideAll, Local, TypeOK
      <4> QED
        BY <4>1, <4>2
  <2>3. written' \subseteq Requests \X Accounts
    <3>1. pending[r] \subseteq Accounts /\ written \subseteq Requests \X Accounts
      BY DEF Local, TypeOK
    <3>2. written' = written \cup {<<r, c>> : c \in {d \in pending[r] : db[d] # Absent}}
      BY <1>10 DEF DecideAll
    <3> QED
      BY <3>1, <3>2
  <2> QED
    BY <1>10, <2>1, <2>2, <2>3, RefusalStep DEF DecideAll, Answer, Result, Local, TypeOK
<1>11. ASSUME NEW r \in Requests, FindToEdit(r) PROVE Local'
  <2>1. PICK j \in Asks(r) :
          /\ j.op \in {"edit", "avatar"} /\ UNCHANGED tableVars
          /\ \/ Conclude(r, j, "USER_NOT_FOUND")
             \/ db[j.target] # Absent /\ Proceed(r, j, db[j.target], "write")
    BY <1>11 DEF FindToEdit
  <2>2. WellFormed(j)
    BY AsksAreWellFormed
  <2>3. CASE Conclude(r, j, "USER_NOT_FOUND")
    BY <2>1, <2>2, <2>3, RefusalStep DEF Result, tableVars, Local, TypeOK
  <2>4. CASE db[j.target] # Absent /\ Proceed(r, j, db[j.target], "write")
    <3>1. j.target \in Accounts /\ db[j.target] \in Row
      BY <2>1, <2>2, <2>4 DEF WellFormed, Local, TypeOK
    <3> QED
      BY <2>1, <2>2, <2>4, <3>1, ReadStep
  <2> QED
    BY <2>1, <2>3, <2>4
<1>12. ASSUME NEW r \in Requests, Edit(r) PROVE Local'
  <2>1. CASE OtherUnique(r)
    BY <1>12, <2>1, RefusalStep DEF Edit, OtherUnique, Answer, Result, tableVars, Local, TypeOK, FactsOf
  <2>2. CASE Versioned(r, Edited(db[job[r].target], seen[r], job[r].profile))
    <3>1. db[job[r].target] # Absent => Edited(db[job[r].target], seen[r], job[r].profile) \in Row
      <4>1. /\ db[job[r].target] \in Row \cup {Absent}
            /\ seen[r] \in Row /\ job[r].profile \in Profiles
        BY <1>12 DEF Edit, Local, TypeOK, FactsOf, WellFormed
      <4> QED
        BY <4>1 DEF Edited, Row
    <3> QED
      BY <1>12, <2>2, <3>1, VersionedStep DEF Edit
  <2> QED
    BY <1>12, <2>1, <2>2 DEF Edit
<1>13. ASSUME NEW r \in Requests, UpdateAvatar(r) PROVE Local'
  <2>1. db[job[r].target] # Absent => db[job[r].target] \in Row
    BY <1>13 DEF UpdateAvatar, Local, TypeOK, FactsOf
  <2> QED
    BY <1>13, <2>1, VersionedStep DEF UpdateAvatar
<1>14. ASSUME NEW r \in Requests, FindToRekey(r) PROVE Local'
  <2>1. PICK j \in Asks(r) :
          /\ j.op = "password" /\ UNCHANGED tableVars
          /\ \/ \E res \in Result : Conclude(r, j, res)
             \/ /\ db[j.target] # Absent /\ db[j.target].password = j.old
                /\ Proceed(r, j, db[j.target], "write")
    BY <1>14 DEF FindToRekey, Result
  <2>2. WellFormed(j)
    BY AsksAreWellFormed
  <2>3. ASSUME NEW res \in Result, Conclude(r, j, res) PROVE Local'
    BY <2>1, <2>2, <2>3, RefusalStep DEF tableVars, Local, TypeOK
  <2>4. CASE /\ db[j.target] # Absent /\ db[j.target].password = j.old
             /\ Proceed(r, j, db[j.target], "write")
    <3>1. j.target \in Accounts /\ db[j.target] \in Row
      BY <2>1, <2>2, <2>4 DEF WellFormed, Local, TypeOK
    <3> QED
      BY <2>1, <2>2, <2>4, <3>1, ReadStep
  <2> QED
    BY <2>1, <2>3, <2>4
<1>15. ASSUME NEW r \in Requests, UpdatePassword(r) PROVE Local'
  <2>1. db[job[r].target] # Absent => [db[job[r].target] EXCEPT !.password = job[r].new] \in Row
    BY <1>15 DEF UpdatePassword, Local, TypeOK, FactsOf, WellFormed, Row
  <2> QED
    BY <1>15, <2>1, VersionedStep DEF UpdatePassword
<1>16. ASSUME NEW r \in Requests, DeleteResident(r) \/ DeleteRejected(r) PROVE Local'
  <2>1. PICK j \in Asks(r) :
          /\ Conclude(r, j, "ok") /\ UNCHANGED <<unused, outbox, written>>
          /\ db' \in [Accounts -> Row \cup {Absent}]
    BY <1>16 DEF DeleteResident, DeleteRejected, Local, TypeOK
  <2>2. WellFormed(j)
    BY AsksAreWellFormed
  <2> QED
    BY <2>1, <2>2, RefusalStep DEF Result, Local, TypeOK
<1>17. ASSUME NEW r \in Requests, Fail(r) PROVE Local'
  BY <1>17, RefusalStep DEF Fail, Answer, Result, tableVars, Local, TypeOK, FactsOf
<1>18. CASE UNCHANGED vars
  BY <1>18, FactsAreLocal DEF vars, Local, TypeOK
<1> QED
  BY <1>1, <1>2, <1>3, <1>4, <1>5, <1>6, <1>7, <1>8, <1>9, <1>10, <1>11, <1>12, <1>13,
     <1>14, <1>15, <1>16, <1>17, <1>18 DEF Next

\* Every variable keeps its type.
THEOREM TypeCorrect == Spec => []TypeOK
<1>1. Spec => []Local
  BY LocalInit, LocalStep, PTL DEF Spec
<1>2. Local => TypeOK
  BY DEF Local
<1> QED
  BY <1>1, <1>2, PTL

-----------------------------------------------------------------------------
(***************************************************************************)
(* What requests have read and written, and the table.                     *)
(***************************************************************************)

\* A row that was never stored was never read.
IdsUsedOnce == \A c \in unused : db[c] = Absent

\* What a request is about to write over is at least as new as what it read,
\* and of the same version only if it is the same.
Snapshots ==
  \A r \in Requests :
    LET c == job[r].target
    IN pc[r] = "write" =>
         /\ c \notin unused
         /\ db[c] # Absent =>
              /\ seen[r].version <= db[c].version
              /\ seen[r].version = db[c].version => seen[r] = db[c]

\* Who was only registered has no password.
NoPasswordYet ==
  \A c \in Accounts : db[c] # Absent /\ db[c].status = "NOT_JOINED" => db[c].password = Absent

\* The calls after a write.
Answering == {"alarm", "show", "done"}

\* Who has written writes no more.
WritersAnswer ==
  \A r \in Requests, c \in Accounts : <<r, c>> \in written => pc[r] \in Answering /\ c \notin unused

\* An account somebody has signed up for is registered only no longer.
SignUpsJoin ==
  \A r \in Requests, c \in Accounts :
    <<r, c>> \in written /\ job[r].op = "signUp" /\ db[c] # Absent => db[c].status # "NOT_JOINED"

Stored ==
  /\ IdsUsedOnce /\ Snapshots /\ NoPasswordYet /\ WritersAnswer /\ SignUpsJoin
  /\ OneSignUpPerAccount

LEMMA StoredInit == Init => Stored
<1> SUFFICES ASSUME Init PROVE Stored
  OBVIOUS
<1>1. NoPasswordYet
  <2> SUFFICES ASSUME NEW c \in Accounts, db[c] # Absent, db[c].status = "NOT_JOINED"
               PROVE  db[c].password = Absent
    BY DEF NoPasswordYet
  <2>1. CASE \E e \in Emails, p \in Profiles : db[c] = Registered(e, p)
    BY <2>1 DEF Registered
  <2>2. ASSUME NEW e \in Emails, NEW p \in Profiles, NEW w \in Passwords, NEW s \in Joined,
               db[c] = [Applied(e, p, w) EXCEPT !.status = s]
        PROVE  FALSE
    BY <2>2 DEF Applied, Joined
  <2> QED
    BY <2>1, <2>2 DEF Init
<1> QED
  BY <1>1 DEF Init, Stored, IdsUsedOnce, Snapshots, WritersAnswer, SignUpsJoin, OneSignUpPerAccount

-----------------------------------------------------------------------------
(***************************************************************************)
(* The effects of a step.                                                  *)
(***************************************************************************)

Inserting(r, c) ==
  /\ pc[r] = "insert" /\ pc'[r] \in Answering /\ job' = job
  /\ c \in unused /\ db' = [db EXCEPT ![c] = NewRow(job[r])]
  /\ unused' = unused \ {c} /\ written' = written \cup {<<r, c>>}

\* How the request j may change row old into row new.
Rewritten(j, old, new) ==
  \/ /\ j.op = "signUp" /\ old.status = "NOT_JOINED" /\ new.status = "PENDING"
  \/ /\ j.op = "decide" /\ old.status \in {"NOT_JOINED", "PENDING"} /\ new.status = j.status
     /\ j.status \in Joined /\ new.password = old.password
  \/ /\ j.op \in {"edit", "avatar"} /\ new.status = old.status /\ new.password = old.password
  \/ /\ j.op = "password" /\ new.status = old.status /\ j.old = old.password

\* r replaces exactly the row it read.
Rewriting(r, b) ==
  LET c == job[r].target
  IN /\ pc[r] = "write" /\ pc'[r] = "done" /\ job' = job
     /\ c \in Accounts /\ db[c] = seen[r] /\ db[c] \in Row /\ db[c] # Absent
     /\ b \in Row /\ b.version = db[c].version + 1 /\ Rewritten(job[r], db[c], b)
     /\ db' = [db EXCEPT ![c] = b]
     /\ unused' = unused /\ written' = written \cup {<<r, c>>}

DecidingAll(r) ==
  LET found == {c \in pending[r] : db[c] # Absent}
  IN /\ pc[r] = "writeAll" /\ pc'[r] = "done" /\ job' = job
     /\ job[r].op = "decideAll" /\ job[r].status \in Joined
     /\ db' = [c \in Accounts |->
                 IF c \in found THEN [db[c] EXCEPT !.status = job[r].status, !.version = @ + 1]
                 ELSE db[c]]
     /\ unused' = unused /\ written' = written \cup {<<r, c>> : c \in found}

\* One account is deleted, or several that were rejected.
Removing(S) ==
  /\ \/ \E c \in Accounts : S = {c}
     \/ \A c \in S : db[c] # Absent /\ db[c].status = "REJECTED"
  /\ db' = [c \in Accounts |-> IF c \in S THEN Absent ELSE db[c]]
  /\ UNCHANGED <<unused, written>>

Effect ==
  \/ UNCHANGED <<db, unused, written>>
  \/ \E r \in Requests, c \in Accounts : Inserting(r, c)
  \/ \E r \in Requests, b \in Row : Rewriting(r, b)
  \/ \E r \in Requests : DecidingAll(r)
  \/ \E S \in SUBSET Accounts : Removing(S)

\* Nobody comes to a write but with the row as it is, and nobody leaves the
\* calls after it.
Paths ==
  \A q \in Requests :
    /\ pc'[q] = "write" =>
         \/ pc[q] = "write" /\ job'[q] = job[q] /\ seen'[q] = seen[q]
         \/ /\ UNCHANGED <<db, unused, written>> /\ job'[q].target \in Accounts
            /\ seen'[q] = db[job'[q].target] /\ seen'[q] # Absent
    /\ pc[q] \in Answering => pc'[q] \in Answering /\ job'[q] = job[q]

LEMMA AnswerPaths ==
  ASSUME TypeOK, NEW r \in Requests, NEW j, NEW res, Conclude(r, j, res),
         pc[r] \in Answering => j = job[r]
  PROVE  Paths
  BY DEF TypeOK, Conclude, Paths, Answering

LEMMA ReadPaths ==
  ASSUME TypeOK, NEW r \in Requests, pc[r] \in {"idle", "read"}, NEW j, NEW b,
         NEW p \in {"insert", "write"}, Proceed(r, j, b, p), UNCHANGED tableVars,
         p = "write" => j.target \in Accounts /\ b = db[j.target] /\ b # Absent
  PROVE  Effect /\ Paths
  BY DEF TypeOK, Proceed, Paths, Answering, Effect, tableVars

LEMMA RefusalEffect ==
  ASSUME TypeOK, NEW r \in Requests, NEW j, NEW res, Conclude(r, j, res), UNCHANGED tableVars,
         pc[r] \in Answering => j = job[r]
  PROVE  Effect /\ Paths
  BY AnswerPaths DEF Effect, tableVars

LEMMA VersionedEffect ==
  ASSUME Local, Snapshots, NEW r \in Requests, pc[r] = "write", NEW row, Versioned(r, row),
         db[job[r].target] # Absent /\ db[job[r].target] = seen[r] =>
           row \in Row /\ Rewritten(job[r], db[job[r].target], row)
  PROVE  Effect /\ Paths
<1> DEFINE c == job[r].target
           b == [row EXCEPT !.version = db[c].version + 1]
<1> USE DEF Local
<1>1. c \in Accounts /\ seen[r] \in Row
  BY DEF FactsOf
<1>2. CASE RowMatches(c, seen[r].version)
  <2>1. db[c] = seen[r] /\ db[c] # Absent /\ db[c] \in Row
    BY <1>1, <1>2 DEF RowMatches, Snapshots, TypeOK
  <2>2. /\ db' = [db EXCEPT ![c] = b] /\ Conclude(r, job[r], "ok")
        /\ written' = written \cup {<<r, c>>} /\ UNCHANGED <<unused, outbox>>
    BY <1>2 DEF Versioned, Answer
  <2>3. /\ b \in Row /\ b.version = db[c].version + 1 /\ b.status = row.status
        /\ b.password = row.password
    BY <2>1 DEF Row
  <2>4. Rewritten(job[r], db[c], b)
    BY <2>1, <2>3 DEF Rewritten
  <2>5. pc'[r] = "done" /\ job' = job
    BY <2>2 DEF Conclude, TypeOK
  <2> HIDE DEF b
  <2>6. Rewriting(r, b)
    BY <1>1, <2>1, <2>2, <2>3, <2>4, <2>5 DEF Rewriting
  <2> QED
    BY <2>2, <2>3, <2>6, AnswerPaths DEF Effect
<1>3. CASE ~RowMatches(c, seen[r].version)
  <2>1. Conflict(r) /\ UNCHANGED <<db, written, unused>>
    BY <1>3 DEF Versioned
  <2>2. Paths
    BY <2>1, ConflictStep DEF Paths, Answering
  <2> QED
    BY <2>1, <2>2 DEF Effect
<1> QED
  BY <1>2, <1>3

\* Every step has one of the effects.
LEMMA StepEffect == Local /\ Stored /\ [Next]_vars => Effect /\ Paths
<1> SUFFICES ASSUME Local, Stored, [Next]_vars PROVE Effect /\ Paths
  OBVIOUS
<1> USE DEF Local
<1>1. ASSUME NEW r \in Requests, FindRegistered(r) PROVE Effect /\ Paths
  <2>1. PICK j \in Asks(r) :
          /\ UNCHANGED tableVars
          /\ \/ Proceed(r, [j EXCEPT !.target = Absent], Absent, "insert")
             \/ \E c \in Accounts :
                  db[c] # Absent /\ Proceed(r, [j EXCEPT !.target = c], db[c], "write")
             \/ Conclude(r, j, "EMAIL_ALREADY_IN_USE")
    BY <1>1 DEF FindRegistered
  <2>2. pc[r] \in {"idle", "read"} /\ j \in JobType
    BY AsksAreWellFormed DEF WellFormed
  <2>3. CASE Proceed(r, [j EXCEPT !.target = Absent], Absent, "insert")
    BY <2>1, <2>2, <2>3, ReadPaths
  <2>4. ASSUME NEW c \in Accounts, db[c] # Absent,
               Proceed(r, [j EXCEPT !.target = c], db[c], "write")
        PROVE  Effect /\ Paths
    <3> DEFINE k == [j EXCEPT !.target = c]
    <3>1. k.target = c /\ Proceed(r, k, db[c], "write")
      BY <2>2, <2>4 DEF JobType, Bodies
    <3> HIDE DEF k
    <3> QED
      BY <2>1, <2>2, <2>4, <3>1, ReadPaths
  <2>5. CASE Conclude(r, j, "EMAIL_ALREADY_IN_USE")
    BY <2>1, <2>2, <2>5, RefusalEffect DEF Answering
  <2> QED
    BY <2>1, <2>3, <2>4, <2>5
<1>2. ASSUME NEW r \in Requests, Register(r) PROVE Effect /\ Paths
  BY <1>2, AsksAreWellFormed, ReadPaths DEF Register
<1>3. ASSUME NEW r \in Requests, Insert(r) PROVE Effect /\ Paths
  <2>1. ASSUME NEW res, Conclude(r, job[r], res), UNCHANGED tableVars PROVE Effect /\ Paths
    BY <2>1, RefusalEffect
  <2>2. ASSUME NEW p \in {"alarm", "show"}, Goto(r, p)
        PROVE  Paths /\ pc'[r] \in Answering /\ job' = job
    BY <1>3, <2>2 DEF Insert, Goto, Paths, Answering, TypeOK
  <2>3. \/ \E res \in Result : Conclude(r, job[r], res) /\ UNCHANGED tableVars
        \/ \E p \in {"alarm", "show"} :
             /\ Goto(r, p)
             /\ \/ UNCHANGED tableVars
                \/ \E c \in unused :
                     /\ db' = [db EXCEPT ![c] = NewRow(job[r])] /\ unused' = unused \ {c}
                     /\ written' = written \cup {<<r, c>>}
    BY <1>3 DEF Insert, OtherUnique, Answer, Result
  <2>4. ASSUME NEW p \in {"alarm", "show"}, Goto(r, p), UNCHANGED tableVars PROVE Effect /\ Paths
    BY <2>2, <2>4 DEF Effect, tableVars
  <2>5. ASSUME NEW p \in {"alarm", "show"}, Goto(r, p), NEW c \in unused,
               db' = [db EXCEPT ![c] = NewRow(job[r])], unused' = unused \ {c},
               written' = written \cup {<<r, c>>}
        PROVE  Effect /\ Paths
    <3>1. Inserting(r, c) /\ c \in Accounts
      BY <1>3, <2>2, <2>5 DEF Insert, Inserting, TypeOK
    <3> QED
      BY <2>2, <2>5, <3>1 DEF Effect
  <2> QED
    BY <2>1, <2>3, <2>4, <2>5
<1>4. ASSUME NEW r \in Requests, Promote(r) PROVE Effect /\ Paths
  <2>1. CASE OtherUnique(r)
    BY <2>1, RefusalEffect DEF OtherUnique, Answer
  <2>2. CASE Versioned(r, Promoted(db[job[r].target], job[r].new))
    <3> DEFINE b == Promoted(seen[r], job[r].new)
    <3>1. /\ seen[r] \in Row /\ seen[r].status = "NOT_JOINED" /\ job[r].new \in Passwords
          /\ job[r].op = "signUp" /\ pc[r] = "write"
      BY <1>4 DEF Promote, FactsOf, WellFormed
    <3>2. b \in Row /\ b.status = "PENDING"
      BY <3>1 DEF Promoted, Row, Joined
    <3>3. Rewritten(job[r], seen[r], b)
      BY <3>1, <3>2 DEF Rewritten
    <3> HIDE DEF b
    <3>4. db[job[r].target] = seen[r] => Promoted(db[job[r].target], job[r].new) = b
      BY DEF b
    <3> QED
      BY <2>2, <3>1, <3>2, <3>3, <3>4, VersionedEffect DEF Stored
  <2> QED
    BY <1>4, <2>1, <2>2 DEF Promote
<1>5. ASSUME NEW r \in Requests, CreateAlarm(r) PROVE Effect /\ Paths
  BY <1>5, AnswerPaths DEF CreateAlarm, Answer, Effect
<1>6. ASSUME NEW r \in Requests, ShowResident(r) \/ Fail(r) PROVE Effect /\ Paths
  BY <1>6, RefusalEffect DEF ShowResident, Fail, Answer
<1>7. ASSUME NEW r \in Requests, NEW j \in Asks(r), NEW res, Conclude(r, j, res),
             UNCHANGED tableVars
      PROVE  Effect /\ Paths
  BY <1>7, AsksAreWellFormed, RefusalEffect DEF Answering
<1>8. ASSUME NEW r \in Requests, NEW j \in Asks(r), db[j.target] # Absent,
             Proceed(r, j, db[j.target], "write"), UNCHANGED tableVars,
             j.op \in {"decide", "edit", "avatar", "password"}
      PROVE  Effect /\ Paths
  <2>1. j.target \in Accounts /\ pc[r] \in {"idle", "read"}
    BY <1>8, AsksAreWellFormed DEF WellFormed
  <2> QED
    BY <1>8, <2>1, ReadPaths
<1>9. ASSUME NEW r \in Requests, FindToDecide(r) \/ FindToEdit(r) \/ FindToRekey(r)
      PROVE  Effect /\ Paths
  BY <1>7, <1>8, <1>9 DEF FindToDecide, FindToEdit, FindToRekey
<1>10. ASSUME NEW r \in Requests, Decide(r) PROVE Effect /\ Paths
  <2> DEFINE b == [seen[r] EXCEPT !.status = job[r].status]
  <2>1. /\ seen[r] \in Row /\ seen[r].status \in {"NOT_JOINED", "PENDING"}
        /\ job[r].status \in Joined /\ job[r].op = "decide" /\ pc[r] = "write"
    BY <1>10 DEF Decide, FactsOf, WellFormed
  <2>2. b \in Row /\ b.status = job[r].status /\ b.password = seen[r].password
    BY <2>1 DEF Row
  <2>3. Rewritten(job[r], seen[r], b)
    BY <2>1, <2>2 DEF Rewritten
  <2> HIDE DEF b
  <2>4. db[job[r].target] = seen[r] => [db[job[r].target] EXCEPT !.status = job[r].status] = b
    BY DEF b
  <2> QED
    BY <1>10, <2>1, <2>2, <2>3, <2>4, VersionedEffect DEF Stored, Decide
<1>11. ASSUME NEW r \in Requests, FindPending(r) PROVE Effect /\ Paths
  <2>1. PICK j \in Asks(r) :
          /\ UNCHANGED tableVars
          /\ \/ Conclude(r, j, "USER_NOT_FOUND")
             \/ /\ job' = [job EXCEPT ![r] = j] /\ pc' = [pc EXCEPT ![r] = "writeAll"]
                /\ UNCHANGED <<seen, tries, result>>
    BY <1>11 DEF FindPending
  <2>2. CASE /\ job' = [job EXCEPT ![r] = j] /\ pc' = [pc EXCEPT ![r] = "writeAll"]
             /\ UNCHANGED <<seen, tries, result>>
    BY <2>1, <2>2, AsksAreWellFormed DEF TypeOK, Effect, Paths, Answering, tableVars
  <2> QED
    BY <1>7, <2>1, <2>2
<1>12. ASSUME NEW r \in Requests, DecideAll(r) PROVE Effect /\ Paths
  <2>1. job[r].op = "decideAll" /\ job[r].status \in Joined /\ Conclude(r, job[r], "ok")
    BY <1>12 DEF DecideAll, FactsOf, WellFormed, Answer
  <2>2. pc'[r] = "done" /\ job' = job
    BY <2>1 DEF Conclude, TypeOK
  <2>3. DecidingAll(r)
    BY <1>12, <2>1, <2>2 DEF DecideAll, DecidingAll
  <2> QED
    BY <2>1, <2>3, AnswerPaths DEF Effect
<1>13. ASSUME NEW r \in Requests, Edit(r) PROVE Effect /\ Paths
  <2>1. CASE OtherUnique(r)
    BY <2>1, RefusalEffect DEF OtherUnique, Answer
  <2>2. CASE Versioned(r, Edited(db[job[r].target], seen[r], job[r].profile))
    <3> DEFINE b == Edited(seen[r], seen[r], job[r].profile)
    <3>1. seen[r] \in Row /\ job[r].profile \in Profiles /\ job[r].op = "edit" /\ pc[r] = "write"
      BY <1>13 DEF Edit, FactsOf, WellFormed
    <3>2. b \in Row /\ b.status = seen[r].status /\ b.password = seen[r].password
      BY <3>1 DEF Edited, Row
    <3>3. Rewritten(job[r], seen[r], b)
      BY <3>1, <3>2 DEF Rewritten
    <3> HIDE DEF b
    <3>4. db[job[r].target] = seen[r] =>
            Edited(db[job[r].target], seen[r], job[r].profile) = b
      BY DEF b
    <3> QED
      BY <2>2, <3>1, <3>2, <3>3, <3>4, VersionedEffect DEF Stored
  <2> QED
    BY <1>13, <2>1, <2>2 DEF Edit
<1>14. ASSUME NEW r \in Requests, UpdateAvatar(r) PROVE Effect /\ Paths
  <2>1. seen[r] \in Row /\ job[r].op = "avatar" /\ pc[r] = "write"
    BY <1>14 DEF UpdateAvatar, FactsOf
  <2>2. Rewritten(job[r], seen[r], seen[r])
    BY <2>1 DEF Rewritten
  <2> QED
    BY <1>14, <2>1, <2>2, VersionedEffect DEF Stored, UpdateAvatar
<1>15. ASSUME NEW r \in Requests, UpdatePassword(r) PROVE Effect /\ Paths
  <2> DEFINE b == [seen[r] EXCEPT !.password = job[r].new]
  <2>1. /\ seen[r] \in Row /\ seen[r].password = job[r].old /\ job[r].new \in Passwords
        /\ job[r].op = "password" /\ pc[r] = "write"
    BY <1>15 DEF UpdatePassword, FactsOf, WellFormed
  <2>2. b \in Row /\ b.status = seen[r].status
    BY <2>1 DEF Row
  <2>3. Rewritten(job[r], seen[r], b)
    BY <2>1, <2>2 DEF Rewritten
  <2> HIDE DEF b
  <2>4. db[job[r].target] = seen[r] => [db[job[r].target] EXCEPT !.password = job[r].new] = b
    BY DEF b
  <2> QED
    BY <1>15, <2>1, <2>2, <2>3, <2>4, VersionedEffect DEF Stored, UpdatePassword
<1>16. ASSUME NEW r \in Requests, DeleteResident(r) PROVE Effect /\ Paths
  <2>1. PICK j \in Asks(r) :
          /\ j.op = "delete" /\ db' = [db EXCEPT ![j.target] = Absent]
          /\ Conclude(r, j, "ok") /\ UNCHANGED <<unused, written>>
    BY <1>16 DEF DeleteResident
  <2>2. j.target \in Accounts /\ pc[r] \in {"idle", "read"}
    BY <2>1, AsksAreWellFormed DEF WellFormed
  <2>3. Removing({j.target})
    BY <2>1, <2>2 DEF Removing, TypeOK
  <2> QED
    BY <2>1, <2>2, <2>3, AnswerPaths DEF Effect, Answering
<1>17. ASSUME NEW r \in Requests, DeleteRejected(r) PROVE Effect /\ Paths
  <2> DEFINE S == {c \in Accounts : db[c] # Absent /\ db[c].status = "REJECTED"}
  <2>1. PICK j \in Asks(r) :
          /\ db' = [c \in Accounts |->
                      IF db[c] # Absent /\ db[c].status = "REJECTED" THEN Absent ELSE db[c]]
          /\ Conclude(r, j, "ok") /\ UNCHANGED <<unused, written>>
    BY <1>17 DEF DeleteRejected
  <2>2. Removing(S)
    BY <2>1 DEF Removing
  <2> QED
    BY <2>1, <2>2, AsksAreWellFormed, AnswerPaths DEF Effect, Answering
<1>18. CASE UNCHANGED vars
  BY <1>18 DEF vars, Effect, Paths
<1> QED
  BY <1>1, <1>2, <1>3, <1>4, <1>5, <1>6, <1>9, <1>10, <1>11, <1>12, <1>13, <1>14, <1>15,
     <1>16, <1>17, <1>18 DEF Next

-----------------------------------------------------------------------------
(***************************************************************************)
(* The effects keep Stored.                                                *)
(***************************************************************************)

\* A row that is replaced is replaced by a newer one.
LEMMA SnapshotsStep ==
  ASSUME Local, IdsUsedOnce, Snapshots, Paths, unused' \subseteq unused,
         \A c \in Accounts \ unused :
           \/ db'[c] = db[c] \/ db'[c] = Absent
           \/ db[c] # Absent /\ db'[c].version \in Nat /\ db'[c].version > db[c].version
  PROVE  Snapshots'
<1> SUFFICES ASSUME NEW q \in Requests, pc'[q] = "write"
             PROVE  /\ job'[q].target \notin unused'
                    /\ db'[job'[q].target] # Absent =>
                         /\ seen'[q].version <= db'[job'[q].target].version
                         /\ seen'[q].version = db'[job'[q].target].version =>
                              seen'[q] = db'[job'[q].target]
  BY DEF Snapshots
<1>1. CASE pc[q] = "write" /\ job'[q] = job[q] /\ seen'[q] = seen[q]
  <2> DEFINE c == job[q].target
  <2>1. /\ c \in Accounts /\ c \notin unused /\ seen[q] \in Row
        /\ db[c] # Absent => db[c] \in Row
    BY <1>1 DEF Local, FactsOf, Snapshots, TypeOK
  <2>2. seen[q].version \in Nat /\ (db[c] # Absent => db[c].version \in Nat)
    BY <2>1 DEF Row
  <2>3. db[c] # Absent =>
          /\ seen[q].version <= db[c].version
          /\ seen[q].version = db[c].version => seen[q] = db[c]
    BY <1>1 DEF Snapshots
  <2>4. \/ db'[c] = db[c] \/ db'[c] = Absent
        \/ db[c] # Absent /\ db'[c].version \in Nat /\ db'[c].version > db[c].version
    BY <2>1
  <2>5. job'[q].target = c /\ c \notin unused'
    BY <1>1, <2>1
  <2> HIDE DEF c
  <2> QED
    BY <1>1, <2>2, <2>3, <2>4, <2>5
<1>2. CASE /\ UNCHANGED <<db, unused, written>> /\ job'[q].target \in Accounts
           /\ seen'[q] = db[job'[q].target] /\ seen'[q] # Absent
  <2>1. seen'[q] \in Row /\ job'[q].target \notin unused
    BY <1>2 DEF Local, TypeOK, IdsUsedOnce
  <2> QED
    BY <1>2, <2>1 DEF Row
<1> QED
  BY <1>1, <1>2 DEF Paths

\* Who has written keeps its request.
LEMMA WritersStay ==
  ASSUME Stored, Paths, NEW q \in Requests, NEW c \in Accounts, <<q, c>> \in written
  PROVE  pc'[q] \in Answering /\ job'[q] = job[q]
  BY DEF Stored, WritersAnswer, Paths

LEMMA StoredStep == Local /\ Stored /\ [Next]_vars => Stored'
<1> SUFFICES ASSUME Local, Stored, Effect, Paths PROVE Stored'
  BY StepEffect
<1> USE DEF Local, TypeOK
<1>1. CASE UNCHANGED <<db, unused, written>>
  <2>1. Snapshots'
    BY <1>1, SnapshotsStep DEF Stored
  <2> QED
    BY <1>1, <2>1, WritersStay
       DEF Stored, IdsUsedOnce, NoPasswordYet, WritersAnswer, SignUpsJoin, OneSignUpPerAccount
<1>2. ASSUME NEW r \in Requests, NEW c \in Accounts, Inserting(r, c) PROVE Stored'
  <2> DEFINE b == NewRow(job[r])
  <2>1. /\ b \in Row /\ b # Absent
        /\ b.status = "NOT_JOINED" => b.password = Absent
        /\ b.status = "NOT_JOINED" => job[r].op # "signUp"
    <3>1. WellFormed(job[r]) /\ job[r].op \in {"signUp", "register"}
      BY <1>2 DEF Inserting, FactsOf
    <3> QED
      BY <3>1, NewRowIsRow, AbsentIsNoData DEF NewRow, Applied, Registered
  <2> HIDE DEF b
  <2>2. /\ db' = [db EXCEPT ![c] = b] /\ unused' = unused \ {c} /\ c \in unused
        /\ written' = written \cup {<<r, c>>} /\ job' = job /\ pc'[r] \in Answering
    BY <1>2 DEF Inserting, b
  <2>3. Snapshots'
    BY <2>2, SnapshotsStep DEF Stored
  <2>4. IdsUsedOnce' /\ NoPasswordYet'
    BY <2>1, <2>2 DEF Stored, IdsUsedOnce, NoPasswordYet
  <2>5. \A q \in Requests : <<q, c>> \notin written
    BY <2>2 DEF Stored, WritersAnswer
  <2>6. WritersAnswer'
    BY <2>2, WritersStay DEF Stored, WritersAnswer
  <2>7. SignUpsJoin'
    BY <2>1, <2>2, <2>5 DEF Stored, SignUpsJoin
  <2>8. OneSignUpPerAccount'
    BY <2>2, <2>5 DEF Stored, OneSignUpPerAccount
  <2> QED
    BY <2>3, <2>4, <2>6, <2>7, <2>8 DEF Stored
<1>3. ASSUME NEW r \in Requests, NEW b \in Row, Rewriting(r, b) PROVE Stored'
  <2> DEFINE c == job[r].target
  <2>1. /\ pc[r] = "write" /\ pc'[r] \in Answering /\ job' = job /\ c \in Accounts
        /\ db[c] = seen[r] /\ db[c] \in Row /\ db[c] # Absent
        /\ b # Absent /\ b.version = db[c].version + 1 /\ Rewritten(job[r], db[c], b)
        /\ db' = [db EXCEPT ![c] = b] /\ unused' = unused /\ written' = written \cup {<<r, c>>}
    BY <1>3, AbsentIsNoData DEF Rewriting, Answering
  <2>2. c \notin unused
    BY <2>1 DEF Stored, Snapshots
  <2>3. Snapshots'
    <3>1. db[c].version \in Nat
      BY <2>1 DEF Row
    <3> QED
      BY <2>1, <3>1, SnapshotsStep DEF Stored
  <2>4. IdsUsedOnce'
    BY <2>1, <2>2 DEF Stored, IdsUsedOnce
  <2>5. \/ b.status # "NOT_JOINED" /\ (job[r].op = "signUp" => db[c].status = "NOT_JOINED")
        \/ /\ b.status = db[c].status /\ b.status = "NOT_JOINED" /\ job[r].op # "signUp"
           /\ b.password = db[c].password
    <3>1. job[r].op = "password" => db[c].status # "NOT_JOINED"
      <4>1. job[r].op = "password" => db[c].password \in Passwords
        BY <2>1 DEF FactsOf, WellFormed
      <4> QED
        BY <2>1, <4>1, AbsentIsNoData DEF Stored, NoPasswordYet
    <3> QED
      BY <2>1, <3>1 DEF Rewritten, Joined
  <2>6. NoPasswordYet'
    BY <2>1, <2>5 DEF Stored, NoPasswordYet
  <2>7. WritersAnswer'
    BY <2>1, <2>2, WritersStay DEF Stored, WritersAnswer
  <2>8. SignUpsJoin'
    BY <2>1, <2>5 DEF Stored, SignUpsJoin
  <2>9. OneSignUpPerAccount'
    <3>1. job[r].op = "signUp" =>
            \A q \in Requests : <<q, c>> \in written => job[q].op # "signUp"
      BY <2>1, <2>5 DEF Stored, SignUpsJoin
    <3> QED
      BY <2>1, <3>1 DEF Stored, OneSignUpPerAccount
  <2> QED
    BY <2>3, <2>4, <2>6, <2>7, <2>8, <2>9 DEF Stored
<1>4. ASSUME NEW r \in Requests, DecidingAll(r) PROVE Stored'
  <2> DEFINE found == {c \in pending[r] : db[c] # Absent}
  <2>1. /\ job[r].status \in Joined /\ job[r].op = "decideAll" /\ job' = job
        /\ pc'[r] \in Answering /\ unused' = unused
        /\ written' = written \cup {<<r, c>> : c \in found}
        /\ \A c \in Accounts \ found : db'[c] = db[c]
        /\ found \subseteq Accounts \ unused
    BY <1>4 DEF DecidingAll, Answering, Stored, IdsUsedOnce
  <2>2. ASSUME NEW c \in found
        PROVE  /\ db[c] # Absent /\ db'[c] # Absent /\ db'[c].status # "NOT_JOINED"
               /\ db'[c].version \in Nat /\ db'[c].version > db[c].version
    <3>1. c \in Accounts /\ db[c] \in Row
      BY DEF found
    <3>2. db'[c] = [db[c] EXCEPT !.status = job[r].status, !.version = @ + 1]
      BY <1>4, <3>1 DEF DecidingAll
    <3>3. db'[c] \in Row
      <4>1. [db[c] EXCEPT !.status = job[r].status, !.version = @ + 1] \in Row
        BY ONLY <2>1, <3>1, DecidedRow
      <4> QED
        BY ONLY <3>2, <4>1
    <3>4. db'[c].status = job[r].status /\ db'[c].version = db[c].version + 1
      BY <3>1, <3>2 DEF Row
    <3>5. db[c].version \in Nat
      BY <3>1 DEF Row
    <3> QED
      BY <2>1, <3>3, <3>4, <3>5, AbsentIsNoData DEF Joined
  <2> HIDE DEF found
  <2>3. Snapshots'
    BY <2>1, <2>2, SnapshotsStep DEF Stored
  <2>4. IdsUsedOnce' /\ NoPasswordYet'
    BY <2>1, <2>2 DEF Stored, IdsUsedOnce, NoPasswordYet
  <2>5. ASSUME NEW q \in Requests, NEW c \in Accounts, <<q, c>> \in written'
        PROVE  \/ <<q, c>> \in written
               \/ q = r /\ c \in found
    BY <2>1, <2>5
  <2>6. WritersAnswer'
    BY <2>1, <2>5, WritersStay DEF Stored, WritersAnswer
  <2>7. SignUpsJoin'
    BY <2>1, <2>2, <2>5 DEF Stored, SignUpsJoin
  <2>8. OneSignUpPerAccount'
    BY <2>1, <2>5 DEF Stored, OneSignUpPerAccount
  <2> QED
    BY <2>3, <2>4, <2>6, <2>7, <2>8 DEF Stored
<1>5. ASSUME NEW S \in SUBSET Accounts, Removing(S) PROVE Stored'
  <2>1. /\ \A c \in Accounts : db'[c] = db[c] \/ db'[c] = Absent
        /\ UNCHANGED <<unused, written>>
    BY <1>5 DEF Removing
  <2>2. Snapshots'
    BY <2>1, SnapshotsStep DEF Stored
  <2> QED
    BY <2>1, <2>2, WritersStay
       DEF Stored, IdsUsedOnce, NoPasswordYet, WritersAnswer, SignUpsJoin, OneSignUpPerAccount
<1> QED
  BY <1>1, <1>2, <1>3, <1>4, <1>5 DEF Effect

LEMMA Invariants == Spec => [](Local /\ Stored)
<1>1. Init => Local /\ Stored
  BY LocalInit, StoredInit
<1>2. Local /\ Stored /\ [Next]_vars => (Local /\ Stored)'
  BY LocalStep, StoredStep
<1> QED
  BY <1>1, <1>2, PTL DEF Spec

-----------------------------------------------------------------------------
(***************************************************************************)
(* The theorems.                                                           *)
(***************************************************************************)

\* No write under a version test is computed from columns that are gone.
THEOREM RowsAreCurrent == Spec => []SnapshotIntegrity
<1>1. Local /\ Stored => SnapshotIntegrity
  BY DEF Stored, Snapshots, SnapshotIntegrity, RowMatches
<1> QED
  BY <1>1, Invariants, PTL

\* No two sign-ups take the same account.
THEOREM SignUpsAreAlone == Spec => []OneSignUpPerAccount
<1>1. Stored => OneSignUpPerAccount
  BY DEF Stored
<1> QED
  BY <1>1, Invariants, PTL

\* A password is replaced by nobody who did not know it.
THEOREM PasswordsAreProved == Spec => PasswordIsProved
<1> DEFINE Proved ==
      \A c \in Accounts :
        /\ db[c] # Absent /\ db[c].password # Absent
        /\ db'[c] # Absent /\ db'[c].password # db[c].password
        => \E r \in Requests : /\ pc[r] = "write" /\ job[r].target = c
                                /\ job[r].op = "password" /\ job[r].old = db[c].password
<1>1. ASSUME Local, Stored, Effect PROVE Proved
  <2> USE <1>1 DEF Local, TypeOK
  <2>1. ASSUME NEW r \in Requests, NEW c \in Accounts, Inserting(r, c) PROVE Proved
    BY <2>1 DEF Inserting, Stored, IdsUsedOnce
  <2>2. ASSUME NEW r \in Requests, NEW b \in Row, Rewriting(r, b) PROVE Proved
    BY <2>2 DEF Rewriting, Rewritten, Stored, NoPasswordYet
  <2>3. ASSUME NEW r \in Requests, DecidingAll(r) PROVE Proved
    <3> SUFFICES ASSUME NEW c \in Accounts, db[c] # Absent PROVE db'[c].password = db[c].password
      OBVIOUS
    <3>1. CASE c \in pending[r]
      <4>1. db[c] \in Row /\ db'[c] = [db[c] EXCEPT !.status = job[r].status, !.version = @ + 1]
        BY <2>3, <3>1 DEF DecidingAll
      <4> QED
        BY <4>1 DEF Row
    <3>2. CASE c \notin pending[r]
      BY <2>3, <3>2 DEF DecidingAll
    <3> QED
      BY <3>1, <3>2
  <2>4. ASSUME NEW S \in SUBSET Accounts, Removing(S) PROVE Proved
    BY <2>4 DEF Removing
  <2>5. CASE UNCHANGED <<db, unused, written>>
    BY <2>5
  <2> QED
    BY <1>1, <2>1, <2>2, <2>3, <2>4, <2>5 DEF Effect
<1>2. Local /\ Stored /\ [Next]_vars => [Proved]_vars
  BY <1>1, StepEffect
<1> QED
  BY <1>2, Invariants, PTL DEF PasswordIsProved, Spec

-----------------------------------------------------------------------------
(***************************************************************************)
(* The service implements the life of a join request.                      *)
(***************************************************************************)
LEMMA JoinInit == Init => Join!Init
<1> SUFFICES ASSUME Init PROVE Join!Init
  OBVIOUS
<1>1. TypeOK
  BY LocalInit DEF Local
<1>2. \A c \in Accounts : StageOf(c) \in Join!Present \cup {"unused"}
  BY <1>1 DEF Init, TypeOK, Row, Joined, StageOf, Join!Present, Join!Waiting, Join!Verdicts
<1> QED
  BY <1>2 DEF Init, Join!Init

\* The round of every request stays as it is.
RoundsKept ==
  pending' = pending /\ \A q \in Requests : pc'[q] = "writeAll" <=> pc[q] = "writeAll"

\* All but three calls have nothing to do with rounds.
LEMMA RoundsStep ==
  ASSUME Local, NEW r \in Requests,
         \/ FindRegistered(r) \/ Register(r) \/ Insert(r) \/ Promote(r) \/ CreateAlarm(r)
         \/ ShowResident(r) \/ FindToDecide(r) \/ Decide(r) \/ FindToEdit(r) \/ Edit(r)
         \/ UpdateAvatar(r) \/ FindToRekey(r) \/ UpdatePassword(r)
         \/ DeleteResident(r) \/ DeleteRejected(r)
  PROVE  RoundsKept
<1> USE DEF Local, TypeOK
<1>1. ASSUME pc[r] # "writeAll", NEW j, NEW res, Conclude(r, j, res) PROVE RoundsKept
  BY <1>1 DEF Conclude, RoundsKept
<1>2. ASSUME pc[r] # "writeAll", NEW j, NEW b, NEW p \in {"insert", "write"}, Proceed(r, j, b, p)
      PROVE  RoundsKept
  BY <1>2 DEF Proceed, RoundsKept
<1>3. ASSUME pc[r] # "writeAll", NEW p \in {"alarm", "show"}, Goto(r, p) PROVE RoundsKept
  BY <1>3 DEF Goto, RoundsKept
<1>4. ASSUME pc[r] = "write", NEW row, Versioned(r, row) PROVE RoundsKept
  <2>1. CASE Conflict(r)
    BY <1>4, <2>1, ConflictStep DEF RoundsKept
  <2>2. CASE Answer(r, "ok")
    BY <1>1, <1>4, <2>2 DEF Answer
  <2> QED
    BY <1>4, <2>1, <2>2 DEF Versioned
<1>5. ASSUME NEW j \in Asks(r) PROVE pc[r] # "writeAll"
  BY AsksAreWellFormed
<1>6. CASE \/ FindRegistered(r) \/ Register(r) \/ FindToDecide(r) \/ FindToEdit(r)
           \/ FindToRekey(r) \/ DeleteResident(r) \/ DeleteRejected(r)
  BY <1>1, <1>2, <1>5, <1>6 DEF FindRegistered, Register, FindToDecide, FindToEdit,
     FindToRekey, DeleteResident, DeleteRejected
<1>7. CASE Insert(r) \/ CreateAlarm(r) \/ ShowResident(r)
  BY <1>1, <1>3, <1>7 DEF Insert, CreateAlarm, ShowResident, OtherUnique, Answer
<1>8. CASE Promote(r) \/ Decide(r) \/ Edit(r) \/ UpdateAvatar(r) \/ UpdatePassword(r)
  BY <1>1, <1>4, <1>8 DEF Promote, Decide, Edit, UpdateAvatar, UpdatePassword, OtherUnique, Answer
<1> QED
  BY <1>6, <1>7, <1>8

LEMMA JoinStep == Local /\ Stored /\ [Next]_vars => [Join!Next]_(Join!joinVars)
<1> SUFFICES ASSUME Local, Stored, [Next]_vars PROVE [Join!Next]_(Join!joinVars)
  OBVIOUS
<1> DEFINE stages == [c \in Accounts |-> StageOf(c)]
           rounds == [r \in Requests |-> IF pc[r] = "writeAll" THEN pending[r] ELSE {}]
<1> USE DEF Local, TypeOK
<1>1. Effect
  BY StepEffect
<1>2. \A c \in Accounts : db[c] # Absent =>
        /\ c \notin unused /\ stages[c] = db[c].status /\ stages[c] \in Join!Present
        /\ db[c].status \in Joined \cup {"NOT_JOINED"}
  BY DEF StageOf, Row, Joined, Stored, IdsUsedOnce, Join!Present, Join!Waiting, Join!Verdicts
<1>3. CASE UNCHANGED <<db, unused>> /\ RoundsKept
  <2>1. stages' = stages /\ rounds' = rounds
    BY <1>3 DEF StageOf, RoundsKept
  <2> QED
    BY <2>1 DEF Join!joinVars
<1>4. ASSUME RoundsKept, NEW r \in Requests, NEW c \in Accounts, Inserting(r, c) PROVE Join!Next
  <2> DEFINE b == NewRow(job[r])
  <2>1. b # Absent /\ b.status \in {"NOT_JOINED", "PENDING"}
    <3>1. WellFormed(job[r]) /\ job[r].op \in {"signUp", "register"}
      BY <1>4 DEF Inserting, FactsOf
    <3>2. b \in Row
      BY <3>1, NewRowIsRow
    <3>3. b \in {Applied(job[r].email, job[r].profile, job[r].new),
                 Registered(job[r].email, job[r].profile)}
      BY DEF NewRow
    <3>4. b.status \in {"NOT_JOINED", "PENDING"}
      BY <3>3 DEF Applied, Registered
    <3> HIDE DEF b
    <3> QED
      BY <3>2, <3>4, AbsentIsNoData
  <2> HIDE DEF b
  <2>2. /\ c \in unused /\ db[c] = Absent /\ db' = [db EXCEPT ![c] = b]
        /\ unused' = unused \ {c}
    BY <1>4 DEF Inserting, Stored, IdsUsedOnce, b
  <2>3. rounds' = rounds
    BY <1>4 DEF RoundsKept
  <2>4. stages[c] = "unused" /\ stages' = [stages EXCEPT ![c] = b.status]
    BY <2>1, <2>2 DEF StageOf
  <2>5. Join!Enter(c, b.status)
    BY <2>1, <2>3, <2>4 DEF Join!Enter
  <2> QED
    BY <2>1, <2>5 DEF Join!Next
<1>5. ASSUME RoundsKept, NEW r \in Requests, NEW b \in Row, Rewriting(r, b)
      PROVE  [Join!Next]_(Join!joinVars)
  <2> DEFINE c == job[r].target
  <2>1. /\ c \in Accounts /\ db[c] # Absent /\ b # Absent /\ Rewritten(job[r], db[c], b)
        /\ db' = [db EXCEPT ![c] = b] /\ unused' = unused
    BY <1>5, AbsentIsNoData DEF Rewriting
  <2> HIDE DEF c
  <2>2. rounds' = rounds
    BY <1>5 DEF RoundsKept
  <2>3. stages[c] = db[c].status /\ stages' = [stages EXCEPT ![c] = b.status]
    BY <1>2, <2>1 DEF StageOf
  <2>4. CASE b.status = db[c].status
    <3>1. stages' = stages
      BY <2>3, <2>4
    <3> QED
      BY <2>2, <3>1 DEF Join!joinVars
  <2>5. CASE db[c].status = "NOT_JOINED" /\ b.status = "PENDING"
    <3>1. Join!Join(c)
      BY <2>2, <2>3, <2>5 DEF Join!Join
    <3> QED
      BY <2>1, <3>1 DEF Join!Next
  <2>6. CASE db[c].status \in {"NOT_JOINED", "PENDING"} /\ b.status \in Joined
    <3>1. Join!Decide(c, b.status) /\ b.status \in Join!Verdicts
      BY <2>2, <2>3, <2>6 DEF Join!Decide, Join!Waiting, Join!Verdicts, Joined
    <3> QED
      BY <2>1, <3>1 DEF Join!Next
  <2> QED
    BY <2>1, <2>4, <2>5, <2>6 DEF Rewritten
<1>6. ASSUME RoundsKept, NEW S \in SUBSET Accounts, Removing(S)
      PROVE  [Join!Next]_(Join!joinVars)
  <2>1. /\ \A c \in Accounts : db'[c] = IF c \in S THEN Absent ELSE db[c]
        /\ unused' = unused
    BY <1>6 DEF Removing
  <2>2. rounds' = rounds
    BY <1>6 DEF RoundsKept
  <2>3. CASE \E c \in Accounts : S = {c} /\ db[c] = Absent
    <3>1. db' = db
      BY <1>6, <2>3 DEF Removing
    <3> QED
      BY <1>3, <1>6, <2>1, <3>1
  <2>4. CASE \A c \in S : db[c] # Absent
    <3>1. stages' = [c \in Accounts |-> IF c \in S THEN "removed" ELSE stages[c]]
      BY <1>2, <2>1, <2>4 DEF StageOf
    <3>2. \/ \E c \in Accounts : S = {c} /\ stages[c] \in Join!Present
          \/ \A c \in S : stages[c] = "REJECTED"
      BY <1>2, <1>6, <2>4 DEF Removing
    <3>3. Join!Remove(S)
      BY <2>2, <3>1, <3>2 DEF Join!Remove
    <3> QED
      BY <3>3 DEF Join!Next
  <2> QED
    BY <1>6, <2>3, <2>4 DEF Removing
<1>7. ASSUME RoundsKept PROVE [Join!Next]_(Join!joinVars)
  BY <1>1, <1>3, <1>4, <1>5, <1>6, <1>7 DEF Effect, DecidingAll, RoundsKept
<1>8. ASSUME NEW r \in Requests, FindPending(r) PROVE [Join!Next]_(Join!joinVars)
  <2> DEFINE found == {c \in Accounts : db[c] # Absent /\ db[c].status = "PENDING"}
  <2>1. PICK j \in Asks(r) :
          /\ UNCHANGED tableVars
          /\ \/ Conclude(r, j, "USER_NOT_FOUND")
             \/ /\ pending' = [pending EXCEPT ![r] = found]
                /\ pc' = [pc EXCEPT ![r] = "writeAll"]
    BY <1>8 DEF FindPending
  <2>2. pc[r] \in {"idle", "read"}
    BY AsksAreWellFormed
  <2>3. CASE Conclude(r, j, "USER_NOT_FOUND")
    BY <1>7, <2>2, <2>3 DEF Conclude, RoundsKept
  <2>4. CASE pending' = [pending EXCEPT ![r] = found] /\ pc' = [pc EXCEPT ![r] = "writeAll"]
    <3>1. stages' = stages
      BY <2>1 DEF tableVars, StageOf
    <3>2. found = {c \in Accounts : stages[c] = "PENDING"}
      BY <1>2 DEF StageOf
    <3> HIDE DEF found
    <3>3. rounds[r] = {} /\ rounds' = [rounds EXCEPT ![r] = found]
      BY <2>2, <2>4
    <3>4. Join!OpenRound(r)
      BY <3>1, <3>2, <3>3 DEF Join!OpenRound
    <3> QED
      BY <3>4 DEF Join!Next
  <2> QED
    BY <2>1, <2>3, <2>4
<1>9. ASSUME NEW r \in Requests, DecideAll(r) PROVE Join!Next
  <2> DEFINE s == job[r].status
             found == {c \in pending[r] : db[c] # Absent}
  <2>1. /\ pc[r] = "writeAll" /\ s \in Joined
        /\ pc' = [pc EXCEPT ![r] = "done"] /\ pending' = pending /\ unused' = unused
        /\ \A c \in Accounts \ found : db'[c] = db[c]
    BY <1>9 DEF DecideAll, Answer, Conclude, FactsOf, WellFormed
  <2>2. ASSUME NEW c \in found PROVE db'[c] # Absent /\ db'[c].status = s
    <3>1. c \in Accounts /\ db[c] \in Row
      BY DEF found
    <3>2. db'[c] = [db[c] EXCEPT !.status = s, !.version = @ + 1]
      BY <1>9, <3>1 DEF DecideAll
    <3>3. [db[c] EXCEPT !.status = s, !.version = @ + 1] \in Row
      BY ONLY <2>1, <3>1, DecidedRow
    <3> QED
      BY <3>1, <3>2, <3>3, AbsentIsNoData DEF Row
  <2>3. rounds[r] = pending[r] /\ rounds' = [rounds EXCEPT ![r] = {}]
    BY <2>1
  <2>4. \A c \in Accounts : c \in found <=> c \in rounds[r] /\ stages[c] \in Join!Present
    BY <1>2, <2>3 DEF StageOf, Join!Present, Join!Waiting, Join!Verdicts
  <2> HIDE DEF s, found
  <2>5. stages' = [c \in Accounts |-> IF c \in found THEN s ELSE stages[c]]
    BY <2>1, <2>2 DEF StageOf
  <2>6. PICK verdict \in Join!Verdicts : verdict = s
    BY <2>1 DEF Join!Verdicts, Joined
  <2>7. stages' = [c \in Accounts |->
                     IF c \in rounds[r] /\ stages[c] \in Join!Present
                     THEN verdict ELSE stages[c]]
    BY <2>4, <2>5, <2>6
  <2>8. Join!CloseRound(r, verdict)
    BY <2>3, <2>6, <2>7 DEF Join!CloseRound
  <2> QED
    BY <2>6, <2>8 DEF Join!Next
<1>10. ASSUME NEW r \in Requests, Fail(r) PROVE [Join!Next]_(Join!joinVars)
  <2>1. pc' = [pc EXCEPT ![r] = "done"] /\ pending' = pending /\ UNCHANGED <<db, unused>>
    BY <1>10 DEF Fail, Answer, Conclude, tableVars
  <2>2. stages' = stages /\ rounds' = [rounds EXCEPT ![r] = {}]
    BY <2>1 DEF StageOf
  <2>3. Join!DropRound(r)
    BY <2>2 DEF Join!DropRound
  <2> QED
    BY <2>3 DEF Join!Next
<1>11. CASE UNCHANGED vars
  BY <1>7, <1>11 DEF vars, RoundsKept
<1> QED
  BY <1>7, <1>8, <1>9, <1>10, <1>11, RoundsStep DEF Next

\* Reads, version tests, retries and writes that interleave amount to the life
\* of a join request.
THEOREM Implementation == Spec => ImplementsJoinRequests
  BY JoinInit, JoinStep, Invariants, PTL DEF Spec, ImplementsJoinRequests, Join!Spec

=============================================================================
