---------------------------- MODULE AdminProofs ----------------------------
(***************************************************************************)
(* What holds of the administrators and their apartments for any requests, *)
(* accounts, apartments and retries.                                       *)
(*                                                                         *)
(* The rows a transaction has drafted are its own (Locks), so what it has  *)
(* read of them is what it will find at its commit (Knowledge).  With the  *)
(* rule that no two administrators share an apartment (HomesDiffer), the   *)
(* lock on the account is a lock on the apartment too.                     *)
(***************************************************************************)
EXTENDS AdminAccounts, TLAPS

\* The open transactions of createAdmin and, past the update of the account, of
\* updateAdmin.
SigningUp(r) ==
  pc[r] \in {"insert", "doomed", "alarm"} \/ (pc[r] = "commit" /\ job[r].op = "signUp")
Editing(r) ==
  pc[r] \in {"findApt", "writeApt"} \/ (pc[r] = "commit" /\ job[r].op = "edit")

\* What request r knows at each of its calls.
Facts(r) ==
  /\ pc[r] = "idle" => job[r] = NoJob
  /\ pc[r] # "idle" => job[r] \in Jobs
  /\ pc[r] # "done" => result[r] = "none" /\ r \notin outbox
  /\ ~SigningUp(r) /\ ~Editing(r) => draft[r] = NoDraft
  /\ SigningUp(r) =>
       /\ job[r].op = "signUp" /\ draft[r].home \in Apartments
       /\ draft[r].flat = NewApartment(r)
       /\ pc[r] \in {"insert", "doomed"} => draft[r].account = Absent /\ draft[r].row = Absent
       /\ pc[r] \in {"alarm", "commit"} =>
            draft[r].account \in Accounts /\ draft[r].row = AdminRow(draft[r].home, r)
  /\ pc[r] = "read" => job[r].op = "edit"
  /\ pc[r] = "write" => job[r].op \in {"edit", "decide", "delete"} /\ seen[r] \in Row
  /\ pc[r] = "write" /\ job[r].op = "decide" => seen[r].status = "PENDING"
  /\ Editing(r) =>
       /\ job[r].op = "edit" /\ seen[r].home \in Apartments
       /\ draft[r].account = job[r].target /\ draft[r].row \in Row
       /\ draft[r].home = IF pc[r] = "commit" THEN seen[r].home ELSE Absent
       /\ pc[r] = "writeApt" => flat[r] \in Apartment
       /\ pc[r] = "commit" => draft[r].flat \in Apartment
  /\ pc[r] = "commit" => job[r].op \in {"signUp", "edit"}
  /\ pc[r] = "writeAll" => job[r].op = "decideAll"
  /\ job[r].op # "signUp" => r \notin outbox
  /\ r \in joined <=> r \in outbox
  /\ job[r].op = "signUp" /\ result[r] = "ok" => r \in joined

Local == TypeOK /\ \A r \in Requests : Facts(r)

\* Who signs up has ids nobody uses.
NewIds(r) ==
  SigningUp(r) =>
    /\ apts[draft[r].home] = Absent
    /\ draft[r].account # Absent => draft[r].account \in unused

\* Who has updated an account holds it, and through it the apartment.
HeldRows(r) ==
  /\ Editing(r) =>
       /\ db[job[r].target] # Absent /\ db[job[r].target].home = seen[r].home
       /\ draft[r].row = Rewritten(db[job[r].target], r)
  /\ pc[r] = "writeApt" => apts[seen[r].home] = flat[r]
  /\ Editing(r) /\ pc[r] = "commit" =>
       /\ apts[seen[r].home] # Absent
       /\ draft[r].flat = Rewritten(apts[seen[r].home], r)

\* A stored version is never below the one that was read, and equal versions of
\* an account mean equal rows.
SnapshotIntegrity(r) ==
  pc[r] = "write" =>
    /\ job[r].target \notin unused
    /\ db[job[r].target] # Absent =>
         /\ seen[r].version <= db[job[r].target].version
         /\ seen[r].version = db[job[r].target].version => seen[r] = db[job[r].target]

Knowledge(r) == NewIds(r) /\ HeldRows(r) /\ SnapshotIntegrity(r)

\* No two transactions have written the same row.
Locks ==
  \A r \in Requests : \A s \in Requests \ {r} :
    /\ draft[r].account # Absent => draft[s].account # draft[r].account
    /\ draft[r].home # Absent => draft[s].home # draft[r].home

Unused == \A c \in unused : db[c] = Absent

HomesDiffer ==
  \A b, c \in Accounts :
    db[b] # Absent /\ db[c] # Absent /\ db[b].home # Absent /\ db[b].home = db[c].home => b = c

Founders ==
  /\ \A a \in Apartments : apts[a] # Absent =>
       apts[a].founder = Absent \/ apts[a].founder \in outbox
  /\ \A r \in outbox : \E a \in Apartments : apts[a] # Absent /\ apts[a].founder = r

Tables == Unused /\ HomesDiffer /\ EditsAreWhole /\ Founders

Stored == Tables /\ Locks /\ \A r \in Requests : Knowledge(r)

IInv == Local /\ Stored

-----------------------------------------------------------------------------
(***************************************************************************)
(* The requests.                                                           *)
(***************************************************************************)

LEMMA JobsAreWellFormed ==
  ASSUME NEW j \in Jobs
  PROVE  /\ j.op \in {"signUp", "signUpSuper", "deleteRejected", "edit", "delete", "decide", "decideAll"}
         /\ j.op \in {"edit", "delete", "decide"} => j.target \in Accounts
         /\ j.op \in {"decide", "decideAll"} => j.status \in Statuses
  BY DEF Jobs, Bodies, None

LEMMA NothingIsAsked == NoJob.op = "none"
  BY DEF NoJob

Calls ==
  {"idle", "read", "insert", "doomed", "alarm", "write", "findApt", "writeApt", "commit",
   "writeAll", "done"}

RequestsOK ==
  /\ pc \in [Requests -> Calls]
  /\ job \in [Requests -> Jobs \cup {NoJob}]
  /\ seen \in [Requests -> Row \cup {Absent}]
  /\ flat \in [Requests -> Apartment \cup {Absent}]
  /\ pending \in [Requests -> SUBSET Accounts]
  /\ draft \in [Requests -> Draft]
  /\ tries \in [Requests -> 0..MaxRetries]
  /\ result \in [Requests -> Result]

TablesOK ==
  /\ db \in [Accounts -> Row \cup {Absent}]
  /\ apts \in [Apartments -> Apartment \cup {Absent}]
  /\ unused \subseteq Accounts
  /\ outbox \subseteq Requests /\ joined \subseteq Requests

LEMMA TypesAreTwo ==
  /\ TypeOK <=> RequestsOK /\ TablesOK
  /\ TypeOK' <=> RequestsOK' /\ TablesOK'
  BY DEF TypeOK, RequestsOK, TablesOK, Calls

LEMMA DraftsAreTyped ==
  /\ NoDraft \in Draft /\ NoDraft.account = Absent /\ NoDraft.home = Absent
  /\ \A d \in Draft :
       /\ d.account \in Accounts \cup {Absent} /\ d.row \in Row \cup {Absent}
       /\ d.home \in Apartments \cup {Absent} /\ d.flat \in Apartment \cup {Absent}
  BY DEF Draft, NoDraft

LEMMA NewRowsAreTyped ==
  ASSUME NEW r \in Requests
  PROVE  /\ NewApartment(r) \in Apartment /\ SuperRow(r) \in Row
         /\ \A a \in Apartments : AdminRow(a, r) \in Row
  BY DEF NewApartment, SuperRow, AdminRow, Apartment, Row, Statuses, Decided

LEMMA RewrittenRow ==
  ASSUME NEW b \in Row, NEW r \in Requests
  PROVE  /\ Rewritten(b, r) \in Row /\ Rewritten(b, r).version = b.version + 1
         /\ Rewritten(b, r).by = r /\ Rewritten(b, r).home = b.home /\ Rewritten(b, r).status = b.status
<1> DEFINE signed == [b EXCEPT !.by = r]
<1>1. /\ signed \in Row /\ signed.version = b.version /\ signed.by = r
      /\ signed.home = b.home /\ signed.status = b.status
  BY DEF Row
<1>2. Rewritten(b, r) = [signed EXCEPT !.version = b.version + 1]
  BY DEF Rewritten
<1>3. b.version + 1 \in Nat
  BY DEF Row
<1> HIDE DEF signed
<1> QED
  BY <1>1, <1>2, <1>3 DEF Row

LEMMA DecidedRow ==
  ASSUME NEW b \in Row, NEW s \in Statuses
  PROVE  /\ DecidedAs(b, s) \in Row /\ DecidedAs(b, s).version = b.version + 1
         /\ DecidedAs(b, s).by = b.by /\ DecidedAs(b, s).home = b.home /\ DecidedAs(b, s).status = s
<1> DEFINE marked == [b EXCEPT !.status = s]
<1>1. /\ marked \in Row /\ marked.version = b.version /\ marked.by = b.by
      /\ marked.home = b.home /\ marked.status = s
  BY DEF Row
<1>2. DecidedAs(b, s) = [marked EXCEPT !.version = b.version + 1]
  BY DEF DecidedAs
<1>3. b.version + 1 \in Nat
  BY DEF Row
<1> HIDE DEF marked
<1> QED
  BY <1>1, <1>2, <1>3 DEF Row

LEMMA RewrittenFlat ==
  ASSUME NEW f \in Apartment, NEW r \in Requests
  PROVE  /\ Rewritten(f, r) \in Apartment /\ Rewritten(f, r).version = f.version + 1
         /\ Rewritten(f, r).by = r /\ Rewritten(f, r).founder = f.founder
<1> DEFINE signed == [f EXCEPT !.by = r]
<1>1. signed \in Apartment /\ signed.version = f.version /\ signed.by = r /\ signed.founder = f.founder
  BY DEF Apartment
<1>2. Rewritten(f, r) = [signed EXCEPT !.version = f.version + 1]
  BY DEF Rewritten
<1>3. f.version + 1 \in Nat
  BY DEF Apartment
<1> HIDE DEF signed
<1> QED
  BY <1>1, <1>2, <1>3 DEF Apartment

LEMMA AccountDrafted ==
  ASSUME NEW d \in Draft, NEW c \in Accounts, NEW b \in Row
  PROVE  /\ WithAccount(d, c, b) \in Draft
         /\ WithAccount(d, c, b).account = c /\ WithAccount(d, c, b).row = b
         /\ WithAccount(d, c, b).home = d.home /\ WithAccount(d, c, b).flat = d.flat
<1> DEFINE named == [d EXCEPT !.account = c]
<1>1. named \in Draft /\ named.account = c /\ named.home = d.home /\ named.flat = d.flat
  BY DEF Draft
<1>2. WithAccount(d, c, b) = [named EXCEPT !.row = b]
  BY DEF WithAccount
<1> HIDE DEF named
<1> QED
  BY <1>1, <1>2 DEF Draft

LEMMA FlatDrafted ==
  ASSUME NEW d \in Draft, NEW a \in Apartments, NEW f \in Apartment
  PROVE  /\ WithFlat(d, a, f) \in Draft
         /\ WithFlat(d, a, f).account = d.account /\ WithFlat(d, a, f).row = d.row
         /\ WithFlat(d, a, f).home = a /\ WithFlat(d, a, f).flat = f
<1> DEFINE placed == [d EXCEPT !.home = a]
<1>1. placed \in Draft /\ placed.account = d.account /\ placed.row = d.row /\ placed.home = a
  BY DEF Draft
<1>2. WithFlat(d, a, f) = [placed EXCEPT !.flat = f]
  BY DEF WithFlat
<1> HIDE DEF placed
<1> QED
  BY <1>1, <1>2 DEF Draft

\* The requests other than r stand still.
Others(r) ==
  \A s \in Requests \ {r} :
    /\ pc'[s] = pc[s] /\ job'[s] = job[s] /\ seen'[s] = seen[s] /\ flat'[s] = flat[s]
    /\ draft'[s] = draft[s] /\ result'[s] = result[s] /\ pending'[s] = pending[s]

LEMMA ProceedMoves ==
  ASSUME TypeOK, NEW r \in Requests, NEW j \in Jobs, NEW b \in Row \cup {Absent},
         NEW p \in Calls, Proceed(r, j, b, p)
  PROVE  /\ RequestsOK' /\ Others(r)
         /\ pc'[r] = p /\ job'[r] = j /\ seen'[r] = b
         /\ UNCHANGED <<flat, pending, draft, result>>
  BY DEF TypeOK, RequestsOK, Proceed, Calls, Others

LEMMA ConcludeMoves ==
  ASSUME TypeOK, NEW r \in Requests, NEW j \in Jobs, NEW a \in Result, Conclude(r, j, a)
  PROVE  /\ RequestsOK' /\ Others(r)
         /\ pc'[r] = "done" /\ job'[r] = j /\ draft'[r] = NoDraft /\ result'[r] = a
         /\ UNCHANGED <<seen, flat, pending>>
  BY DraftsAreTyped DEF TypeOK, RequestsOK, Conclude, Calls, Others

LEMMA AnswerMoves ==
  ASSUME TypeOK, NEW r \in Requests, job[r] \in Jobs, NEW a \in Result, Answer(r, a)
  PROVE  /\ RequestsOK' /\ Others(r)
         /\ pc'[r] = "done" /\ job'[r] = job[r] /\ draft'[r] = NoDraft /\ result'[r] = a
         /\ UNCHANGED <<seen, flat, pending>>
  BY ConcludeMoves DEF Answer

LEMMA DraftedMoves ==
  ASSUME TypeOK, NEW r \in Requests, NEW d \in Draft, NEW p \in Calls, Drafted(r, d, p)
  PROVE  /\ RequestsOK' /\ Others(r)
         /\ pc'[r] = p /\ draft'[r] = d
         /\ UNCHANGED <<job, seen, flat, pending, result>>
  BY DEF TypeOK, RequestsOK, Drafted, Calls, Others

LEMMA ConflictMoves ==
  ASSUME TypeOK, NEW r \in Requests, job[r] \in Jobs, Conflict(r)
  PROVE  /\ RequestsOK' /\ Others(r) /\ job'[r] = job[r] /\ draft'[r] = NoDraft
         /\ UNCHANGED <<seen, flat, pending>>
         /\ \/ pc'[r] = "read" /\ result' = result
            \/ pc'[r] = "done" /\ result'[r] = "CONCURRENT_MODIFICATION"
<1>1. CASE /\ tries[r] < MaxRetries
           /\ tries' = [tries EXCEPT ![r] = @ + 1]
           /\ pc' = [pc EXCEPT ![r] = "read"]
           /\ draft' = [draft EXCEPT ![r] = NoDraft]
           /\ UNCHANGED <<job, seen, flat, pending, result>>
  <2>1. tries[r] + 1 \in 0..MaxRetries
    BY <1>1, RetriesAreCounted DEF TypeOK
  <2> QED
    BY <1>1, <2>1, DraftsAreTyped DEF TypeOK, RequestsOK, Calls, Others
<1>2. CASE Answer(r, "CONCURRENT_MODIFICATION")
  <2>1. "CONCURRENT_MODIFICATION" \in Result
    BY DEF Result
  <2> QED
    BY <1>2, <2>1, AnswerMoves
<1> QED
  BY <1>1, <1>2 DEF Conflict

LEMMA AsksForJobs ==
  ASSUME Local, NEW r \in Requests, NEW j \in Asks(r)
  PROVE  /\ j \in Jobs /\ pc[r] \in {"idle", "read"} /\ r \notin outbox /\ r \notin joined
         /\ result[r] = "none" /\ draft[r] = NoDraft
         /\ j.op # "edit" => pc[r] = "idle"
<1>1. Facts(r)
  BY DEF Local
<1> QED
  BY <1>1 DEF Facts, Asks, SigningUp, Editing

\* A step of r tells the others nothing.
LEMMA StepsKnow ==
  ASSUME Local, NEW r \in Requests, RequestsOK', TablesOK', Others(r), Facts(r)',
         \A s \in Requests \ {r} : (s \in joined' <=> s \in joined) /\ (s \in outbox' <=> s \in outbox)
  PROVE  Local'
<1> SUFFICES ASSUME NEW s \in Requests \ {r} PROVE Facts(s)'
  BY TypesAreTwo DEF Local
<1>1. Facts(s) /\ (s \in joined' <=> s \in joined) /\ (s \in outbox' <=> s \in outbox)
  BY DEF Local
<1>2. /\ pc'[s] = pc[s] /\ job'[s] = job[s] /\ seen'[s] = seen[s] /\ flat'[s] = flat[s]
      /\ draft'[s] = draft[s] /\ result'[s] = result[s]
  BY DEF Others
<1> QED
  BY <1>1, <1>2 DEF Facts, SigningUp, Editing

\* A request that ends without a commit was never about to sign up in success.
LEMMA EndsKnow ==
  ASSUME Local, NEW r \in Requests, RequestsOK', TablesOK', Others(r),
         pc[r] # "done", pc'[r] = "done", job'[r] \in Jobs, draft'[r] = NoDraft,
         UNCHANGED <<outbox, joined>>, job'[r].op = "signUp" => result'[r] # "ok"
  PROVE  Local'
<1>1. Facts(r)
  BY DEF Local
<1>2. Facts(r)'
  BY <1>1 DEF Facts, SigningUp, Editing
<1> QED
  BY <1>2, StepsKnow

LEMMA QuietTables ==
  ASSUME Local, UNCHANGED tableVars
  PROVE  /\ TablesOK' /\ UNCHANGED <<outbox, joined>>
  BY TypesAreTwo DEF Local, TablesOK, tableVars

LEMMA LocalInit == Init => Local
<1> SUFFICES ASSUME Init PROVE Local
  OBVIOUS
<1>1. RequestsOK
  BY RetriesAreCounted, DraftsAreTyped DEF Init, RequestsOK, Calls, Result
<1>2. SuperRow(Absent) \in Row /\ NewApartment(Absent) \in Apartment
  BY DEF SuperRow, NewApartment, Row, Apartment, Statuses, Decided
<1>3. ASSUME NEW a \in Apartments, NEW s \in Statuses
      PROVE  [AdminRow(a, Absent) EXCEPT !.status = s] \in Row
  BY <1>3 DEF AdminRow, Row
<1>4. TablesOK
  BY <1>2, <1>3 DEF Init, TablesOK
<1>5. \A r \in Requests : Facts(r)
  BY NothingIsAsked DEF Init, Facts, SigningUp, Editing
<1> QED
  BY <1>1, <1>4, <1>5, TypesAreTwo DEF Local

-----------------------------------------------------------------------------
(***************************************************************************)
(* Types, and what a request knows.                                        *)
(***************************************************************************)

LEMMA CreateApartmentKnows ==
  ASSUME Local, NEW r \in Requests, CreateApartment(r) PROVE Local'
<1>1. PICK j \in Asks(r) :
        /\ j.op = "signUp"
        /\ \/ Conclude(r, j, "ALREADY_IN_USE")
           \/ \E a \in Apartments :
                /\ job' = [job EXCEPT ![r] = j] /\ pc' = [pc EXCEPT ![r] = "insert"]
                /\ draft' = [draft EXCEPT ![r] = WithFlat(NoDraft, a, NewApartment(r))]
                /\ UNCHANGED <<seen, flat, pending, tries, result>>
  BY DEF CreateApartment
<1>2. /\ j \in Jobs /\ pc[r] = "idle" /\ r \notin outbox /\ r \notin joined
      /\ result[r] = "none" /\ draft[r] = NoDraft
      /\ TablesOK' /\ UNCHANGED <<outbox, joined>>
  BY <1>1, AsksForJobs, QuietTables DEF CreateApartment
<1>3. CASE Conclude(r, j, "ALREADY_IN_USE")
  <2>1. /\ RequestsOK' /\ Others(r) /\ pc'[r] = "done" /\ job'[r] = j /\ draft'[r] = NoDraft
        /\ result'[r] = "ALREADY_IN_USE"
    BY <1>2, <1>3, ConcludeMoves DEF Local, Result
  <2> QED
    BY <1>2, <2>1, EndsKnow
<1>4. ASSUME NEW a \in Apartments,
             job' = [job EXCEPT ![r] = j], pc' = [pc EXCEPT ![r] = "insert"],
             draft' = [draft EXCEPT ![r] = WithFlat(NoDraft, a, NewApartment(r))],
             UNCHANGED <<seen, flat, pending, tries, result>>
      PROVE  Local'
  <2> DEFINE d == WithFlat(NoDraft, a, NewApartment(r))
  <2>1. d \in Draft /\ d.account = Absent /\ d.row = Absent /\ d.home = a /\ d.flat = NewApartment(r)
    BY NewRowsAreTyped, DraftsAreTyped, FlatDrafted DEF NoDraft
  <2> HIDE DEF d
  <2>2. draft' = [draft EXCEPT ![r] = d]
    BY <1>4 DEF d
  <2>5. RequestsOK' /\ Others(r) /\ pc'[r] = "insert" /\ job'[r] = j /\ draft'[r] = d
    BY <1>2, <1>4, <2>1, <2>2 DEF Local, TypeOK, RequestsOK, Others, Calls
  <2>6. Facts(r)'
    BY <1>1, <1>2, <1>4, <2>1, <2>5 DEF Facts, SigningUp, Editing
  <2> QED
    BY <1>2, <2>5, <2>6, StepsKnow
<1> QED
  BY <1>1, <1>3, <1>4

LEMMA InsertAdminKnows ==
  ASSUME Local, NEW r \in Requests, InsertAdmin(r) PROVE Local'
<1>1. /\ pc[r] = "insert" /\ Facts(r) /\ TablesOK' /\ UNCHANGED <<outbox, joined>>
      /\ job[r] \in Jobs /\ draft[r] \in Draft
  BY QuietTables DEF InsertAdmin, Local, Facts, TypeOK
<1>2. CASE Answer(r, "ALREADY_IN_USE")
  <2>1. /\ RequestsOK' /\ Others(r) /\ pc'[r] = "done" /\ job'[r] = job[r] /\ draft'[r] = NoDraft
        /\ result'[r] = "ALREADY_IN_USE"
    BY <1>1, <1>2, AnswerMoves DEF Local, Result
  <2> QED
    BY <1>1, <2>1, EndsKnow
<1>3. ASSUME NEW c \in unused,
             Drafted(r, WithAccount(draft[r], c, AdminRow(draft[r].home, r)), "alarm")
      PROVE  Local'
  <2> DEFINE d == WithAccount(draft[r], c, AdminRow(draft[r].home, r))
  <2>0. c \in Accounts /\ AdminRow(draft[r].home, r) \in Row
    BY <1>1, NewRowsAreTyped DEF Local, TypeOK, Facts, SigningUp
  <2>1. /\ d \in Draft /\ d.account = c /\ d.home = draft[r].home /\ d.flat = draft[r].flat
        /\ d.row = AdminRow(draft[r].home, r)
    BY <1>1, <2>0, AccountDrafted
  <2> HIDE DEF d
  <2>2. /\ RequestsOK' /\ Others(r) /\ pc'[r] = "alarm" /\ draft'[r] = d
        /\ UNCHANGED <<job, seen, flat, pending, result>>
    BY <1>3, <2>1, DraftedMoves DEF Local, Calls, d
  <2>3. Facts(r)'
    BY <1>1, <2>0, <2>1, <2>2 DEF Facts, SigningUp, Editing
  <2> QED
    BY <1>1, <2>2, <2>3, StepsKnow
<1>4. CASE Drafted(r, draft[r], "doomed")
  <2>1. /\ RequestsOK' /\ Others(r) /\ pc'[r] = "doomed" /\ draft'[r] = draft[r]
        /\ UNCHANGED <<job, seen, flat, pending, result>>
    BY <1>1, <1>4, DraftedMoves DEF Local, Calls
  <2>2. Facts(r)'
    BY <1>1, <2>1 DEF Facts, SigningUp, Editing
  <2> QED
    BY <1>1, <2>1, <2>2, StepsKnow
<1> QED
  BY <1>2, <1>3, <1>4 DEF InsertAdmin

LEMMA CreateAlarmKnows ==
  ASSUME Local, NEW r \in Requests, CreateAlarm(r) PROVE Local'
<1>1. /\ pc[r] \in {"alarm", "doomed"} /\ Facts(r) /\ TablesOK' /\ UNCHANGED <<outbox, joined>>
      /\ job[r] \in Jobs /\ draft[r] \in Draft
  BY QuietTables DEF CreateAlarm, Local, Facts, TypeOK
<1>2. CASE pc[r] = "alarm" /\ Drafted(r, draft[r], "commit")
  <2>1. /\ RequestsOK' /\ Others(r) /\ pc'[r] = "commit" /\ draft'[r] = draft[r]
        /\ UNCHANGED <<job, seen, flat, pending, result>>
    BY <1>1, <1>2, DraftedMoves DEF Local, Calls
  <2>2. Facts(r)'
    BY <1>1, <1>2, <2>1 DEF Facts, SigningUp, Editing
  <2> QED
    BY <1>1, <2>1, <2>2, StepsKnow
<1>3. CASE Answer(r, "ERROR")
  <2>1. /\ RequestsOK' /\ Others(r) /\ pc'[r] = "done" /\ job'[r] = job[r] /\ draft'[r] = NoDraft
        /\ result'[r] = "ERROR"
    BY <1>1, <1>3, AnswerMoves DEF Local, Result
  <2> QED
    BY <1>1, <2>1, EndsKnow
<1> QED
  BY <1>2, <1>3 DEF CreateAlarm

LEMMA CreateSuperAdminKnows ==
  ASSUME Local, NEW r \in Requests, CreateSuperAdmin(r) PROVE Local'
<1>1. PICK j \in Asks(r) :
        /\ j.op = "signUpSuper" /\ UNCHANGED <<apts, outbox, joined>>
        /\ \/ Conclude(r, j, "ALREADY_IN_USE") /\ UNCHANGED <<db, unused>>
           \/ /\ \E c \in unused : db' = [db EXCEPT ![c] = SuperRow(r)] /\ unused' = unused \ {c}
              /\ Conclude(r, j, "ok")
           \/ Conclude(r, j, "ok") /\ UNCHANGED <<db, unused>>
  BY DEF CreateSuperAdmin
<1>2. j \in Jobs /\ pc[r] = "idle"
  BY <1>1, AsksForJobs
<1>3. /\ RequestsOK' /\ Others(r) /\ pc'[r] = "done" /\ job'[r] = j /\ draft'[r] = NoDraft
  BY <1>1, <1>2, ConcludeMoves DEF Local, Result
<1>4. TablesOK'
  <2>1. CASE UNCHANGED <<db, unused>>
    BY <1>1, <2>1, TypesAreTwo DEF Local, TablesOK
  <2>2. ASSUME NEW c \in unused, db' = [db EXCEPT ![c] = SuperRow(r)], unused' = unused \ {c}
        PROVE  TablesOK'
    BY <1>1, <2>2, TypesAreTwo, NewRowsAreTyped DEF Local, TablesOK
  <2> QED
    BY <1>1, <2>1, <2>2
<1> QED
  BY <1>1, <1>2, <1>3, <1>4, EndsKnow

LEMMA FindAdminKnows ==
  ASSUME Local, NEW r \in Requests, FindAdmin(r) PROVE Local'
<1>1. PICK j \in Asks(r) :
        /\ j.op \in {"edit", "decide", "delete"}
        /\ \/ Conclude(r, j, "USER_NOT_FOUND") \/ Conclude(r, j, "NOT_UPDATE_JOINEDSTATUS")
           \/ /\ db[j.target] # Absent /\ ~(j.op = "decide" /\ db[j.target].status \in Decided)
              /\ Proceed(r, j, db[j.target], "write")
  BY DEF FindAdmin
<1>2. /\ j \in Jobs /\ pc[r] # "done" /\ r \notin outbox /\ r \notin joined
      /\ result[r] = "none" /\ draft[r] = NoDraft
      /\ TablesOK' /\ UNCHANGED <<outbox, joined>>
  BY <1>1, AsksForJobs, QuietTables DEF FindAdmin
<1>3. db[j.target] \in Row \cup {Absent}
  BY <1>1, <1>2, JobsAreWellFormed DEF Local, TypeOK
<1>4. CASE Conclude(r, j, "USER_NOT_FOUND") \/ Conclude(r, j, "NOT_UPDATE_JOINEDSTATUS")
  <2>1. /\ RequestsOK' /\ Others(r) /\ pc'[r] = "done" /\ job'[r] = j /\ draft'[r] = NoDraft
    BY <1>2, <1>4, ConcludeMoves DEF Local, Result
  <2> QED
    BY <1>1, <1>2, <2>1, EndsKnow
<1>5. CASE /\ db[j.target] # Absent /\ ~(j.op = "decide" /\ db[j.target].status \in Decided)
           /\ Proceed(r, j, db[j.target], "write")
  <2>1. /\ RequestsOK' /\ Others(r) /\ pc'[r] = "write" /\ job'[r] = j
        /\ seen'[r] = db[j.target] /\ draft' = draft /\ result' = result
    BY <1>2, <1>3, <1>5, ProceedMoves DEF Local, Calls
  <2>2. db[j.target] \in Row /\ db[j.target].status \in Statuses
    BY <1>3, <1>5 DEF Row
  <2>3. Facts(r)'
    BY <1>1, <1>2, <1>5, <2>1, <2>2 DEF Facts, SigningUp, Editing, Statuses
  <2> QED
    BY <1>2, <2>1, <2>3, StepsKnow
<1> QED
  BY <1>1, <1>4, <1>5

\* The draft of an edit with its account.
LEMMA EditDrafted ==
  ASSUME Local, NEW r \in Requests, pc[r] = "write", job[r].op = "edit", RowMatches(r, job[r].target)
  PROVE  LET c == job[r].target
             d == WithAccount(draft[r], c, Rewritten(db[c], r))
         IN /\ c \in Accounts /\ db[c] \in Row /\ d \in Draft
            /\ d.account = c /\ d.row = Rewritten(db[c], r) /\ d.row \in Row
            /\ d.home = Absent /\ d.flat = Absent
<1>1. job[r].target \in Accounts /\ draft[r] = NoDraft
  BY JobsAreWellFormed DEF Local, Facts, SigningUp, Editing
<1>2. db[job[r].target] \in Row
  BY <1>1 DEF RowMatches, Local, TypeOK
<1>3. Rewritten(db[job[r].target], r) \in Row
  BY <1>2, RewrittenRow
<1> QED
  BY <1>1, <1>2, <1>3, AccountDrafted, DraftsAreTyped DEF NoDraft

LEMMA UpdateAdminKnows ==
  ASSUME Local, NEW r \in Requests, UpdateAdmin(r) PROVE Local'
<1> DEFINE c == job[r].target
           d == WithAccount(draft[r], c, Rewritten(db[c], r))
<1>1. /\ pc[r] = "write" /\ job[r].op = "edit" /\ Facts(r) /\ TablesOK'
      /\ UNCHANGED <<outbox, joined>>
  BY QuietTables DEF UpdateAdmin, Local
<1>2. job[r] \in Jobs /\ seen[r] \in Row
  BY <1>1 DEF Facts
<1>3. CASE Answer(r, "ALREADY_IN_USE") \/ Answer(r, "ERROR")
  <2>1. /\ RequestsOK' /\ Others(r) /\ pc'[r] = "done" /\ job'[r] = job[r] /\ draft'[r] = NoDraft
    BY <1>2, <1>3, AnswerMoves DEF Local, Result
  <2> QED
    BY <1>1, <1>2, <2>1, EndsKnow
<1>4. CASE RowMatches(r, c) /\ seen[r].home # Absent /\ Drafted(r, d, "findApt")
  <2>1. /\ d \in Draft /\ d.account = c /\ d.row \in Row /\ d.home = Absent /\ d.flat = Absent
    BY <1>1, <1>4, EditDrafted
  <2>2. seen[r].home \in Apartments
    BY <1>2, <1>4 DEF Row
  <2> HIDE DEF d
  <2>3. /\ RequestsOK' /\ Others(r) /\ pc'[r] = "findApt" /\ draft'[r] = d
        /\ UNCHANGED <<job, seen, flat, pending, result>>
    BY <1>4, <2>1, DraftedMoves DEF Local, Calls
  <2>4. Facts(r)'
    BY <1>1, <2>1, <2>2, <2>3 DEF Facts, SigningUp, Editing
  <2> QED
    BY <1>1, <2>3, <2>4, StepsKnow
<1>5. CASE Conflict(r)
  <2>1. /\ RequestsOK' /\ Others(r) /\ job'[r] = job[r] /\ draft'[r] = NoDraft
        /\ \/ pc'[r] = "read" /\ result' = result
           \/ pc'[r] = "done"
    BY <1>2, <1>5, ConflictMoves DEF Local
  <2>2. CASE pc'[r] = "done"
    BY <1>1, <1>2, <2>1, <2>2, EndsKnow
  <2>3. CASE pc'[r] = "read" /\ result' = result
    <3>1. Facts(r)'
      BY <1>1, <2>1, <2>3 DEF Facts, SigningUp, Editing
    <3> QED
      BY <1>1, <2>1, <3>1, StepsKnow
  <2> QED
    BY <2>1, <2>2, <2>3
<1> QED
  BY <1>3, <1>4, <1>5 DEF UpdateAdmin

LEMMA FindApartmentKnows ==
  ASSUME Local, NEW r \in Requests, FindApartment(r) PROVE Local'
<1> DEFINE a == seen[r].home
<1>1. /\ pc[r] = "findApt" /\ flat' = [flat EXCEPT ![r] = apts[a]] /\ Facts(r)
      /\ UNCHANGED <<job, seen, pending, tries>> /\ TablesOK' /\ UNCHANGED <<outbox, joined>>
  BY QuietTables DEF FindApartment, Local
<1>2. Editing(r) /\ a \in Apartments /\ job[r] \in Jobs /\ job[r].op = "edit"
  BY <1>1 DEF Facts, Editing
<1>3. apts[a] \in Apartment \cup {Absent}
  BY <1>2 DEF Local, TypeOK
<1> HIDE DEF a
<1>4. CASE /\ apts[a] = Absent /\ pc' = [pc EXCEPT ![r] = "done"]
           /\ result' = [result EXCEPT ![r] = "APARTMENT_NOT_FOUND"]
           /\ draft' = [draft EXCEPT ![r] = NoDraft]
  <2>1. RequestsOK' /\ Others(r) /\ pc'[r] = "done" /\ job'[r] = job[r] /\ draft'[r] = NoDraft
    BY <1>1, <1>3, <1>4, DraftsAreTyped DEF Local, TypeOK, RequestsOK, Others, Calls, Result
  <2> QED
    BY <1>1, <1>2, <2>1, EndsKnow
<1>5. CASE /\ apts[a] # Absent /\ pc' = [pc EXCEPT ![r] = "writeApt"]
           /\ UNCHANGED <<result, draft>>
  <2>1. RequestsOK' /\ Others(r) /\ pc'[r] = "writeApt" /\ flat'[r] \in Apartment
    BY <1>1, <1>3, <1>5 DEF Local, TypeOK, RequestsOK, Others, Calls
  <2>2. Facts(r)'
    BY <1>1, <1>2, <1>5, <2>1 DEF Facts, SigningUp, Editing
  <2> QED
    BY <1>1, <2>1, <2>2, StepsKnow
<1> QED
  BY <1>4, <1>5 DEF FindApartment, a

LEMMA UpdateApartmentKnows ==
  ASSUME IInv, NEW r \in Requests, UpdateApartment(r) PROVE Local'
<1> DEFINE a == seen[r].home
           d == WithFlat(draft[r], a, Rewritten(apts[a], r))
<1>1. /\ pc[r] = "writeApt" /\ Facts(r) /\ Local /\ TablesOK' /\ UNCHANGED <<outbox, joined>>
  BY QuietTables DEF UpdateApartment, IInv, Local
<1>2. /\ Editing(r) /\ a \in Apartments /\ job[r] \in Jobs /\ job[r].op = "edit"
      /\ draft[r] \in Draft /\ draft[r].account = job[r].target /\ draft[r].row \in Row
      /\ flat[r] \in Apartment
  BY <1>1 DEF Facts, Editing, Local, TypeOK
<1>3. apts[a] \in Apartment
  BY <1>1, <1>2 DEF IInv, Stored, Knowledge, HeldRows
<1>4. /\ d \in Draft /\ d.account = draft[r].account /\ d.row = draft[r].row
      /\ d.home = a /\ d.flat \in Apartment
  <2>1. Rewritten(apts[a], r) \in Apartment
    BY <1>3, RewrittenFlat
  <2> QED
    BY <1>2, <2>1, FlatDrafted
<1> HIDE DEF d
<1>5. CASE Answer(r, "ALREADY_IN_USE")
  <2>1. RequestsOK' /\ Others(r) /\ pc'[r] = "done" /\ job'[r] = job[r] /\ draft'[r] = NoDraft
    BY <1>1, <1>2, <1>5, AnswerMoves DEF Local, Result
  <2> QED
    BY <1>1, <1>2, <2>1, EndsKnow
<1>6. CASE Drafted(r, d, "commit")
  <2>1. /\ RequestsOK' /\ Others(r) /\ pc'[r] = "commit" /\ draft'[r] = d
        /\ UNCHANGED <<job, seen, flat, pending, result>>
    BY <1>1, <1>4, <1>6, DraftedMoves DEF Local, Calls
  <2>2. Facts(r)'
    BY <1>1, <1>2, <1>4, <2>1 DEF Facts, SigningUp, Editing
  <2> QED
    BY <1>1, <2>1, <2>2, StepsKnow
<1>7. CASE Conflict(r)
  <2>1. /\ RequestsOK' /\ Others(r) /\ job'[r] = job[r] /\ draft'[r] = NoDraft
        /\ \/ pc'[r] = "read" /\ result' = result
           \/ pc'[r] = "done"
    BY <1>1, <1>2, <1>7, ConflictMoves DEF Local
  <2>2. CASE pc'[r] = "done"
    BY <1>1, <1>2, <2>1, <2>2, EndsKnow
  <2>3. CASE pc'[r] = "read" /\ result' = result
    <3>1. Facts(r)'
      BY <1>1, <1>2, <2>1, <2>3 DEF Facts, SigningUp, Editing
    <3> QED
      BY <1>1, <2>1, <3>1, StepsKnow
  <2> QED
    BY <2>1, <2>2, <2>3
<1> QED
  BY <1>5, <1>6, <1>7 DEF UpdateApartment, d

LEMMA CommitKnows ==
  ASSUME Local, NEW r \in Requests, Commit(r) PROVE Local'
<1> DEFINE d == draft[r]
<1>1. PICK res \in {"ok", "ERROR"} : Answer(r, res)
  BY DEF Commit
<1>2. /\ pc[r] = "commit" /\ Facts(r) /\ d \in Draft
      /\ db' = [c \in Accounts |-> IF c = d.account THEN d.row ELSE db[c]]
      /\ apts' = [apts EXCEPT ![d.home] = d.flat]
      /\ unused' = unused \ {d.account}
      /\ outbox' = IF job[r].op = "signUp" THEN outbox \cup {r} ELSE outbox
      /\ joined' = IF job[r].op = "signUp" /\ d.row # Absent THEN joined \cup {r} ELSE joined
  BY DEF Commit, Local, TypeOK
<1>3. /\ job[r] \in Jobs /\ job[r].op \in {"signUp", "edit"}
      /\ r \notin outbox /\ r \notin joined
  BY <1>2 DEF Facts
<1>4. d.row \in Row /\ d.flat \in Apartment
  BY <1>2, <1>3, NewRowsAreTyped DEF Facts, SigningUp, Editing
<1>5. d.row # Absent
  BY <1>4, AbsentIsNoData
<1>6. /\ RequestsOK' /\ Others(r) /\ pc'[r] = "done" /\ job'[r] = job[r] /\ draft'[r] = NoDraft
      /\ result'[r] = res
  BY <1>1, <1>3, AnswerMoves DEF Local, Result
<1> HIDE DEF d
<1>7. TablesOK'
  BY <1>2, <1>4, TypesAreTwo DEF Local, TablesOK
<1>8. Facts(r)'
  BY <1>2, <1>3, <1>5, <1>6 DEF Facts, SigningUp, Editing
<1> QED
  BY <1>2, <1>6, <1>7, <1>8, StepsKnow

LEMMA DecideAdminKnows ==
  ASSUME Local, NEW r \in Requests, DecideAdmin(r) PROVE Local'
<1> DEFINE c == job[r].target
<1>1. PICK res \in {"ok", "ERROR"} : Answer(r, res)
  BY DEF DecideAdmin
<1>2. /\ pc[r] = "write" /\ job[r].op = "decide" /\ Facts(r) /\ UNCHANGED <<apts, unused, outbox, joined>>
      /\ \/ RowMatches(r, c) /\ db' = [db EXCEPT ![c] = DecidedAs(@, job[r].status)]
         \/ UNCHANGED db
  BY DEF DecideAdmin, Local
<1>3. job[r] \in Jobs /\ c \in Accounts /\ job[r].status \in Statuses
  BY <1>2, JobsAreWellFormed DEF Facts
<1>4. /\ RequestsOK' /\ Others(r) /\ pc'[r] = "done" /\ job'[r] = job[r] /\ draft'[r] = NoDraft
  BY <1>1, <1>3, AnswerMoves DEF Local, Result
<1>5. RowMatches(r, c) => DecidedAs(db[c], job[r].status) \in Row
  BY <1>3, DecidedRow DEF RowMatches, Local, TypeOK
<1> HIDE DEF c
<1>6. db' \in [Accounts -> Row \cup {Absent}]
  BY <1>2, <1>5 DEF Local, TypeOK
<1>7. TablesOK'
  BY <1>2, <1>6, TypesAreTwo DEF Local, TablesOK
<1> QED
  BY <1>2, <1>3, <1>4, <1>7, EndsKnow

LEMMA FindPendingKnows ==
  ASSUME Local, NEW r \in Requests, FindPending(r) PROVE Local'
<1> DEFINE found == {c \in Accounts : db[c] # Absent /\ db[c].status = "PENDING"}
<1>1. PICK j \in Asks(r) :
        /\ j.op = "decideAll"
        /\ \/ Conclude(r, j, "USER_NOT_FOUND")
           \/ /\ pending' = [pending EXCEPT ![r] = found]
              /\ job' = [job EXCEPT ![r] = j] /\ pc' = [pc EXCEPT ![r] = "writeAll"]
              /\ UNCHANGED <<seen, flat, draft, tries, result>>
  BY DEF FindPending
<1>2. /\ j \in Jobs /\ pc[r] = "idle" /\ r \notin outbox /\ r \notin joined
      /\ result[r] = "none" /\ draft[r] = NoDraft
      /\ TablesOK' /\ UNCHANGED <<outbox, joined>>
  BY <1>1, AsksForJobs, QuietTables DEF FindPending
<1>3. found \in SUBSET Accounts
  OBVIOUS
<1> HIDE DEF found
<1>4. CASE Conclude(r, j, "USER_NOT_FOUND")
  <2>1. RequestsOK' /\ Others(r) /\ pc'[r] = "done" /\ job'[r] = j /\ draft'[r] = NoDraft
    BY <1>2, <1>4, ConcludeMoves DEF Local, Result
  <2> QED
    BY <1>1, <1>2, <2>1, EndsKnow
<1>5. CASE /\ pending' = [pending EXCEPT ![r] = found]
           /\ job' = [job EXCEPT ![r] = j] /\ pc' = [pc EXCEPT ![r] = "writeAll"]
           /\ UNCHANGED <<seen, flat, draft, tries, result>>
  <2>1. RequestsOK' /\ Others(r) /\ pc'[r] = "writeAll" /\ job'[r] = j
    BY <1>2, <1>3, <1>5 DEF Local, TypeOK, RequestsOK, Others, Calls
  <2>2. Facts(r)'
    BY <1>1, <1>2, <1>5, <2>1 DEF Facts, SigningUp, Editing
  <2> QED
    BY <1>2, <2>1, <2>2, StepsKnow
<1> QED
  BY <1>1, <1>4, <1>5

LEMMA DecideAllKnows ==
  ASSUME Local, NEW r \in Requests, DecideAll(r) PROVE Local'
<1>1. /\ pc[r] = "writeAll" /\ Facts(r) /\ Answer(r, "ok") /\ UNCHANGED <<apts, unused, outbox, joined>>
      /\ db' = [c \in Accounts |->
                  IF c \in pending[r] /\ db[c] # Absent
                  THEN DecidedAs(db[c], job[r].status) ELSE db[c]]
  BY DEF DecideAll, Local
<1>2. job[r] \in Jobs /\ job[r].op = "decideAll" /\ job[r].status \in Statuses
  BY <1>1, JobsAreWellFormed DEF Facts
<1>3. /\ RequestsOK' /\ Others(r) /\ pc'[r] = "done" /\ job'[r] = job[r] /\ draft'[r] = NoDraft
  BY <1>1, <1>2, AnswerMoves DEF Local, Result
<1>4. \A b \in Row : DecidedAs(b, job[r].status) \in Row
  BY <1>2, DecidedRow
<1>5. db' \in [Accounts -> Row \cup {Absent}]
  BY <1>1, <1>4 DEF Local, TypeOK
<1>6. TablesOK'
  BY <1>1, <1>5, TypesAreTwo DEF Local, TablesOK
<1> QED
  BY <1>1, <1>2, <1>3, <1>6, EndsKnow

LEMMA DeleteAdminKnows ==
  ASSUME Local, NEW r \in Requests, DeleteAdmin(r) PROVE Local'
<1>1. /\ pc[r] = "write" /\ job[r].op = "delete" /\ Facts(r) /\ Answer(r, "ok")
      /\ UNCHANGED <<apts, unused, outbox, joined>>
      /\ db' = [db EXCEPT ![job[r].target] = Absent]
  BY DEF DeleteAdmin, Local
<1>2. job[r] \in Jobs
  BY <1>1 DEF Facts
<1>3. /\ RequestsOK' /\ Others(r) /\ pc'[r] = "done" /\ job'[r] = job[r] /\ draft'[r] = NoDraft
  BY <1>1, <1>2, AnswerMoves DEF Local, Result
<1>4. TablesOK'
  BY <1>1, TypesAreTwo DEF Local, TablesOK
<1> QED
  BY <1>1, <1>2, <1>3, <1>4, EndsKnow

LEMMA DeleteRejectedKnows ==
  ASSUME Local, NEW r \in Requests, DeleteRejected(r) PROVE Local'
<1> DEFINE found == {c \in Accounts : db[c] # Absent /\ db[c].role = "ADMIN"
                                                    /\ db[c].status = "REJECTED"}
<1>1. PICK j \in Asks(r) :
        /\ j.op = "deleteRejected" /\ Conclude(r, j, "ok") /\ UNCHANGED <<apts, unused, outbox, joined>>
        /\ db' = [c \in Accounts |-> IF c \in found THEN Absent ELSE db[c]]
  BY DEF DeleteRejected
<1>2. j \in Jobs /\ pc[r] = "idle"
  BY <1>1, AsksForJobs
<1>3. RequestsOK' /\ Others(r) /\ pc'[r] = "done" /\ job'[r] = j /\ draft'[r] = NoDraft
  BY <1>1, <1>2, ConcludeMoves DEF Local, Result
<1> HIDE DEF found
<1>4. TablesOK'
  BY <1>1, TypesAreTwo DEF Local, TablesOK
<1> QED
  BY <1>1, <1>2, <1>3, <1>4, EndsKnow

LEMMA FailKnows ==
  ASSUME Local, NEW r \in Requests, Fail(r) PROVE Local'
<1>1. /\ pc[r] \notin {"idle", "done"} /\ Facts(r) /\ Answer(r, "ERROR")
      /\ TablesOK' /\ UNCHANGED <<outbox, joined>>
  BY QuietTables DEF Fail, Local
<1>2. job[r] \in Jobs
  BY <1>1 DEF Facts
<1>3. /\ RequestsOK' /\ Others(r) /\ pc'[r] = "done" /\ job'[r] = job[r] /\ draft'[r] = NoDraft
      /\ result'[r] = "ERROR"
  BY <1>1, <1>2, AnswerMoves DEF Local, Result
<1> QED
  BY <1>1, <1>2, <1>3, EndsKnow

LEMMA LocalStep == IInv /\ [Next]_vars => Local'
<1> SUFFICES ASSUME IInv, [Next]_vars PROVE Local'
  OBVIOUS
<1>1. Local
  BY DEF IInv
<1>2. ASSUME NEW r \in Requests,
             \/ CreateApartment(r) \/ InsertAdmin(r) \/ CreateAlarm(r) \/ CreateSuperAdmin(r)
             \/ FindAdmin(r) \/ UpdateAdmin(r) \/ FindApartment(r) \/ UpdateApartment(r) \/ Commit(r)
             \/ DecideAdmin(r) \/ FindPending(r) \/ DecideAll(r)
             \/ DeleteAdmin(r) \/ DeleteRejected(r) \/ Fail(r)
      PROVE  Local'
  BY <1>1, <1>2, CreateApartmentKnows, InsertAdminKnows, CreateAlarmKnows, CreateSuperAdminKnows,
     FindAdminKnows, UpdateAdminKnows, FindApartmentKnows, UpdateApartmentKnows, CommitKnows,
     DecideAdminKnows, FindPendingKnows, DecideAllKnows, DeleteAdminKnows, DeleteRejectedKnows,
     FailKnows
<1>3. CASE UNCHANGED vars
  <2>1. RequestsOK' /\ TablesOK'
    BY <1>1, <1>3, TypesAreTwo DEF Local, RequestsOK, TablesOK, vars
  <2>2. \A r \in Requests : Facts(r)'
    BY <1>1, <1>3 DEF Local, Facts, SigningUp, Editing, vars
  <2> QED
    BY <2>1, <2>2, TypesAreTwo DEF Local
<1> QED
  BY <1>2, <1>3 DEF Next

-----------------------------------------------------------------------------
(***************************************************************************)
(* Rows, ids and locks.                                                    *)
(***************************************************************************)

LEMMA StoredInit == Init => Stored
<1> SUFFICES ASSUME Init PROVE Stored
  OBVIOUS
<1>1. \A c \in Accounts : db[c] # Absent => db[c].by = Absent
  <2> SUFFICES ASSUME NEW c \in Accounts, db[c] # Absent PROVE db[c].by = Absent
    OBVIOUS
  <2>1. CASE db[c] = SuperRow(Absent)
    BY <2>1 DEF SuperRow
  <2>2. ASSUME NEW a \in Apartments, NEW s \in Statuses,
               db[c] = [AdminRow(a, Absent) EXCEPT !.status = s]
        PROVE  db[c].by = Absent
    <3> DEFINE b == AdminRow(a, Absent)
    <3>1. b.by = Absent /\ b = [role |-> b.role, status |-> b.status, home |-> b.home,
                                version |-> b.version, by |-> b.by]
      BY DEF AdminRow
    <3>2. db[c] = [b EXCEPT !.status = s]
      BY <2>2
    <3> HIDE DEF b
    <3>3. db[c].by = b.by
      BY <3>1, <3>2
    <3> QED
      BY <3>1, <3>3
  <2> QED
    BY <2>1, <2>2 DEF Init
<1>2. \A a \in Apartments : apts[a] # Absent => apts[a].by = Absent /\ apts[a].founder = Absent
  BY DEF Init, NewApartment
<1>3. \A b, c \in Accounts :
        db[b] # Absent /\ db[c] # Absent /\ db[b].home # Absent =>
          apts[db[b].home] # Absent /\ (db[b].home = db[c].home => b = c)
  BY DEF Init
<1>4. Tables
  <2>1. Unused /\ HomesDiffer
    BY <1>3 DEF Init, Unused, HomesDiffer
  <2>2. ASSUME NEW c \in Accounts, db[c] # Absent, db[c].home # Absent
        PROVE  apts[db[c].home] # Absent /\ apts[db[c].home].by = db[c].by
    <3>1. db[c].home \in Apartments
      BY <2>2, LocalInit DEF Local, TypeOK, Row
    <3> QED
      BY <1>1, <1>2, <1>3, <2>2, <3>1
  <2>3. Founders
    BY <1>2 DEF Init, Founders
  <2> QED
    BY <2>1, <2>2, <2>3 DEF Tables, EditsAreWhole
<1>5. Locks
  BY DraftsAreTyped DEF Init, Locks
<1>6. \A r \in Requests : Knowledge(r)
  BY DEF Init, Knowledge, NewIds, HeldRows, SnapshotIntegrity, SigningUp, Editing
<1> QED
  BY <1>4, <1>5, <1>6 DEF Stored

LEMMA ClaimsOfOthers ==
  ASSUME NEW r \in Requests, Others(r), NEW s \in Requests \ {r}
  PROVE  /\ SigningUp(s)' <=> SigningUp(s)
         /\ Editing(s)' <=> Editing(s)
         /\ job'[s] = job[s] /\ seen'[s] = seen[s] /\ flat'[s] = flat[s] /\ draft'[s] = draft[s]
         /\ pc'[s] = pc[s]
  BY DEF Others, SigningUp, Editing

\* A request that has nothing open and no read to act on claims nothing.
LEMMA NothingToKnow ==
  ASSUME NEW r \in Requests, pc'[r] \in {"read", "writeAll", "done"}
  PROVE  Knowledge(r)'
  BY DEF Knowledge, NewIds, HeldRows, SnapshotIntegrity, SigningUp, Editing

\* What a transaction has written is locked against the others: a new draft
\* that avoids theirs keeps the locks.
LEMMA LocksKept ==
  ASSUME Stored, NEW r \in Requests, Others(r),
         draft'[r].account # Absent => \A s \in Requests \ {r} : draft[s].account # draft'[r].account,
         draft'[r].home # Absent => \A s \in Requests \ {r} : draft[s].home # draft'[r].home
  PROVE  Locks'
<1> SUFFICES ASSUME NEW t \in Requests, NEW s \in Requests \ {t}
             PROVE  /\ draft'[t].account # Absent => draft'[s].account # draft'[t].account
                    /\ draft'[t].home # Absent => draft'[s].home # draft'[t].home
  BY DEF Locks
<1>1. CASE t = r
  BY <1>1, ClaimsOfOthers
<1>2. CASE s = r
  BY <1>2, ClaimsOfOthers
<1>3. CASE t # r /\ s # r
  BY <1>3, ClaimsOfOthers DEF Stored, Locks
<1> QED
  BY <1>1, <1>2, <1>3

LEMMA LocksReleased ==
  ASSUME Stored, NEW r \in Requests, Others(r), draft'[r] = NoDraft \/ draft'[r] = draft[r]
  PROVE  Locks'
<1>1. CASE draft'[r] = NoDraft
  BY <1>1, DraftsAreTyped, LocksKept
<1>2. CASE draft'[r] = draft[r]
  BY <1>2, LocksKept DEF Stored, Locks
<1> QED
  BY <1>1, <1>2

\* A step of r that changes no table keeps what the others know.
LEMMA QuietStored ==
  ASSUME Stored, NEW r \in Requests, Others(r), UNCHANGED tableVars, Locks', Knowledge(r)'
  PROVE  Stored'
<1>1. UNCHANGED <<db, apts, unused, outbox, joined>>
  BY DEF tableVars
<1>2. ASSUME NEW s \in Requests \ {r} PROVE Knowledge(s)'
  <2>1. Knowledge(s)
    BY DEF Stored
  <2>2. NewIds(s)' /\ HeldRows(s)' /\ SnapshotIntegrity(s)'
    BY <1>1, <2>1, ClaimsOfOthers DEF Knowledge, NewIds, HeldRows, SnapshotIntegrity
  <2> QED
    BY <2>2 DEF Knowledge
<1>3. Tables'
  BY <1>1 DEF Stored, Tables, Unused, HomesDiffer, EditsAreWhole, Founders
<1> QED
  BY <1>2, <1>3 DEF Stored

LEMMA CreateApartmentKeeps ==
  ASSUME IInv, NEW r \in Requests, CreateApartment(r) PROVE Stored'
<1>1. PICK j \in Asks(r) :
        /\ UNCHANGED tableVars
        /\ \/ Conclude(r, j, "ALREADY_IN_USE")
           \/ \E a \in Apartments :
                /\ apts[a] = Absent /\ \A s \in Requests : draft[s].home # a
                /\ job' = [job EXCEPT ![r] = j] /\ pc' = [pc EXCEPT ![r] = "insert"]
                /\ draft' = [draft EXCEPT ![r] = WithFlat(NoDraft, a, NewApartment(r))]
                /\ UNCHANGED <<seen, flat, pending, tries, result>>
  BY DEF CreateApartment
<1>2. Local /\ Stored /\ j \in Jobs
  BY AsksForJobs DEF IInv
<1>3. CASE Conclude(r, j, "ALREADY_IN_USE")
  <2>1. Others(r) /\ pc'[r] = "done" /\ draft'[r] = NoDraft
    BY <1>2, <1>3, ConcludeMoves DEF Local, Result
  <2> QED
    BY <1>1, <1>2, <2>1, NothingToKnow, LocksReleased, QuietStored
<1>4. ASSUME NEW a \in Apartments,
             apts[a] = Absent, \A s \in Requests : draft[s].home # a,
             job' = [job EXCEPT ![r] = j], pc' = [pc EXCEPT ![r] = "insert"],
             draft' = [draft EXCEPT ![r] = WithFlat(NoDraft, a, NewApartment(r))],
             UNCHANGED <<seen, flat, pending, tries, result>>
      PROVE  Stored'
  <2> DEFINE d == WithFlat(NoDraft, a, NewApartment(r))
  <2>1. d.account = Absent /\ d.home = a
    BY NewRowsAreTyped, DraftsAreTyped, FlatDrafted
  <2>2. draft' = [draft EXCEPT ![r] = d]
    BY <1>4
  <2> HIDE DEF d
  <2>3. Others(r) /\ pc'[r] = "insert" /\ draft'[r] = d
    BY <1>2, <1>4, <2>2 DEF Local, TypeOK, Others
  <2>4. Locks'
    BY <1>2, <1>4, <2>1, <2>3, LocksKept
  <2>5. apts' = apts
    BY <1>1 DEF tableVars
  <2>6. Knowledge(r)'
    BY <1>4, <2>1, <2>3, <2>5
    DEF Knowledge, NewIds, HeldRows, SnapshotIntegrity, SigningUp, Editing
  <2> QED
    BY <1>1, <1>2, <2>3, <2>4, <2>6, QuietStored
<1> QED
  BY <1>1, <1>3, <1>4

LEMMA InsertAdminKeeps ==
  ASSUME IInv, NEW r \in Requests, InsertAdmin(r) PROVE Stored'
<1>1. /\ pc[r] = "insert" /\ Local /\ Stored /\ Facts(r) /\ UNCHANGED tableVars
      /\ apts' = apts /\ unused' = unused /\ draft[r] \in Draft /\ Knowledge(r)
  BY DEF InsertAdmin, IInv, Local, Stored, tableVars, TypeOK
<1>2. job[r] \in Jobs /\ SigningUp(r) /\ draft[r].home \in Apartments
  BY <1>1 DEF Facts, SigningUp
<1>3. CASE Answer(r, "ALREADY_IN_USE")
  <2>1. Others(r) /\ pc'[r] = "done" /\ draft'[r] = NoDraft
    BY <1>1, <1>2, <1>3, AnswerMoves DEF Local, Result
  <2> QED
    BY <1>1, <2>1, NothingToKnow, LocksReleased, QuietStored
<1>4. ASSUME NEW c \in unused, ~Locked(r, {c}),
             Drafted(r, WithAccount(draft[r], c, AdminRow(draft[r].home, r)), "alarm")
      PROVE  Stored'
  <2> DEFINE d == WithAccount(draft[r], c, AdminRow(draft[r].home, r))
  <2>1. c \in Accounts /\ AdminRow(draft[r].home, r) \in Row
    BY <1>1, <1>2, NewRowsAreTyped DEF Local, TypeOK
  <2>2. d \in Draft /\ d.account = c /\ d.home = draft[r].home
    BY <1>1, <2>1, AccountDrafted
  <2> HIDE DEF d
  <2>3. Others(r) /\ pc'[r] = "alarm" /\ draft'[r] = d
    BY <1>1, <1>4, <2>2, DraftedMoves DEF Local, Calls, d
  <2>4. Locks'
    BY <1>1, <1>4, <2>2, <2>3, LocksKept DEF Locked, Stored, Locks
  <2>5. Knowledge(r)'
    BY <1>1, <1>2, <2>2, <2>3
    DEF Knowledge, NewIds, HeldRows, SnapshotIntegrity, SigningUp, Editing
  <2> QED
    BY <1>1, <2>3, <2>4, <2>5, QuietStored
<1>5. CASE Drafted(r, draft[r], "doomed")
  <2>1. Others(r) /\ pc'[r] = "doomed" /\ draft'[r] = draft[r]
    BY <1>1, <1>5, DraftedMoves DEF Local, Calls
  <2>2. Knowledge(r)'
    BY <1>1, <1>2, <2>1
    DEF Knowledge, NewIds, HeldRows, SnapshotIntegrity, SigningUp, Editing
  <2> QED
    BY <1>1, <2>1, <2>2, LocksReleased, QuietStored
<1> QED
  BY <1>3, <1>4, <1>5 DEF InsertAdmin

LEMMA CreateAlarmKeeps ==
  ASSUME IInv, NEW r \in Requests, CreateAlarm(r) PROVE Stored'
<1>1. /\ pc[r] \in {"alarm", "doomed"} /\ Local /\ Stored /\ Facts(r) /\ UNCHANGED tableVars
      /\ apts' = apts /\ unused' = unused /\ draft[r] \in Draft /\ Knowledge(r)
  BY DEF CreateAlarm, IInv, Local, Stored, tableVars, TypeOK
<1>2. job[r] \in Jobs /\ SigningUp(r) /\ job[r].op = "signUp"
  BY <1>1 DEF Facts, SigningUp
<1>3. CASE Answer(r, "ERROR")
  <2>1. Others(r) /\ pc'[r] = "done" /\ draft'[r] = NoDraft
    BY <1>1, <1>2, <1>3, AnswerMoves DEF Local, Result
  <2> QED
    BY <1>1, <2>1, NothingToKnow, LocksReleased, QuietStored
<1>4. CASE Drafted(r, draft[r], "commit")
  <2>1. Others(r) /\ pc'[r] = "commit" /\ draft'[r] = draft[r] /\ job' = job
    BY <1>1, <1>4, DraftedMoves DEF Local, Calls
  <2>2. Knowledge(r)'
    BY <1>1, <1>2, <2>1
    DEF Knowledge, NewIds, HeldRows, SnapshotIntegrity, SigningUp, Editing
  <2> QED
    BY <1>1, <2>1, <2>2, LocksReleased, QuietStored
<1> QED
  BY <1>3, <1>4 DEF CreateAlarm

LEMMA FindAdminKeeps ==
  ASSUME IInv, NEW r \in Requests, FindAdmin(r) PROVE Stored'
<1>1. PICK j \in Asks(r) :
        /\ j.op \in {"edit", "decide", "delete"} /\ UNCHANGED tableVars
        /\ \/ Conclude(r, j, "USER_NOT_FOUND") \/ Conclude(r, j, "NOT_UPDATE_JOINEDSTATUS")
           \/ db[j.target] # Absent /\ Proceed(r, j, db[j.target], "write")
  BY DEF FindAdmin
<1>2. Local /\ Stored /\ j \in Jobs /\ draft[r] = NoDraft
  BY AsksForJobs DEF IInv
<1>3. CASE Conclude(r, j, "USER_NOT_FOUND") \/ Conclude(r, j, "NOT_UPDATE_JOINEDSTATUS")
  <2>1. Others(r) /\ pc'[r] = "done" /\ draft'[r] = NoDraft
    BY <1>2, <1>3, ConcludeMoves DEF Local, Result
  <2> QED
    BY <1>1, <1>2, <2>1, NothingToKnow, LocksReleased, QuietStored
<1>4. CASE db[j.target] # Absent /\ Proceed(r, j, db[j.target], "write")
  <2>1. j.target \in Accounts /\ db[j.target] \in Row
    BY <1>1, <1>2, <1>4, JobsAreWellFormed DEF Local, TypeOK
  <2>2. /\ Others(r) /\ pc'[r] = "write" /\ job'[r] = j /\ seen'[r] = db[j.target] /\ draft' = draft
    BY <1>2, <1>4, <2>1, ProceedMoves DEF Local, Calls
  <2>3. db[j.target].version \in Nat /\ j.target \notin unused
    BY <1>2, <1>4, <2>1 DEF Row, Stored, Tables, Unused
  <2>4. db' = db /\ unused' = unused
    BY <1>1 DEF tableVars
  <2>5. Knowledge(r)'
    BY <2>2, <2>3, <2>4
    DEF Knowledge, NewIds, HeldRows, SnapshotIntegrity, SigningUp, Editing
  <2> QED
    BY <1>1, <1>2, <2>2, <2>5, LocksReleased, QuietStored
<1> QED
  BY <1>1, <1>3, <1>4

LEMMA UpdateAdminKeeps ==
  ASSUME IInv, NEW r \in Requests, UpdateAdmin(r) PROVE Stored'
<1> DEFINE c == job[r].target
           d == WithAccount(draft[r], c, Rewritten(db[c], r))
<1>1. /\ pc[r] = "write" /\ job[r].op = "edit" /\ Local /\ Stored /\ Facts(r)
      /\ UNCHANGED tableVars /\ db' = db /\ Knowledge(r) /\ ~Locked(r, {c})
  BY DEF UpdateAdmin, IInv, Local, Stored, tableVars
<1>2. job[r] \in Jobs /\ seen[r] \in Row
  BY <1>1 DEF Facts
<1>3. CASE Answer(r, "ALREADY_IN_USE") \/ Answer(r, "ERROR")
  <2>1. Others(r) /\ pc'[r] = "done" /\ draft'[r] = NoDraft
    BY <1>1, <1>2, <1>3, AnswerMoves DEF Local, Result
  <2> QED
    BY <1>1, <2>1, NothingToKnow, LocksReleased, QuietStored
<1>4. CASE RowMatches(r, c) /\ seen[r].home # Absent /\ Drafted(r, d, "findApt")
  <2>1. /\ d \in Draft /\ d.account = c /\ d.row = Rewritten(db[c], r) /\ d.home = Absent
    BY <1>1, <1>4, EditDrafted
  <2>2. db[c] # Absent /\ db[c] = seen[r]
    BY <1>1, <1>4 DEF Knowledge, SnapshotIntegrity, RowMatches
  <2> HIDE DEF d
  <2>3. /\ Others(r) /\ pc'[r] = "findApt" /\ draft'[r] = d
        /\ UNCHANGED <<job, seen, flat, pending, result>>
    BY <1>1, <1>4, <2>1, DraftedMoves DEF Local, Calls
  <2>4. Locks'
    BY <1>1, <2>1, <2>3, LocksKept DEF Locked
  <2>5. Knowledge(r)'
    BY <1>1, <2>1, <2>2, <2>3
    DEF Knowledge, NewIds, HeldRows, SnapshotIntegrity, SigningUp, Editing
  <2> QED
    BY <1>1, <2>3, <2>4, <2>5, QuietStored
<1>5. CASE Conflict(r)
  <2>1. Others(r) /\ pc'[r] \in {"read", "done"} /\ draft'[r] = NoDraft
    BY <1>1, <1>2, <1>5, ConflictMoves DEF Local
  <2> QED
    BY <1>1, <2>1, NothingToKnow, LocksReleased, QuietStored
<1> QED
  BY <1>3, <1>4, <1>5 DEF UpdateAdmin

LEMMA FindApartmentKeeps ==
  ASSUME IInv, NEW r \in Requests, FindApartment(r) PROVE Stored'
<1> DEFINE a == seen[r].home
<1>1. /\ pc[r] = "findApt" /\ flat' = [flat EXCEPT ![r] = apts[a]] /\ Local /\ Stored
      /\ UNCHANGED <<job, seen, pending, tries>> /\ UNCHANGED tableVars
      /\ db' = db /\ apts' = apts /\ Knowledge(r) /\ Facts(r)
  BY DEF FindApartment, IInv, Local, Stored, tableVars
<1>2. Editing(r) /\ job[r].op = "edit"
  BY <1>1 DEF Facts, Editing
<1>3. CASE /\ pc' = [pc EXCEPT ![r] = "done"]
           /\ result' = [result EXCEPT ![r] = "APARTMENT_NOT_FOUND"]
           /\ draft' = [draft EXCEPT ![r] = NoDraft]
  <2>1. Others(r) /\ pc'[r] = "done" /\ draft'[r] = NoDraft
    BY <1>1, <1>3 DEF Local, TypeOK, Others
  <2> QED
    BY <1>1, <2>1, NothingToKnow, LocksReleased, QuietStored
<1>4. CASE pc' = [pc EXCEPT ![r] = "writeApt"] /\ UNCHANGED <<result, draft>>
  <2>1. Others(r) /\ pc'[r] = "writeApt" /\ draft'[r] = draft[r] /\ flat'[r] = apts[a]
    BY <1>1, <1>4 DEF Local, TypeOK, Others
  <2>2. Knowledge(r)'
    BY <1>1, <1>2, <2>1
    DEF Knowledge, NewIds, HeldRows, SnapshotIntegrity, SigningUp, Editing
  <2> QED
    BY <1>1, <2>1, <2>2, LocksReleased, QuietStored
<1> QED
  BY <1>3, <1>4 DEF FindApartment

LEMMA UpdateApartmentKeeps ==
  ASSUME IInv, NEW r \in Requests, UpdateApartment(r) PROVE Stored'
<1> DEFINE a == seen[r].home
           d == WithFlat(draft[r], a, Rewritten(apts[a], r))
<1>1. /\ pc[r] = "writeApt" /\ Local /\ Stored /\ Facts(r) /\ Knowledge(r)
      /\ UNCHANGED tableVars /\ db' = db /\ apts' = apts
      /\ \A s \in Requests \ {r} : draft[s].home # a
  BY DEF UpdateApartment, IInv, Local, Stored, tableVars
<1>2. /\ Editing(r) /\ a \in Apartments /\ job[r] \in Jobs /\ job[r].op = "edit"
      /\ draft[r] \in Draft /\ flat[r] \in Apartment
  BY <1>1 DEF Facts, Editing, Local, TypeOK
<1>3. apts[a] \in Apartment /\ apts[a] # Absent
  BY <1>1, <1>2, AbsentIsNoData DEF Knowledge, HeldRows
<1>4. CASE Answer(r, "ALREADY_IN_USE")
  <2>1. Others(r) /\ pc'[r] = "done" /\ draft'[r] = NoDraft
    BY <1>1, <1>2, <1>4, AnswerMoves DEF Local, Result
  <2> QED
    BY <1>1, <2>1, NothingToKnow, LocksReleased, QuietStored
<1>5. CASE Drafted(r, d, "commit")
  <2>1. Rewritten(apts[a], r) \in Apartment
    BY <1>3, RewrittenFlat
  <2>2. /\ d \in Draft /\ d.account = draft[r].account /\ d.row = draft[r].row
        /\ d.home = a /\ d.flat = Rewritten(apts[a], r)
    BY <1>2, <2>1, FlatDrafted
  <2> HIDE DEF d
  <2>3. /\ Others(r) /\ pc'[r] = "commit" /\ draft'[r] = d
        /\ UNCHANGED <<job, seen, flat, pending, result>>
    BY <1>1, <1>5, <2>2, DraftedMoves DEF Local, Calls
  <2>4. Locks'
    BY <1>1, <2>2, <2>3, LocksKept DEF Stored, Locks
  <2>5. Knowledge(r)'
    BY <1>1, <1>2, <1>3, <2>2, <2>3
    DEF Knowledge, NewIds, HeldRows, SnapshotIntegrity, SigningUp, Editing
  <2> QED
    BY <1>1, <2>3, <2>4, <2>5, QuietStored
<1>6. CASE Conflict(r)
  <2>1. Others(r) /\ pc'[r] \in {"read", "done"} /\ draft'[r] = NoDraft
    BY <1>1, <1>2, <1>6, ConflictMoves DEF Local
  <2> QED
    BY <1>1, <2>1, NothingToKnow, LocksReleased, QuietStored
<1> QED
  BY <1>4, <1>5, <1>6 DEF UpdateApartment

LEMMA FindPendingKeeps ==
  ASSUME IInv, NEW r \in Requests, FindPending(r) PROVE Stored'
<1> DEFINE found == {c \in Accounts : db[c] # Absent /\ db[c].status = "PENDING"}
<1>1. PICK j \in Asks(r) :
        /\ UNCHANGED tableVars
        /\ \/ Conclude(r, j, "USER_NOT_FOUND")
           \/ /\ pending' = [pending EXCEPT ![r] = found]
              /\ job' = [job EXCEPT ![r] = j] /\ pc' = [pc EXCEPT ![r] = "writeAll"]
              /\ UNCHANGED <<seen, flat, draft, tries, result>>
  BY DEF FindPending
<1>2. Local /\ Stored /\ j \in Jobs
  BY AsksForJobs DEF IInv
<1> HIDE DEF found
<1>3. CASE Conclude(r, j, "USER_NOT_FOUND")
  <2>1. Others(r) /\ pc'[r] = "done" /\ draft'[r] = NoDraft
    BY <1>2, <1>3, ConcludeMoves DEF Local, Result
  <2> QED
    BY <1>1, <1>2, <2>1, NothingToKnow, LocksReleased, QuietStored
<1>4. CASE /\ pending' = [pending EXCEPT ![r] = found]
           /\ job' = [job EXCEPT ![r] = j] /\ pc' = [pc EXCEPT ![r] = "writeAll"]
           /\ UNCHANGED <<seen, flat, draft, tries, result>>
  <2>1. Others(r) /\ pc'[r] = "writeAll" /\ draft'[r] = draft[r]
    BY <1>2, <1>4 DEF Local, TypeOK, Others
  <2> QED
    BY <1>1, <1>2, <2>1, NothingToKnow, LocksReleased, QuietStored
<1> QED
  BY <1>1, <1>3, <1>4

LEMMA FailKeeps ==
  ASSUME IInv, NEW r \in Requests, Fail(r) PROVE Stored'
<1>1. /\ pc[r] \notin {"idle", "done"} /\ Answer(r, "ERROR") /\ Local /\ Stored
      /\ UNCHANGED tableVars /\ job[r] \in Jobs
  BY DEF Fail, IInv, Local, Facts
<1>2. Others(r) /\ pc'[r] = "done" /\ draft'[r] = NoDraft
  BY <1>1, AnswerMoves DEF Local, Result
<1> QED
  BY <1>1, <1>2, NothingToKnow, LocksReleased, QuietStored

\* A step of r keeps what the others know when it spares the accounts and
\* apartments they hold, and the rows it changes get a new version.
LEMMA OthersKnow ==
  ASSUME Local, Stored, NEW r \in Requests, Others(r), unused' \subseteq unused,
         \A c \in Accounts :
           \/ db'[c] = db[c]
           \/ /\ \A s \in Requests \ {r} : draft[s].account # c
              /\ \/ db'[c] = Absent \/ c \in unused
                 \/ /\ db[c] # Absent /\ db[c].version \in Nat
                    /\ db'[c].version = db[c].version + 1,
         \A c \in unused \ unused' : \A s \in Requests \ {r} : draft[s].account # c,
         \A a \in Apartments :
           \/ apts'[a] = apts[a]
           \/ \A s \in Requests \ {r} : draft[s].home # a /\ ~(Editing(s) /\ seen[s].home = a)
  PROVE  \A s \in Requests \ {r} : Knowledge(s)'
<1> SUFFICES ASSUME NEW s \in Requests \ {r} PROVE Knowledge(s)'
  OBVIOUS
<1>1. Facts(s) /\ Knowledge(s) /\ job[s] \in Jobs \cup {NoJob}
  BY DEF Local, Stored, TypeOK
<1>2. /\ SigningUp(s)' <=> SigningUp(s)
      /\ Editing(s)' <=> Editing(s)
      /\ job'[s] = job[s] /\ seen'[s] = seen[s] /\ flat'[s] = flat[s] /\ draft'[s] = draft[s]
      /\ pc'[s] = pc[s]
  BY ClaimsOfOthers
<1>3. NewIds(s)'
  BY <1>1, <1>2 DEF Knowledge, NewIds, Facts
<1>4. HeldRows(s)'
  <2>1. CASE ~Editing(s)
    BY <1>2, <2>1 DEF HeldRows, Editing
  <2>2. CASE Editing(s)
    <3>1. /\ job[s] \in Jobs /\ job[s].op = "edit" /\ draft[s].account = job[s].target
          /\ seen[s].home \in Apartments
      BY <1>1, <2>2 DEF Facts, Editing
    <3>2. job[s].target \in Accounts
      BY <3>1, JobsAreWellFormed
    <3>3. db'[job[s].target] = db[job[s].target] /\ apts'[seen[s].home] = apts[seen[s].home]
      BY <2>2, <3>1, <3>2
    <3> QED
      BY <1>1, <1>2, <3>3 DEF Knowledge, HeldRows
  <2> QED
    BY <2>1, <2>2
<1>5. SnapshotIntegrity(s)'
  <2> SUFFICES ASSUME pc[s] = "write"
               PROVE  /\ job[s].target \notin unused'
                      /\ db'[job[s].target] # Absent =>
                           /\ seen[s].version <= db'[job[s].target].version
                           /\ seen[s].version = db'[job[s].target].version =>
                                seen[s] = db'[job[s].target]
    BY <1>2 DEF SnapshotIntegrity
  <2>1. job[s] \in Jobs /\ job[s].op \in {"edit", "decide", "delete"} /\ seen[s].version \in Nat
    BY <1>1 DEF Facts, Row
  <2>2. job[s].target \in Accounts
    BY <2>1, JobsAreWellFormed
  <2>3. /\ job[s].target \notin unused
        /\ db[job[s].target] # Absent =>
             /\ seen[s].version <= db[job[s].target].version
             /\ seen[s].version = db[job[s].target].version => seen[s] = db[job[s].target]
    BY <1>1 DEF Knowledge, SnapshotIntegrity
  <2>4. CASE db'[job[s].target] = db[job[s].target] \/ db'[job[s].target] = Absent
    BY <2>3, <2>4
  <2>5. CASE /\ db[job[s].target] # Absent /\ db[job[s].target].version \in Nat
             /\ db'[job[s].target].version = db[job[s].target].version + 1
    BY <2>1, <2>3, <2>5
  <2> QED
    BY <2>2, <2>3, <2>4, <2>5
<1> QED
  BY <1>3, <1>4, <1>5 DEF Knowledge

\* The steps outside of transactions delete accounts that are not locked, give
\* them a new version, or store a new one without an apartment.
LEMMA RowsStored ==
  ASSUME Local, Stored, NEW r \in Requests, Others(r), UNCHANGED <<apts, outbox>>,
         pc'[r] = "done", draft'[r] = NoDraft, unused' \subseteq unused,
         \A c \in unused \ unused' : db'[c] # Absent,
         \A c \in Accounts :
           \/ db'[c] = db[c]
           \/ /\ \A s \in Requests \ {r} : draft[s].account # c
              /\ \/ db'[c] = Absent
                 \/ c \in unused \ unused' /\ db'[c].home = Absent
                 \/ /\ db[c] # Absent /\ db'[c].version = db[c].version + 1
                    /\ db'[c].home = db[c].home /\ db'[c].by = db[c].by
  PROVE  Stored'
<1>1. Unused /\ HomesDiffer /\ EditsAreWhole /\ Founders /\ unused \subseteq Accounts
  BY DEF Stored, Tables, Local, TypeOK
<1>2. \A c \in Accounts : db[c] # Absent => db[c].version \in Nat
  BY DEF Local, TypeOK, Row
<1>3. \A c \in unused \ unused' : \A s \in Requests \ {r} : draft[s].account # c
  BY <1>1 DEF Unused
<1>4. \A s \in Requests : Knowledge(s)'
  <2>1. \A s \in Requests \ {r} : Knowledge(s)'
    BY <1>2, <1>3, OthersKnow
  <2>2. Knowledge(r)'
    BY NothingToKnow
  <2> QED
    BY <2>1, <2>2
<1>5. Locks'
  BY LocksReleased
<1>6. \A c \in Accounts : db'[c] # Absent =>
        \/ db'[c].home = Absent
        \/ db[c] # Absent /\ db'[c].home = db[c].home /\ db'[c].by = db[c].by
  OBVIOUS
<1>7. Unused'
  BY <1>1 DEF Unused
<1>8. HomesDiffer'
  <2> SUFFICES ASSUME NEW b \in Accounts, NEW c \in Accounts, db'[b] # Absent, db'[c] # Absent,
                      db'[b].home # Absent, db'[b].home = db'[c].home
               PROVE  b = c
    BY DEF HomesDiffer
  <2>1. db[b] # Absent /\ db'[b].home = db[b].home /\ db[c] # Absent /\ db'[c].home = db[c].home
    BY <1>6
  <2>2. db[b].home # Absent /\ db[b].home = db[c].home
    BY <2>1
  <2> QED
    BY <1>1, <2>1, <2>2 DEF HomesDiffer
<1>9. EditsAreWhole'
  BY <1>1, <1>6 DEF EditsAreWhole
<1>10. Founders'
  BY <1>1 DEF Founders
<1> QED
  BY <1>4, <1>5, <1>7, <1>8, <1>9, <1>10 DEF Stored, Tables

LEMMA CreateSuperAdminKeeps ==
  ASSUME IInv, NEW r \in Requests, CreateSuperAdmin(r) PROVE Stored'
<1>1. PICK j \in Asks(r) :
        /\ j.op = "signUpSuper" /\ UNCHANGED <<apts, outbox, joined>>
        /\ Conclude(r, j, "ALREADY_IN_USE") \/ Conclude(r, j, "ok")
        /\ \/ UNCHANGED <<db, unused>>
           \/ \E c \in unused :
                /\ ~Locked(r, {c})
                /\ db' = [db EXCEPT ![c] = SuperRow(r)] /\ unused' = unused \ {c}
  BY DEF CreateSuperAdmin
<1>2. Local /\ Stored /\ j \in Jobs
  BY AsksForJobs DEF IInv
<1>3. Others(r) /\ pc'[r] = "done" /\ draft'[r] = NoDraft
  BY <1>1, <1>2, ConcludeMoves DEF Local, Result
<1>4. CASE UNCHANGED <<db, unused>>
  BY <1>1, <1>2, <1>3, <1>4, RowsStored
<1>5. ASSUME NEW c \in unused, ~Locked(r, {c}),
             db' = [db EXCEPT ![c] = SuperRow(r)], unused' = unused \ {c}
      PROVE  Stored'
  <2>1. db \in [Accounts -> Row \cup {Absent}] /\ c \in Accounts
    BY <1>2 DEF Local, TypeOK
  <2>2. db'[c] # Absent /\ db'[c].home = Absent
    BY <1>5, <2>1, NewRowsAreTyped, AbsentIsNoData DEF SuperRow
  <2>3. \A s \in Requests \ {r} : draft[s].account # c
    BY <1>5 DEF Locked
  <2>4. \A b \in Accounts : b # c => db'[b] = db[b]
    BY <1>5, <2>1
  <2> QED
    BY <1>1, <1>2, <1>3, <1>5, <2>2, <2>3, <2>4, RowsStored
<1> QED
  BY <1>1, <1>4, <1>5

LEMMA DecideAdminKeeps ==
  ASSUME IInv, NEW r \in Requests, DecideAdmin(r) PROVE Stored'
<1> DEFINE c == job[r].target
<1>1. PICK res \in {"ok", "ERROR"} : Answer(r, res)
  BY DEF DecideAdmin
<1>2. /\ pc[r] = "write" /\ job[r].op = "decide" /\ Local /\ Stored /\ Facts(r)
      /\ ~Locked(r, {c}) /\ UNCHANGED <<apts, unused, outbox, joined>>
      /\ \/ RowMatches(r, c) /\ db' = [db EXCEPT ![c] = DecidedAs(@, job[r].status)]
         \/ UNCHANGED db
  BY DEF DecideAdmin, IInv, Local
<1>3. job[r] \in Jobs /\ c \in Accounts /\ job[r].status \in Statuses
  BY <1>2, JobsAreWellFormed DEF Facts
<1>4. Others(r) /\ pc'[r] = "done" /\ draft'[r] = NoDraft
  BY <1>1, <1>2, <1>3, AnswerMoves DEF Local, Result
<1>5. CASE UNCHANGED db
  BY <1>2, <1>4, <1>5, RowsStored
<1>6. CASE RowMatches(r, c) /\ db' = [db EXCEPT ![c] = DecidedAs(@, job[r].status)]
  <2>1. db[c] \in Row /\ db[c] # Absent /\ db \in [Accounts -> Row \cup {Absent}]
    BY <1>2, <1>3, <1>6 DEF RowMatches, Local, TypeOK
  <2>2. db'[c] = DecidedAs(db[c], job[r].status)
    BY <1>3, <1>6, <2>1
  <2>3. db'[c].version = db[c].version + 1 /\ db'[c].home = db[c].home /\ db'[c].by = db[c].by
    BY <1>3, <2>1, <2>2, DecidedRow
  <2>4. \A s \in Requests \ {r} : draft[s].account # c
    BY <1>2 DEF Locked
  <2> HIDE DEF c
  <2>5. \A b \in Accounts : b # c => db'[b] = db[b]
    BY <1>6, <2>1
  <2> QED
    BY <1>2, <1>4, <2>1, <2>3, <2>4, <2>5, RowsStored
<1> QED
  BY <1>2, <1>5, <1>6

LEMMA DecideAllKeeps ==
  ASSUME IInv, NEW r \in Requests, DecideAll(r) PROVE Stored'
<1>1. /\ pc[r] = "writeAll" /\ Facts(r) /\ Answer(r, "ok") /\ UNCHANGED <<apts, unused, outbox, joined>>
      /\ db' = [c \in Accounts |->
                  IF c \in pending[r] /\ db[c] # Absent
                  THEN DecidedAs(db[c], job[r].status) ELSE db[c]]
      /\ Local /\ Stored /\ ~Locked(r, pending[r])
  BY DEF DecideAll, IInv, Local
<1>2. job[r] \in Jobs /\ job[r].op = "decideAll" /\ job[r].status \in Statuses
  BY <1>1, JobsAreWellFormed DEF Facts
<1>3. Others(r) /\ pc'[r] = "done" /\ draft'[r] = NoDraft
  BY <1>1, <1>2, AnswerMoves DEF Local, Result
<1>4. ASSUME NEW c \in Accounts, db'[c] # db[c]
      PROVE  /\ \A s \in Requests \ {r} : draft[s].account # c
             /\ db[c] # Absent /\ db'[c].version = db[c].version + 1
             /\ db'[c].home = db[c].home /\ db'[c].by = db[c].by
  <2>1. c \in pending[r] /\ db[c] # Absent /\ db'[c] = DecidedAs(db[c], job[r].status)
    BY <1>1, <1>4
  <2>2. db[c] \in Row
    BY <1>1, <2>1 DEF Local, TypeOK
  <2> QED
    BY <1>1, <1>2, <2>1, <2>2, DecidedRow DEF Locked
<1> QED
  BY <1>1, <1>3, <1>4, RowsStored

LEMMA DeleteAdminKeeps ==
  ASSUME IInv, NEW r \in Requests, DeleteAdmin(r) PROVE Stored'
<1> DEFINE c == job[r].target
<1>1. /\ pc[r] = "write" /\ job[r].op = "delete" /\ Facts(r) /\ Answer(r, "ok")
      /\ UNCHANGED <<apts, unused, outbox, joined>> /\ db' = [db EXCEPT ![c] = Absent]
      /\ Local /\ Stored /\ ~Locked(r, {c})
  BY DEF DeleteAdmin, IInv, Local
<1>2. job[r] \in Jobs
  BY <1>1 DEF Facts
<1>3. Others(r) /\ pc'[r] = "done" /\ draft'[r] = NoDraft
  BY <1>1, <1>2, AnswerMoves DEF Local, Result
<1>4. \A s \in Requests \ {r} : draft[s].account # c
  BY <1>1 DEF Locked
<1> HIDE DEF c
<1>5. \A b \in Accounts : db'[b] = db[b] \/ (b = c /\ db'[b] = Absent)
  BY <1>1 DEF Local, TypeOK
<1> QED
  BY <1>1, <1>3, <1>4, <1>5, RowsStored

LEMMA DeleteRejectedKeeps ==
  ASSUME IInv, NEW r \in Requests, DeleteRejected(r) PROVE Stored'
<1> DEFINE found == {c \in Accounts : db[c] # Absent /\ db[c].role = "ADMIN"
                                                    /\ db[c].status = "REJECTED"}
<1>1. PICK j \in Asks(r) :
        /\ j.op = "deleteRejected" /\ ~Locked(r, found)
        /\ Conclude(r, j, "ok") /\ UNCHANGED <<apts, unused, outbox, joined>>
        /\ db' = [c \in Accounts |-> IF c \in found THEN Absent ELSE db[c]]
  BY DEF DeleteRejected
<1>2. j \in Jobs /\ Local /\ Stored
  BY <1>1, AsksForJobs DEF IInv
<1>3. Others(r) /\ pc'[r] = "done" /\ draft'[r] = NoDraft
  BY <1>1, <1>2, ConcludeMoves DEF Local, Result
<1> HIDE DEF found
<1>4. \A c \in Accounts :
        \/ db'[c] = db[c]
        \/ db'[c] = Absent /\ \A s \in Requests \ {r} : draft[s].account # c
  BY <1>1 DEF Locked
<1> QED
  BY <1>1, <1>2, <1>3, <1>4, RowsStored

\* What a transaction commits: a new account in a new apartment, or the edited
\* rows of an account and its apartment.
LEMMA CommitWrites ==
  ASSUME IInv, NEW r \in Requests, Commit(r)
  PROVE  LET c == draft[r].account
             a == draft[r].home
         IN /\ c \in Accounts /\ a \in Apartments
            /\ db'[c] = draft[r].row /\ db'[c] \in Row /\ db'[c].home = a /\ db'[c].by = r
            /\ apts'[a] = draft[r].flat /\ apts'[a] \in Apartment /\ apts'[a].by = r
            /\ \/ /\ job[r].op = "signUp" /\ c \in unused /\ apts[a] = Absent
                  /\ db'[c].status = "PENDING" /\ apts'[a].founder = r
               \/ /\ job[r].op = "edit" /\ db[c] \in Row /\ db[c].home = a
                  /\ db'[c].version = db[c].version + 1 /\ db'[c].status = db[c].status
                  /\ apts[a] \in Apartment /\ apts'[a].founder = apts[a].founder
            /\ \A b \in Accounts : b # c => db'[b] = db[b]
            /\ \A b \in Apartments : b # a => apts'[b] = apts[b]
            /\ unused' = unused \ {c}
            /\ outbox' = IF job[r].op = "signUp" THEN outbox \cup {r} ELSE outbox
<1> DEFINE d == draft[r]
<1>1. /\ pc[r] = "commit" /\ Facts(r) /\ Knowledge(r) /\ TypeOK
      /\ db' = [c \in Accounts |-> IF c = d.account THEN d.row ELSE db[c]]
      /\ apts' = [apts EXCEPT ![d.home] = d.flat]
      /\ unused' = unused \ {d.account}
      /\ outbox' = IF job[r].op = "signUp" THEN outbox \cup {r} ELSE outbox
  BY DEF Commit, IInv, Local, Stored
<1>2. job[r] \in Jobs /\ job[r].op \in {"signUp", "edit"}
  BY <1>1 DEF Facts
<1>3. CASE job[r].op = "signUp"
  <2>1. /\ SigningUp(r) /\ d.home \in Apartments /\ d.account \in Accounts
        /\ d.flat = NewApartment(r) /\ d.row = AdminRow(d.home, r)
    BY <1>1, <1>3 DEF Facts, SigningUp
  <2>2. /\ d.flat \in Apartment /\ d.row \in Row
        /\ d.row.home = d.home /\ d.row.by = r /\ d.row.status = "PENDING"
        /\ d.flat.by = r /\ d.flat.founder = r
    BY <2>1, NewRowsAreTyped DEF AdminRow, NewApartment
  <2>3. apts[d.home] = Absent /\ d.account \in unused
    BY <1>1, <2>1, AbsentIsNoData DEF Knowledge, NewIds
  <2> HIDE DEF d
  <2>4. db'[d.account] = d.row /\ apts'[d.home] = d.flat
    BY <1>1, <2>1 DEF TypeOK
  <2>5. /\ \A b \in Accounts : b # d.account => db'[b] = db[b]
        /\ \A b \in Apartments : b # d.home => apts'[b] = apts[b]
    BY <1>1, <2>1 DEF TypeOK
  <2> QED
    BY <1>1, <1>3, <2>1, <2>2, <2>3, <2>4, <2>5 DEF d
<1>4. CASE job[r].op = "edit"
  <2>1. /\ Editing(r) /\ d.account = job[r].target /\ d.home = seen[r].home
        /\ d.home \in Apartments /\ d.row \in Row /\ d.flat \in Apartment
    BY <1>1, <1>4 DEF Facts, Editing
  <2>2. d.account \in Accounts
    BY <1>2, <1>4, <2>1, JobsAreWellFormed
  <2>3. /\ db[d.account] # Absent /\ db[d.account].home = d.home
        /\ d.row = Rewritten(db[d.account], r)
        /\ apts[d.home] # Absent /\ d.flat = Rewritten(apts[d.home], r)
    BY <1>1, <2>1 DEF Knowledge, HeldRows
  <2>4. db[d.account] \in Row /\ apts[d.home] \in Apartment
    BY <1>1, <2>1, <2>2, <2>3 DEF TypeOK
  <2>5. /\ d.row.home = d.home /\ d.row.by = r /\ d.row.version = db[d.account].version + 1
        /\ d.row.status = db[d.account].status
        /\ d.flat.by = r /\ d.flat.founder = apts[d.home].founder
    BY <2>3, <2>4, RewrittenRow, RewrittenFlat
  <2> HIDE DEF d
  <2>6. db'[d.account] = d.row /\ apts'[d.home] = d.flat
    BY <1>1, <2>1, <2>2 DEF TypeOK
  <2>7. /\ \A b \in Accounts : b # d.account => db'[b] = db[b]
        /\ \A b \in Apartments : b # d.home => apts'[b] = apts[b]
    BY <1>1, <2>1, <2>2 DEF TypeOK
  <2> QED
    BY <1>1, <1>4, <2>1, <2>2, <2>3, <2>4, <2>5, <2>6, <2>7 DEF d
<1> QED
  BY <1>2, <1>3, <1>4

LEMMA CommitKeeps ==
  ASSUME IInv, NEW r \in Requests, Commit(r) PROVE Stored'
<1> DEFINE c == draft[r].account
           a == draft[r].home
<1>1. /\ Local /\ Stored /\ pc[r] = "commit" /\ job[r] \in Jobs
  BY DEF Commit, IInv, Local, Facts
<1>2. Others(r) /\ pc'[r] = "done" /\ draft'[r] = NoDraft
  <2>1. PICK res \in {"ok", "ERROR"} : Answer(r, res)
    BY DEF Commit
  <2> QED
    BY <1>1, <2>1, AnswerMoves DEF Local, Result
<1>3. /\ c \in Accounts /\ a \in Apartments
      /\ db'[c] \in Row /\ db'[c].home = a /\ db'[c].by = r
      /\ apts'[a] \in Apartment /\ apts'[a].by = r
      /\ \/ job[r].op = "signUp" /\ c \in unused /\ apts[a] = Absent /\ apts'[a].founder = r
         \/ /\ job[r].op = "edit" /\ db[c] \in Row /\ db[c].home = a
            /\ db'[c].version = db[c].version + 1
            /\ apts[a] \in Apartment /\ apts'[a].founder = apts[a].founder
      /\ \A b \in Accounts : b # c => db'[b] = db[b]
      /\ \A b \in Apartments : b # a => apts'[b] = apts[b]
      /\ unused' = unused \ {c}
      /\ outbox' = IF job[r].op = "signUp" THEN outbox \cup {r} ELSE outbox
  BY CommitWrites
<1>4. Unused /\ HomesDiffer /\ EditsAreWhole /\ Founders /\ Locks /\ unused \subseteq Accounts
  BY <1>1 DEF Stored, Tables, Local, TypeOK
<1>5. \A s \in Requests \ {r} : draft[s].account # c /\ draft[s].home # a
  BY <1>3, <1>4, AbsentIsNoData DEF Locks
<1> HIDE DEF a, c
\* Nobody else lives in the apartment.
<1>6. \A b \in Accounts : db[b] # Absent /\ db[b].home = a => b = c
  <2> SUFFICES ASSUME NEW b \in Accounts, db[b] # Absent, db[b].home = a PROVE b = c
    OBVIOUS
  <2>1. a # Absent
    BY <1>3, AbsentIsNoData
  <2>2. apts[a] # Absent
    BY <1>4, <2>1 DEF EditsAreWhole
  <2>3. db[c] \in Row /\ db[c].home = a
    BY <1>3, <2>2
  <2>4. db[c] # Absent
    BY <2>3, AbsentIsNoData
  <2> QED
    BY <1>3, <1>4, <2>1, <2>3, <2>4 DEF HomesDiffer
<1>7. \A s \in Requests : Knowledge(s)'
  <2>1. \A s \in Requests \ {r} : ~(Editing(s) /\ seen[s].home = a)
    <3> SUFFICES ASSUME NEW s \in Requests \ {r}, Editing(s), seen[s].home = a PROVE FALSE
      OBVIOUS
    <3>1. Facts(s) /\ Knowledge(s)
      BY <1>1 DEF Local, Stored
    <3>2. job[s] \in Jobs /\ job[s].op = "edit" /\ draft[s].account = job[s].target
      BY <3>1 DEF Facts, Editing
    <3>3. job[s].target \in Accounts
      BY <3>2, JobsAreWellFormed
    <3>4. db[job[s].target] # Absent /\ db[job[s].target].home = a
      BY <3>1 DEF Knowledge, HeldRows
    <3> QED
      BY <1>5, <1>6, <3>2, <3>3, <3>4
  <2>2. db[c] \in Row => db[c] # Absent /\ db[c].version \in Nat
    BY AbsentIsNoData DEF Row
  <2>3. \A b \in Accounts :
           \/ db'[b] = db[b]
           \/ /\ \A s \in Requests \ {r} : draft[s].account # b
              /\ \/ db'[b] = Absent \/ b \in unused
                 \/ /\ db[b] # Absent /\ db[b].version \in Nat
                    /\ db'[b].version = db[b].version + 1
    BY <1>3, <1>5, <2>2
  <2>4. \A b \in unused \ unused' : \A s \in Requests \ {r} : draft[s].account # b
    BY <1>3, <1>5
  <2>5. \A b \in Apartments :
           \/ apts'[b] = apts[b]
           \/ \A s \in Requests \ {r} : draft[s].home # b /\ ~(Editing(s) /\ seen[s].home = b)
    BY <1>3, <1>5, <2>1
  <2>6. unused' \subseteq unused
    BY <1>3
  <2>7. \A s \in Requests \ {r} : Knowledge(s)'
    BY <1>1, <1>2, <2>3, <2>4, <2>5, <2>6, OthersKnow
  <2> QED
    BY <1>2, <2>7, NothingToKnow
<1>8. Locks'
  BY <1>1, <1>2, LocksReleased
<1>9. Unused'
  BY <1>3, <1>4 DEF Unused
<1>10. HomesDiffer'
  <2> SUFFICES ASSUME NEW b \in Accounts, NEW e \in Accounts, db'[b] # Absent, db'[e] # Absent,
                      db'[b].home # Absent, db'[b].home = db'[e].home
               PROVE  b = e
    BY DEF HomesDiffer
  <2>1. CASE b = c \/ e = c
    BY <1>3, <1>6, <2>1
  <2>2. CASE b # c /\ e # c
    <3>1. db'[b] = db[b] /\ db'[e] = db[e]
      BY <1>3, <2>2
    <3> QED
      BY <1>4, <3>1 DEF HomesDiffer
  <2> QED
    BY <2>1, <2>2
<1>11. EditsAreWhole'
  <2> SUFFICES ASSUME NEW b \in Accounts, db'[b] # Absent, db'[b].home # Absent
               PROVE  apts'[db'[b].home] # Absent /\ apts'[db'[b].home].by = db'[b].by
    BY DEF EditsAreWhole
  <2>1. CASE b = c
    BY <1>3, <2>1, AbsentIsNoData
  <2>2. CASE b # c
    <3>1. db'[b] = db[b] /\ db[b].home # a
      BY <1>3, <1>6, <2>2
    <3>2. db[b].home \in Apartments
      BY <1>1, <3>1 DEF Local, TypeOK, Row
    <3> QED
      BY <1>3, <1>4, <3>1, <3>2 DEF EditsAreWhole
  <2> QED
    BY <2>1, <2>2
<1>12. Founders'
  <2>1. ASSUME NEW b \in Apartments, apts'[b] # Absent
        PROVE  apts'[b].founder = Absent \/ apts'[b].founder \in outbox'
    <3>1. apts[b] # Absent => apts[b].founder = Absent \/ apts[b].founder \in outbox
      BY <1>4 DEF Founders
    <3>2. apts[a] \in Apartment => apts[a] # Absent
      BY AbsentIsNoData
    <3>3. CASE b = a
      BY <1>3, <3>1, <3>2, <3>3
    <3>4. CASE b # a
      BY <1>3, <2>1, <3>1, <3>4
    <3> QED
      BY <3>3, <3>4
  <2>2. ASSUME NEW t \in outbox'
        PROVE  \E b \in Apartments : apts'[b] # Absent /\ apts'[b].founder = t
    <3>1. apts'[a] # Absent
      BY <1>3, AbsentIsNoData
    <3>2. CASE t \in outbox
      <4>1. PICK b \in Apartments : apts[b] # Absent /\ apts[b].founder = t
        BY <1>4, <3>2 DEF Founders
      <4> QED
        BY <1>3, <3>1, <4>1
    <3>3. CASE t = r /\ job[r].op = "signUp"
      BY <1>3, <3>1, <3>3
    <3> QED
      BY <1>3, <2>2, <3>2, <3>3
  <2> QED
    BY <2>1, <2>2 DEF Founders
<1> QED
  BY <1>7, <1>8, <1>9, <1>10, <1>11, <1>12 DEF Stored, Tables

LEMMA StoredStep == IInv /\ [Next]_vars => Stored'
<1> SUFFICES ASSUME IInv, [Next]_vars PROVE Stored'
  OBVIOUS
<1>1. ASSUME NEW r \in Requests,
             \/ CreateApartment(r) \/ InsertAdmin(r) \/ CreateAlarm(r) \/ CreateSuperAdmin(r)
             \/ FindAdmin(r) \/ UpdateAdmin(r) \/ FindApartment(r) \/ UpdateApartment(r) \/ Commit(r)
             \/ DecideAdmin(r) \/ FindPending(r) \/ DecideAll(r)
             \/ DeleteAdmin(r) \/ DeleteRejected(r) \/ Fail(r)
      PROVE  Stored'
  BY <1>1, CreateApartmentKeeps, InsertAdminKeeps, CreateAlarmKeeps, CreateSuperAdminKeeps,
     FindAdminKeeps, UpdateAdminKeeps, FindApartmentKeeps, UpdateApartmentKeeps, CommitKeeps,
     DecideAdminKeeps, FindPendingKeeps, DecideAllKeeps, DeleteAdminKeeps, DeleteRejectedKeeps,
     FailKeeps
<1>2. CASE UNCHANGED vars
  <2>1. UNCHANGED <<db, apts, unused, outbox, pc, job, seen, flat, draft>>
    BY <1>2 DEF vars
  <2>2. Tables' /\ Locks'
    BY <2>1 DEF IInv, Stored, Tables, Locks, Unused, HomesDiffer, EditsAreWhole, Founders
  <2>3. \A r \in Requests : Knowledge(r)'
    BY <2>1 DEF IInv, Stored, Knowledge, NewIds, HeldRows, SnapshotIntegrity, SigningUp, Editing
  <2> QED
    BY <2>2, <2>3 DEF Stored
<1> QED
  BY <1>1, <1>2 DEF Next

-----------------------------------------------------------------------------
(***************************************************************************)
(* What follows.                                                           *)
(***************************************************************************)

\* For any number of requests, accounts and apartments: a transaction holds the
\* rows it drafted alone, what it read of them is what it will find when it
\* commits, and no two administrators share an apartment.
THEOREM AdminInvariant == Spec => []IInv
<1>1. Init => IInv
  BY LocalInit, StoredInit DEF IInv
<1>2. IInv /\ [Next]_vars => IInv'
  BY LocalStep, StoredStep DEF IInv
<1> QED
  BY <1>1, <1>2, PTL DEF Spec

\* Rows, requests, drafts and answers have the types the schema and the handlers
\* give them, and no edit is tried more often than the unit of work allows.
THEOREM TypeCorrect == Spec => []TypeOK
<1>1. IInv => TypeOK
  BY DEF IInv, Local
<1> QED
  BY <1>1, AdminInvariant, PTL

\* An administrator and his apartment carry the data of one request, whatever
\* edits interleave: updateAdmin writes both in one transaction, and the account
\* it locks first is the only way to the apartment.
THEOREM EditsStayWhole == Spec => []EditsAreWhole
<1>1. IInv => EditsAreWhole
  BY DEF IInv, Stored, Tables
<1> QED
  BY <1>1, AdminInvariant, PTL

\* A sign-up stores apartment, account and alarm or none of them, although the
\* insert of the account swallows errors, and tells the truth about it.
THEOREM SignUpsStayWhole == Spec => []SignUpsAreWhole
<1>1. IInv => SignUpsAreWhole
  <2> SUFFICES ASSUME IInv, NEW r \in Requests, job[r].op = "signUp"
               PROVE  /\ r \in outbox <=> r \in joined
                      /\ r \in outbox <=> \E a \in Apartments : apts[a] # Absent /\ apts[a].founder = r
                      /\ result[r] = "ok" => r \in joined
    BY DEF SignUpsAreWhole
  <2>1. Facts(r) /\ Founders
    BY DEF IInv, Local, Stored, Tables
  <2> QED
    BY <2>1, AbsentIsNoData DEF Facts, Founders
<1> QED
  BY <1>1, AdminInvariant, PTL

\* The version test on the apartment in updateAdmin never fails, for any number
\* of administrators and edits at a time.
THEOREM ApartmentStaysQuiet == Spec => []ApartmentIsQuiet
<1>1. IInv => ApartmentIsQuiet
  BY DEF IInv, Stored, Knowledge, HeldRows, ApartmentIsQuiet
<1> QED
  BY <1>1, AdminInvariant, PTL

-----------------------------------------------------------------------------
(***************************************************************************)
(* The service implements the life of a join request.                      *)
(***************************************************************************)
LEMMA JoinInit == Init => Join!Init
<1> SUFFICES ASSUME Init PROVE Join!Init
  OBVIOUS
<1>1. TypeOK
  BY LocalInit DEF Local
<1>2. \A c \in Accounts : StageOf(c) \in Join!Present \cup {"unused"}
  BY <1>1 DEF Init, TypeOK, Row, Statuses, Decided, StageOf, Join!Present, Join!Waiting, Join!Verdicts
<1> QED
  BY <1>2 DEF Init, Join!Init

\* The round of every request stays as it is.
RoundsKept ==
  pending' = pending /\ \A q \in Requests : pc'[q] = "writeAll" <=> pc[q] = "writeAll"

\* All but three calls have nothing to do with rounds.
LEMMA RoundsStep ==
  ASSUME Local, NEW r \in Requests,
         \/ CreateApartment(r) \/ InsertAdmin(r) \/ CreateAlarm(r) \/ CreateSuperAdmin(r)
         \/ FindAdmin(r) \/ UpdateAdmin(r) \/ FindApartment(r) \/ UpdateApartment(r) \/ Commit(r)
         \/ DecideAdmin(r) \/ DeleteAdmin(r) \/ DeleteRejected(r)
  PROVE  RoundsKept
<1> USE DEF Local, TypeOK
<1>1. ASSUME pc[r] # "writeAll", NEW j, NEW res, Conclude(r, j, res) PROVE RoundsKept
  BY <1>1 DEF Conclude, RoundsKept
<1>2. ASSUME pc[r] # "writeAll", NEW j, NEW b, Proceed(r, j, b, "write") PROVE RoundsKept
  BY <1>2 DEF Proceed, RoundsKept
<1>3. ASSUME pc[r] # "writeAll", NEW d, NEW p \in Calls \ {"writeAll"}, Drafted(r, d, p)
      PROVE  RoundsKept
  BY <1>3 DEF Drafted, RoundsKept
<1>4. ASSUME pc[r] # "writeAll", Conflict(r) PROVE RoundsKept
  BY <1>1, <1>4 DEF Conflict, Answer, RoundsKept
<1>5. ASSUME NEW j \in Asks(r) PROVE pc[r] # "writeAll"
  BY AsksForJobs
<1>6. CASE CreateApartment(r)
  <2>1. PICK j \in Asks(r) :
          \/ Conclude(r, j, "ALREADY_IN_USE")
          \/ pc' = [pc EXCEPT ![r] = "insert"] /\ pending' = pending
    BY <1>6 DEF CreateApartment
  <2> QED
    BY <1>1, <1>5, <2>1 DEF RoundsKept
<1>7. CASE CreateSuperAdmin(r) \/ FindAdmin(r) \/ DeleteRejected(r)
  BY <1>1, <1>2, <1>5, <1>7 DEF CreateSuperAdmin, FindAdmin, DeleteRejected
<1>8. CASE InsertAdmin(r) \/ CreateAlarm(r)
  BY <1>1, <1>3, <1>8 DEF InsertAdmin, CreateAlarm, Answer, Calls
<1>9. CASE UpdateAdmin(r) \/ UpdateApartment(r)
  BY <1>1, <1>3, <1>4, <1>9 DEF UpdateAdmin, UpdateApartment, Answer, Calls
<1>10. CASE FindApartment(r)
  BY <1>10 DEF FindApartment, RoundsKept
<1>11. CASE Commit(r) \/ DecideAdmin(r) \/ DeleteAdmin(r)
  BY <1>1, <1>11 DEF Commit, DecideAdmin, DeleteAdmin, Answer
<1> QED
  BY <1>6, <1>7, <1>8, <1>9, <1>10, <1>11

LEMMA JoinStep == IInv /\ [Next]_vars => [Join!Next]_(Join!joinVars)
<1> SUFFICES ASSUME IInv, [Next]_vars PROVE [Join!Next]_(Join!joinVars)
  OBVIOUS
<1> DEFINE stages == [c \in Accounts |-> StageOf(c)]
           rounds == [r \in Requests |-> IF pc[r] = "writeAll" THEN pending[r] ELSE {}]
<1>1. /\ TypeOK /\ Local /\ Stored /\ Unused /\ \A r \in Requests : Facts(r) /\ Knowledge(r)
  BY DEF IInv, Local, Stored, Tables
<1>2. \A c \in Accounts : db[c] # Absent =>
        /\ c \notin unused /\ stages[c] = db[c].status /\ stages[c] \in Join!Present
        /\ db[c].status \in Statuses
  BY <1>1 DEF StageOf, TypeOK, Row, Statuses, Decided, Unused, Join!Present, Join!Waiting,
     Join!Verdicts
<1>3. Statuses = Join!Verdicts
  BY DEF Statuses, Decided, Join!Verdicts
<1>4. CASE UNCHANGED <<db, unused>> /\ RoundsKept
  <2>1. stages' = stages /\ rounds' = rounds
    BY <1>4 DEF StageOf, RoundsKept
  <2> QED
    BY <2>1 DEF Join!joinVars
\* An account appears.
<1>5. ASSUME RoundsKept, NEW c \in unused, c \in Accounts, db'[c] # Absent, unused' = unused \ {c},
             db'[c].status \in {"PENDING", "APPROVED"},
             \A b \in Accounts : b # c => db'[b] = db[b]
      PROVE  Join!Next
  <2>1. db[c] = Absent
    BY <1>1 DEF Unused
  <2>2. rounds' = rounds
    BY <1>5 DEF RoundsKept
  <2>3. stages[c] = "unused" /\ stages' = [stages EXCEPT ![c] = db'[c].status]
    BY <1>5, <2>1 DEF StageOf
  <2>4. Join!Enter(c, db'[c].status)
    BY <1>5, <2>2, <2>3 DEF Join!Enter
  <2> QED
    BY <1>5, <2>4 DEF Join!Next
\* Accounts disappear.
<1>6. ASSUME RoundsKept, NEW S \in SUBSET Accounts, unused' = unused,
             \A c \in Accounts : db'[c] = IF c \in S THEN Absent ELSE db[c],
             \A c \in S : db[c] # Absent,
             (\E c \in Accounts : S = {c}) \/ \A c \in S : db[c].status = "REJECTED"
      PROVE  Join!Next
  <2>1. rounds' = rounds
    BY <1>6 DEF RoundsKept
  <2>2. stages' = [c \in Accounts |-> IF c \in S THEN "removed" ELSE stages[c]]
    BY <1>2, <1>6 DEF StageOf
  <2>3. \/ \E c \in Accounts : S = {c} /\ stages[c] \in Join!Present
        \/ \A c \in S : stages[c] = "REJECTED"
    BY <1>2, <1>6
  <2>4. Join!Remove(S)
    BY <2>1, <2>2, <2>3 DEF Join!Remove
  <2> QED
    BY <2>4 DEF Join!Next
<1>7. ASSUME NEW r \in Requests, CreateSuperAdmin(r) PROVE [Join!Next]_(Join!joinVars)
  <2>1. RoundsKept
    BY <1>1, <1>7, RoundsStep
  <2>2. CASE UNCHANGED <<db, unused>>
    BY <1>4, <2>1, <2>2
  <2>3. ASSUME NEW c \in unused, db' = [db EXCEPT ![c] = SuperRow(r)], unused' = unused \ {c}
        PROVE  Join!Next
    <3>1. c \in Accounts /\ db'[c] = SuperRow(r) /\ \A b \in Accounts : b # c => db'[b] = db[b]
      BY <1>1, <2>3 DEF TypeOK
    <3>2. db'[c] # Absent /\ db'[c].status = "APPROVED"
      BY <3>1, NewRowsAreTyped, AbsentIsNoData DEF SuperRow
    <3> QED
      BY <1>5, <2>1, <2>3, <3>1, <3>2
  <2> QED
    BY <1>7, <2>2, <2>3 DEF CreateSuperAdmin
<1>8. ASSUME NEW r \in Requests, Commit(r) PROVE [Join!Next]_(Join!joinVars)
  <2> DEFINE c == draft[r].account
  <2>1. RoundsKept
    BY <1>1, <1>8, RoundsStep
  <2>2. /\ c \in Accounts /\ db'[c] \in Row /\ unused' = unused \ {c}
        /\ \/ c \in unused /\ db'[c].status = "PENDING"
           \/ db[c] \in Row /\ db'[c].status = db[c].status
        /\ \A b \in Accounts : b # c => db'[b] = db[b]
    BY <1>8, CommitWrites
  <2> HIDE DEF c
  <2>3. db'[c] # Absent
    BY <2>2, AbsentIsNoData
  <2>4. CASE c \in unused /\ db'[c].status = "PENDING"
    BY <1>5, <2>1, <2>2, <2>3, <2>4
  <2>5. CASE db[c] \in Row /\ db'[c].status = db[c].status
    <3>1. db[c] # Absent
      BY <2>5, AbsentIsNoData
    <3>2. c \notin unused /\ unused' = unused
      BY <1>2, <2>2, <3>1
    <3>3. stages' = stages /\ rounds' = rounds
      BY <2>1, <2>2, <2>3, <2>5, <3>1, <3>2 DEF StageOf, RoundsKept
    <3> QED
      BY <3>3 DEF Join!joinVars
  <2> QED
    BY <2>2, <2>4, <2>5
<1>9. ASSUME NEW r \in Requests, DecideAdmin(r) PROVE [Join!Next]_(Join!joinVars)
  <2> DEFINE c == job[r].target
             s == job[r].status
  <2>1. RoundsKept
    BY <1>1, <1>9, RoundsStep
  <2>2. /\ pc[r] = "write" /\ job[r].op = "decide" /\ unused' = unused
        /\ \/ RowMatches(r, c) /\ db' = [db EXCEPT ![c] = DecidedAs(@, s)]
           \/ UNCHANGED db
    BY <1>9 DEF DecideAdmin
  <2>3. job[r] \in Jobs /\ c \in Accounts /\ s \in Statuses /\ seen[r].status = "PENDING"
    BY <1>1, <2>2, JobsAreWellFormed DEF Facts
  <2>4. CASE UNCHANGED db
    BY <1>4, <2>1, <2>2, <2>4
  <2>5. CASE RowMatches(r, c) /\ db' = [db EXCEPT ![c] = DecidedAs(@, s)]
    <3>1. db[c] # Absent /\ seen[r] = db[c] /\ db \in [Accounts -> Row \cup {Absent}]
      BY <1>1, <2>2, <2>5 DEF RowMatches, Knowledge, SnapshotIntegrity, TypeOK
    <3>2. db[c] \in Row /\ db'[c] = DecidedAs(db[c], s)
      BY <2>3, <2>5, <3>1
    <3>3. db'[c] \in Row /\ db'[c].status = s
      BY <2>3, <3>2, DecidedRow
    <3>4. db'[c] # Absent
      BY <3>3, AbsentIsNoData
    <3> HIDE DEF c, s
    <3>5. stages[c] = "PENDING" /\ \A b \in Accounts : b # c => db'[b] = db[b]
      BY <1>2, <2>3, <2>5, <3>1
    <3>6. stages' = [stages EXCEPT ![c] = s] /\ rounds' = rounds
      BY <2>1, <2>2, <3>3, <3>4, <3>5 DEF StageOf, RoundsKept
    <3>7. Join!Decide(c, s)
      BY <1>3, <2>3, <3>5, <3>6 DEF Join!Decide, Join!Waiting
    <3> QED
      BY <1>3, <2>3, <3>7 DEF Join!Next
  <2> QED
    BY <2>2, <2>4, <2>5
<1>10. ASSUME NEW r \in Requests, DeleteAdmin(r) PROVE [Join!Next]_(Join!joinVars)
  <2> DEFINE c == job[r].target
  <2>1. RoundsKept
    BY <1>1, <1>10, RoundsStep
  <2>2. /\ pc[r] = "write" /\ job[r].op = "delete" /\ unused' = unused
        /\ db' = [db EXCEPT ![c] = Absent]
    BY <1>10 DEF DeleteAdmin
  <2>3. c \in Accounts
    BY <1>1, <2>2, JobsAreWellFormed DEF Facts
  <2> HIDE DEF c
  <2>4. \A b \in Accounts : db'[b] = IF b \in {c} THEN Absent ELSE db[b]
    BY <1>1, <2>2 DEF TypeOK
  <2>5. CASE db[c] = Absent
    <3>1. db' = db
      BY <1>1, <2>2, <2>5 DEF TypeOK
    <3> QED
      BY <1>4, <2>1, <2>2, <3>1
  <2>6. CASE db[c] # Absent
    BY <1>6, <2>1, <2>2, <2>3, <2>4, <2>6
  <2> QED
    BY <2>5, <2>6
<1>11. ASSUME NEW r \in Requests, DeleteRejected(r) PROVE [Join!Next]_(Join!joinVars)
  <2> DEFINE found == {c \in Accounts : db[c] # Absent /\ db[c].role = "ADMIN"
                                                      /\ db[c].status = "REJECTED"}
  <2>1. RoundsKept
    BY <1>1, <1>11, RoundsStep
  <2>2. /\ unused' = unused /\ db' = [c \in Accounts |-> IF c \in found THEN Absent ELSE db[c]]
    BY <1>11 DEF DeleteRejected
  <2>3. /\ found \in SUBSET Accounts
        /\ \A c \in found : db[c] # Absent /\ db[c].status = "REJECTED"
    OBVIOUS
  <2> HIDE DEF found
  <2> QED
    BY <1>6, <2>1, <2>2, <2>3
<1>12. ASSUME NEW r \in Requests, FindPending(r) PROVE [Join!Next]_(Join!joinVars)
  <2> DEFINE found == {c \in Accounts : db[c] # Absent /\ db[c].status = "PENDING"}
  <2>1. PICK j \in Asks(r) :
          /\ UNCHANGED tableVars
          /\ \/ Conclude(r, j, "USER_NOT_FOUND")
             \/ /\ pending' = [pending EXCEPT ![r] = found]
                /\ pc' = [pc EXCEPT ![r] = "writeAll"]
    BY <1>12 DEF FindPending
  <2>2. pc[r] \in {"idle", "read"} /\ db' = db /\ unused' = unused
    BY <1>1, <2>1, AsksForJobs DEF tableVars
  <2>3. CASE Conclude(r, j, "USER_NOT_FOUND")
    <3>1. RoundsKept
      BY <1>1, <2>2, <2>3 DEF Conclude, RoundsKept, TypeOK
    <3> QED
      BY <1>4, <2>2, <3>1
  <2>4. CASE pending' = [pending EXCEPT ![r] = found] /\ pc' = [pc EXCEPT ![r] = "writeAll"]
    <3>1. stages' = stages
      BY <2>2 DEF StageOf
    <3>2. found = {c \in Accounts : stages[c] = "PENDING"}
      BY <1>2 DEF StageOf
    <3> HIDE DEF found
    <3>3. rounds[r] = {} /\ rounds' = [rounds EXCEPT ![r] = found]
      BY <1>1, <2>2, <2>4 DEF TypeOK
    <3>4. Join!OpenRound(r)
      BY <3>1, <3>2, <3>3 DEF Join!OpenRound
    <3> QED
      BY <3>4 DEF Join!Next
  <2> QED
    BY <2>1, <2>3, <2>4
<1>13. ASSUME NEW r \in Requests, DecideAll(r) PROVE Join!Next
  <2> DEFINE s == job[r].status
             found == {c \in pending[r] : db[c] # Absent}
  <2>1. /\ pc[r] = "writeAll" /\ pc' = [pc EXCEPT ![r] = "done"]
        /\ pending' = pending /\ unused' = unused /\ pending[r] \subseteq Accounts
        /\ db' = [c \in Accounts |->
                     IF c \in pending[r] /\ db[c] # Absent THEN DecidedAs(db[c], s) ELSE db[c]]
    BY <1>1, <1>13 DEF DecideAll, Answer, Conclude, TypeOK
  <2>2. s \in Statuses
    BY <1>1, <2>1, JobsAreWellFormed DEF Facts
  <2>3. ASSUME NEW c \in found PROVE db'[c] # Absent /\ db'[c].status = s
    <3>1. c \in Accounts /\ db[c] \in Row /\ db'[c] = DecidedAs(db[c], s)
      BY <1>1, <2>1 DEF TypeOK
    <3>2. DecidedAs(db[c], s) \in Row /\ DecidedAs(db[c], s).status = s
      BY <2>2, <3>1, DecidedRow
    <3> QED
      BY <3>1, <3>2, AbsentIsNoData
  <2>4. \A c \in Accounts \ found : db'[c] = db[c]
    BY <2>1
  <2>5. rounds[r] = pending[r] /\ rounds' = [rounds EXCEPT ![r] = {}]
    BY <1>1, <2>1 DEF TypeOK
  <2>6. \A c \in Accounts : c \in found <=> c \in rounds[r] /\ stages[c] \in Join!Present
    BY <1>2, <2>5 DEF StageOf, Join!Present, Join!Waiting, Join!Verdicts
  <2> HIDE DEF s, found
  <2>7. stages' = [c \in Accounts |-> IF c \in found THEN s ELSE stages[c]]
    BY <2>1, <2>3, <2>4 DEF StageOf
  <2>8. PICK verdict \in Join!Verdicts : verdict = s
    BY <1>3, <2>2
  <2>9. stages' = [c \in Accounts |->
                     IF c \in rounds[r] /\ stages[c] \in Join!Present THEN verdict ELSE stages[c]]
    BY <2>6, <2>7, <2>8
  <2>10. Join!CloseRound(r, verdict)
    BY <2>5, <2>8, <2>9 DEF Join!CloseRound
  <2> QED
    BY <2>8, <2>10 DEF Join!Next
<1>14. ASSUME NEW r \in Requests, Fail(r) PROVE [Join!Next]_(Join!joinVars)
  <2>1. pc' = [pc EXCEPT ![r] = "done"] /\ pending' = pending /\ UNCHANGED <<db, unused>>
    BY <1>14 DEF Fail, Answer, Conclude, tableVars
  <2>2. stages' = stages /\ rounds' = [rounds EXCEPT ![r] = {}]
    BY <1>1, <2>1 DEF StageOf, TypeOK
  <2>3. Join!DropRound(r)
    BY <2>2 DEF Join!DropRound
  <2> QED
    BY <2>3 DEF Join!Next
\* The calls that touch no account.
<1>15. ASSUME NEW r \in Requests,
              \/ CreateApartment(r) \/ InsertAdmin(r) \/ CreateAlarm(r) \/ FindAdmin(r)
              \/ UpdateAdmin(r) \/ FindApartment(r) \/ UpdateApartment(r)
       PROVE  [Join!Next]_(Join!joinVars)
  <2>1. RoundsKept
    BY <1>1, <1>15, RoundsStep
  <2>2. UNCHANGED tableVars
    BY <1>15 DEF CreateApartment, InsertAdmin, CreateAlarm, FindAdmin, UpdateAdmin, FindApartment,
       UpdateApartment
  <2> QED
    BY <1>4, <2>1, <2>2 DEF tableVars
<1>16. CASE UNCHANGED vars
  BY <1>4, <1>16 DEF vars, RoundsKept
<1> QED
  BY <1>7, <1>8, <1>9, <1>10, <1>11, <1>12, <1>13, <1>14, <1>15, <1>16 DEF Next

\* Two transactions, retries and bulk statements that interleave amount to the
\* life of a join request, as for the residents: only the decision on all
\* requests of updateAdminJoinedStatuses overturns one.
THEOREM Implementation == Spec => ImplementsJoinRequests
  BY JoinInit, JoinStep, AdminInvariant, PTL DEF Spec, ImplementsJoinRequests, Join!Spec
=============================================================================
