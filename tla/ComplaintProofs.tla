-------------------------- MODULE ComplaintProofs --------------------------
(***************************************************************************)
(* What holds of module Complaint for any number of requests, complaints,  *)
(* accounts and texts.                                                     *)
(*                                                                         *)
(* The invariant is built in layers.  A request's own facts (TypeOK and    *)
(* HandlerFacts) are inductive alone; with them, WriteFacts, IdsUsedOnce   *)
(* and SnapshotIntegrity; with those, NoLostUpdate and AlarmsMatchWrites.  *)
(***************************************************************************)
EXTENDS Complaint, TLAPS

Local == TypeOK /\ HandlerFacts

Stored == WriteFacts /\ IdsUsedOnce /\ SnapshotIntegrity

-----------------------------------------------------------------------------
\* A handler knows what it has tested: no step of its own or of another
\* request changes what it read or takes it to a call it did not earn.
LEMMA LocalInit == Init => Local
  BY DEF Init, Local, TypeOK, HandlerFacts, FactsOf, PC, Result, NewRow, Row, Status

\* What a request knows depends on its own program counter, job, row and
\* answer alone.
LEMMA FactsAreLocal ==
  ASSUME NEW q \in Requests, FactsOf(q),
         pc'[q] = pc[q], job'[q] = job[q], seen'[q] = seen[q], result'[q] = result[q]
  PROVE  FactsOf(q)'
  BY DEF FactsOf, EditVerdict, StatusVerdict

\* What the two versioned statements store is again a row.
LEMMA EditedRow ==
  ASSUME NEW b \in Row, NEW t \in Texts
  PROVE  Edited(b, t) \in Row
  BY DEF Edited, Row

LEMMA MovedRow ==
  ASSUME NEW b \in Row, NEW s \in Status
  PROVE  Moved(b, s) \in Row
  BY DEF Moved, Row

\* Every call of every handler keeps the types and what each handler knows.
LEMMA LocalStep == Local /\ [Next]_vars => Local'
<1> SUFFICES ASSUME Local, [Next]_vars PROVE Local'
  OBVIOUS
<1> USE DEF Local, TypeOK, HandlerFacts
<1>1. ASSUME NEW r \in Requests, CreateComplaint(r) PROVE Local'
  <2>1. TypeOK'
    BY <1>1 DEF CreateComplaint, NewRow, NewJob, Commit, Proceed, Refuse,
                Row, Status, Job, PC, Result, Refusals
  <2>2. FactsOf(r)'
    BY <1>1 DEF CreateComplaint, NewJob, Commit, Proceed, Refuse, FactsOf, Status, Job
  <2>3. ASSUME NEW q \in Requests, q # r PROVE FactsOf(q)'
    BY <1>1, <2>3, FactsAreLocal DEF CreateComplaint, Proceed, Refuse
  <2> QED
    BY <2>1, <2>2, <2>3
<1>2. ASSUME NEW r \in Requests, UpdateComplaint(r) PROVE Local'
  <2>1. TypeOK'
    BY <1>2 DEF UpdateComplaint, EditJob, EditVerdict, Proceed, Refuse, handlerVars,
                Status, Job, PC, Result, Refusals
  <2>2. FactsOf(r)'
    BY <1>2 DEF UpdateComplaint, EditJob, EditVerdict, Proceed, Refuse, FactsOf,
                Status, Job
  <2>3. ASSUME NEW q \in Requests, q # r PROVE FactsOf(q)'
    BY <1>2, <2>3, FactsAreLocal DEF UpdateComplaint, Proceed, Refuse
  <2> QED
    BY <2>1, <2>2, <2>3
<1>3. ASSUME NEW r \in Requests, UpdateWrite(r) PROVE Local'
  <2> DEFINE c == job[r].target
  <2>1. FactsOf(r)
    OBVIOUS
  <2>2. job[r] \in Job /\ job[r].text \in Texts /\ c \in Complaints
    BY <1>3, <2>1 DEF UpdateWrite, FactsOf, Job
  <2>3. TypeOK'
    <3>1. CASE RowMatches(c, seen[r].version)
      <4>1. db'[c] \in Row
        BY <1>3, <2>2, <3>1, EditedRow DEF UpdateWrite, RowMatches, Commit
      <4> QED
        BY <1>3, <3>1, <4>1 DEF UpdateWrite, Commit, Goto, PC
    <3>2. CASE ~RowMatches(c, seen[r].version)
      BY <1>3, <3>2 DEF UpdateWrite, Answer, PC, Result, Refusals
    <3> QED
      BY <3>1, <3>2
  <2>4. FactsOf(r)'
    BY <1>3, <2>1 DEF UpdateWrite, Goto, Answer, FactsOf
  <2>5. ASSUME NEW q \in Requests, q # r PROVE FactsOf(q)'
    BY <1>3, <2>5, FactsAreLocal DEF UpdateWrite, Goto, Answer
  <2> QED
    BY <2>3, <2>4, <2>5
<1>4. ASSUME NEW r \in Requests, DeleteComplaint(r) PROVE Local'
  <2>1. TypeOK'
    BY <1>4 DEF DeleteComplaint, DeleteJob, DeleteVerdict, Proceed, Refuse, handlerVars,
                Status, Job, PC, Result, Refusals
  <2>2. FactsOf(r)'
    BY <1>4 DEF DeleteComplaint, DeleteJob, DeleteVerdict, Proceed, Refuse, FactsOf,
                Status, Job
  <2>3. ASSUME NEW q \in Requests, q # r PROVE FactsOf(q)'
    BY <1>4, <2>3, FactsAreLocal DEF DeleteComplaint, Proceed, Refuse
  <2> QED
    BY <2>1, <2>2, <2>3
<1>5. ASSUME NEW r \in Requests, DeleteWrite(r) PROVE Local'
  <2>1. TypeOK'
    BY <1>5 DEF DeleteWrite, Commit, Goto, Answer, PC, Result, Refusals
  <2>2. FactsOf(r) /\ FactsOf(r)'
    BY <1>5 DEF DeleteWrite, Goto, Answer, FactsOf
  <2>3. ASSUME NEW q \in Requests, q # r PROVE FactsOf(q)'
    BY <1>5, <2>3, FactsAreLocal DEF DeleteWrite, Goto, Answer
  <2> QED
    BY <2>1, <2>2, <2>3
<1>6. ASSUME NEW r \in Requests, UpdateComplaintStatus(r) PROVE Local'
  <2>1. TypeOK'
    BY <1>6 DEF UpdateComplaintStatus, StatusJob, StatusVerdict, Proceed, Refuse,
                handlerVars, Job, PC, Result, Refusals
  <2>2. FactsOf(r)'
    BY <1>6 DEF UpdateComplaintStatus, StatusJob, StatusVerdict, Proceed, Refuse,
                FactsOf, Job
  <2>3. ASSUME NEW q \in Requests, q # r PROVE FactsOf(q)'
    BY <1>6, <2>3, FactsAreLocal DEF UpdateComplaintStatus, Proceed, Refuse
  <2> QED
    BY <2>1, <2>2, <2>3
<1>7. ASSUME NEW r \in Requests, StatusWrite(r) PROVE Local'
  <2> DEFINE c == job[r].target
  <2>1. FactsOf(r)
    OBVIOUS
  <2>2. job[r] \in Job /\ job[r].status \in Status /\ c \in Complaints
    BY <1>7, <2>1 DEF StatusWrite, FactsOf, Job
  <2>3. TypeOK'
    <3>1. CASE RowMatches(c, seen[r].version)
      <4>1. db'[c] \in Row
        BY <1>7, <2>2, <3>1, MovedRow DEF StatusWrite, RowMatches, Commit
      <4> QED
        BY <1>7, <3>1, <4>1 DEF StatusWrite, Commit, Goto, PC
    <3>2. CASE ~RowMatches(c, seen[r].version)
      BY <1>7, <3>2 DEF StatusWrite, Answer, PC, Result, Refusals
    <3> QED
      BY <3>1, <3>2
  <2>4. FactsOf(r)'
    BY <1>7, <2>1 DEF StatusWrite, Goto, Answer, FactsOf
  <2>5. ASSUME NEW q \in Requests, q # r PROVE FactsOf(q)'
    BY <1>7, <2>5, FactsAreLocal DEF StatusWrite, Goto, Answer
  <2> QED
    BY <2>3, <2>4, <2>5
<1>8. ASSUME NEW r \in Requests, Evict(r) PROVE Local'
  <2>1. TypeOK'
    BY <1>8 DEF Evict, Goto, Answer, handlerVars, PC, Result
  <2>2. FactsOf(r) /\ FactsOf(r)'
    BY <1>8 DEF Evict, Goto, Answer, FactsOf
  <2>3. ASSUME NEW q \in Requests, q # r PROVE FactsOf(q)'
    BY <1>8, <2>3, FactsAreLocal DEF Evict, Goto, Answer
  <2> QED
    BY <2>1, <2>2, <2>3
<1>9. ASSUME NEW r \in Requests, CreateAlarm(r) PROVE Local'
  <2>1. FactsOf(r)
    OBVIOUS
  <2>2. TypeOK'
    BY <1>9, <2>1 DEF CreateAlarm, AlarmOf, LabelOf, AdminAlarm, AuthorAlarm, Label,
                      Answer, FactsOf, Row, PC, Result
  <2>3. FactsOf(r)'
    BY <1>9, <2>1 DEF CreateAlarm, Answer, FactsOf
  <2>4. ASSUME NEW q \in Requests, q # r PROVE FactsOf(q)'
    BY <1>9, <2>4, FactsAreLocal DEF CreateAlarm, Answer
  <2> QED
    BY <2>2, <2>3, <2>4
<1>10. ASSUME NEW r \in Requests, Fail(r) PROVE Local'
  <2>1. TypeOK'
    BY <1>10 DEF Fail, Answer, handlerVars, PC, Result
  <2>2. FactsOf(r) /\ FactsOf(r)'
    BY <1>10 DEF Fail, Answer, FactsOf
  <2>3. ASSUME NEW q \in Requests, q # r PROVE FactsOf(q)'
    BY <1>10, <2>3, FactsAreLocal DEF Fail, Answer
  <2> QED
    BY <2>1, <2>2, <2>3
<1>11. CASE RemoveResident
  BY <1>11, FactsAreLocal DEF RemoveResident
<1>12. CASE UNCHANGED vars
  BY <1>12, FactsAreLocal DEF vars
<1> QED
  BY <1>1, <1>2, <1>3, <1>4, <1>5, <1>6, <1>7, <1>8, <1>9, <1>10, <1>11, <1>12
     DEF Next, Serve

\* Every variable keeps its type: the rows the service stores are complete
\* and each request has one call to make next.
THEOREM TypeCorrect == Spec => []TypeOK
<1>1. Spec => []Local
  BY LocalInit, LocalStep, PTL DEF Spec
<1>2. Local => TypeOK
  BY DEF Local
<1> QED
  BY <1>1, <1>2, PTL

-----------------------------------------------------------------------------
\* Nobody has read or written a row of the table the service starts on.
LEMMA StoredInit == Init => Stored
  BY DEF Init, Stored, WriteFacts, VersionedWrites, IdsUsedOnce, SnapshotIntegrity

\* Who has read or written a row has asked for a complaint.
LEMMA ReadersHaveJobs ==
  ASSUME Local, WriteFacts
  PROVE  \A q \in Requests : seen[q] # NoRow \/ q \in written => job[q].target \in Complaints
  BY DEF Local, HandlerFacts, FactsOf, WriteFacts, Job

\* A handler's read of a complaint keeps what is known of the others' reads.
LEMMA ReadStep ==
  ASSUME Local, Stored, NEW r \in Requests, pc[r] = "idle",
         NEW c \in Complaints, NEW j \in Job, j.target = c,
         job' = [job EXCEPT ![r] = j], seen' = [seen EXCEPT ![r] = db[c]],
         NEW p \in {"write", "erase", "done"}, pc' = [pc EXCEPT ![r] = p],
         UNCHANGED handlerVars
  PROVE  Stored'
<1> USE DEF Local, TypeOK, Stored, handlerVars
<1>1. r \notin written
  BY DEF WriteFacts
<1>2. WriteFacts'
  BY <1>1 DEF WriteFacts, VersionedWrites
<1>3. IdsUsedOnce'
  BY DEF IdsUsedOnce
<1>4. SnapshotIntegrity'
  BY DEF SnapshotIntegrity, Row
<1> QED
  BY <1>2, <1>3, <1>4

\* A versioned write overtakes everything read of the complaint before it.
LEMMA VersionedWriteStep ==
  ASSUME Local, Stored, NEW r \in Requests, pc[r] = "write",
         NEW c \in Complaints, c = job[r].target, NEW b \in Row,
         RowMatches(c, seen[r].version), b.version = db[c].version + 1,
         Commit(r, c, b), Goto(r, "evict"), UNCHANGED unused
  PROVE  Stored'
<1> USE DEF Local, TypeOK, Stored, Commit, Goto, RowMatches
<1>1. /\ db[c] \in Row /\ db'[c] = b
      /\ seen[r] \in Row /\ seen[r].version = db[c].version
      /\ \A d \in Complaints : d # c => db'[d] = db[d]
  BY DEF HandlerFacts, FactsOf, Job
<1>2. WriteFacts'
  <2>1. ASSUME NEW q \in Requests
        PROVE  /\ pc'[q] \in {"evict", "alarm"} => q \in written'
               /\ pc'[q] \in {"idle", "write", "erase"} => q \notin written'
    BY DEF WriteFacts
  <2>2. ASSUME NEW q \in VersionedWrites'
        PROVE  /\ seen'[q] # NoRow
               /\ db'[job'[q].target] # NoRow =>
                    seen'[q].version < db'[job'[q].target].version
    <3>1. CASE q = r
      BY <1>1, <3>1, NoRowIsNoRow DEF Row
    <3>2. CASE q # r
      <4>1. q \in VersionedWrites
        BY <2>2, <3>2 DEF VersionedWrites
      <4> QED
        BY <1>1, <3>2, <4>1, NoRowIsNoRow DEF WriteFacts, VersionedWrites, Row
    <3> QED
      BY <3>1, <3>2
  <2> QED
    BY <2>1, <2>2 DEF WriteFacts
<1>3. IdsUsedOnce'
  BY <1>1, NoRowIsNoRow DEF IdsUsedOnce
<1>4. SnapshotIntegrity'
  <2> SUFFICES ASSUME NEW q \in Requests, seen[q] # NoRow, db'[job[q].target] # NoRow
               PROVE  /\ seen[q].version <= db'[job[q].target].version
                      /\ seen[q].version = db'[job[q].target].version =>
                           seen[q] = db'[job[q].target]
    BY DEF SnapshotIntegrity
  <2>1. CASE job[q].target = c
    BY <1>1, <2>1, NoRowIsNoRow DEF SnapshotIntegrity, Row
  <2>2. CASE job[q].target # c
    <3>1. db'[job[q].target] = db[job[q].target]
      BY <1>1, <2>2, ReadersHaveJobs DEF Stored
    <3> QED
      BY <3>1 DEF SnapshotIntegrity
  <2> QED
    BY <2>1, <2>2
<1> QED
  BY <1>2, <1>3, <1>4

\* Every step keeps what reads and writes say about the stored rows.
LEMMA StoredStep == Local /\ Stored /\ [Next]_vars => Stored'
<1> SUFFICES ASSUME Local, Stored, [Next]_vars PROVE Stored'
  OBVIOUS
<1>1. ASSUME NEW r \in Requests, CreateComplaint(r) PROVE Stored'
  BY <1>1 DEF CreateComplaint, NewRow, NewJob, Commit, Proceed, Refuse, Job,
              Local, TypeOK, HandlerFacts, FactsOf,
              Stored, WriteFacts, VersionedWrites, IdsUsedOnce, SnapshotIntegrity
<1>2. ASSUME NEW r \in Requests, UpdateComplaint(r) PROVE Stored'
  <2>1. PICK u \in Users, c \in Complaints, t \in Texts :
          /\ pc[r] = "idle"
          /\ job' = [job EXCEPT ![r] = EditJob(u, c, t)]
          /\ seen' = [seen EXCEPT ![r] = db[c]]
          /\ \E p \in {"write", "erase", "done"} : pc' = [pc EXCEPT ![r] = p]
          /\ UNCHANGED handlerVars
    BY <1>2 DEF UpdateComplaint, Proceed, Refuse
  <2>2. EditJob(u, c, t) \in Job /\ EditJob(u, c, t).target = c
    BY DEF EditJob, Job, Status
  <2> QED
    BY <2>1, <2>2, ReadStep
<1>3. ASSUME NEW r \in Requests, UpdateWrite(r) PROVE Stored'
  <2>1. /\ pc[r] = "write" /\ UNCHANGED unused
        /\ job[r] \in Job /\ job[r].target \in Complaints /\ job[r].text \in Texts
    BY <1>3 DEF UpdateWrite, Local, HandlerFacts, FactsOf, Job
  <2>2. CASE RowMatches(job[r].target, seen[r].version)
    <3> DEFINE c == job[r].target
    <3>1. /\ Commit(r, c, Edited(db[c], job[r].text)) /\ Goto(r, "evict")
          /\ db[c] \in Row
      BY <1>3, <2>1, <2>2 DEF UpdateWrite, RowMatches, Local, TypeOK
    <3>2. /\ Edited(db[c], job[r].text) \in Row
          /\ Edited(db[c], job[r].text).version = db[c].version + 1
      BY <2>1, <3>1, EditedRow DEF Edited
    <3> QED
      BY <2>1, <2>2, <3>1, <3>2, VersionedWriteStep
  <2>3. CASE ~RowMatches(job[r].target, seen[r].version)
    BY <1>3, <2>3 DEF UpdateWrite, Answer, Local, TypeOK,
                      Stored, WriteFacts, VersionedWrites, IdsUsedOnce, SnapshotIntegrity
  <2> QED
    BY <2>2, <2>3
<1>4. ASSUME NEW r \in Requests, DeleteComplaint(r) PROVE Stored'
  <2>1. PICK u \in Users, c \in Complaints :
          /\ pc[r] = "idle"
          /\ job' = [job EXCEPT ![r] = DeleteJob(u, c)]
          /\ seen' = [seen EXCEPT ![r] = db[c]]
          /\ \E p \in {"write", "erase", "done"} : pc' = [pc EXCEPT ![r] = p]
          /\ UNCHANGED handlerVars
    BY <1>4 DEF DeleteComplaint, Proceed, Refuse
  <2>2. DeleteJob(u, c) \in Job /\ DeleteJob(u, c).target = c
    BY DEF DeleteJob, Job, Status
  <2> QED
    BY <2>1, <2>2, ReadStep
<1>5. ASSUME NEW r \in Requests, DeleteWrite(r) PROVE Stored'
  BY <1>5 DEF DeleteWrite, Commit, Goto, Answer, Job, Local, TypeOK, HandlerFacts, FactsOf,
              Stored, WriteFacts, VersionedWrites, IdsUsedOnce, SnapshotIntegrity
<1>6. ASSUME NEW r \in Requests, UpdateComplaintStatus(r) PROVE Stored'
  <2>1. PICK u \in Users, c \in Complaints, s \in Status :
          /\ pc[r] = "idle"
          /\ job' = [job EXCEPT ![r] = StatusJob(u, c, s)]
          /\ seen' = [seen EXCEPT ![r] = db[c]]
          /\ \E p \in {"write", "erase", "done"} : pc' = [pc EXCEPT ![r] = p]
          /\ UNCHANGED handlerVars
    BY <1>6 DEF UpdateComplaintStatus, Proceed, Refuse
  <2>2. StatusJob(u, c, s) \in Job /\ StatusJob(u, c, s).target = c
    BY DEF StatusJob, Job
  <2> QED
    BY <2>1, <2>2, ReadStep
<1>7. ASSUME NEW r \in Requests, StatusWrite(r) PROVE Stored'
  <2>1. /\ pc[r] = "write" /\ UNCHANGED unused
        /\ job[r] \in Job /\ job[r].target \in Complaints /\ job[r].status \in Status
    BY <1>7 DEF StatusWrite, Local, HandlerFacts, FactsOf, Job
  <2>2. CASE RowMatches(job[r].target, seen[r].version)
    <3> DEFINE c == job[r].target
    <3>1. /\ Commit(r, c, Moved(db[c], job[r].status)) /\ Goto(r, "evict")
          /\ db[c] \in Row
      BY <1>7, <2>1, <2>2 DEF StatusWrite, RowMatches, Local, TypeOK
    <3>2. /\ Moved(db[c], job[r].status) \in Row
          /\ Moved(db[c], job[r].status).version = db[c].version + 1
      BY <2>1, <3>1, MovedRow DEF Moved
    <3> QED
      BY <2>1, <2>2, <3>1, <3>2, VersionedWriteStep
  <2>3. CASE ~RowMatches(job[r].target, seen[r].version)
    BY <1>7, <2>3 DEF StatusWrite, Answer, Local, TypeOK,
                      Stored, WriteFacts, VersionedWrites, IdsUsedOnce, SnapshotIntegrity
  <2> QED
    BY <2>2, <2>3
<1>8. ASSUME NEW r \in Requests, Evict(r) PROVE Stored'
  BY <1>8 DEF Evict, Goto, Answer, handlerVars, Local, TypeOK,
              Stored, WriteFacts, VersionedWrites, IdsUsedOnce, SnapshotIntegrity
<1>9. ASSUME NEW r \in Requests, CreateAlarm(r) PROVE Stored'
  BY <1>9 DEF CreateAlarm, Answer, Local, TypeOK,
              Stored, WriteFacts, VersionedWrites, IdsUsedOnce, SnapshotIntegrity
<1>10. ASSUME NEW r \in Requests, Fail(r) PROVE Stored'
  BY <1>10 DEF Fail, Answer, handlerVars, Local, TypeOK,
               Stored, WriteFacts, VersionedWrites, IdsUsedOnce, SnapshotIntegrity
<1>11. CASE RemoveResident
  <2>1. /\ \A c \in Complaints : db'[c] = db[c] \/ db'[c] = NoRow
        /\ UNCHANGED <<unused, pc, job, seen, written>>
    BY <1>11 DEF RemoveResident
  <2>2. \A q \in Requests :
          seen[q] # NoRow \/ q \in written => job[q].target \in Complaints
    BY ReadersHaveJobs DEF Stored
  <2>3. WriteFacts'
    <3>1. VersionedWrites' = VersionedWrites
      BY <2>1 DEF VersionedWrites
    <3>2. \A q \in VersionedWrites : job[q].target \in Complaints
      BY <2>2 DEF VersionedWrites, Local, TypeOK
    <3> QED
      BY <2>1, <3>1, <3>2 DEF Stored, WriteFacts
  <2>4. IdsUsedOnce'
    BY <2>1 DEF Stored, IdsUsedOnce, Local, TypeOK
  <2>5. SnapshotIntegrity'
    BY <2>1, <2>2 DEF Stored, SnapshotIntegrity
  <2> QED
    BY <2>3, <2>4, <2>5 DEF Stored
<1>12. CASE UNCHANGED vars
  BY <1>12 DEF vars, Stored, WriteFacts, VersionedWrites, IdsUsedOnce, SnapshotIntegrity
<1> QED
  BY <1>1, <1>2, <1>3, <1>4, <1>5, <1>6, <1>7, <1>8, <1>9, <1>10, <1>11, <1>12
     DEF Next, Serve

-----------------------------------------------------------------------------
Answered == NoLostUpdate /\ AlarmsMatchWrites

\* No request is answered and no alarm waits when the service starts.
LEMMA AnsweredInit == Init => Answered
  BY DEF Init, Answered, NoLostUpdate, AlarmsMatchWrites, VersionedWrites

\* A write that matches its version joins earlier writers of the complaint
\* whose versions are all smaller than the stored one.
LEMMA NoLostUpdateStep ==
  ASSUME Local, Stored, NoLostUpdate, [Next]_vars
  PROVE  NoLostUpdate'
<1>1. ASSUME NEW r \in Requests, pc[r] = "write",
             RowMatches(job[r].target, seen[r].version),
             written' = written \cup {r}, UNCHANGED <<job, seen>>
      PROVE  NoLostUpdate'
  <2>1. job[r] \in Job /\ seen[r] \in Row /\ job[r].target \in Complaints
    BY <1>1 DEF Local, TypeOK, HandlerFacts, FactsOf, Job
  <2>2. ASSUME NEW s \in VersionedWrites, job[s].target = job[r].target
        PROVE  seen[s].version # seen[r].version
    <3>1. seen[s] \in Row /\ seen[s].version < db[job[r].target].version
      BY <1>1, <2>2 DEF Stored, WriteFacts, VersionedWrites, RowMatches, Local, TypeOK
    <3>2. db[job[r].target].version = seen[r].version
      BY <1>1 DEF RowMatches
    <3> QED
      BY <2>1, <3>1, <3>2 DEF Row
  <2> QED
    BY <1>1, <2>2 DEF NoLostUpdate, VersionedWrites
<1>2. ASSUME VersionedWrites' \subseteq VersionedWrites,
             \A q \in VersionedWrites : job'[q] = job[q] /\ seen'[q] = seen[q]
      PROVE  NoLostUpdate'
  BY <1>2 DEF NoLostUpdate
<1> USE DEF Local, TypeOK, VersionedWrites
<1>3. ASSUME NEW r \in Requests, pc[r] = "idle", job'[r].op = "create" \/ written' = written,
             written' \subseteq written \cup {r},
             \A q \in Requests : q # r => job'[q] = job[q] /\ seen'[q] = seen[q]
      PROVE  NoLostUpdate'
  <2>1. r \notin written
    BY <1>3 DEF Stored, WriteFacts
  <2> QED
    BY <1>2, <1>3, <2>1
<1>4. ASSUME NEW r \in Requests, job[r].op = "delete" \/ written' = written,
             written' \subseteq written \cup {r}, UNCHANGED <<job, seen>>
      PROVE  NoLostUpdate'
  BY <1>2, <1>4
<1>5. ASSUME NEW r \in Requests, CreateComplaint(r) PROVE NoLostUpdate'
  BY <1>3, <1>5 DEF CreateComplaint, NewJob, Commit, Proceed, Refuse
<1>6. ASSUME NEW r \in Requests, UpdateComplaint(r) PROVE NoLostUpdate'
  BY <1>3, <1>6 DEF UpdateComplaint, Proceed, Refuse, handlerVars
<1>7. ASSUME NEW r \in Requests, UpdateWrite(r) PROVE NoLostUpdate'
  BY <1>1, <1>4, <1>7 DEF UpdateWrite, Commit, Goto, Answer
<1>8. ASSUME NEW r \in Requests, DeleteComplaint(r) PROVE NoLostUpdate'
  BY <1>3, <1>8 DEF DeleteComplaint, Proceed, Refuse, handlerVars
<1>9. ASSUME NEW r \in Requests, DeleteWrite(r) PROVE NoLostUpdate'
  BY <1>4, <1>9 DEF DeleteWrite, Commit, Goto, Answer, HandlerFacts, FactsOf
<1>10. ASSUME NEW r \in Requests, UpdateComplaintStatus(r) PROVE NoLostUpdate'
  BY <1>3, <1>10 DEF UpdateComplaintStatus, Proceed, Refuse, handlerVars
<1>11. ASSUME NEW r \in Requests, StatusWrite(r) PROVE NoLostUpdate'
  BY <1>1, <1>4, <1>11 DEF StatusWrite, Commit, Goto, Answer
<1>12. ASSUME NEW r \in Requests, Evict(r) \/ CreateAlarm(r) \/ Fail(r)
       PROVE  NoLostUpdate'
  BY <1>4, <1>12 DEF Evict, CreateAlarm, Fail, Goto, Answer, handlerVars
<1>13. CASE RemoveResident
  BY <1>2, <1>13 DEF RemoveResident
<1>14. CASE UNCHANGED vars
  BY <1>2, <1>14 DEF vars
<1> QED
  BY <1>5, <1>6, <1>7, <1>8, <1>9, <1>10, <1>11, <1>12, <1>13, <1>14 DEF Next, Serve

\* The alarm is the last call of its handler, made after the write.
LEMMA AlarmsStep ==
  ASSUME Local, Stored, AlarmsMatchWrites, [Next]_vars
  PROVE  AlarmsMatchWrites'
<1> USE DEF Local, TypeOK, AlarmsMatchWrites
<1>1. ASSUME NEW r \in Requests, UNCHANGED outbox, written \subseteq written',
             \A q \in Requests : q # r => job'[q] = job[q] /\ result'[q] = result[q],
             result'[r] # "ok" \/ job'[r].op \notin {"create", "status"}
      PROVE  AlarmsMatchWrites'
  BY <1>1
<1>2. ASSUME NEW r \in Requests, CreateComplaint(r) PROVE AlarmsMatchWrites'
  <2>1. result[r] = "none" /\ result'[r] \in {"none", "FAIL_SAVE_COMPALINT"}
    BY <1>2 DEF CreateComplaint, Proceed, Refuse, HandlerFacts, FactsOf
  <2> QED
    BY <1>1, <1>2, <2>1 DEF CreateComplaint, Commit, Proceed, Refuse
<1>3. ASSUME NEW r \in Requests,
             UpdateComplaint(r) \/ DeleteComplaint(r) \/ UpdateComplaintStatus(r)
      PROVE  AlarmsMatchWrites'
  <2>1. result[r] = "none" /\ result'[r] # "ok"
    BY <1>3 DEF UpdateComplaint, DeleteComplaint, UpdateComplaintStatus, Proceed, Refuse,
                EditVerdict, DeleteVerdict, StatusVerdict, HandlerFacts, FactsOf
  <2> QED
    BY <1>1, <1>3, <2>1 DEF UpdateComplaint, DeleteComplaint, UpdateComplaintStatus,
                            Proceed, Refuse, handlerVars
<1>4. ASSUME NEW r \in Requests, UpdateWrite(r) \/ StatusWrite(r) \/ DeleteWrite(r)
      PROVE  AlarmsMatchWrites'
  <2>1. result[r] = "none" /\ result'[r] # "ok"
    BY <1>4 DEF UpdateWrite, StatusWrite, DeleteWrite, Goto, Answer, HandlerFacts, FactsOf
  <2> QED
    BY <1>1, <1>4, <2>1 DEF UpdateWrite, StatusWrite, DeleteWrite, Commit, Goto, Answer
<1>5. ASSUME NEW r \in Requests, Evict(r) \/ Fail(r) PROVE AlarmsMatchWrites'
  <2>1. result'[r] # "ok" \/ job'[r].op \notin {"create", "status"}
    BY <1>5 DEF Evict, Fail, Goto, Answer, HandlerFacts, FactsOf
  <2> QED
    BY <1>1, <1>5, <2>1 DEF Evict, Fail, Goto, Answer, handlerVars
<1>6. ASSUME NEW r \in Requests, CreateAlarm(r) PROVE AlarmsMatchWrites'
  <2>1. r \in written /\ AlarmOf(r).by = r
    BY <1>6 DEF CreateAlarm, AlarmOf, Stored, WriteFacts
  <2> QED
    BY <1>6, <2>1 DEF CreateAlarm, Answer
<1>7. CASE RemoveResident
  BY <1>7 DEF RemoveResident
<1>8. CASE UNCHANGED vars
  BY <1>8 DEF vars
<1> QED
  BY <1>2, <1>3, <1>4, <1>5, <1>6, <1>7, <1>8 DEF Next, Serve

\* Everything an administrator or an author relies on holds in every state,
\* however the calls of the handlers interleave and wherever they fail.
THEOREM InductiveInvariant == Spec => []IInv
<1>1. Init => Local /\ Stored /\ Answered
  BY LocalInit, StoredInit, AnsweredInit
<1>2. Local /\ Stored /\ Answered /\ [Next]_vars => (Local /\ Stored /\ Answered)'
  BY LocalStep, StoredStep, NoLostUpdateStep, AlarmsStep DEF Answered
<1>3. Local /\ Stored /\ Answered => IInv
  BY DEF Local, Stored, Answered, IInv
<1> QED
  BY <1>1, <1>2, <1>3, PTL DEF Spec

\* Of the edits and status changes stored, no two were computed from the same
\* version of a complaint: the version test loses no update.
THEOREM UpdatesAreNotLost == Spec => []NoLostUpdate
  BY InductiveInvariant, PTL DEF IInv

\* An alarm is about a stored write, and an acknowledged one has its alarm.
THEOREM AlarmsAreTrue == Spec => []AlarmsMatchWrites
  BY InductiveInvariant, PTL DEF IInv

-----------------------------------------------------------------------------
(***************************************************************************)
(* What a step does to the table, and what follows for the users.          *)
(***************************************************************************)
Filing(c, u, t) ==
  /\ c \in unused /\ unused' = unused \ {c}
  /\ db' = [db EXCEPT ![c] = NewRow(u, t)]

Editing(c, t) ==
  /\ db[c] \in Row /\ db[c].status = "PENDING" /\ UNCHANGED unused
  /\ db' = [db EXCEPT ![c] = Edited(db[c], t)]

Moving(c, s) ==
  /\ db[c] \in Row /\ s \in Reachable(db[c].status) /\ UNCHANGED unused
  /\ db' = [db EXCEPT ![c] = Moved(db[c], s)]

Withdrawing(S) ==
  /\ \A c \in S : db[c] # NoRow
  /\ UNCHANGED unused
  /\ db' = [c \in Complaints |-> IF c \in S THEN NoRow ELSE db[c]]

Effect ==
  \/ UNCHANGED <<db, unused>>
  \/ \E c \in Complaints, u \in Users, t \in Texts : Filing(c, u, t)
  \/ \E c \in Complaints, t \in Texts : Editing(c, t)
  \/ \E c \in Complaints, s \in Status : Moving(c, s)
  \/ \E S \in SUBSET Complaints : Withdrawing(S)

\* A handler that finds its version still stored finds the row it tested.
LEMMA TestedRowIsStored ==
  ASSUME Local, Stored, NEW r \in Requests, pc[r] = "write",
         RowMatches(job[r].target, seen[r].version)
  PROVE  /\ db[job[r].target] = seen[r] /\ seen[r] \in Row
         /\ job[r] \in Job /\ job[r].target \in Complaints
  BY DEF Local, TypeOK, Stored, HandlerFacts, FactsOf, SnapshotIntegrity, RowMatches, Job

\* A step of the service has one of the effects named above on the table.
LEMMA StepEffect == Local /\ Stored /\ [Next]_vars => Effect
<1> SUFFICES ASSUME Local, Stored, [Next]_vars PROVE Effect
  OBVIOUS
<1>1. ASSUME NEW r \in Requests, CreateComplaint(r) PROVE Effect
  BY <1>1 DEF CreateComplaint, Commit, Filing, Effect, Local, TypeOK
<1>2. ASSUME NEW r \in Requests, UpdateWrite(r) PROVE Effect
  <2>1. CASE RowMatches(job[r].target, seen[r].version)
    <3> DEFINE c == job[r].target
    <3>1. seen[r].status = "PENDING" /\ job[r].text \in Texts
      BY <1>2, <2>1, TestedRowIsStored
         DEF UpdateWrite, Local, HandlerFacts, FactsOf, EditVerdict
    <3>2. Editing(c, job[r].text)
      BY <1>2, <2>1, <3>1, TestedRowIsStored DEF UpdateWrite, Commit, Editing
    <3> QED
      BY <3>1, <3>2, <1>2, <2>1, TestedRowIsStored DEF Effect, UpdateWrite
  <2>2. CASE ~RowMatches(job[r].target, seen[r].version)
    BY <1>2, <2>2 DEF UpdateWrite, Effect
  <2> QED
    BY <2>1, <2>2
<1>3. ASSUME NEW r \in Requests, StatusWrite(r) PROVE Effect
  <2>1. CASE RowMatches(job[r].target, seen[r].version)
    <3> DEFINE c == job[r].target
    <3>1. StatusVerdict(job[r].user, seen[r], job[r].status) = "none"
      BY <1>3 DEF StatusWrite, Local, HandlerFacts, FactsOf
    <3>2. seen[r].status \in Status /\ job[r].status \in Status
      BY <1>3, <2>1, TestedRowIsStored DEF StatusWrite, Row, Job
    <3>3. job[r].status \in Reachable(seen[r].status)
      BY <3>1, <3>2, <1>3, <2>1, TestedRowIsStored, NoRowIsNoRow
         DEF StatusWrite, StatusVerdict, Reachable, Status
    <3>4. Moving(c, job[r].status)
      BY <1>3, <2>1, <3>3, TestedRowIsStored DEF StatusWrite, Commit, Moving
    <3> QED
      BY <3>2, <3>4, <1>3, <2>1, TestedRowIsStored DEF Effect, StatusWrite
  <2>2. CASE ~RowMatches(job[r].target, seen[r].version)
    BY <1>3, <2>2 DEF StatusWrite, Effect
  <2> QED
    BY <2>1, <2>2
<1>4. ASSUME NEW r \in Requests, DeleteWrite(r) PROVE Effect
  <2> DEFINE c == job[r].target
  <2>1. CASE db[c] # NoRow
    <3>1. c \in Complaints
      BY <1>4 DEF DeleteWrite, Local, HandlerFacts, FactsOf, Job
    <3>2. Withdrawing({c})
      BY <1>4, <2>1, <3>1 DEF DeleteWrite, Commit, Withdrawing, Local, TypeOK
    <3> QED
      BY <3>1, <3>2 DEF Effect
  <2>2. CASE db[c] = NoRow
    BY <1>4, <2>2 DEF DeleteWrite, Effect
  <2> QED
    BY <2>1, <2>2
<1>5. ASSUME NEW r \in Requests,
             \/ UpdateComplaint(r) \/ DeleteComplaint(r) \/ UpdateComplaintStatus(r)
             \/ Evict(r) \/ CreateAlarm(r) \/ Fail(r)
      PROVE  Effect
  BY <1>5 DEF UpdateComplaint, DeleteComplaint, UpdateComplaintStatus, Evict,
              CreateAlarm, Fail, handlerVars, Effect
<1>6. CASE RemoveResident
  <2>1. PICK u \in Residents :
          /\ db' = [c \in Complaints |->
                      IF db[c] # NoRow /\ db[c].author = u THEN NoRow ELSE db[c]]
          /\ UNCHANGED unused
    BY <1>6 DEF RemoveResident
  <2> DEFINE S == {c \in Complaints : db[c] # NoRow /\ db[c].author = u}
  <2>2. Withdrawing(S)
    BY <2>1 DEF Withdrawing
  <2> QED
    BY <2>2 DEF Effect
<1>7. CASE UNCHANGED vars
  BY <1>7 DEF vars, Effect
<1> QED
  BY <1>1, <1>2, <1>3, <1>4, <1>5, <1>6, <1>7 DEF Next, Serve

\* The two parts the effects of a step rest on hold in every state.
LEMMA Invariants == Spec => [](Local /\ Stored)
<1>1. Init => Local /\ Stored
  BY LocalInit, StoredInit
<1>2. Local /\ Stored /\ [Next]_vars => (Local /\ Stored)'
  BY LocalStep, StoredStep
<1> QED
  BY <1>1, <1>2, PTL DEF Spec

\* Whatever administrators do at the same time, a complaint taken up is never
\* put back and one resolved or rejected stays so.
THEOREM StatusOrder == Spec => StatusNeverRegresses
<1>1. ASSUME Local, Effect, NEW c \in Complaints, db[c] # NoRow, db'[c] # NoRow,
             IdsUsedOnce
      PROVE  db'[c].status \in Reachable(db[c].status)
  <2>1. db[c] \in Row /\ db[c].status \in Reachable(db[c].status)
    BY <1>1 DEF Local, TypeOK, Row, Status, Reachable
  <2> QED
    BY <1>1, <2>1 DEF Effect, Filing, Editing, Moving, Withdrawing, NewRow, Edited, Moved,
                      Local, TypeOK, IdsUsedOnce
<1>2. Local /\ Stored /\ [Next]_vars =>
        [\A c \in Complaints :
           db[c] # NoRow /\ db'[c] # NoRow => db'[c].status \in Reachable(db[c].status)]_vars
  BY <1>1, StepEffect DEF Stored
<1> QED
  BY <1>2, Invariants, PTL DEF StatusNeverRegresses, Spec

\* The text of a complaint changes only while its stored status is PENDING.
THEOREM EditsStopInTime == Spec => EditOnlyWhilePending
<1>1. ASSUME Local, Effect, NEW c \in Complaints, db[c] # NoRow, db'[c] # NoRow,
             IdsUsedOnce, db'[c].text # db[c].text
      PROVE  db[c].status = "PENDING"
  BY <1>1 DEF Effect, Filing, Editing, Moving, Withdrawing, NewRow, Edited, Moved,
              Local, TypeOK, IdsUsedOnce
<1>2. Local /\ Stored /\ [Next]_vars =>
        [\A c \in Complaints :
           db[c] # NoRow /\ db'[c] # NoRow /\ db'[c].text # db[c].text =>
             db[c].status = "PENDING"]_vars
  BY <1>1, StepEffect DEF Stored
<1> QED
  BY <1>2, Invariants, PTL DEF EditOnlyWhilePending, Spec

-----------------------------------------------------------------------------
(***************************************************************************)
(* The service implements the lifecycle.                                   *)
(***************************************************************************)
\* The table the service starts on is a state the lifecycle starts in.
LEMMA LifecycleInit == Init => Lifecycle!Init
<1> SUFFICES ASSUME Init PROVE Lifecycle!Init
  OBVIOUS
<1>1. \A c \in Complaints : \/ db[c] = NoRow /\ c \in unused
                            \/ /\ db[c] \in Row /\ db[c] # NoRow
                               /\ c \notin unused /\ db[c].status = "PENDING"
  BY NoRowIsNoRow DEF Init, NewRow, Row, Status
<1>2. \A c \in Complaints : StageOf(c) \in {"unfiled", "PENDING"}
  BY <1>1 DEF StageOf
<1>3. \A c \in Complaints : DetailOf(c) \in Lifecycle!Detail \cup {NoRow}
  <2> SUFFICES ASSUME NEW c \in Complaints, db[c] # NoRow
               PROVE  DetailOf(c) \in Lifecycle!Detail
    BY DEF DetailOf
  <2>1. db[c].author \in Users /\ db[c].text \in Texts
    BY <1>1 DEF Row
  <2> QED
    BY <2>1 DEF DetailOf, Lifecycle!Detail
<1>4. \A c \in Complaints : StageOf(c) = "unfiled" <=> DetailOf(c) = NoRow
  BY <1>1, NoRowIsNoRow DEF StageOf, DetailOf, Row
<1> QED
  BY <1>2, <1>3, <1>4 DEF Lifecycle!Init, Lifecycle!Detail

\* A change of the table is one step of the lifecycle, or invisible.
LEMMA LifecycleStep ==
  Local /\ Stored /\ [Next]_vars => [Lifecycle!Next]_(Lifecycle!lifeVars)
<1> SUFFICES ASSUME Local, Stored, [Next]_vars
             PROVE  [Lifecycle!Next]_(Lifecycle!lifeVars)
  OBVIOUS
<1> DEFINE stages == [c \in Complaints |-> StageOf(c)]
           details == [c \in Complaints |-> DetailOf(c)]
<1> USE DEF Local, TypeOK
<1>1. \A c \in unused : db[c] = NoRow
  BY DEF Stored, IdsUsedOnce
<1>2. CASE UNCHANGED <<db, unused>>
  BY <1>2 DEF Lifecycle!lifeVars, StageOf, DetailOf
<1>3. ASSUME NEW c \in Complaints, NEW u \in Users, NEW t \in Texts, Filing(c, u, t)
      PROVE  Lifecycle!Next
  <2> DEFINE d == [author |-> u, text |-> t]
  <2>1. NewRow(u, t) \in Row /\ NewRow(u, t) # NoRow
    BY NoRowIsNoRow DEF NewRow, Row, Status
  <2>2. stages[c] = "unfiled" /\ stages' = [stages EXCEPT ![c] = "PENDING"]
    BY <1>3, <2>1 DEF Filing, StageOf, NewRow
  <2>3. details' = [details EXCEPT ![c] = d]
    BY <1>3, <2>1 DEF Filing, DetailOf, NewRow
  <2>4. d \in Lifecycle!Detail /\ Lifecycle!File(c, d)
    BY <2>2, <2>3 DEF Lifecycle!Detail, Lifecycle!File
  <2> QED
    BY <2>4 DEF Lifecycle!Next
<1>4. ASSUME NEW c \in Complaints, NEW t \in Texts, Editing(c, t)
      PROVE  Lifecycle!Next
  <2>1. Edited(db[c], t) \in Row /\ Edited(db[c], t) # NoRow /\ db[c] # NoRow
        /\ c \notin unused
    BY <1>1, <1>4, EditedRow, NoRowIsNoRow DEF Editing
  <2>2. stages[c] = "PENDING" /\ stages' = stages
    BY <1>4, <2>1 DEF Editing, StageOf, Edited
  <2>3. details' = [details EXCEPT ![c].text = t]
    BY <1>4, <2>1 DEF Editing, DetailOf, Edited
  <2>4. Lifecycle!Revise(c, t)
    BY <2>2, <2>3 DEF Lifecycle!Revise
  <2> QED
    BY <2>4 DEF Lifecycle!Next
<1>5. ASSUME NEW c \in Complaints, NEW s \in Status, Moving(c, s)
      PROVE  [Lifecycle!Next]_(Lifecycle!lifeVars)
  <2>1. Moved(db[c], s) \in Row /\ Moved(db[c], s) # NoRow /\ db[c] # NoRow
        /\ c \notin unused
    BY <1>1, <1>5, MovedRow, NoRowIsNoRow DEF Moving
  <2>2. stages[c] = db[c].status /\ stages' = [stages EXCEPT ![c] = s]
    BY <1>5, <2>1 DEF Moving, StageOf, Moved
  <2>3. details' = details
    BY <1>5, <2>1 DEF Moving, DetailOf, Moved
  <2>4. db[c].status \in Status /\ s \in Reachable(db[c].status)
    BY <1>5 DEF Moving, Row
  <2>5. CASE s = db[c].status
    BY <2>2, <2>3, <2>5 DEF Lifecycle!lifeVars
  <2>6. CASE s # db[c].status /\ s = "IN_PROGRESS"
    <3>1. db[c].status = "PENDING"
      BY <2>4, <2>6 DEF Reachable, Status
    <3>2. Lifecycle!TakeUp(c)
      BY <2>2, <2>3, <2>6, <3>1 DEF Lifecycle!TakeUp
    <3> QED
      BY <3>2 DEF Lifecycle!Next
  <2>7. CASE s # db[c].status /\ s # "IN_PROGRESS"
    <3>1. db[c].status \in {"PENDING", "IN_PROGRESS"} /\ s \in {"RESOLVED", "REJECTED"}
      BY <2>4, <2>7 DEF Reachable, Status
    <3>2. Lifecycle!Settle(c, s)
      BY <2>2, <2>3, <3>1 DEF Lifecycle!Settle
    <3> QED
      BY <3>1, <3>2 DEF Lifecycle!Next
  <2> QED
    BY <2>5, <2>6, <2>7
<1>6. ASSUME NEW S \in SUBSET Complaints, Withdrawing(S)
      PROVE  Lifecycle!Next
  <2>1. \A c \in S : db[c] \in Row /\ c \notin unused
    BY <1>1, <1>6 DEF Withdrawing
  <2>2. \A c \in S : stages[c] \in Lifecycle!Filed
    BY <2>1, NoRowIsNoRow DEF StageOf, Row, Status, Lifecycle!Filed
  <2>3. stages' = [c \in Complaints |-> IF c \in S THEN "gone" ELSE stages[c]]
    BY <1>6, <2>1 DEF Withdrawing, StageOf
  <2>4. details' = [c \in Complaints |-> IF c \in S THEN NoRow ELSE details[c]]
    BY <1>6 DEF Withdrawing, DetailOf
  <2>5. Lifecycle!Withdraw(S)
    BY <2>2, <2>3, <2>4 DEF Lifecycle!Withdraw
  <2> QED
    BY <2>5 DEF Lifecycle!Next
<1> QED
  BY <1>2, <1>3, <1>4, <1>5, <1>6, StepEffect DEF Effect

\* Every behaviour of the service is a behaviour of the lifecycle.
THEOREM Implementation == Spec => ImplementsLifecycle
  BY LifecycleInit, LifecycleStep, Invariants, PTL
     DEF Spec, ImplementsLifecycle, Lifecycle!Spec
=============================================================================
