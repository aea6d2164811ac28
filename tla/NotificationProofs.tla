------------------------- MODULE NotificationProofs -------------------------
(***************************************************************************)
(* What holds of the notification pipeline for any alarms, users, groups,  *)
(* batch sizes and failures: its types, that an alarm marked processed is   *)
(* stored for its audience, and that it was sent to those of them who were *)
(* connected.                                                              *)
(*                                                                         *)
(* The two completeness invariants rest on what a tick has reached at each *)
(* of its calls: from the lookup on its plan has the row of everybody who  *)
(* still has an account, what it no longer wants to insert is stored or    *)
(* skipped, and until an interruption no row of an alarm is stored before  *)
(* the tick that reads it.                                                 *)
(***************************************************************************)
EXTENDS NotificationPipeline, TLAPS

-----------------------------------------------------------------------------
(***************************************************************************)
(* Types.                                                                  *)
(***************************************************************************)

LEMMA SlicesAreTodo ==
  ASSUME NEW B \in Slices PROVE B \subseteq todo
  BY DEF Slices

LEMMA PlanIsRows ==
  ASSUME TypeOK, NEW b \in SUBSET Alarms PROVE Plan(b) \subseteq Rows
<1>1. \A a \in b \ GroupAlarms(b) : a \in Alarms /\ addr[a] \in Users
  BY DEF TypeOK, GroupAlarms
<1>2. GroupAlarms(b) \subseteq Alarms /\ Receivers(b) \subseteq Users
  BY DEF TypeOK, GroupAlarms, Receivers
<1>3. GroupAlarms(b) \X Receivers(b) \subseteq Alarms \X Users
  BY <1>2
<1>4. {<<a, addr[a]>> : a \in b \ GroupAlarms(b)} \subseteq Alarms \X Users
  BY <1>1
<1> QED
  BY <1>3, <1>4 DEF Plan, Rows

LEMMA TypeInit == Init => TypeOK
<1>1. 0 \in 0..MaxFailures
  BY FailuresAreCounted
<1> QED
  BY <1>1 DEF Init, TypeOK

LEMMA TypeStep == TypeOK /\ [Next]_vars => TypeOK'
<1> SUFFICES ASSUME TypeOK, [Next]_vars PROVE TypeOK'
  OBVIOUS
<1> USE DEF TypeOK
<1>1. ASSUME NEW a \in Alarms, Post(a) PROVE TypeOK'
  BY <1>1 DEF Post, tickVars, Rows
<1>2. ASSUME NEW u \in Users, RemoveAccount(u) \/ Connect(u) PROVE TypeOK'
  BY <1>2 DEF RemoveAccount, Connect, sentVars, tickVars
<1>3. CASE DeleteProcessed
  BY <1>3 DEF DeleteProcessed, sentVars
<1>4. CASE FindPending
  BY <1>4 DEF FindPending, sentVars
<1>5. CASE LookUpReceivers
  <2>1. Plan(batch) \subseteq Rows
    BY PlanIsRows
  <2> QED
    BY <1>5, <2>1 DEF LookUpReceivers, sentVars
<1>6. CASE InsertSlice
  <2>1. PICK B \in Slices : StoreSlice(B) \/ IgnoreDuplicates(B) \/ AbortOnLostReceiver(B)
    BY <1>6 DEF InsertSlice
  <2>2. B \subseteq todo
    BY SlicesAreTodo
  <2>3. UNCHANGED <<status, addr, accounts, batch, plan, failures, live>>
    BY <1>6 DEF InsertSlice
  <2>4. \A row \in todo : row[1] \in Alarms
    BY DEF Rows
  <2> QED
    BY <2>1, <2>2, <2>3, <2>4 DEF StoreSlice, IgnoreDuplicates, AbortOnLostReceiver, ProcessEnds, Rows
<1>7. CASE SendLive
  <2>1. Deliveries(batch) \subseteq Rows
    BY DEF Deliveries, Rows
  <2> QED
    BY <1>7, <2>1 DEF SendLive
<1>8. CASE MarkProcessed
  BY <1>8 DEF MarkProcessed, sentVars
<1>9. CASE EndTick
  BY <1>9 DEF EndTick, sentVars
<1>10. CASE Stop
  BY <1>10, FailuresAreCounted DEF Stop, ProcessEnds
<1>11. CASE UNCHANGED vars
  BY <1>11 DEF vars
<1> QED
  BY <1>1, <1>2, <1>3, <1>4, <1>5, <1>6, <1>7, <1>8, <1>9, <1>10, <1>11 DEF Next, Tick

\* Every variable of the pipeline keeps its type.
THEOREM TypeCorrect == Spec => []TypeOK
  BY TypeInit, TypeStep, PTL DEF Spec

-----------------------------------------------------------------------------
(***************************************************************************)
(* The invariant.                                                          *)
(***************************************************************************)

\* From the lookup on, everybody who still has an account and whom an alarm of
\* the tick is for has a row in the plan.
PlanIsComplete ==
  pc \in {"insert", "send", "mark"} =>
    \A a \in batch, u \in accounts : IsFor(a, u) => <<a, u>> \in plan

\* What the tick no longer wants to insert is stored, or left out for good.
PlanIsStored ==
  pc \in {"insert", "send", "mark"} =>
    \A row \in plan \ todo : row \in notes \/ row[1] \in skipped

\* A tick that gets past its inserts has none left.
NothingIsLeft == pc \in {"send", "mark", "sweep"} => todo = {}

\* The alarms a tick has read are pending until it marks them.
BatchIsPending ==
  /\ pc \in {"lookup", "insert", "send", "mark"} =>
       \A a \in batch : status[a] = "PENDING"
  /\ pc \in {"insert", "send", "mark"} => \A row \in plan : row[1] \in batch

\* Until an interruption a row is stored by the tick that marks its alarm, and
\* nothing is left out.
NothingIsRepeated ==
  ~aborted =>
    /\ skipped = {}
    /\ \A row \in notes :
         row[1] \in Processed \/ (pc \in {"insert", "send", "mark"} /\ row \in plan \ todo)

\* An alarm is due to a user it is for, who is still connected, and was posted.
DueIsWaiting ==
  \A row \in due :
    row[2] \in connected /\ IsFor(row[1], row[2]) /\ status[row[1]] # "none"

\* A tick that has sent its alarms has sent them to everybody they are due to.
BatchIsSent ==
  pc = "mark" => \A row \in due : row[1] \in batch => row \in live

IInv ==
  /\ TypeOK
  /\ DueIsWaiting /\ BatchIsSent /\ LiveReachesTheConnected
  /\ PlanIsComplete
  /\ PlanIsStored
  /\ NothingIsLeft
  /\ BatchIsPending
  /\ NothingIsRepeated
  /\ CompleteUnlessSkipped

LEMMA InvariantInit == Init => IInv
<1> SUFFICES ASSUME Init PROVE IInv
  OBVIOUS
<1>1. TypeOK
  BY TypeInit
<1>2. NothingIsRepeated /\ CompleteUnlessSkipped
  BY DEF Init, NothingIsRepeated, CompleteUnlessSkipped, Processed
<1>3. PlanIsComplete /\ PlanIsStored /\ NothingIsLeft /\ BatchIsPending
  BY DEF Init, PlanIsComplete, PlanIsStored, NothingIsLeft, BatchIsPending
<1>4. DueIsWaiting /\ BatchIsSent /\ LiveReachesTheConnected
  BY DEF Init, DueIsWaiting, BatchIsSent, LiveReachesTheConnected
<1> QED
  BY <1>1, <1>2, <1>3, <1>4 DEF IInv

\* The plan of a lookup has a row for everybody an alarm of the tick is for.
LEMMA PlanCovers ==
  ASSUME TypeOK, NEW a \in batch, NEW u \in accounts, IsFor(a, u)
  PROVE  <<a, u>> \in Plan(batch)
<1>1. a \in Alarms /\ u \in Users
  BY DEF TypeOK
<1>2. CASE addr[a] \in Groups
  <2>1. addr[a] = GroupOf[u]
    BY <1>1, <1>2, AddressesDiffer DEF IsFor
  <2>2. a \in GroupAlarms(batch) /\ u \in Receivers(batch)
    BY <1>2, <2>1 DEF GroupAlarms, Receivers
  <2> QED
    BY <2>2 DEF Plan
<1>3. CASE addr[a] \notin Groups
  <2>1. addr[a] = u /\ a \in batch \ GroupAlarms(batch)
    BY <1>1, <1>3, GroupsPartitionUsers DEF IsFor, GroupAlarms
  <2> QED
    BY <2>1 DEF Plan
<1> QED
  BY <1>2, <1>3

\* Every row of a plan is of an alarm of the tick.
LEMMA PlanIsOfBatch ==
  ASSUME NEW row \in Plan(batch) PROVE row[1] \in batch
  BY DEF Plan, GroupAlarms

LEMMA AudienceIsAddressed ==
  ASSUME NEW a, NEW u PROVE u \in Audience(a) <=> u \in accounts /\ IsFor(a, u)
  BY DEF Audience, IsFor

-----------------------------------------------------------------------------
(***************************************************************************)
(* The steps.                                                              *)
(***************************************************************************)

\* What is due to somebody is sent before its alarm is marked: an alarm posted
\* while a tick runs is not one of the tick's, and SendLive finds everybody the
\* tick's alarms are due to among the connected.
Sent == DueIsWaiting /\ BatchIsSent /\ LiveReachesTheConnected

LEMMA SentStep == IInv /\ [Next]_vars => Sent'
<1> SUFFICES ASSUME IInv, [Next]_vars PROVE Sent'
  OBVIOUS
<1> USE DEF IInv, TypeOK
<1>1. \A row \in due : row[1] \in Alarms /\ row[2] \in Users /\ row = <<row[1], row[2]>>
  BY DEF Rows
<1>2. ASSUME NEW a \in Alarms, Post(a) PROVE Sent'
  <2>1. /\ status[a] = "none" /\ status' = [status EXCEPT ![a] = "PENDING"]
        /\ due' = due \cup {<<a, u>> : u \in {v \in connected : IsFor(a, v)}}
        /\ UNCHANGED <<addr, connected, live, pc, batch>>
    BY <1>2 DEF Post, tickVars
  <2>2. Processed' = Processed /\ a \notin Processed
    BY <2>1 DEF Processed
  <2>3. pc = "mark" => a \notin batch
    BY <2>1 DEF BatchIsPending
  <2>4. \A row \in due' \ due : row[1] = a /\ row[2] \in connected /\ IsFor(a, row[2])
    BY <2>1
  <2>5. DueIsWaiting'
    <3> SUFFICES ASSUME NEW row \in due'
                 PROVE  row[2] \in connected /\ IsFor(row[1], row[2]) /\ status'[row[1]] # "none"
      BY <2>1 DEF DueIsWaiting, IsFor
    <3>1. CASE row \in due
      BY <1>1, <2>1, <3>1 DEF DueIsWaiting
    <3>2. CASE row \notin due
      BY <2>1, <2>4, <3>2
    <3> QED
      BY <3>1, <3>2
  <2>6. BatchIsSent'
    BY <2>1, <2>3, <2>4 DEF BatchIsSent
  <2>7. LiveReachesTheConnected'
    BY <2>1, <2>2, <2>4 DEF LiveReachesTheConnected
  <2> QED
    BY <2>5, <2>6, <2>7 DEF Sent
<1>3. ASSUME NEW u \in Users, RemoveAccount(u) \/ Connect(u) PROVE Sent'
  <2>1. connected \subseteq connected' /\ UNCHANGED <<status, addr, live, due, pc, batch>>
    BY <1>3 DEF RemoveAccount, Connect, sentVars, tickVars
  <2> QED
    BY <2>1 DEF Sent, DueIsWaiting, BatchIsSent, LiveReachesTheConnected, Processed, IsFor
<1>4. ASSUME ProcessEnds PROVE Sent'
  BY <1>4 DEF ProcessEnds, Sent, DueIsWaiting, BatchIsSent, LiveReachesTheConnected
<1>5. CASE DeleteProcessed
  <2>1. /\ UNCHANGED <<addr, connected, live, due>> /\ pc' = "find"
        /\ status' = [a \in Alarms |-> IF status[a] = "PROCESSED" THEN "removed" ELSE status[a]]
    BY <1>5 DEF DeleteProcessed, sentVars
  <2>2. Processed' = Processed
    BY <2>1 DEF Processed
  <2> QED
    BY <1>1, <2>1, <2>2 DEF Sent, DueIsWaiting, BatchIsSent, LiveReachesTheConnected, IsFor
<1>6. CASE FindPending \/ LookUpReceivers \/ EndTick
  <2>1. UNCHANGED <<status, addr, connected, live, due>> /\ pc' # "mark"
    BY <1>6 DEF FindPending, LookUpReceivers, EndTick, sentVars
  <2> QED
    BY <2>1 DEF Sent, DueIsWaiting, BatchIsSent, LiveReachesTheConnected, Processed, IsFor
<1>7. CASE InsertSlice
  <2>1. PICK B \in Slices : StoreSlice(B) \/ IgnoreDuplicates(B) \/ AbortOnLostReceiver(B)
    BY <1>7 DEF InsertSlice
  <2>2. CASE StoreSlice(B) \/ IgnoreDuplicates(B)
    <3>1. UNCHANGED <<status, addr, connected, live, due>> /\ pc' # "mark"
      BY <1>7, <2>2 DEF InsertSlice, StoreSlice, IgnoreDuplicates
    <3> QED
      BY <3>1 DEF Sent, DueIsWaiting, BatchIsSent, LiveReachesTheConnected, Processed, IsFor
  <2> QED
    BY <1>4, <2>1, <2>2 DEF AbortOnLostReceiver
<1>8. CASE SendLive
  <2>1. /\ live' = live \cup Deliveries(batch)
        /\ UNCHANGED <<status, addr, connected, due, batch>>
    BY <1>8 DEF SendLive
  <2>2. ASSUME NEW row \in due, row[1] \in batch PROVE row \in Deliveries(batch)
    <3>1. row[2] \in Listeners(addr[row[1]])
      BY <1>1, <2>2 DEF DueIsWaiting, IsFor, Listeners
    <3>2. row \in batch \X Users
      BY <1>1, <2>2
    <3> QED
      BY <3>1, <3>2 DEF Deliveries
  <2>3. BatchIsSent'
    BY <2>1, <2>2 DEF BatchIsSent
  <2> QED
    BY <2>1, <2>3 DEF Sent, DueIsWaiting, LiveReachesTheConnected, Processed, IsFor
<1>9. CASE MarkProcessed
  <2>1. /\ status' = [a \in Alarms |-> IF a \in batch THEN "PROCESSED" ELSE status[a]]
        /\ UNCHANGED <<addr, connected, live, due>> /\ pc = "mark" /\ pc' = "sweep"
    BY <1>9 DEF MarkProcessed, sentVars
  <2>2. Processed' = Processed \cup batch
    BY <2>1 DEF Processed
  <2>3. LiveReachesTheConnected'
    BY <2>1, <2>2 DEF LiveReachesTheConnected, BatchIsSent
  <2> QED
    BY <1>1, <2>1, <2>3 DEF Sent, DueIsWaiting, BatchIsSent, IsFor
<1>10. CASE UNCHANGED vars
  BY <1>10 DEF vars, Sent, DueIsWaiting, BatchIsSent, LiveReachesTheConnected, Processed, IsFor
<1> QED
  BY <1>2, <1>3, <1>4, <1>5, <1>6, <1>7, <1>8, <1>9, <1>10 DEF Next, Tick, Stop

Tock ==
  PlanIsComplete /\ PlanIsStored /\ NothingIsLeft /\ BatchIsPending /\ NothingIsRepeated
  /\ CompleteUnlessSkipped

\* What a step of InsertSlice leaves behind.
LEMMA InsertStep ==
  ASSUME IInv, InsertSlice PROVE Tock'
<1> USE DEF IInv, TypeOK
<1>1. PICK B \in Slices : StoreSlice(B) \/ IgnoreDuplicates(B) \/ AbortOnLostReceiver(B)
  BY DEF InsertSlice
<1>2. B \subseteq todo /\ todo \subseteq plan /\ pc = "insert"
  BY SlicesAreTodo DEF InsertSlice
<1>3. UNCHANGED <<status, addr, accounts, batch, plan, failures, live>> /\ Processed' = Processed
  BY DEF InsertSlice, Processed
<1>4. \A a \in Alarms : Audience(a)' = Audience(a)
  BY <1>3 DEF Audience
<1>5. /\ PlanIsComplete' /\ BatchIsPending'
  <2>1. pc' \in {"idle", "insert", "send"}
    BY <1>1 DEF StoreSlice, IgnoreDuplicates, AbortOnLostReceiver, ProcessEnds
  <2> QED
    BY <1>2, <1>3, <2>1 DEF PlanIsComplete, BatchIsPending, IsFor
<1>6. notes \subseteq notes' /\ skipped \subseteq skipped'
  BY <1>1 DEF StoreSlice, IgnoreDuplicates, AbortOnLostReceiver
<1>7. CompleteUnlessSkipped'
  <2>1. \A a \in Processed \ skipped' : \A u \in Audience(a) : <<a, u>> \in notes'
    BY <1>6 DEF CompleteUnlessSkipped
  <2> QED
    BY <1>3, <1>4, <2>1 DEF CompleteUnlessSkipped, Processed
<1>8. CASE StoreSlice(B)
  <2>1. /\ notes' = notes \cup B /\ todo' = todo \ B /\ UNCHANGED <<aborted, skipped>>
        /\ pc' = IF todo' = {} THEN "send" ELSE "insert"
    BY <1>8 DEF StoreSlice
  <2>2. PlanIsStored' /\ NothingIsLeft'
    BY <1>2, <1>3, <2>1 DEF PlanIsStored, NothingIsLeft
  <2>3. NothingIsRepeated'
    BY <1>2, <1>3, <2>1 DEF NothingIsRepeated
  <2> QED
    BY <1>5, <1>7, <2>2, <2>3 DEF Tock
<1>9. CASE IgnoreDuplicates(B)
  <2>1. /\ skipped' = skipped \cup {row[1] : row \in todo \ notes}
        /\ todo' = {} /\ pc' = "send" /\ UNCHANGED <<notes, aborted>> /\ B \cap notes # {}
    BY <1>9 DEF IgnoreDuplicates
  <2>2. PlanIsStored' /\ NothingIsLeft'
    BY <1>2, <1>3, <2>1 DEF PlanIsStored, NothingIsLeft
  <2>3. aborted
    <3> SUFFICES ASSUME ~aborted PROVE FALSE
      OBVIOUS
    <3>1. PICK row \in B : row \in notes
      BY <2>1
    <3>2. row \in todo /\ row \in plan
      BY <1>2, <3>1
    <3>3. status[row[1]] = "PENDING"
      BY <1>2, <3>2 DEF BatchIsPending
    <3> QED
      BY <3>1, <3>2, <3>3 DEF NothingIsRepeated, Processed
  <2>4. NothingIsRepeated'
    BY <2>1, <2>3 DEF NothingIsRepeated
  <2> QED
    BY <1>5, <1>7, <2>2, <2>4 DEF Tock
<1>10. CASE AbortOnLostReceiver(B)
  <2>1. pc' = "idle" /\ aborted' = TRUE
    BY <1>10 DEF AbortOnLostReceiver, ProcessEnds
  <2> QED
    BY <1>5, <1>7, <2>1 DEF Tock, PlanIsStored, NothingIsLeft, NothingIsRepeated
<1> QED
  BY <1>1, <1>8, <1>9, <1>10

LEMMA MarkStep ==
  ASSUME IInv, MarkProcessed PROVE Tock'
<1> USE DEF IInv, TypeOK
<1>1. /\ pc = "mark" /\ pc' = "sweep" /\ todo = {}
      /\ status' = [a \in Alarms |-> IF a \in batch THEN "PROCESSED" ELSE status[a]]
      /\ UNCHANGED <<addr, accounts, notes, batch, plan, todo, aborted, skipped>>
  BY DEF MarkProcessed, NothingIsLeft
<1>2. Processed' = Processed \cup batch
  BY <1>1 DEF Processed
<1>3. \A a \in batch \ skipped : \A u \in Audience(a) : <<a, u>> \in notes
  <2> SUFFICES ASSUME NEW a \in batch \ skipped, NEW u \in Audience(a)
               PROVE  <<a, u>> \in notes
    OBVIOUS
  <2>1. <<a, u>> \in plan
    BY <1>1, AudienceIsAddressed DEF PlanIsComplete
  <2> QED
    BY <1>1, <2>1 DEF PlanIsStored
<1>4. CompleteUnlessSkipped'
  BY <1>1, <1>2, <1>3 DEF CompleteUnlessSkipped, Audience
<1>5. NothingIsRepeated'
  BY <1>1, <1>2 DEF NothingIsRepeated, BatchIsPending
<1> QED
  BY <1>1, <1>4, <1>5 DEF Tock, PlanIsComplete, PlanIsStored, NothingIsLeft, BatchIsPending

LEMMA TockStep == IInv /\ [Next]_vars => Tock'
<1> SUFFICES ASSUME IInv, [Next]_vars PROVE Tock'
  OBVIOUS
<1> USE DEF IInv, TypeOK
<1>1. ASSUME NEW a \in Alarms, Post(a) PROVE Tock'
  <2>1. /\ status[a] = "none" /\ status' = [status EXCEPT ![a] = "PENDING"]
        /\ UNCHANGED <<addr, accounts, notes, pc, batch, plan, todo, aborted, skipped>>
    BY <1>1 DEF Post, tickVars
  <2>2. Processed' = Processed
    BY <2>1 DEF Processed
  <2>3. BatchIsPending'
    BY <2>1 DEF BatchIsPending
  <2>4. CompleteUnlessSkipped' /\ NothingIsRepeated'
    BY <2>1, <2>2 DEF CompleteUnlessSkipped, NothingIsRepeated, Audience
  <2> QED
    BY <2>1, <2>3, <2>4 DEF Tock, PlanIsComplete, PlanIsStored, NothingIsLeft, IsFor
<1>2. ASSUME NEW u \in Users, RemoveAccount(u) \/ Connect(u) PROVE Tock'
  <2>1. /\ accounts' \subseteq accounts
        /\ UNCHANGED <<status, addr, notes, pc, batch, plan, todo, aborted, skipped>>
    BY <1>2 DEF RemoveAccount, Connect, tickVars
  <2>2. Processed' = Processed /\ \A a \in Alarms : Audience(a)' \subseteq Audience(a)
    BY <2>1 DEF Processed, Audience
  <2>3. CompleteUnlessSkipped' /\ NothingIsRepeated'
    BY <2>1, <2>2 DEF CompleteUnlessSkipped, NothingIsRepeated, Processed
  <2> QED
    BY <2>1, <2>3 DEF Tock, PlanIsComplete, PlanIsStored, NothingIsLeft, BatchIsPending, IsFor
<1>3. CASE DeleteProcessed
  <2>1. /\ pc' = "find" /\ UNCHANGED <<addr, accounts, notes, aborted, skipped>> /\ pc = "idle"
        /\ status' = [a \in Alarms |-> IF status[a] = "PROCESSED" THEN "removed" ELSE status[a]]
    BY <1>3 DEF DeleteProcessed
  <2>2. Processed' = Processed
    BY <2>1 DEF Processed
  <2> QED
    BY <2>1, <2>2 DEF Tock, PlanIsComplete, PlanIsStored, NothingIsLeft, BatchIsPending,
       CompleteUnlessSkipped, NothingIsRepeated, Audience
<1>4. CASE FindPending
  <2>1. /\ pc = "find" /\ pc' = "lookup" /\ batch' = {a \in Alarms : status[a] = "PENDING"}
        /\ UNCHANGED <<status, addr, accounts, notes, aborted, skipped>>
    BY <1>4 DEF FindPending
  <2>2. Processed' = Processed
    BY <2>1 DEF Processed
  <2> QED
    BY <2>1, <2>2 DEF Tock, PlanIsComplete, PlanIsStored, NothingIsLeft, BatchIsPending,
       CompleteUnlessSkipped, NothingIsRepeated, Audience
<1>5. CASE LookUpReceivers
  <2>1. /\ pc = "lookup" /\ plan' = Plan(batch) /\ todo' = plan'
        /\ pc' = IF plan' = {} THEN "send" ELSE "insert"
        /\ UNCHANGED <<status, addr, accounts, notes, batch, aborted, skipped>>
    BY <1>5 DEF LookUpReceivers
  <2>2. Processed' = Processed
    BY <2>1 DEF Processed
  <2>3. PlanIsComplete'
    BY <2>1, PlanCovers DEF PlanIsComplete, IsFor
  <2>4. BatchIsPending'
    BY <2>1, PlanIsOfBatch DEF BatchIsPending
  <2>5. CompleteUnlessSkipped' /\ NothingIsRepeated'
    BY <2>1, <2>2 DEF CompleteUnlessSkipped, NothingIsRepeated, Audience
  <2> QED
    BY <2>1, <2>3, <2>4, <2>5 DEF Tock, PlanIsStored, NothingIsLeft
<1>6. CASE SendLive
  <2>1. /\ pc = "send" /\ pc' = "mark"
        /\ UNCHANGED <<status, addr, accounts, notes, batch, plan, todo, aborted, skipped>>
    BY <1>6 DEF SendLive
  <2>2. Processed' = Processed
    BY <2>1 DEF Processed
  <2> QED
    BY <2>1, <2>2 DEF Tock, PlanIsComplete, PlanIsStored, NothingIsLeft, BatchIsPending,
       CompleteUnlessSkipped, NothingIsRepeated, Audience, IsFor
<1>7. CASE EndTick \/ Stop
  <2>1. /\ pc' = "idle"
        /\ UNCHANGED <<status, addr, accounts, notes, skipped>>
        /\ aborted' \/ (aborted' = aborted /\ pc = "sweep")
    BY <1>7 DEF EndTick, Stop, ProcessEnds
  <2>2. Processed' = Processed
    BY <2>1 DEF Processed
  <2>3. NothingIsRepeated'
    BY <2>1, <2>2 DEF NothingIsRepeated
  <2> QED
    BY <2>1, <2>2, <2>3 DEF Tock, PlanIsComplete, PlanIsStored, NothingIsLeft, BatchIsPending,
       CompleteUnlessSkipped, Audience
<1>8. CASE UNCHANGED vars
  BY <1>8 DEF vars, Tock, PlanIsComplete, PlanIsStored, NothingIsLeft, BatchIsPending,
     CompleteUnlessSkipped, NothingIsRepeated, Audience, IsFor, Processed
<1> QED
  BY <1>1, <1>2, <1>3, <1>4, <1>5, <1>6, <1>7, <1>8, InsertStep, MarkStep DEF Next, Tick

-----------------------------------------------------------------------------
(***************************************************************************)
(* The theorems.                                                           *)
(***************************************************************************)

\* What a tick knows at each of its calls, as the parts of IInv say it.
THEOREM PipelineInvariant == Spec => []IInv
<1>1. IInv /\ [Next]_vars => IInv'
  <2> SUFFICES ASSUME IInv, [Next]_vars PROVE IInv'
    OBVIOUS
  <2>1. TypeOK'
    BY TypeStep DEF IInv
  <2> QED
    BY <2>1, SentStep, TockStep DEF IInv, Tock, Sent
<1> QED
  BY <1>1, InvariantInit, PTL DEF Spec

\* Before an alarm is marked processed it is written to everyone it is for who
\* was connected when it was posted and has been since.
THEOREM ConnectedAreReached == Spec => []LiveReachesTheConnected
<1>1. IInv => LiveReachesTheConnected
  BY DEF IInv
<1> QED
  BY <1>1, PipelineInvariant, PTL

\* After interruptions too, an alarm marked processed is stored for everyone it
\* is for, unless a duplicate was ignored.
THEOREM StoredUnlessSkipped == Spec => []CompleteUnlessSkipped
<1>1. IInv => CompleteUnlessSkipped
  BY DEF IInv
<1> QED
  BY <1>1, PipelineInvariant, PTL

\* As long as no tick stops half way, an alarm marked processed is stored for
\* everyone it is for.
THEOREM StoredUnlessInterrupted == Spec => []CompleteUnlessInterrupted
<1>1. IInv => CompleteUnlessInterrupted
  <2> SUFFICES ASSUME IInv, ~aborted, NEW a \in Processed, NEW u \in Users, u \in Audience(a)
               PROVE  <<a, u>> \in notes
    BY DEF CompleteUnlessInterrupted
  <2>1. skipped = {} /\ CompleteUnlessSkipped
    BY DEF IInv, NothingIsRepeated
  <2> QED
    BY <2>1 DEF CompleteUnlessSkipped
<1> QED
  BY <1>1, PipelineInvariant, PTL
=============================================================================
