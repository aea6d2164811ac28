------------------------ MODULE NotificationPipeline ------------------------
(***************************************************************************)
(* How an alarm in the State table becomes notifications: the interval     *)
(* scheduler of notification-scheduler.ts and the services it awaits.  One *)
(* tick deletes processed states, reads the pending ones, looks up their   *)
(* receivers, inserts the notifications batch by batch, writes to the open *)
(* SSE connections, marks the states processed and deletes old             *)
(* notifications.  Requests post alarms and accounts disappear between any *)
(* two of these calls, and a tick may stop at any of them.                 *)
(*                                                                         *)
(* A notification row is the pair of alarm and receiver its id is made of. *)
(* No row reaches the age of thirty days within a behaviour, so the last   *)
(* call of a tick deletes nothing here.                                    *)
(***************************************************************************)
EXTENDS Naturals, FiniteSets

CONSTANTS
  Alarms,       \* State rows, by id
  Users,        \* the accounts that may receive one
  Groups,       \* pairs of a role and an apartment, and the super administrators
  GroupOf,      \* GroupOf[u] is the group of user u
  BatchSize,    \* BULK_NOTIFICATION_SIZE
  MaxFailures   \* bound on the ticks that stop for a cause outside the model

ASSUME GroupsPartitionUsers == GroupOf \in [Users -> Groups]
ASSUME AddressesDiffer == Users \cap Groups = {}
ASSUME BatchSizePositive == BatchSize \in Nat \ {0}
ASSUME FailuresAreCounted == MaxFailures \in Nat

VARIABLES
  status,     \* status[a] of State row a; "removed" once the row is deleted
  addr,       \* addr[a] is the group, or the one user, alarm a is for
  accounts,   \* the users that still have an account
  notes,      \* the Notifications rows
  connected,  \* the users with an SSE connection in this process
  pc,         \* the next call of the running tick, "idle" when isRunning is false
  batch,      \* pendingStatesDto: the alarms this tick has read
  plan,       \* the rows this tick wants to insert
  todo,       \* the rows of plan not yet inserted
  failures,   \* ticks stopped by a cause outside the model
  live,       \* history: alarms written to a user's connection
  due,        \* history: who was connected when an alarm for him was posted, and
              \* has been since
  aborted,    \* history: some tick has stopped before its end
  skipped     \* history: alarms with rows left out when a duplicate was ignored

vars == <<status, addr, accounts, notes, connected, pc, batch, plan, todo,
          failures, live, due, aborted, skipped>>
sentVars == <<live, due>>

Rows == Alarms \X Users

TypeOK ==
  /\ status \in [Alarms -> {"none", "PENDING", "PROCESSED", "removed"}]
  /\ addr \in [Alarms -> Groups \cup Users]
  /\ accounts \subseteq Users
  /\ notes \subseteq Rows
  /\ connected \subseteq Users
  /\ pc \in {"idle", "find", "lookup", "insert", "send", "mark", "sweep"}
  /\ batch \subseteq Alarms
  /\ plan \subseteq Rows /\ todo \subseteq plan
  /\ failures \in 0..MaxFailures
  /\ live \subseteq Rows /\ due \subseteq Rows
  /\ aborted \in BOOLEAN
  /\ skipped \subseteq Alarms

\* Whom each alarm is for is decided when it is posted; it is drawn here once.
Init ==
  /\ status = [a \in Alarms |-> "none"]
  /\ addr \in [Alarms -> Groups \cup Users]
  /\ accounts = Users
  /\ notes = {} /\ connected = {}
  /\ pc = "idle" /\ batch = {} /\ plan = {} /\ todo = {}
  /\ failures = 0 /\ live = {} /\ due = {} /\ aborted = FALSE /\ skipped = {}

-----------------------------------------------------------------------------
(***************************************************************************)
(* What the requests of the application do.                                *)
(***************************************************************************)
tickVars == <<pc, batch, plan, todo, failures, aborted, skipped>>

\* Alarm a is for user u alone, or for the group of u.
IsFor(a, u) == addr[a] \in {u, GroupOf[u]}

\* stateCommandRepo.create with a payload for a group or for one user.
Post(a) ==
  /\ status[a] = "none"
  /\ status' = [status EXCEPT ![a] = "PENDING"]
  /\ due' = due \cup {<<a, u>> : u \in {v \in connected : IsFor(a, v)}}
  /\ UNCHANGED <<addr, accounts, notes, connected, live, tickVars>>

\* An account is deleted; its notifications stay, with no receiver.
RemoveAccount(u) ==
  /\ u \in accounts
  /\ accounts' = accounts \ {u}
  /\ UNCHANGED <<status, addr, notes, connected, sentVars, tickVars>>

\* getLiveNotification registers the response; nothing ever unregisters it.
Connect(u) ==
  /\ u \in accounts \ connected
  /\ connected' = connected \cup {u}
  /\ UNCHANGED <<status, addr, accounts, notes, sentVars, tickVars>>

-----------------------------------------------------------------------------
(***************************************************************************)
(* One tick of the scheduler.                                              *)
(***************************************************************************)

\* The process ends: the tick and the connections are gone.
ProcessEnds == pc' = "idle" /\ connected' = {} /\ due' = {} /\ aborted' = TRUE

\* The interval fires while no tick is running; step 0 of the tick.
DeleteProcessed ==
  /\ pc = "idle" /\ pc' = "find"
  /\ status' = [a \in Alarms |->
                  IF status[a] = "PROCESSED" THEN "removed" ELSE status[a]]
  /\ UNCHANGED <<addr, accounts, notes, connected, batch, plan, todo, failures, sentVars,
                 aborted, skipped>>

FindPending ==
  /\ pc = "find" /\ pc' = "lookup"
  /\ batch' = {a \in Alarms : status[a] = "PENDING"}
  /\ UNCHANGED <<status, addr, accounts, notes, connected, plan, todo, failures, sentVars,
                 aborted, skipped>>

GroupAlarms(b) == {a \in b : addr[a] \in Groups}

\* The users of every group some alarm of the tick is for, in one list.
Receivers(b) == {u \in accounts : \E a \in GroupAlarms(b) : addr[a] = GroupOf[u]}

\* Mutant: the groups are not looked up.
PlanUnresolved(b) == {<<a, addr[a]>> : a \in b}

\* createNotifications pairs every group alarm with every user of that list;
\* an alarm for one user makes one row, whether or not the account exists.
Plan(b) ==
  (GroupAlarms(b) \X Receivers(b)) \cup {<<a, addr[a]>> : a \in b \ GroupAlarms(b)}

\* Mutant: the alarms are marked before anything is stored.
LookUpAndMark ==
  /\ pc = "lookup"
  /\ plan' = Plan(batch) /\ todo' = plan'
  /\ pc' = IF plan' = {} THEN "send" ELSE "insert"
  /\ status' = [a \in Alarms |-> IF a \in batch THEN "PROCESSED" ELSE status[a]]
  /\ UNCHANGED <<addr, accounts, notes, connected, batch, failures, sentVars, aborted, skipped>>

LookUpReceivers ==
  /\ pc = "lookup"
  /\ plan' = Plan(batch) /\ todo' = plan'
  /\ pc' = IF plan' = {} THEN "send" ELSE "insert"
  /\ UNCHANGED <<status, addr, accounts, notes, connected, batch, failures, sentVars,
                 aborted, skipped>>

RowsOf(S, a) == {row \in S : row[1] = a}

\* The rows that notifications.slice(i, i + batchSize) may hold.  The array has
\* the rows of the group alarms first, alarm after alarm in the order of a
\* query without ORDER BY, and the rows for single users behind them.
Slices ==
  LET grouped == {row \in todo : row[1] \in GroupAlarms(batch)}
      split(rest) == {a \in batch : RowsOf(rest, a) \notin {{}, RowsOf(plan, a)}}
  IN {B \in SUBSET todo :
        /\ \/ Cardinality(B) = BatchSize
           \/ B = todo /\ Cardinality(todo) < BatchSize
        /\ grouped \subseteq B \/ B \subseteq grouped
        /\ Cardinality(split(todo \ B)) <= 1}

\* createMany inserts all rows of a slice or none.
StoreSlice(B) ==
  /\ B \cap notes = {} /\ \A row \in B : row[2] \in accounts
  /\ notes' = notes \cup B
  /\ todo' = todo \ B
  /\ pc' = IF todo' = {} THEN "send" ELSE "insert"
  /\ UNCHANGED <<connected, due, aborted, skipped>>

\* Mutant: P2002 is not caught and ends the process like any other error.
RethrowDuplicates(B) ==
  /\ B \cap notes # {}
  /\ ProcessEnds
  /\ todo' = {}
  /\ UNCHANGED <<notes, skipped>>

\* Mutant: who ignores a duplicate does not write to the connections either.
IgnoreAndMark(B) ==
  /\ B \cap notes # {}
  /\ skipped' = skipped \cup {row[1] : row \in todo \ notes}
  /\ todo' = {}
  /\ pc' = "mark"
  /\ UNCHANGED <<notes, connected, due, aborted>>

\* P2002: an id that exists is found before the foreign keys are.  bulkSave
\* drops what is left of the tick and returns as if it were stored.
IgnoreDuplicates(B) ==
  /\ B \cap notes # {}
  /\ skipped' = skipped \cup {row[1] : row \in todo \ notes}
  /\ todo' = {}
  /\ pc' = "send"
  /\ UNCHANGED <<notes, connected, due, aborted>>

\* P2003: a receiver without an account; the tick and the process end.
AbortOnLostReceiver(B) ==
  /\ B \cap notes = {} /\ \E row \in B : row[2] \notin accounts
  /\ ProcessEnds
  /\ todo' = {}
  /\ UNCHANGED <<notes, skipped>>

InsertSlice ==
  /\ pc = "insert"
  /\ \E B \in Slices : StoreSlice(B) \/ IgnoreDuplicates(B) \/ AbortOnLostReceiver(B)
  /\ UNCHANGED <<status, addr, accounts, batch, plan, failures, live>>

\* The connections a payload for x is written to.
Listeners(x) == {u \in connected : x = u \/ x = GroupOf[u]}

\* createLivePayloads sorts the payloads by address; a broadcast writes each one.
Deliveries(b) == {row \in b \X Users : row[2] \in Listeners(addr[row[1]])}

SendLive ==
  /\ pc = "send" /\ pc' = "mark"
  /\ live' = live \cup Deliveries(batch)
  /\ UNCHANGED <<status, addr, accounts, notes, connected, batch, plan, todo, failures,
                 due, aborted, skipped>>

\* Mutant: every pending alarm is marked, not the ones this tick has read.
MarkAllPending ==
  /\ pc = "mark" /\ pc' = "sweep"
  /\ status' = [a \in Alarms |-> IF status[a] = "PENDING" THEN "PROCESSED" ELSE status[a]]
  /\ UNCHANGED <<addr, accounts, notes, connected, batch, plan, todo, failures, sentVars,
                 aborted, skipped>>

MarkProcessed ==
  /\ pc = "mark" /\ pc' = "sweep"
  /\ status' = [a \in Alarms |-> IF a \in batch THEN "PROCESSED" ELSE status[a]]
  /\ UNCHANGED <<addr, accounts, notes, connected, batch, plan, todo, failures, sentVars,
                 aborted, skipped>>

\* deleteOldNotification, and the runner's finally.
EndTick ==
  /\ pc = "sweep" /\ pc' = "idle"
  /\ batch' = {} /\ plan' = {} /\ todo' = {}
  /\ UNCHANGED <<status, addr, accounts, notes, connected, failures, sentVars,
                 aborted, skipped>>

\* A call of the tick throws or the process dies.  Nobody awaits the promise
\* of the runner, so the rejection ends the process; started again, it has no
\* connections and no tick.
Stop ==
  /\ pc # "idle" /\ failures < MaxFailures
  /\ failures' = failures + 1
  /\ ProcessEnds
  /\ batch' = {} /\ plan' = {} /\ todo' = {}
  /\ UNCHANGED <<status, addr, accounts, notes, live, skipped>>

Tick ==
  \/ DeleteProcessed \/ FindPending \/ LookUpReceivers \/ InsertSlice
  \/ SendLive \/ MarkProcessed \/ EndTick

Next ==
  \/ Tick \/ Stop
  \/ \E a \in Alarms : Post(a)
  \/ \E u \in Users : RemoveAccount(u) \/ Connect(u)

\* The interval keeps firing and a started call ends: the process manager of
\* ecosystem.config.js starts a stopped process again.
Spec == Init /\ [][Next]_vars /\ WF_vars(Tick)

-----------------------------------------------------------------------------
(***************************************************************************)
(* Properties.                                                             *)
(***************************************************************************)
Audience(a) == {u \in accounts : addr[a] = u \/ addr[a] = GroupOf[u]}

Processed == {a \in Alarms : status[a] \in {"PROCESSED", "removed"}}

\* As long as no tick stops half way, an alarm marked processed is stored for
\* everyone it is for, whatever arrives while a tick runs, however the rows
\* fall into batches and whoever loses the account meanwhile.
CompleteUnlessInterrupted ==
  ~aborted => \A a \in Processed, u \in Users :
                u \in Audience(a) => <<a, u>> \in notes

\* After interruptions too, an alarm marked processed is stored for everyone it
\* is for, unless it was in a tick that ignored a duplicate.
CompleteUnlessSkipped ==
  \A a \in Processed \ skipped : \A u \in Audience(a) : <<a, u>> \in notes

\* Before an alarm is marked processed it is written to everyone it is for who
\* was connected when it was posted and has been since, whatever the tick before
\* it left behind: also in a tick that ignores a duplicate.
LiveReachesTheConnected ==
  \A row \in due : row[1] \in Processed => row \in live

\* The alarms waiting for an account that no longer exists.
Undeliverable == {a \in Alarms : status[a] = "PENDING" /\ addr[a] \in Users \ accounts}

\* A posted alarm is processed in the end, with any number of alarms posted
\* around it and after a process that stopped, if none is undeliverable.
EveryAlarmIsProcessed ==
  \A a \in Alarms : status[a] = "PENDING" ~> (a \in Processed \/ Undeliverable # {})

-----------------------------------------------------------------------------
(***************************************************************************)
(* What the repository says of the pipeline and the code does not keep.    *)
(***************************************************************************)

\* README: a new complaint alarms the administrators, a notice the residents.
StoredForAudience ==
  \A row \in notes : addr[row[1]] \in {row[2], GroupOf[row[2]]}

\* README: a new complaint or notice alarms its audience; so the alarm of a
\* group is processed in the end, whoever has left.
GroupAlarmIsProcessed ==
  \A a \in Alarms : status[a] = "PENDING" /\ addr[a] \in Groups ~> a \in Processed
=============================================================================
