# Verification of welive

welive is the backend of an apartment management service: residents file
complaints, vote in polls and read notices; administrators answer, decide on
join requests and announce; everybody is notified live. It is an Express
server in TypeScript over PostgreSQL (Prisma) and Redis, run by pm2.

This directory holds TLA+ models of the parts of the server in which several
requests, timers or crashes meet, TLC configurations that check small instances
of them, and TLAPS proofs about all of them. Every definition is a translation
of the code under `src/src`; `PROJECT.json` names the lines.

- [The system](#the-system)
- [The modules](#the-modules)
- [The runs](#the-runs)
- [What is proved](#what-is-proved)
- [Where the code departs from what is written about it](#where-the-code-departs-from-what-is-written-about-it)
- [What is not modelled](#what-is-not-modelled)
- [Plan](#plan)

## The system

Paths are relative to `src/src`. A handler is an `async` function on one event
loop: it is interrupted at its `await`s and nowhere else. Each `await` of a
database or Redis call is therefore one step of a model, and the code between
two awaits belongs to one of them. Several requests, the interval schedulers
and a restart of the process interleave at those points.

| Component | State it keeps | Operations | What is hard about it |
|---|---|---|---|
| complaint commands (`domain/complaint/service/complaint-command.ts`, its repository and entity) | table `Complaint` with `status` and `version` | create, update, delete, updateStatus | read, test and write are separate calls; only some writes repeat the test; eviction and alarm come after the write, in no transaction |
| state outbox (`domain/state`) | table `State` | create an alarm, find pending, mark processed, delete processed | written by every command, read by the scheduler |
| notification scheduler and commands (`domain/notification`) | table `Notifications`, `isRunning` | the tick, `createNotifications`, `bulkSave`, clean-up | a tick is seven calls; a crash between two of them repeats earlier ones; rows go in batches |
| SSE clients (`clients.ts`) | maps from user and from group to open responses | register, send, broadcast | in memory, lost at a restart, never shrinks |
| redis locker (`managers/redis-locker.ts`) | a cache entry and a lock per key | `doWork`: get, lock, work, set, unlock | expiry of both keys, retries, readers overtaken by writers |
| view counts (`domain/complaint`, `domain/notice`: query services, batches, schedulers) | `viewsCount` column, cached item, counter, dirty set | view, batch | the same number lives in four places with four lifetimes |
| resident accounts (`domain/user/service/user-command.ts`) | table `User` with `joinedStatus` and `version` | sign-up, registration, decisions, edits, password, avatar, deletes | retries of the unit of work, bulk statements without a version, swallowed errors |
| unit of work (`managers/unit-of-work.ts`) | a transaction per call chain | `doWork` with transaction and retries | which errors are retried, what a second attempt tests |
| polls and votes (`domain/poll`) | tables `Polls`, `Options`, `UserVoteOption` | create, edit, delete, vote, cancel | transactions that wait for each other, cascades, an edit that recreates options |
| notice commands (`domain/notice/service/notice-command.ts`) | tables `Notices`, `Events` | create, update, delete | notice and alarm in one transaction; the edit writes all columns, under a version the batch of the view counts ignores, and is retried |
| comments (`domain/comment`) | table `Comment` | create, update, delete | the author is tested on a row read before the write; notices and accounts take their comments along |
| administrator accounts, apartments | tables `User`, `Apartment` | createAdmin, updateAdmin, deletes, decisions | transactions over two tables, one of them retried; an insert that swallows errors inside one |
| authentication (`domain/auth`, `middlewares`) | refresh token column | login, logout, refresh | external libraries around single statements |
| lists of residents (`domain/user/service/user-query.ts`) and CSV import (`createResidentBulk`) | two cached pages; the table `User`, chunk by chunk | query, import | six commands and an import change what two keys hold, and each deletes the keys it thinks of; the chunks are statements of their own |
| other query services | none | lists, pages, views | caches of lists |
| HTTP server, injector, routers, DTO validation | none | wiring | |
| files | storage service | upload, read back | |
| exceptions, error middleware | none | table of answers | |
| tests, deployment, documentation | | | source of several properties |

How they interact:

- **Commands and the outbox.** A command that concerns somebody inserts a `State`
  row of type ALARM. It never talks to the notification code. The scheduler
  polls the table. The modules of the commands have the
  insert as a step of their own; `NotificationPipeline` has it as `Post` and begins
  where they end.
- **Commands and caches.** A command deletes the cache key of what it changed,
  after its write (complaints, notices, the edit of a poll), inside its open
  transaction (the other commands on polls), or not at all (what lies under the administrators list, the apartments and the
  list of complaints; the comments and view counts of a cached complaint or notice).
  In `Complaint`, `NoticeBoard` and `Poll` the deletion is one step (`Evict`) which may fail; what a
  reader can make of it is the subject of `RedisLocker`, whose `Writers` are
  commands of all three kinds. The commands on residents delete the keys of two lists;
  `ResidentLists` composes all of them with the queries and the import.
- **Views and edits.** The batches of the view counts and the edits of notices
  write the same column (`ViewCount`); the edits of complaints do not.
- **Unit of work.** `doWork` appears in the modules as the retry of a request
  (`ResidentAccounts`, `NoticeBoard`: `Conflict`, `Asks`), as the pair of a waiting
  guard and an atomic commit (`Poll`), or, where a transaction is retried and its
  rows are locked one after the other, as a draft (`AdminAccounts`).
- **Accounts and everything else.** The deletion of an account takes its
  complaints, comments and votes along and leaves its alarms; `Complaint`,
  `NoticeBoard` and `NotificationPipeline` have it as an action.

What makes each part correct is, in short: no write is computed from a row that
is gone; a status goes only where the tests let it go; what was answered with
success stays; an alarm is about something that happened and reaches whom it is
for; a reader that asks after a change and the deletion of its key is not given what
was there before; a count is neither invented nor forgotten.

## The modules

| Module | Models | Composes with |
|---|---|---|
| `Complaint` | the four complaint commands | implements `ComplaintLifecycle` |
| `ComplaintLifecycle` | abstract: the life of a complaint as users see it | |
| `ComplaintProofs` | theorems about `Complaint` | EXTENDS `Complaint` |
| `NotificationPipeline` | outbox, tick, batches, SSE | |
| `RedisLocker` | `doWork`, its readers and the commands that change what it caches | |
| `CachedReadProofs` | theorems about the reads that go through the cache | EXTENDS `RedisLocker` and `ResidentLists` |
| `NotificationProofs` | theorems about `NotificationPipeline` | EXTENDS `NotificationPipeline` |
| `JoinRequests` | abstract: the life of a join request | |
| `ResidentAccounts` | the resident half of the user commands with retries | implements `JoinRequests` |
| `ResidentProofs` | theorems about `ResidentAccounts` | EXTENDS `ResidentAccounts` |
| `AdminAccounts` | the administrators' half of the user commands, with their apartments | implements `JoinRequests` |
| `AdminProofs` | theorems about `AdminAccounts` | EXTENDS `AdminAccounts` |
| `ResidentImport` | the import of residents from a file, chunk by chunk | |
| `ResidentLists` | the two cached lists of residents and every command that changes them | EXTENDS `ResidentImport`, whose steps are part of its own |
| `ViewCount` | views, counters, batches, notice edits | |
| `ViewCountProofs` | theorems about `ViewCount` | EXTENDS `ViewCount` |
| `Poll` | poll commands, votes | |
| `PollProofs` | theorems about `Poll` | EXTENDS `Poll` |
| `NoticeBoard` | notice commands and the comments on notices | |
| `NoticeProofs` | theorems about `NoticeBoard` | EXTENDS `NoticeBoard` |
| `MC...` | symmetry sets and small functions for TLC, where an instance needs any | each EXTENDS its module |

Common conventions. A *request* has a program counter `pc[r]` that names the call
it makes next, the request itself `job[r]`, what it has read `seen[r]`, and its
answer `result[r]`. An action is one call together with the code up to the next
await; every early return of the code is a disjunct that ends in an answer, under
the name the code's exception has. `Fail` and `Abandon` let any call throw, or the
process stop, after which what was written stays and nothing else happens. Each request is
served once, which bounds every counter and makes the instances finite; that is
also why a behaviour may end, so the configurations of such modules say
`CHECK_DEADLOCK FALSE`; the scheduler of the pipeline and of the view counts
never stops, and deadlock is checked there.
The definitions marked *Mutant* are not part of any specification: each is a
plausible bug in the definition that follows it, and shows that a property would notice.
History variables (marked so) are read by properties only.

**Complaint.** `db[c]` is the row. `UpdateComplaint`, `DeleteComplaint` and
`UpdateComplaintStatus` are the reads with every test the service and the entity
make (`EditVerdict`, `StatusVerdict`); `UpdateWrite` and `StatusWrite` the
statements with id and version in the where clause; `DeleteWrite` the one with
the id alone; then `Evict` and `CreateAlarm`. Both versioned commands run in
`doWork`, which never repeats them: the repository reports a lost race as
RECORD_NOT_FOUND. Title, content and visibility, which an update writes
together, are one `text`.

**NotificationPipeline.** One tick is `DeleteProcessed`, `FindPending`,
`LookUpReceivers`, `InsertSlice` (once per batch), `SendLive`, `MarkProcessed`,
`EndTick`. `Post`, `RemoveAccount` and `Connect` come at any time. A notification
is the pair of alarm and receiver, as its primary key is. `Slices` are the
batches the order of the array allows, for an order of rows the query leaves
open. The promise of the runner is awaited by nobody, so an error ends the
process, which pm2 starts again: `Stop` and `AbortOnLostReceiver` lose the tick
and the connections. `MaxFailures` bounds the ticks that stop for a cause outside the model.

**RedisLocker.** One key. `Get`, `TryLock`, `Look` (after the delay of a failed
attempt), `Work`, `Set`, `Throw`, `Release` are the calls of `doWork`. How a key is read is the
same for all its readers (`mode`): `plain`; `unlocked`, with `redisLock: false`; or `eager`, with a
promise as `work` that is already running. The row is the number of writes to it. `Writers` delete
the key after the write (`Write`, then `Evict` or `EvictionLost`), while
their transaction is open (`EvictFirst`, `Commit`; the writers in `EvictEarly`), or never (`WriteOnly`;
those in `Silent`). `LockExpires` and `CacheExpires` are Redis. The histories `wrote`, `before` and
`raced` say what a writer wrote, which deletions came before a reader's call, and whose reads a write overtook.

**ResidentAccounts.** `FindRegistered`, `FindToDecide`, `FindToEdit`,
`FindToRekey`, `FindPending` are the reads, `Promote`, `Decide`, `Edit`,
`UpdateAvatar`, `UpdatePassword` the versioned writes, `DecideAll` the bulk
write by id. A lost race (`Conflict`) goes back to the read with one attempt
less. `Insert` has the four outcomes of `userCommandRepo.create`, one of which stores nothing and
goes on. User names and contacts are unique over rows the model does not hold, so
`OtherUnique` may refuse any write of them.

**ViewCount.** `Fetch`, `Seed`, `Increase`, `Mark` are one view; `StartSync`,
`Pop`, `ReadCounters`, `WriteCounts`, `EndSync` the batch of the scheduler;
`ReadToEdit`, `WriteEdit` the edit of a notice. `kind` is chosen at the start:
the statement of the notice batch takes the greater count, only notices have
edits that write the count, and only their counters, which live ten seconds,
expire and are seeded again at any moment. A complaint's counter lives a day;
when it ends (`aged`) a batch writes what it finds, which may be 0, or seeds
a later count from the cache: the exception of the counting properties.

**JoinRequests.** What both halves of the user commands promise: a request enters, waits,
is decided once, and can be removed; who decides all at once opens a round over
those waiting and closes it with one verdict for all of them, whatever
happened to them meanwhile. `stage` is read off the row, `round` off the list of ids a bulk decision holds.

**ResidentImport.** A file is a sequence of lines. `Begin` reads it and walks to the end of the
first chunk; `StoreChunk` is one INSERT that skips rows whose email or contact
is taken, together with the walk to the next await (`Loop`), where a line the schema
refuses or that has too few fields ends the request; `FailImport` is an error or a stop of the server.
A chunk is a set of lines (`Chunk`), and the lines that get in (`Accepted`) are defined by what the
database promises: each that clashes neither with the table nor with a line before it that got in.

**ResidentLists.** `Ask`, `Fetch`, `Store`, `Await` are a query of the first page
without filter, whose key names no apartment. A command appears with its write as one
step (`Change`), and deletes its keys (`Evicts`) in another (`DeleteKeys`), or not at all
(`LoseEviction`, all of them or some: each is a call of its own, awaited by nobody). The history `doubt` collects why an entry may be wrong.

**Poll.** The commands in transactions are modelled with their writes applied at
the commit, and the waits PostgreSQL imposes in READ COMMITTED as guards
(`VoteWaits`, `AlterWaits`): an insert waits for an open transaction with the same key, a
delete for one that refers to the rows it deletes. `WriteEdit` is one statement of Prisma with a nested
deleteMany and create; Prisma runs the delete first. Votes go with
their poll or option (`Cascade`). A commit that went through may be answered with an error, when
only its answer is lost (`Committed`). A poll has no status here, because no command tests or changes
it. The histories `since` and `dropped` say whose writes came later and which options they deleted.

**AdminAccounts.** `CreateApartment`, `InsertAdmin`, `CreateAlarm`, `Commit` are
createAdmin; `FindAdmin`, `UpdateAdmin`, `FindApartment`, `UpdateApartment`,
`Commit` are updateAdmin. What a transaction wrote is its `draft[r]`, seen by
nobody; `Locked` is the wait for a row another draft has updated, after which
READ COMMITTED evaluates the version test anew. `DecideAdmin`, `FindPending`, `DecideAll`,
`DeleteAdmin`, `DeleteRejected` and `CreateSuperAdmin` are statements of their own.
The insert of an account swallows all errors but a violated unique column; inside a
transaction PostgreSQL then refuses what follows (`doomed`).

**NoticeBoard.** `InsertNotice`, `CreateAlarm`, `Commit` are createNotice,
`FindNotice`, `UpdateNotice`, `Evict` updateNotice with its retry (`Conflict`),
`DeleteNotice` and `Evict` deleteNotice. A field of a notice is the request its
value came from, so that a lost edit shows. `FindComment` reads a comment and tests
who asks (`MayChange`); `UpdateComment` and `DeleteComment` write by id.
`CreateComment` is one insert, which the foreign keys of notice and author
may refuse. Prisma promises that `update` tests id and version together; the nested
upsert of the event is part of that statement here.

## The runs

| Run | Instance | Shows |
|---|---|---|
| `complaint_races` | 3 requests, 2 residents, 1 administrator, 1 id, 2 texts | the invariants and action properties of `Complaint`, and the refinement of `ComplaintLifecycle` |
| `notification_races` | 2 alarms, 2 accounts in 2 groups, batches of 1, 1 failure | `CompleteUnlessInterrupted`, `CompleteUnlessSkipped`, `LiveReachesTheConnected`, and `EveryAlarmIsProcessed` under a fair tick |
| `locker_races` | 3 readers of one key in each of the three modes, 2 writers (one deletes the key after its write, the other before its commit or never), 2 attempts | `LoneWorker`, `ReadsSeeWrites`, `EntriesAdvance`, the inductive invariant |
| `accounts_races` | 3 requests, 1 account, 2 profiles, 2 passwords, 1 retry | `SnapshotIntegrity`, `OneSignUpPerAccount`, `PasswordIsProved`, and the refinement of `JoinRequests` |
| `views_races` | 2 views, 2 items of one kind or the other, 1 editor, batches of 1 | `NoPhantomViews`, `NoViewForgotten`, `OnlyEditsLowerCounts`, and `ViewsAreStored` under the fair timer |
| `polls_races` | 3 requests, 2 users, 2 polls, 2 options | `AcknowledgedVotesStand`, `RowsRefer`, `NoLostEdit` |
| `admins_races` | 3 requests, 2 accounts, 2 apartments, 1 retry | `EditsAreWhole`, `SignUpsAreWhole`, `ApartmentIsQuiet`, and the refinement of `JoinRequests` |
| `notices_races` | 3 requests, an administrator and a resident, 1 notice, 1 comment, 1 retry | `AnswersAreTrue`, `OnlyNamedFieldsChange`, `CommentsStand` |
| `directory_races` | 1 import in chunks of 2, 2 commands, 1 query, 2 apartments, 2 emails, 2 contacts | `StoredInWholeChunks`, `StaleListHasCause` |
| `complaint_delete_race`, `notification_audience`, `notification_blocked` | the smallest that shows it | a violation each, see [below](#where-the-code-departs-from-what-is-written-about-it) |

One type invariant per module is checked along with them.

**Why the bounds are enough.** Each property is about one row, key or alarm and
the requests that touch it. A race needs a reader, a writer that overtakes it and, for
what follows a retry or a second write, a third: so three requests on one id.
`complaint_races` has a second resident for the tests of authorship.
`polls_races` has two users, polls and options: the request names poll and option
independently, one user's votes for two options are two votes, and what one user cancels must not
be what the other cast. `locker_races` has one writer that keeps the order the properties are about and one that keeps none. Two alarms in one tick is the least in which the receivers of one
can be mixed with those of the other; with batches of one row every tick that
stores more than one is several batches long, and may be interrupted in each gap. Two
items with batches of one make the view batch loop. `admins_races` has two
administrators and two apartments, so that an edit could go wrong by
touching the other's; the tests of a failing edit need one retry, since a second
one starts from the same read. `notices_races` has one notice and one comment: no
command relates two of either. `directory_races` has five files (`SmallFiles`): an empty one, one of a whole chunk, one with
a rest, one that ends in a line that is too short and one with a line that is refused; two apartments, since the key of a list names
none. Its two commands make an entry wrong in two ways at once, or repair one.
What more requests than three could do, the proofs exclude.

**Fairness.** Only two specifications assume any. `NotificationPipeline` has weak
fairness of `Tick`: `setInterval` keeps firing, a call that was started ends, and
`ecosystem.config.js` restarts a process that stopped. The number of ticks that
stop for an outside cause is bounded by `MaxFailures`; those that stop because
of the data (`AbortOnLostReceiver`) are not. `ViewCount` has weak fairness of `Sync`, the
timer of the schedulers, by the same argument; nothing is assumed of views or
edits, which may stop anywhere. Safety runs assume nothing.

**Mutants.** Every property of a passing run has a mutant: the plausible bug is
put in place of one definition and TLC finds the property violated under the run's own
configuration. Examples: a where clause that forgets the version
(`RowMatchesById`, `MatchesById`), a write outside its transaction
(`UpdateAdminAtOnce`), a where clause that forgets the user (`VotesForOption`), a catch that
swallows (`StatusWriteSwallowing`), marking before storing (`LookUpAndMark`), a duplicate taken
for an alarm that was sent (`IgnoreAndMark`), a cascade that misses a foreign key (`CascadeOfPoll`), a batch that forgets
what it cannot take (`PopForgetting`), a lock that is set without NX
(`TryLockBlind`).

## What is proved

The theorems hold for every value of the constants that satisfies the named
assumptions of the modules: the null values (`NoRow`, `Absent`, `Nothing`, ...) are
none of the data, ids of different tables differ (`IdsDiffer`), residents and administrators of
`Complaint` are disjoint, groups partition the users of the pipeline, batches have a positive size,
retries are counted by a natural number, chunks have rows, files are sequences of lines, and the
items of `ViewCount` are finite (the batch takes a number of them). Every proof follows the same plan: a *local* part
says what one request knows between two of its calls, which no other request can
change; a *stored* part relates that knowledge to the tables; the invariant is their
conjunction, and the properties follow from it.

**Complaint.** The safety properties are not inductive by themselves: that two
writes do not stem from one version depends on what each handler still knows
at its write. The invariant `IInv` is built in three layers.

1. *Local*: types, and what a request knows at each call (`HandlerFacts`): at a
   versioned write it holds a row its tests accepted. No other
   request can change this, so it is inductive alone.
2. *Stored*: `SnapshotIntegrity` (a row that still has the version a request read *is* the
   row it read; a stored version is never smaller than one that was read),
   `WriteFacts` (a request that wrote from a version read a row that is now out of
   date) and `IdsUsedOnce` (an id nothing was ever stored under has no row, and
   nobody has read one).
3. *Answered*: `NoLostUpdate` follows because the second of two writers would
   need an equal version, which `WriteFacts` of the first excludes;
   `AlarmsMatchWrites` from the order write, evict, alarm, answer.

From the invariant: `StatusNeverRegresses` and `EditOnlyWhilePending`, since a
versioned write replaces exactly the row that was tested (`TestedRowIsStored`),
and `Implementation`: every step of the service is a step of
`ComplaintLifecycle` or a stutter, under the mapping that reads `stage` and `detail` off the
row. Theorems: `TypeCorrect`, `InductiveInvariant`, `UpdatesAreNotLost`,
`AlarmsAreTrue`, `StatusOrder`, `EditsStopInTime`, `Implementation`.

**RedisLocker.** `IInv` adds to the types four groups of facts.

1. A reader which has not returned has an attempt left (`RoundsLeft`), and one which works under a lock
   that did not expire is the one whose token is in Redis (`HolderHasLock`, of which `LoneWorker` is the
   consequence: the token test in `delifmatch` keeps an overdue reader from freeing another's lock).
2. That reader has read last among those whose results were stored under a lock (`HolderReadLast`),
   since rows only get newer (`RowIsNewest`); hence `EntriesAdvance`. It does not hold for the query of the
   administrators, which starts before the lock is taken.
3. What writers and readers hold between two calls (`Reads`).
4. What is owed to a writer that has deleted the key: every entry stored since (`EntryIsOwed`), every
   result not stored yet (`HeldIsOwed`) and every answer (`AnswersAreOwed`) is what it wrote or newer, or is of
   a reader its write overtook. `ReadsSeeWrites` is the third of them in short.

Theorems: `LockerInvariant`, `OneReaderWorks`, `DeletionsAreSeen`, `LockedEntriesAdvance`.

**ResidentAccounts.** *Local* says which row each call works with: a decision on
a waiting one, a password change on one whose password is the old one the
request gave. *Stored* has that ids are drawn once, that a row under the version that was
read is the row that was read (`Snapshots`), that a registered resident has no password yet and
that a sign-up that joined an account is the only one (`OneSignUpPerAccount`). Five lemmas
say what a step may do to the table; from them follow `PasswordIsProved`, the
stages of `JoinRequests`, and, with the lemma that a round is the list of
ids a bulk decision holds (`RoundsKept`), the refinement. Theorems: `TypeCorrect`, `RowsAreCurrent`,
`SignUpsAreAlone`, `PasswordsAreProved`, `Implementation`.

**NotificationPipeline.** The plan of a tick holds every pair of a pending alarm and
a receiver (`PlanIsComplete`); what left the plan is stored, or was dropped with a
duplicate in its batch and is in `skipped` (`PlanIsStored`); at the call that marks, nothing is left of
the plan (`NothingIsLeft`); and before the first interruption no batch has a duplicate
(`NothingIsRepeated`), so nothing is skipped. What is due to somebody was posted and finds them
connected (`DueIsWaiting`), and a tick that reached its mark has sent what is due of its
alarms (`BatchIsSent`), whether or not its inserts found the rows there already: so
`LiveReachesTheConnected` survives every interruption. Theorems: `TypeCorrect`, `PipelineInvariant`,
`ConnectedAreReached`, `StoredUnlessSkipped`, `StoredUnlessInterrupted`.

**ViewCount.** No number in any of the four places exceeds the views
(`NumbersAreViews`); the counter of a complaint that has not aged is
the number of views exactly (`CounterIsExact`), so a batch never writes less than it
finds (`WritesGrow`); and what is not stored is marked or held by the batch
(`AllStored`, `PoppedIsHeld`). Theorems: `CountingInvariant`, `TypeCorrect`,
`ViewsAreNotInvented`, `ViewsAreNotForgotten`, `CountsRarelyFall`.

**Poll.** While a vote is between insert and commit, no committed vote has its
key (`KeysAreFree`): the wait of `VoteWaits` keeps that, and so nobody has two votes on a poll
(`OneVoteEach`). A vote that is gone was taken by a request whose write came after it
(`StoredInOrder` and the lemmas `TakenStays` and `BallotStands`). Ids are drawn once, and a poll
somebody edited is past the version the edit read (`VersionsGrow`). Theorems:
`TypeCorrect`, `PollInvariant`, `VotesStand`, `EditsAreNotLost`, `VotesReferToRows`.
`Poll` has the waits and the cascades of the database and states no foreign key;
`RowsRefer` says that they keep both keys of a vote and the primary key of an
option. Its invariant (`References`): the vote in flight refers to rows no open
transaction deletes, an edit whose version is still stored read the poll as it is
(`ReadIsCurrent`), and what a poll is created with is drawn for it alone (`OptionsUsedOnce`).
That the option is one of the poll's own does not hold: the code compares them nowhere.

**NoticeBoard.** The answers follow from what each request knows (`Facts`). That an
edit changes only the fields it names needs that a row under the version that was read is that
row, which needs that a deleted id is not drawn again. `CommentsStand` holds though the writes of
comments test the id alone: no statement changes the author of a comment, so that who was its author
at the read is (`MayStillChange`). Theorems: `TypeCorrect`, `NoticeInvariant`,
`AnswersTellTheTruth`, `FieldsAreKept`, `CommentsAreTheirAuthors`.

**AdminAccounts.** *Local* has what each request holds of its draft: a sign-up its new
apartment and, after the insert, the account that belongs to it; an edit the rewritten account and, before
its commit, the rewritten apartment. *Stored* has that a row is drafted by one transaction
at a time (`Locks`), that what an edit read of its rows is what its commit finds (`HeldRows`), and that no
two administrators share an apartment (`HomesDiffer`). `EditsAreWhole` is not inductive
without the last two: the wait for the account is then a wait for the apartment too, which is why the
version test on the apartment never fails (`ApartmentIsQuiet`). `SignUpsAreWhole` follows from
`Founders`: the founder of an apartment is in the outbox. The refinement is laid out as in
`ResidentProofs`. Theorems: `TypeCorrect`, `AdminInvariant`, `EditsStayWhole`, `SignUpsStayWhole`,
`ApartmentStaysQuiet`, `Implementation`.

**ResidentImport and ResidentLists.** The invariant `ListsInv` has two halves that meet in the
table only.

1. *The import* (`ImportFacts`). Until it returns a count, an import has stored a whole number of
   chunks (`WholeChunks`), has met no line that cannot be read up to `at` (`Readable`), and between its
   calls the way to the end of the next chunk is clear of such lines (`Bad`). That a statement brings
   exactly one chunk closer rests on `ChunkEndIsReached`: the end the loop stops at exists and is the
   last row of a chunk of `ChunkSize` rows. What a refused line costs rests on `NoChunkBefore`: from
   the last stored chunk to the first bad line there are fewer rows than a chunk. What a statement does
   to the table is `StatementInserts`: whatever the lines, there is such a choice of
   rows as the database makes (`GreedyChoice`), no row is overwritten, and no line is left whose email
   and contact the table does not know. Commands on residents may do anything to the rows in between,
   which is why `StoredInWholeChunks` speaks of what the table has ever held (`known`).
2. *The lists* (`StaleListHasCause` with `QueryFacts` and `CommandFacts`). A command deletes the key of
   each list, is in `Forgotten`, or leaves the page as it was (`CoveredKinds`, `JoinedPageIsKept`); an
   entry is stored right or marked late; and a key leaves the care of a command only by its
   deletion or marked lost.

`ChunkEndIsReached` and `GreedyChoice` are inductions over the lines of a file. They are made through
`LeastExists`, the least element of a set of numbers, which follows from the library's
well-foundedness of the natural numbers without an operator parameter. Theorems: `ListsInvariant`,
`ListsTypeCorrect`, `ImportsStoreWholeChunks`, `StaleListsExplained`.

**Only model-checked.** The liveness properties (`EveryAlarmIsProcessed`, `ViewsAreStored`): the
prover does not do fairness and ENABLED. Every other property of a passing run is a
theorem. No module declares a RECURSIVE operator.

## Where the code departs from what is written about it

Three runs end in a counterexample.

- `complaint_delete_race` — `deleteComplaint` tests the status of a row read
  earlier and deletes by id alone; a complaint taken up in between is deleted,
  which the README excludes.
- `notification_audience` — `createNotifications` pairs every group alarm of a
  tick with the users of all groups of the tick. Two alarms for different groups
  are each stored for both. (This is about what is stored. Who is written to live is decided by other
  code, the grouping of `createLivePayloads` and the maps of `ClientManager`, which `Deliveries`
  and `Listeners` sum up and no property tests.)
- `notification_blocked` — an alarm for one user whose account is deleted before
  the tick fails its foreign key in every tick; no alarm is processed
  again. (`EveryAlarmIsProcessed` holds as long as there is no such alarm.)

Others are visible in the models and stated as the exceptions of properties that
hold:

- A tick that repeats an interrupted one drops rows together with the duplicate:
  the exception of `CompleteUnlessSkipped` (`notification-command.ts:83`).
- The bulk decision overturns a decision made after its read: `CloseRound` of
  `JoinRequests`, the only action that does (`domain/user/repo/user-command.ts:460`).
- Neither the edit nor the delete of a poll tests its status, though `src/README.md:235` excludes
  the one and `src/README.md:240` the other once a poll has started. Both delete votes
  that were acknowledged, the edit because it recreates the options: they are
  two of the requests `AcknowledgedVotesStand` lets take a vote away
  (`domain/poll/repo/poll-command.ts:146`, `domain/poll/service/poll-command.ts:88`).
- A complaint's counter that ends its day loses the views since the last
  batch: the exception `aged` of the properties of `ViewCount`.
- The key of a list of residents names no apartment, so an administrator may be shown
  the residents of another one; and a sign-up by a registered resident, the import, an
  edit and a deletion leave keys of lists they change: `Forgotten` of `StaleListHasCause`.
- The import counts a whole chunk as 1000 rows, whatever was inserted: the upper
  bound of the count in `StoredInWholeChunks`.
- The edit of a notice writes back an old view count: the exception of
  `OnlyEditsLowerCounts` (`domain/notice/repo/notice-command.ts:119`).
- `ReadsSeeWrites` has one exception, a reader the write overtook, and it speaks of commands
  that delete the key after their write. Nothing is promised to who reads after a deletion that
  was lost, one before the commit (polls), or none at all: no command deletes the keys of the
  administrators list (`domain/user/service/user-query.ts:42`), the lists of apartments and one apartment
  (`apartment-query.ts:11-28`) or the list of complaints, and neither comments nor the
  batches of the view counts delete the key of the complaint or notice they change. Such entries live until they expire.

And some need no interleaving and are kept in the models as the code has them,
without a property: the last lost race of a decision is answered "ok"
(`LostRace`); an insert that fails otherwise than by a unique column is answered
like one that worked (`Insert`); `vote` tests no status, and no relation ties the
poll of a vote to the poll of its option (`CastVote`); the alarm of a rejection has no label
(`LabelOf`); a foreign key error of a comment calls a method strings do not have
and is answered like an unknown error (`CreateComment`); outside of development the file store
returns an empty body, so an import ends in NOT_CSV_FILE, and in development the empty line
after a last newline ends it in an error after its whole chunks were stored (`Begin`,
`Loop`); the edit of a resident ignores the email it is given (`Edit` of `ResidentLists`); a reader that gets no lock in five attempts is told that there is no
row (outcome `exhausted`).

## What is not modelled

- Comments on complaints: the code of those on notices with another foreign key.
- The deletion of a complaint or notice as its view count sees it: the batch then updates no row,
  and counter and mark stay behind.
- The status of a poll and its views: no command reads or writes the one, and the others are reads
  through the locker. (The entry of one poll is computed for the reader who filled it and served to all,
  `domain/poll/service/poll-query.ts:16`; that takes no interleaving.)
- The maps of `ClientManager` and the grouping of live messages, of which `NotificationPipeline` has the result.
- Queries other than those of `RedisLocker`, `ViewCount` and `ResidentLists`: they change no state.
  Filters and further pages of lists are read from the database each time; the export of
  residents, which has no filter by apartment, and its template only read.
  The Redis of the Vercel runtime, which stores nothing, is left out.
- `markAsRead` and the other single-statement operations on notifications, the
  deletion of notifications after thirty days.
- Authentication, validation, wiring, files, error formatting: input and output
  around single statements. The models begin with a request that was let through.
- Two server processes. The schedulers are started once per process
  and `ecosystem.config.js` runs one.

## Plan

Done, in this order: `Complaint` with its abstract lifecycle and proofs;
`NotificationPipeline`; `RedisLocker` with proofs; `ResidentAccounts`;
`ViewCount`; `Poll`; `AdminAccounts`; `NoticeBoard`; `JoinRequests`, refined by both halves of the
user commands; `ResidentImport` and `ResidentLists`; the end of a counter's
day in `ViewCount`; the proofs of `ViewCount`, `ResidentAccounts`, `NotificationPipeline`, `Poll`,
`NoticeBoard` and `AdminAccounts`, and of the lists and the import.

To come:

1. Consequences of the abstract specifications: what a user may rely on in every implementation of
   `ComplaintLifecycle` and `JoinRequests`.
2. Login and refresh of tokens, once they are more than single statements.
