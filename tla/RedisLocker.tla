---------------------------- MODULE RedisLocker ----------------------------
(***************************************************************************)
(* doWork of redis-locker.ts for one key, the requests that read through   *)
(* it and the commands that change what it caches.  A reader takes the     *)
(* cached entry; on a miss it takes a Redis lock, runs its work (a query), *)
(* stores the result and gives the lock back.  Lock and entry expire, any  *)
(* call may throw, and the process may die.                                *)
(*                                                                         *)
(* What the work reads is the version of the row.  That the row is missing *)
(* is a version like any other: JSON.stringify(null) is a non-empty        *)
(* string, so that null is cached too; where the work throws for it        *)
(* (polls, notices), that is Throw.                                        *)
(***************************************************************************)
EXTENDS Naturals

CONSTANTS
  Readers,     \* requests that read through the locker
  Writers,     \* commands that change the row
  EvictEarly,  \* the writers that may delete the key inside their transaction
  Silent,      \* the writers that may not delete it at all
  RetryCount,  \* attempts at the lock, 5 by default
  Nothing      \* no entry, no lock, no result

Version == Nat

ASSUME OrdersAreWriters == EvictEarly \subseteq Writers /\ Silent \subseteq Writers
ASSUME SomeAttempts == RetryCount \in Nat \ {0}
ASSUME NothingIsNoVersion == Nothing \notin Version
ASSUME NothingIsNoReader == Nothing \notin Readers

VARIABLES
  mode,     \* what the readers of this key pass to doWork: "plain"; "unlocked",
            \* redisLock: false (the apartment lists); or "eager", a promise as
            \* work, whose query is started before doWork is called (administrators)
  row,      \* what a query finds
  cache,    \* the entry under key
  lock,     \* the reader whose token is under lockKey
  pc,       \* pc[r] is the call reader r makes next
  tries,    \* tries[r] counts the rounds of the loop behind r, 0 outside of it
  got,      \* got[r] is the result reader r has so far
  outcome,  \* how doWork ended for r
  wpc,      \* wpc[w] is the call writer w makes next
  expired,  \* history: the readers at work whose lock ran out of time
  guarded,  \* history: the entry was read and stored under one lock
  wrote,    \* history: wrote[w] is the row as w left it, before it deletes the key
  before,   \* history: before[r] are the writers that had deleted the key when r called
  raced     \* history: raced[w] are the readers that held a row older than that
            \* when w deleted the key

vars == <<mode, row, cache, lock, pc, tries, got, outcome, wpc, expired, guarded, wrote, before, raced>>
readerVars == <<pc, tries, got, outcome, before>>
entryVars == <<cache, guarded>>
writerVars == <<wpc, wrote, raced>>

TypeOK ==
  /\ mode \in {"plain", "unlocked", "eager"}
  /\ row \in Version
  /\ cache \in Version \cup {Nothing}
  /\ lock \in Readers \cup {Nothing}
  /\ pc \in [Readers -> {"idle", "get", "lock", "wait", "work", "set", "release", "done"}]
  /\ tries \in [Readers -> 0..RetryCount]
  /\ got \in [Readers -> Version \cup {Nothing}]
  /\ outcome \in [Readers -> {"none", "hit", "filled", "exhausted", "error"}]
  /\ wpc \in [Writers -> {"idle", "evict", "commit", "deleted", "done"}]
  /\ expired \subseteq Readers /\ guarded \in BOOLEAN
  /\ wrote \in [Writers -> Version \cup {Nothing}]
  /\ before \in [Readers -> SUBSET Writers] /\ raced \in [Writers -> SUBSET Readers]

Init ==
  /\ mode \in {"plain", "unlocked", "eager"}
  /\ row = 0 /\ cache = Nothing /\ lock = Nothing
  /\ pc = [r \in Readers |-> "idle"] /\ tries = [r \in Readers |-> 0]
  /\ got = [r \in Readers |-> Nothing] /\ outcome = [r \in Readers |-> "none"]
  /\ wpc = [w \in Writers |-> "idle"]
  /\ expired = {} /\ guarded = FALSE
  /\ wrote = [w \in Writers |-> Nothing]
  /\ before = [r \in Readers |-> {}] /\ raced = [w \in Writers |-> {}]

Goto(r, p) == pc' = [pc EXCEPT ![r] = p]

Count(r, n) == tries' = [tries EXCEPT ![r] = n]

\* doWork ends for r with value v.
Return(r, v, how) ==
  /\ Goto(r, "done") /\ Count(r, 0)
  /\ got' = [got EXCEPT ![r] = v]
  /\ outcome' = [outcome EXCEPT ![r] = how]

\* The entry leaves Redis.
DropEntry == cache' = Nothing /\ guarded' = FALSE

\* The writers that have deleted the key after their write.
Deleted == {w \in Writers : wpc[w] = "deleted"}

-----------------------------------------------------------------------------
(***************************************************************************)
(* A reader.                                                               *)
(***************************************************************************)
Call(r) ==
  /\ pc[r] = "idle" /\ Goto(r, "get")
  /\ got' = [got EXCEPT ![r] = IF mode = "eager" THEN row ELSE Nothing]
  /\ before' = [before EXCEPT ![r] = Deleted]
  /\ UNCHANGED <<mode, row, entryVars, lock, tries, outcome, writerVars, expired>>

Get(r) ==
  /\ pc[r] = "get"
  /\ \/ cache # Nothing /\ Return(r, cache, "hit")
     \/ /\ cache = Nothing
        /\ Goto(r, IF mode = "unlocked" THEN "work" ELSE "lock")
        /\ UNCHANGED <<tries, got, outcome>>
  /\ UNCHANGED <<mode, row, entryVars, lock, before, writerVars, expired>>

\* Mutant: the key is set whether it exists or not.
TryLockBlind(r) ==
  /\ pc[r] = "lock" /\ lock' = r /\ Goto(r, "work") /\ Count(r, 0)
  /\ UNCHANGED <<mode, row, entryVars, got, outcome, before, writerVars, expired>>

\* setIfNotExist of a fresh token.
TryLock(r) ==
  /\ pc[r] = "lock"
  /\ \/ lock = Nothing /\ lock' = r /\ Goto(r, "work") /\ Count(r, 0)
     \/ lock # Nothing /\ UNCHANGED <<lock, tries>> /\ Goto(r, "wait")
  /\ UNCHANGED <<mode, row, entryVars, got, outcome, before, writerVars, expired>>

\* Mutant: the loop makes one round too many.
LookOnceMore(r) ==
  /\ pc[r] = "wait"
  /\ \/ cache # Nothing /\ Return(r, cache, "hit")
     \/ cache = Nothing /\ tries[r] >= RetryCount /\ Return(r, Nothing, "exhausted")
     \/ /\ cache = Nothing /\ tries[r] < RetryCount
        /\ Count(r, tries[r] + 1) /\ Goto(r, "lock") /\ UNCHANGED <<got, outcome>>
  /\ UNCHANGED <<mode, row, entryVars, lock, before, writerVars, expired>>

\* After the delay: the entry the holder may have stored, or another round.
Look(r) ==
  /\ pc[r] = "wait"
  /\ \/ cache # Nothing /\ Return(r, cache, "hit")
     \/ cache = Nothing /\ tries[r] + 1 = RetryCount /\ Return(r, Nothing, "exhausted")
     \/ /\ cache = Nothing /\ tries[r] + 1 < RetryCount
        /\ Count(r, tries[r] + 1) /\ Goto(r, "lock") /\ UNCHANGED <<got, outcome>>
  /\ UNCHANGED <<mode, row, entryVars, lock, before, writerVars, expired>>

Work(r) ==
  /\ pc[r] = "work" /\ Goto(r, "set")
  /\ got' = [got EXCEPT ![r] = IF mode = "eager" THEN @ ELSE row]
  /\ UNCHANGED <<mode, row, entryVars, lock, tries, outcome, before, writerVars, expired>>

AfterWork == IF mode = "unlocked" THEN "done" ELSE "release"

Set(r) ==
  /\ pc[r] = "set" /\ Goto(r, AfterWork)
  /\ cache' = got[r] /\ guarded' = (mode = "plain" /\ r \notin expired)
  /\ outcome' = [outcome EXCEPT ![r] = "filled"]
  /\ UNCHANGED <<mode, row, lock, tries, got, before, writerVars, expired>>

\* The work or the set throws; the finally block runs.
Throw(r) ==
  /\ pc[r] \in {"work", "set"} /\ Goto(r, AfterWork)
  /\ got' = [got EXCEPT ![r] = Nothing] /\ outcome' = [outcome EXCEPT ![r] = "error"]
  /\ UNCHANGED <<mode, row, entryVars, lock, tries, before, writerVars, expired>>

\* Mutant: the lock is deleted whoever's token it holds.
ReleaseAny(r) ==
  /\ pc[r] = "release" /\ Goto(r, "done")
  /\ lock' = Nothing
  /\ expired' = expired \ {r}
  /\ UNCHANGED <<mode, row, entryVars, tries, got, outcome, before, writerVars>>

\* delifmatch: the lock is deleted if it still holds the reader's token.
Release(r) ==
  /\ pc[r] = "release" /\ Goto(r, "done")
  /\ lock' = IF lock = r THEN Nothing ELSE lock
  /\ expired' = expired \ {r}
  /\ UNCHANGED <<mode, row, entryVars, tries, got, outcome, before, writerVars>>

\* A Redis call throws, or the process dies, and nothing more is done.
Abandon(r) ==
  /\ pc[r] \notin {"idle", "done"} /\ Goto(r, "done")
  /\ outcome' = [outcome EXCEPT ![r] = "error"]
  /\ got' = IF pc[r] = "release" THEN got ELSE [got EXCEPT ![r] = Nothing]
  /\ expired' = expired \ {r} /\ Count(r, 0)
  /\ UNCHANGED <<mode, row, entryVars, lock, before, writerVars>>

\* The readers between lock and release.
Working == {r \in Readers : mode # "unlocked" /\ pc[r] \in {"work", "set", "release"}}

-----------------------------------------------------------------------------
(***************************************************************************)
(* Redis and the writers.                                                  *)
(***************************************************************************)

\* The lock's time to live, three seconds by default, is over.
LockExpires ==
  /\ lock # Nothing /\ lock' = Nothing
  /\ expired' = expired \cup ({lock} \cap Working)
  /\ UNCHANGED <<mode, row, entryVars, readerVars, writerVars>>

CacheExpires ==
  /\ cache # Nothing /\ DropEntry
  /\ UNCHANGED <<mode, row, lock, readerVars, writerVars, expired>>

\* A write the database takes: an update, or a delete.
ChangeRow == row' = row + 1

\* r has read and not stored it yet.
Holds(r) == got[r] # Nothing /\ pc[r] \notin {"idle", "release", "done"}

\* The readers that read before w wrote and have not stored it yet.
Overtaken(w) == {r \in Readers : Holds(r) /\ got[r] < wrote[w]}

WriterGoes(w, p) == wpc' = [wpc EXCEPT ![w] = p]

\* The command writes and then deletes the key, as for complaints and notices.
Write(w) ==
  /\ wpc[w] = "idle" /\ w \notin EvictEarly \cup Silent
  /\ ChangeRow /\ WriterGoes(w, "evict")
  /\ wrote' = [wrote EXCEPT ![w] = row']
  /\ UNCHANGED <<mode, entryVars, lock, readerVars, expired, raced>>

\* Mutant: the key deleted is not the key read.
EvictOtherKey(w) ==
  /\ wpc[w] = "evict" /\ WriterGoes(w, "deleted")
  /\ raced' = [raced EXCEPT ![w] = Overtaken(w)]
  /\ UNCHANGED <<mode, row, entryVars, lock, readerVars, expired, wrote>>

Evict(w) ==
  /\ wpc[w] = "evict" /\ DropEntry /\ WriterGoes(w, "deleted")
  /\ raced' = [raced EXCEPT ![w] = Overtaken(w)]
  /\ UNCHANGED <<mode, row, lock, readerVars, expired, wrote>>

\* The delete throws, or the process stops before it.
EvictionLost(w) ==
  /\ wpc[w] = "evict" /\ WriterGoes(w, "done")
  /\ UNCHANGED <<mode, row, entryVars, lock, readerVars, expired, wrote, raced>>

\* The command deletes the key while its transaction is open, as for polls.
EvictFirst(w) ==
  /\ wpc[w] = "idle" /\ w \in EvictEarly /\ DropEntry /\ WriterGoes(w, "commit")
  /\ UNCHANGED <<mode, row, lock, readerVars, expired, wrote, raced>>

Commit(w) ==
  /\ wpc[w] = "commit" /\ WriterGoes(w, "done")
  /\ ChangeRow \/ UNCHANGED row                      \* or rolled back
  /\ UNCHANGED <<mode, entryVars, lock, readerVars, expired, wrote, raced>>

\* The command deletes no key: what changes the rows under the administrators
\* list, an apartment, the apartment lists and the lists of complaints, and the
\* comments and view counts of a complaint or notice.
WriteOnly(w) ==
  /\ wpc[w] = "idle" /\ w \in Silent
  /\ ChangeRow /\ WriterGoes(w, "done")
  /\ UNCHANGED <<mode, entryVars, lock, readerVars, expired, wrote, raced>>

Serve(r) ==
  Get(r) \/ TryLock(r) \/ Look(r) \/ Work(r) \/ Set(r) \/ Throw(r) \/ Release(r)

Next ==
  \/ \E r \in Readers : Call(r) \/ Serve(r) \/ Abandon(r)
  \/ LockExpires \/ CacheExpires
  \/ \E w \in Writers : \/ Write(w) \/ Evict(w) \/ EvictionLost(w)
                        \/ EvictFirst(w) \/ Commit(w) \/ WriteOnly(w)

Spec == Init /\ [][Next]_vars

-----------------------------------------------------------------------------
(***************************************************************************)
(* Properties.                                                             *)
(***************************************************************************)
\* One reader at a time works under the lock, except those that outlived it: a
\* reader whose lock expired does not take the lock from the one that has it.
LoneWorker == \A r, s \in Working \ expired : r = s

\* Who calls after a command has written and deleted the key is given what that
\* command wrote, or something newer.  One thing keeps a hit from it: a reader that
\* had read before the write and stores after the deletion.  Then the value given
\* is what that reader read.
ReadsSeeWrites ==
  \A r \in Readers : \A w \in before[r] :
    /\ outcome[r] = "filled" => got[r] >= wrote[w]
    /\ outcome[r] = "hit" => got[r] >= wrote[w] \/ \E f \in raced[w] : got[f] = got[r]

\* The holder of the lock does not look at the entry again before it works, so it
\* may replace what the holder before it stored.  As long as no lock ran out and
\* the query started under the lock, that never puts an older row in the place of
\* a newer one.
EntriesAdvance ==
  [][cache # Nothing /\ guarded /\ cache' # Nothing /\ guarded' => cache' >= cache]_vars

\* Why they hold: a reader that has not returned yet has an attempt left, one that
\* works under a lock that did not expire is the one that has it, and the query of
\* that one is the last of all whose results were stored under a lock.
RoundsLeft == \A r \in Readers : pc[r] \in {"idle", "get", "lock", "wait"} => tries[r] < RetryCount

HolderHasLock == \A r \in Working \ expired : lock = r

HolderReadLast ==
  \A r \in Working \ expired :
    mode = "plain" /\ pc[r] = "set" /\ cache # Nothing /\ guarded => got[r] >= cache

\* What each call knows of values and writers.
Reads ==
  /\ \A r \in Readers :
       pc[r] = "set" \/ (mode = "eager" /\ pc[r] \in {"get", "lock", "wait", "work"}) => got[r] # Nothing
  /\ \A w \in Writers : wpc[w] \in {"evict", "deleted"} => wrote[w] # Nothing
  /\ \A r \in Readers : before[r] \subseteq Deleted
  /\ \A r \in Readers, w \in Writers : r \in raced[w] => pc[r] # "idle" /\ w \notin before[r]

\* Nothing in Redis or in a reader is newer than the row.
RowIsNewest ==
  /\ cache # Nothing => row >= cache
  /\ \A r \in Readers : got[r] # Nothing => row >= got[r]
  /\ \A w \in Writers : wrote[w] # Nothing => row >= wrote[w]

\* v is what w wrote or newer, or was stored by a reader w raced with.
Owed(v, w) ==
  v >= wrote[w] \/ \E f \in raced[w] : pc[f] \in {"release", "done"} /\ got[f] = v

EntryIsOwed == cache # Nothing => \A w \in Deleted : Owed(cache, w)

HeldIsOwed ==
  \A r \in Readers, w \in Deleted : Holds(r) => got[r] >= wrote[w] \/ r \in raced[w]

AnswersAreOwed ==
  \A r \in Readers : outcome[r] \in {"filled", "hit"} =>
    /\ pc[r] \in {"release", "done"} /\ got[r] # Nothing
    /\ \A w \in before[r] : \/ got[r] >= wrote[w]
                            \/ outcome[r] = "hit" /\ Owed(got[r], w)

IInv == /\ TypeOK /\ RoundsLeft /\ HolderHasLock /\ HolderReadLast /\ Reads
        /\ RowIsNewest /\ EntryIsOwed /\ HeldIsOwed /\ AnswersAreOwed
=============================================================================
