----------------------------- MODULE ViewCount -----------------------------
(***************************************************************************)
(* How views of complaints and of notices are counted.  A view reads the   *)
(* item through a cache, seeds a counter in Redis with the count it found  *)
(* unless there is one, increments the counter, and marks the item dirty.  *)
(* Every six seconds a batch takes the dirty items and writes the counters *)
(* into the table.                                                         *)
(*                                                                         *)
(* The two kinds differ in the time the counter lives (a day and ten       *)
(* seconds), in the statement of the batch (the counter, or the greater of *)
(* the two counts) and in what an edit writes: the edit of a notice writes *)
(* every column it read, the one of a complaint leaves the count alone.    *)
(*                                                                         *)
(* The read through the cache is one step here; module RedisLocker has its *)
(* calls.                                                                  *)
(***************************************************************************)
EXTENDS Naturals, FiniteSets

CONSTANTS
  Views,            \* requests that view an item; their number bounds the counts
  Items,            \* ids of complaints, or of notices
  Editors,          \* who edits notices, one edit after the other
  BatchSize,        \* ids the batch takes at a time, 50 and 100
  Nothing           \* no cache entry, no counter

ASSUME SomeBatch == BatchSize \in Nat \ {0}
ASSUME NothingIsNoCount == Nothing \notin Nat
ASSUME FiniteItems == IsFiniteSet(Items)

VARIABLES
  kind,     \* what the items are, which never changes
  row,      \* row[i] is the viewsCount column of item i
  cache,    \* cache[i] is the count inside the cached item, or Nothing
  counter,  \* counter[i] is the number under the counter's key, or Nothing
  lasting,  \* the counters INCR made, which have no time to live
  dirty,    \* the set under the dirty key
  vpc,      \* vpc[v] is the call view v makes next
  item,     \* item[v] is what v views
  count,    \* count[v] is the count v has, in the end the one it answers
  bpc,      \* the call the batch makes next
  popped,   \* the ids the batch took
  counts,   \* the counters it read for them
  read,     \* read[e] is the item and the count e read and will write, or Nothing
  viewed,   \* history: viewed[i] is the number of views of i that were counted
  failed,   \* history: a batch stopped half way
  aged      \* history: the complaints whose counter lived its day and went

viewVars == <<vpc, item, count>>
batchVars == <<bpc, popped, counts, failed>>
redisVars == <<cache, counter, lasting, dirty>>
tableVars == <<kind, row>>
vars == <<tableVars, redisVars, viewVars, batchVars, read, viewed, aged>>

TypeOK ==
  /\ kind \in {"complaint", "notice"}
  /\ row \in [Items -> Nat]
  /\ cache \in [Items -> Nat \cup {Nothing}]
  /\ counter \in [Items -> Nat \cup {Nothing}]
  /\ lasting \subseteq Items /\ dirty \subseteq Items
  /\ vpc \in [Views -> {"idle", "seed", "increase", "mark", "done", "error"}]
  /\ item \in [Views -> Items \cup {Nothing}]
  /\ count \in [Views -> Nat]
  /\ bpc \in {"idle", "pop", "read", "write"}
  /\ popped \subseteq Items /\ Cardinality(popped) <= BatchSize
  /\ counts \in [Items -> Nat]
  /\ read \in [Editors -> [item : Items, count : Nat] \cup {Nothing}]
  /\ viewed \in [Items -> Nat] /\ failed \in BOOLEAN /\ aged \subseteq Items

\* Items nobody has viewed yet, nothing in Redis.
Init ==
  /\ kind \in {"complaint", "notice"}
  /\ row = [i \in Items |-> 0] /\ viewed = row
  /\ cache = [i \in Items |-> Nothing] /\ counter = [i \in Items |-> Nothing]
  /\ lasting = {} /\ dirty = {}
  /\ vpc = [v \in Views |-> "idle"] /\ item = [v \in Views |-> Nothing]
  /\ count = [v \in Views |-> 0]
  /\ bpc = "idle" /\ popped = {} /\ counts = [i \in Items |-> 0]
  /\ read = [e \in Editors |-> Nothing]
  /\ failed = FALSE /\ aged = {}

-----------------------------------------------------------------------------
(***************************************************************************)
(* A view.                                                                 *)
(***************************************************************************)

\* redisLocker.doWork: the cached item, or the row, which is cached.
Fetch(v) ==
  \E i \in Items :
    LET found == IF cache[i] = Nothing THEN row[i] ELSE cache[i]
    IN /\ vpc[v] = "idle" /\ vpc' = [vpc EXCEPT ![v] = "seed"]
       /\ item' = [item EXCEPT ![v] = i]
       /\ count' = [count EXCEPT ![v] = found]
       /\ cache' = [cache EXCEPT ![i] = found]
       /\ UNCHANGED <<tableVars, counter, lasting, dirty, batchVars, read, viewed, aged>>

\* setIfNotExist(viewCountKey, ...)
Seed(v) ==
  LET i == item[v]
  IN /\ vpc[v] = "seed" /\ vpc' = [vpc EXCEPT ![v] = "increase"]
     /\ counter' = [counter EXCEPT ![i] = IF @ = Nothing THEN count[v] ELSE @]
     /\ UNCHANGED <<tableVars, cache, lasting, dirty, item, count, batchVars,
                    read, viewed, aged>>

\* increase(viewCountKey); INCR begins at 1 when the counter expired meanwhile,
\* and what it makes does not expire.
Increase(v) ==
  LET i == item[v]
      n == IF counter[i] = Nothing THEN 1 ELSE counter[i] + 1
  IN /\ vpc[v] = "increase" /\ vpc' = [vpc EXCEPT ![v] = "mark"]
     /\ counter' = [counter EXCEPT ![i] = n]
     /\ lasting' = IF counter[i] = Nothing THEN lasting \cup {i} ELSE lasting
     /\ count' = [count EXCEPT ![v] = n]
     /\ viewed' = [viewed EXCEPT ![i] = @ + 1]
     /\ UNCHANGED <<tableVars, cache, dirty, item, batchVars, read, aged>>

\* addToSet(dirtyKey, id)
Mark(v) ==
  /\ vpc[v] = "mark" /\ vpc' = [vpc EXCEPT ![v] = "done"]
  /\ dirty' = dirty \cup {item[v]}
  /\ UNCHANGED <<tableVars, cache, counter, lasting, item, count, batchVars,
                 read, viewed, aged>>

\* A call to Redis throws: the view is answered with an error.
FailView(v) ==
  /\ vpc[v] \in {"seed", "increase", "mark"}
  /\ vpc' = [vpc EXCEPT ![v] = "error"]
  /\ UNCHANGED <<tableVars, redisVars, item, count, batchVars, read, viewed, aged>>

-----------------------------------------------------------------------------
(***************************************************************************)
(* The batch.                                                              *)
(***************************************************************************)

\* The scheduler starts a run unless one is going on.
StartSync ==
  /\ bpc = "idle" /\ bpc' = "pop"
  /\ UNCHANGED <<tableVars, redisVars, viewVars, popped, counts, failed, read, viewed, aged>>

\* Mutant: what does not fit into the batch is forgotten.
PopForgetting ==
  /\ bpc = "pop" /\ dirty # {}
  /\ \E S \in SUBSET dirty :
       /\ Cardinality(S) = IF Cardinality(dirty) < BatchSize THEN Cardinality(dirty) ELSE BatchSize
       /\ popped' = S
  /\ dirty' = {} /\ bpc' = "read"
  /\ UNCHANGED <<tableVars, cache, counter, lasting, viewVars, counts, failed, read, viewed, aged>>

\* Mutant: the size of the batch is ignored.
PopAll ==
  /\ bpc = "pop" /\ dirty # {} /\ popped' = dirty /\ dirty' = {} /\ bpc' = "read"
  /\ UNCHANGED <<tableVars, cache, counter, lasting, viewVars, counts, failed, read, viewed, aged>>

\* popFromSet(key, size)
Pop ==
  /\ bpc = "pop" /\ dirty # {}
  /\ \E S \in SUBSET dirty :
       /\ Cardinality(S) = IF Cardinality(dirty) < BatchSize THEN Cardinality(dirty) ELSE BatchSize
       /\ popped' = S /\ dirty' = dirty \ S
  /\ bpc' = "read"
  /\ UNCHANGED <<tableVars, cache, counter, lasting, viewVars, counts, failed, read, viewed, aged>>

EndSync ==
  /\ bpc = "pop" /\ dirty = {} /\ bpc' = "idle"
  /\ UNCHANGED <<tableVars, redisVars, viewVars, popped, counts, failed, read, viewed, aged>>

\* getMany; a counter that is gone counts as 0.
ReadCounters ==
  /\ bpc = "read" /\ bpc' = "write"
  /\ counts' = [i \in Items |-> IF i \in popped /\ counter[i] # Nothing THEN counter[i] ELSE 0]
  /\ UNCHANGED <<tableVars, redisVars, viewVars, popped, failed, read, viewed, aged>>

\* Mutant: the counter is added to the count.
StoredSum(old, new) == old + new

\* Mutant: the notices lose GREATEST.
StoredPlain(old, new) == new

\* Only the statement for notices has GREATEST.
Stored(old, new) == IF kind = "notice" /\ new < old THEN old ELSE new

\* updateViewCountBulk, one statement; the batch goes on with what is dirty.
WriteCounts ==
  /\ bpc = "write" /\ bpc' = "pop" /\ popped' = {}
  /\ row' = [i \in Items |-> IF i \in popped THEN Stored(row[i], counts[i]) ELSE row[i]]
  /\ UNCHANGED <<kind, redisVars, viewVars, counts, failed, read, viewed, aged>>

\* A call of the batch throws, or the server stops: the ids taken are lost.
FailSync ==
  /\ bpc # "idle" /\ bpc' = "idle" /\ popped' = {} /\ failed' = TRUE
  /\ UNCHANGED <<tableVars, redisVars, viewVars, counts, read, viewed, aged>>

-----------------------------------------------------------------------------
(***************************************************************************)
(* The edit of a notice, and Redis.                                        *)
(***************************************************************************)
ReadToEdit(e) ==
  \E i \in Items :
    /\ kind = "notice" /\ read[e] = Nothing
    /\ read' = [read EXCEPT ![e] = [item |-> i, count |-> row[i]]]
    /\ UNCHANGED <<tableVars, redisVars, viewVars, batchVars, viewed, aged>>

\* noticeRepo.update writes every column of the row it read; an edit that lost a
\* race against another edit writes nothing and is left out here.
WriteEdit(e) ==
  /\ read[e] # Nothing /\ read' = [read EXCEPT ![e] = Nothing]
  /\ row' = [row EXCEPT ![read[e].item] = read[e].count]
  /\ UNCHANGED <<kind, redisVars, viewVars, batchVars, viewed, aged>>

\* The entry's time is over, or a command that changed the item deletes it.
EntryLeaves(i) ==
  /\ cache[i] # Nothing /\ cache' = [cache EXCEPT ![i] = Nothing]
  /\ UNCHANGED <<tableVars, counter, lasting, dirty, viewVars, batchVars, read, viewed, aged>>

\* The time the first view gave the counter is over, ten seconds for a notice
\* and a day for a complaint; INCR does not extend it.
CounterExpires(i) ==
  /\ counter[i] # Nothing /\ i \notin lasting
  /\ counter' = [counter EXCEPT ![i] = Nothing]
  /\ aged' = IF kind = "complaint" THEN aged \cup {i} ELSE aged
  /\ UNCHANGED <<tableVars, cache, lasting, dirty, viewVars, batchVars, read, viewed>>

Sync == StartSync \/ Pop \/ EndSync \/ ReadCounters \/ WriteCounts

Next ==
  \/ \E v \in Views : Fetch(v) \/ Seed(v) \/ Increase(v) \/ Mark(v) \/ FailView(v)
  \/ Sync \/ FailSync
  \/ \E e \in Editors : ReadToEdit(e) \/ WriteEdit(e)
  \/ \E i \in Items : EntryLeaves(i) \/ CounterExpires(i)

\* The timer of the scheduler starts a batch every six seconds.
Spec == Init /\ [][Next]_vars /\ WF_vars(Sync)

-----------------------------------------------------------------------------
(***************************************************************************)
(* Properties.                                                             *)
(***************************************************************************)

\* The stored count never exceeds the views there were, whatever expires,
\* fails, is edited or is counted twice by the batch.
NoPhantomViews == \A i \in Items : row[i] <= viewed[i]

\* Every view of a complaint is in the table or on its way there, as long as its
\* counter lives: the complaint is dirty, in the batch, or about to be marked.
NoViewForgotten ==
  \A i \in Items :
    kind = "complaint" /\ i \notin aged /\ row[i] # viewed[i] =>
      \/ i \in dirty \/ i \in popped \/ failed
      \/ \E v \in Views : item[v] = i /\ vpc[v] \in {"mark", "error"}

\* Only the edit of a notice lowers a stored count, writing the one it read, and
\* the batch of the complaints after the counter lived its day: no other batch
\* does, not even when the counter of a notice is gone or was seeded from a
\* stale entry.
OnlyEditsLowerCounts ==
  [][\A i \in Items :
       row'[i] < row[i] =>
         \/ \E e \in Editors : read[e] # Nothing /\ read[e].item = i
         \/ i \in aged /\ bpc = "write"]_vars

\* The count a view of a complaint answered is stored in the end, unless a batch
\* failed or the counter lived its day.
ViewsAreStored ==
  \A v \in Views, i \in Items :
    kind = "complaint" /\ vpc[v] = "done" /\ item[v] = i ~> row[i] >= count[v] \/ failed \/ i \in aged
=============================================================================
