-------------------------- MODULE CachedReadProofs --------------------------
(***************************************************************************)
(* What holds of the reads that go through the cache: of the locker, for   *)
(* any number of readers and writers and any mixture of their options, and *)
(* of the lists of residents that are read through it, with the commands   *)
(* and the import of files that change them.                               *)
(***************************************************************************)
EXTENDS RedisLocker, ResidentLists, FiniteSetTheorems, TLAPS

-----------------------------------------------------------------------------
(***************************************************************************)
(* The locker.                                                             *)
(***************************************************************************)
\* The locker and its readers and writers keep their types.
LEMMA TypeStep == TypeOK /\ RoundsLeft /\ [Next]_vars => TypeOK'
<1> SUFFICES ASSUME TypeOK, RoundsLeft, [Next]_vars PROVE TypeOK'
  OBVIOUS
<1> USE DEF TypeOK, readerVars, entryVars, writerVars, Goto, Count, Return, DropEntry,
            WriterGoes, Version
<1>1. ASSUME NEW r \in Readers, Call(r) PROVE TypeOK'
  BY <1>1 DEF Call, Deleted
<1>2. ASSUME NEW r \in Readers, Get(r) PROVE TypeOK'
  BY <1>2, SomeAttempts DEF Get
<1>3. ASSUME NEW r \in Readers, TryLock(r) PROVE TypeOK'
  BY <1>3, SomeAttempts DEF TryLock
<1>4. ASSUME NEW r \in Readers, Look(r) PROVE TypeOK'
  <2>1. tries[r] + 1 \in 0..RetryCount /\ 0 \in 0..RetryCount
    BY <1>4, SomeAttempts DEF Look, RoundsLeft
  <2> QED
    BY <1>4, <2>1 DEF Look
<1>5. ASSUME NEW r \in Readers, Work(r) PROVE TypeOK'
  BY <1>5 DEF Work
<1>6. ASSUME NEW r \in Readers, Set(r) PROVE TypeOK'
  BY <1>6 DEF Set, AfterWork
<1>7. ASSUME NEW r \in Readers, Throw(r) PROVE TypeOK'
  BY <1>7 DEF Throw, AfterWork
<1>8. ASSUME NEW r \in Readers, Release(r) PROVE TypeOK'
  BY <1>8 DEF Release
<1>9. ASSUME NEW r \in Readers, Abandon(r) PROVE TypeOK'
  BY <1>9, SomeAttempts DEF Abandon
<1>10. CASE LockExpires
  BY <1>10 DEF LockExpires, Working
<1>11. CASE CacheExpires
  BY <1>11 DEF CacheExpires
<1>12. ASSUME NEW w \in Writers, Write(w) PROVE TypeOK'
  BY <1>12 DEF Write, ChangeRow
<1>13. ASSUME NEW w \in Writers, Evict(w) PROVE TypeOK'
  BY <1>13 DEF Evict, Overtaken
<1>14. ASSUME NEW w \in Writers, EvictionLost(w) PROVE TypeOK'
  BY <1>14 DEF EvictionLost
<1>15. ASSUME NEW w \in Writers, EvictFirst(w) PROVE TypeOK'
  BY <1>15 DEF EvictFirst
<1>16. ASSUME NEW w \in Writers, Commit(w) PROVE TypeOK'
  BY <1>16 DEF Commit, ChangeRow
<1>17. ASSUME NEW w \in Writers, WriteOnly(w) PROVE TypeOK'
  BY <1>17 DEF WriteOnly, ChangeRow
<1>18. CASE UNCHANGED vars
  BY <1>18 DEF vars
<1> QED
  BY <1>1, <1>2, <1>3, <1>4, <1>5, <1>6, <1>7, <1>8, <1>9, <1>10, <1>11, <1>12, <1>13,
     <1>14, <1>15, <1>16, <1>17, <1>18 DEF Next, Serve

\* What no step of a writer touches.
LEMMA WritersLeaveReaders ==
  ASSUME NEW w \in Writers,
         Write(w) \/ Evict(w) \/ EvictionLost(w) \/ EvictFirst(w) \/ Commit(w) \/ WriteOnly(w)
  PROVE  UNCHANGED <<mode, lock, pc, tries, got, outcome, before, expired>>
BY DEF readerVars, Write, Evict, EvictionLost, EvictFirst, Commit, WriteOnly

\* A reader that goes round the loop again has been counted.
LEMMA RoundsStep == TypeOK /\ RoundsLeft /\ [Next]_vars => RoundsLeft'
<1> SUFFICES ASSUME TypeOK, RoundsLeft, [Next]_vars PROVE RoundsLeft'
  OBVIOUS
<1> USE DEF TypeOK, RoundsLeft, Goto, Count, Return
<1>1. ASSUME NEW r \in Readers, Call(r) \/ Get(r) \/ TryLock(r) \/ Work(r) \/ Release(r) \/ Abandon(r)
      PROVE  RoundsLeft'
  BY <1>1 DEF Call, Get, TryLock, Work, Release, Abandon
<1>2. ASSUME NEW r \in Readers, Look(r) PROVE RoundsLeft'
  BY <1>2, SomeAttempts DEF Look
<1>3. ASSUME NEW r \in Readers, Set(r) \/ Throw(r) PROVE RoundsLeft'
  BY <1>3 DEF Set, Throw, AfterWork
<1>4. CASE UNCHANGED <<pc, tries>>
  BY <1>4
<1>5. CASE LockExpires \/ CacheExpires \/ UNCHANGED vars
  BY <1>4, <1>5 DEF LockExpires, CacheExpires, readerVars, vars
<1> QED
  BY <1>1, <1>2, <1>3, <1>4, <1>5, WritersLeaveReaders DEF Next, Serve

\* The token keeps a reader that outlived its lock from deleting another's.
LEMMA HolderStep == TypeOK /\ HolderHasLock /\ [Next]_vars => HolderHasLock'
<1> SUFFICES ASSUME TypeOK, HolderHasLock, [Next]_vars PROVE HolderHasLock'
  OBVIOUS
<1> USE DEF TypeOK, HolderHasLock, Working, Goto, Return
<1>1. ASSUME NEW r \in Readers, Call(r) \/ Get(r) \/ Look(r) \/ Work(r)
      PROVE  HolderHasLock'
  BY <1>1 DEF Call, Get, Look, Work
<1>2. ASSUME NEW r \in Readers, TryLock(r) PROVE HolderHasLock'
  BY <1>2, NothingIsNoReader DEF TryLock
<1>3. ASSUME NEW r \in Readers, Set(r) \/ Throw(r) PROVE HolderHasLock'
  BY <1>3 DEF Set, Throw, AfterWork
<1>4. ASSUME NEW r \in Readers, Release(r) \/ Abandon(r) PROVE HolderHasLock'
  BY <1>4 DEF Release, Abandon
<1>5. CASE LockExpires
  BY <1>5 DEF LockExpires, readerVars
<1>6. CASE UNCHANGED <<mode, pc, lock, expired>>
  BY <1>6
<1>7. CASE CacheExpires \/ UNCHANGED vars
  BY <1>6, <1>7 DEF CacheExpires, readerVars, vars
<1> QED
  BY <1>1, <1>2, <1>3, <1>4, <1>5, <1>6, <1>7, WritersLeaveReaders DEF Next, Serve

\* No value gets ahead of the row.
LEMMA RowStep == TypeOK /\ Reads /\ RowIsNewest /\ [Next]_vars => RowIsNewest'
<1> SUFFICES ASSUME TypeOK, Reads, RowIsNewest, [Next]_vars PROVE RowIsNewest'
  OBVIOUS
<1> USE NothingIsNoVersion DEF TypeOK, RowIsNewest, Goto, Count, Return, DropEntry, Version
<1>1. ASSUME NEW r \in Readers, Call(r) \/ Work(r) PROVE RowIsNewest'
  BY <1>1 DEF Call, Work, entryVars, writerVars
<1>2. ASSUME NEW r \in Readers, Get(r) \/ Look(r) PROVE RowIsNewest'
  BY <1>2 DEF Get, Look, entryVars, writerVars
<1>3. ASSUME NEW r \in Readers, Set(r) PROVE RowIsNewest'
  BY <1>3 DEF Set, writerVars
<1>4. ASSUME NEW r \in Readers, TryLock(r) \/ Throw(r) \/ Release(r) \/ Abandon(r) PROVE RowIsNewest'
  BY <1>4 DEF TryLock, Throw, Release, Abandon, entryVars, writerVars
<1>5. CASE LockExpires \/ CacheExpires \/ UNCHANGED vars
  BY <1>5 DEF LockExpires, CacheExpires, readerVars, entryVars, writerVars, vars
<1>6. ASSUME NEW w \in Writers, Write(w) \/ Commit(w) \/ WriteOnly(w) PROVE RowIsNewest'
  BY <1>6 DEF Write, Commit, WriteOnly, ChangeRow, readerVars, entryVars
<1>7. ASSUME NEW w \in Writers, Evict(w) \/ EvictionLost(w) \/ EvictFirst(w) PROVE RowIsNewest'
  BY <1>7 DEF Evict, EvictionLost, EvictFirst, readerVars, entryVars
<1> QED
  BY <1>1, <1>2, <1>3, <1>4, <1>5, <1>6, <1>7 DEF Next, Serve

\* What readers and writers know is theirs until their next call.
LEMMA ReadsStep == TypeOK /\ Reads /\ [Next]_vars => Reads'
<1> SUFFICES ASSUME TypeOK, Reads, [Next]_vars PROVE Reads'
  OBVIOUS
<1> USE NothingIsNoVersion DEF TypeOK, Reads, Goto, Return, Version, Deleted
<1>1. ASSUME NEW r \in Readers, Call(r) PROVE Reads'
  BY <1>1 DEF Call, writerVars
<1>2. ASSUME NEW r \in Readers, Work(r) \/ Get(r) \/ Look(r) \/ TryLock(r) PROVE Reads'
  BY <1>2 DEF Work, Get, Look, TryLock, writerVars
<1>3. ASSUME NEW r \in Readers, Set(r) \/ Throw(r) \/ Release(r) \/ Abandon(r) PROVE Reads'
  BY <1>3 DEF Set, Throw, Release, Abandon, AfterWork, writerVars
<1>4. CASE LockExpires \/ CacheExpires \/ UNCHANGED vars
  BY <1>4 DEF LockExpires, CacheExpires, readerVars, writerVars, vars
<1>5. ASSUME NEW w \in Writers, Write(w) PROVE Reads'
  BY <1>5 DEF Write, ChangeRow, WriterGoes, readerVars
<1>6. ASSUME NEW w \in Writers, Evict(w) PROVE Reads'
  BY <1>6 DEF Evict, Overtaken, Holds, WriterGoes, readerVars
<1>7. ASSUME NEW w \in Writers, EvictionLost(w) \/ EvictFirst(w) \/ Commit(w) \/ WriteOnly(w)
      PROVE  Reads'
  BY <1>7 DEF EvictionLost, EvictFirst, Commit, WriteOnly, WriterGoes, readerVars
<1> QED
  BY <1>1, <1>2, <1>3, <1>4, <1>5, <1>6, <1>7 DEF Next, Serve

\* The readers alone at work store in the order in which they read.
LEMMA HolderReadStep ==
  TypeOK /\ HolderHasLock /\ HolderReadLast /\ RowIsNewest /\ [Next]_vars => HolderReadLast'
<1> SUFFICES ASSUME TypeOK, HolderHasLock, HolderReadLast, RowIsNewest, [Next]_vars
             PROVE  HolderReadLast'
  OBVIOUS
<1> USE DEF TypeOK, HolderReadLast, Working, Goto, Return, DropEntry, Version
<1>1. ASSUME NEW r \in Readers, Work(r) PROVE HolderReadLast'
  BY <1>1 DEF Work, RowIsNewest, entryVars
<1>2. ASSUME NEW r \in Readers, Set(r) PROVE HolderReadLast'
  <2>1. ASSUME NEW s \in Readers, s # r, mode = "plain", pc[s] = "set", s \notin expired,
               r \notin expired
        PROVE  FALSE
    BY <1>2, <2>1 DEF Set, HolderHasLock
  <2> QED
    BY <1>2, <2>1 DEF Set, AfterWork
<1>3. ASSUME NEW r \in Readers, Call(r) \/ Get(r) \/ Look(r) \/ TryLock(r) PROVE HolderReadLast'
  <2>1. \A s \in Readers : pc'[s] = "set" => pc[s] = "set" /\ got'[s] = got[s]
    BY <1>3 DEF Call, Get, Look, TryLock
  <2>2. UNCHANGED <<mode, cache, guarded, expired>>
    BY <1>3 DEF Call, Get, Look, TryLock, entryVars
  <2> QED
    BY <2>1, <2>2
<1>4. ASSUME NEW r \in Readers, Throw(r) \/ Release(r) \/ Abandon(r) PROVE HolderReadLast'
  <2>1. \A s \in Readers : pc'[s] = "set" => s # r /\ pc[s] = "set" /\ got'[s] = got[s]
    BY <1>4 DEF Throw, Release, Abandon, AfterWork
  <2>2. UNCHANGED <<mode, cache, guarded>> /\ expired \ expired' \subseteq {r}
    BY <1>4 DEF Throw, Release, Abandon, entryVars
  <2> QED
    BY <2>1, <2>2
<1>5. CASE LockExpires \/ CacheExpires \/ UNCHANGED vars
  BY <1>5 DEF LockExpires, CacheExpires, readerVars, entryVars, vars
<1>6. ASSUME NEW w \in Writers,
             Write(w) \/ Evict(w) \/ EvictionLost(w) \/ EvictFirst(w) \/ Commit(w) \/ WriteOnly(w)
      PROVE  HolderReadLast'
  BY <1>6, WritersLeaveReaders
     DEF Write, Evict, EvictionLost, EvictFirst, Commit, WriteOnly, entryVars
<1> QED
  BY <1>1, <1>2, <1>3, <1>4, <1>5, <1>6 DEF Next, Serve

\* What a reader has stored and what a writer has deleted are final.
LEMMA FinalsStay ==
  ASSUME TypeOK, [Next]_vars
  PROVE  /\ \A f \in Readers : pc[f] \in {"release", "done"} =>
              pc'[f] \in {"release", "done"} /\ got'[f] = got[f]
         /\ \A w \in Deleted : w \in Deleted' /\ wrote'[w] = wrote[w] /\ raced'[w] = raced[w]
<1> USE DEF TypeOK, Deleted, Goto, Return, WriterGoes
<1>1. ASSUME NEW r \in Readers, Call(r) \/ Serve(r) \/ Abandon(r)
      PROVE  /\ \A f \in Readers : pc[f] \in {"release", "done"} =>
                  pc'[f] \in {"release", "done"} /\ got'[f] = got[f]
             /\ UNCHANGED writerVars
  BY <1>1 DEF Call, Serve, Get, TryLock, Look, Work, Set, Throw, Release, Abandon
<1>2. CASE LockExpires \/ CacheExpires \/ UNCHANGED vars
  BY <1>2 DEF LockExpires, CacheExpires, readerVars, writerVars, vars
<1>3. ASSUME NEW w \in Writers,
             Write(w) \/ Evict(w) \/ EvictionLost(w) \/ EvictFirst(w) \/ Commit(w) \/ WriteOnly(w)
      PROVE  \A x \in Deleted : x \in Deleted' /\ wrote'[x] = wrote[x] /\ raced'[x] = raced[x]
  BY <1>3 DEF Write, Evict, EvictionLost, EvictFirst, Commit, WriteOnly
<1> QED
  BY <1>1, <1>2, <1>3, WritersLeaveReaders DEF Next, writerVars

\* What was owed to the callers after w is owed to them still.
LEMMA OwedStays ==
  ASSUME TypeOK, [Next]_vars
  PROVE  \A v \in Version : \A w \in Deleted : Owed(v, w) => Owed(v, w)'
BY FinalsStay DEF Owed, TypeOK, Deleted

\* A writer is added to those that have deleted the key by its deletion.
LEMMA DeletedGrows ==
  ASSUME TypeOK, [Next]_vars, NEW w \in Deleted', w \notin Deleted
  PROVE  Evict(w) /\ wrote'[w] = wrote[w] /\ raced'[w] = Overtaken(w)
<1> USE DEF TypeOK, Deleted, WriterGoes
<1>1. ASSUME NEW x \in Writers,
             Write(x) \/ EvictionLost(x) \/ EvictFirst(x) \/ Commit(x) \/ WriteOnly(x)
      PROVE  FALSE
  BY <1>1 DEF Write, EvictionLost, EvictFirst, Commit, WriteOnly
<1>2. ASSUME NEW x \in Writers, Evict(x) PROVE x = w
  BY <1>2 DEF Evict
<1>3. UNCHANGED writerVars => FALSE
  BY DEF writerVars
<1>4. ASSUME NEW r \in Readers, Call(r) \/ Serve(r) \/ Abandon(r) PROVE FALSE
  BY <1>3, <1>4 DEF Call, Serve, Get, TryLock, Look, Work, Set, Throw, Release, Abandon
<1>5. CASE LockExpires \/ CacheExpires \/ UNCHANGED vars
  BY <1>3, <1>5 DEF LockExpires, CacheExpires, writerVars, vars
<1>6. Evict(w)
  BY <1>1, <1>2, <1>4, <1>5 DEF Next
<1> QED
  BY <1>6 DEF Evict

\* A value is read from the row as it is, or was there before.
LEMMA HeldStep == TypeOK /\ Reads /\ RowIsNewest /\ HeldIsOwed /\ [Next]_vars => HeldIsOwed'
<1> SUFFICES ASSUME TypeOK, Reads, RowIsNewest, HeldIsOwed, [Next]_vars,
                    NEW r \in Readers, NEW w \in Deleted', Holds(r)'
             PROVE  got'[r] >= wrote'[w] \/ r \in raced'[w]
  BY DEF HeldIsOwed, Deleted
<1>w. w \in Writers
  BY DEF Deleted
<1>1. (Holds(r) /\ got'[r] = got[r]) \/ (got'[r] = row /\ UNCHANGED <<row, writerVars>>)
  <2> USE DEF TypeOK, Holds, Goto, Return
  <2>1. ASSUME NEW s \in Readers, Call(s) \/ Work(s) PROVE <1>1!:
    BY <2>1 DEF Call, Work
  <2>2. ASSUME NEW s \in Readers,
               Get(s) \/ TryLock(s) \/ Look(s) \/ Set(s) \/ Throw(s) \/ Release(s) \/ Abandon(s)
        PROVE  Holds(r) /\ got'[r] = got[r]
    BY <2>2 DEF Get, TryLock, Look, Set, Throw, Release, Abandon, AfterWork
  <2>3. CASE LockExpires \/ CacheExpires \/ UNCHANGED vars
    BY <2>3 DEF LockExpires, CacheExpires, readerVars, vars
  <2> QED
    BY <2>1, <2>2, <2>3, WritersLeaveReaders DEF Next, Serve
<1>2. CASE w \in Deleted
  BY <1>1, <1>2, <1>w, FinalsStay
     DEF HeldIsOwed, Reads, RowIsNewest, Deleted, TypeOK, writerVars, Version
<1>3. CASE w \notin Deleted
  <2>1. Evict(w) /\ wrote'[w] = wrote[w] /\ raced'[w] = Overtaken(w)
    BY <1>3, DeletedGrows
  <2>2. wrote[w] \in Version /\ got[r] \in Version /\ Holds(r) /\ got'[r] = got[r]
    BY <2>1, <1>w, WritersLeaveReaders DEF Evict, Reads, TypeOK, Holds
  <2> QED
    BY <2>1, <2>2 DEF Overtaken, Version
<1> QED
  BY <1>2, <1>3

\* An entry is stored by a reader that read late enough or was raced.
LEMMA EntryStep ==
  TypeOK /\ Reads /\ HeldIsOwed /\ EntryIsOwed /\ [Next]_vars => EntryIsOwed'
<1> SUFFICES ASSUME TypeOK, Reads, HeldIsOwed, EntryIsOwed, [Next]_vars,
                    cache' # Nothing, NEW w \in Deleted'
             PROVE  Owed(cache, w)'
  BY DEF EntryIsOwed
<1>1. CASE cache' = cache /\ w \in Deleted
  BY <1>1, OwedStays DEF EntryIsOwed, TypeOK, Owed
<1>2. CASE w \notin Deleted
  BY <1>2, DeletedGrows DEF Evict, DropEntry
<1>3. ASSUME NEW r \in Readers, Set(r), w \in Deleted PROVE Owed(cache, w)'
  <2>1. got[r] >= wrote[w] \/ r \in raced[w]
    BY <1>3 DEF Set, HeldIsOwed, Holds, Reads
  <2>2. /\ cache' = got[r] /\ got'[r] = got[r] /\ pc'[r] \in {"release", "done"}
        /\ wrote'[w] = wrote[w] /\ raced'[w] = raced[w]
    BY <1>3 DEF Set, Goto, AfterWork, TypeOK, writerVars
  <2> QED
    BY <2>1, <2>2 DEF Owed
<1>4. \/ \E r \in Readers : Set(r)
      \/ cache' = cache
  <2>1. ASSUME NEW r \in Readers,
               \/ Call(r) \/ Get(r) \/ TryLock(r) \/ Look(r) \/ Work(r)
               \/ Throw(r) \/ Release(r) \/ Abandon(r)
        PROVE  cache' = cache
    BY <2>1 DEF Call, Get, TryLock, Look, Work, Throw, Release, Abandon, entryVars
  <2>2. CASE LockExpires \/ CacheExpires \/ UNCHANGED vars
    BY <2>2 DEF LockExpires, CacheExpires, DropEntry, entryVars, vars
  <2>3. ASSUME NEW x \in Writers,
               Write(x) \/ Evict(x) \/ EvictionLost(x) \/ EvictFirst(x) \/ Commit(x) \/ WriteOnly(x)
        PROVE  cache' = cache
    BY <2>3 DEF Write, Evict, EvictionLost, EvictFirst, Commit, WriteOnly, DropEntry, entryVars
  <2> QED
    BY <2>1, <2>2, <2>3 DEF Next, Serve
<1> QED
  BY <1>1, <1>2, <1>3, <1>4

\* An answer is what the reader read itself, or the entry.
LEMMA AnswersStep ==
  TypeOK /\ Reads /\ HeldIsOwed /\ EntryIsOwed /\ AnswersAreOwed /\ [Next]_vars => AnswersAreOwed'
<1> SUFFICES ASSUME TypeOK, Reads, HeldIsOwed, EntryIsOwed, AnswersAreOwed, [Next]_vars,
                    NEW r \in Readers, outcome'[r] \in {"filled", "hit"}
             PROVE  /\ pc'[r] \in {"release", "done"} /\ got'[r] # Nothing
                    /\ \A w \in before'[r] : \/ got'[r] >= wrote'[w]
                                             \/ outcome'[r] = "hit" /\ Owed(got[r], w)'
  BY DEF AnswersAreOwed, Owed
<1> USE DEF TypeOK, Goto, Return
<1>1. ASSUME NEW w \in before[r]
      PROVE  w \in Deleted /\ r \notin raced[w] /\ wrote'[w] = wrote[w] /\ w \in Writers
  BY <1>1, FinalsStay DEF Reads, Deleted
<1>2. CASE outcome[r] \in {"filled", "hit"}
  <2>1. pc[r] \in {"release", "done"} /\ got[r] \in Version
    BY <1>2 DEF AnswersAreOwed
  <2>2. pc'[r] \in {"release", "done"} /\ got'[r] = got[r]
    BY <2>1, FinalsStay
  <2>3. outcome'[r] = outcome[r] /\ before'[r] = before[r]
    <3>1. ASSUME NEW s \in Readers, Call(s) \/ Serve(s) \/ Abandon(s) PROVE <2>3!:
      BY <2>1, <3>1 DEF Call, Serve, Get, TryLock, Look, Work, Set, Throw, Release, Abandon
    <3>2. CASE LockExpires \/ CacheExpires \/ UNCHANGED vars
      BY <3>2 DEF LockExpires, CacheExpires, readerVars, vars
    <3> QED
      BY <3>1, <3>2, WritersLeaveReaders DEF Next
  <2>4. ASSUME NEW w \in before[r], Owed(got[r], w) PROVE Owed(got[r], w)'
    BY <1>1, <2>1, <2>2, <2>4, OwedStays DEF Owed
  <2> QED
    BY <1>1, <1>2, <2>1, <2>2, <2>3, <2>4 DEF AnswersAreOwed, Version
<1>3. CASE Set(r)
  <2>1. before'[r] = before[r] /\ got'[r] = got[r] /\ got[r] # Nothing
        /\ pc'[r] \in {"release", "done"}
    BY <1>3 DEF Set, AfterWork, Reads
  <2>2. ASSUME NEW w \in before[r] PROVE got[r] >= wrote[w]
    BY <1>1, <1>3, <2>1, <2>2 DEF Set, HeldIsOwed, Holds
  <2> QED
    BY <1>1, <2>1, <2>2
<1>4. CASE (Get(r) \/ Look(r)) /\ outcome[r] \notin {"filled", "hit"}
  <2>1. /\ before'[r] = before[r] /\ cache \in Version /\ cache # Nothing
        /\ got'[r] = cache /\ pc'[r] = "done" /\ outcome'[r] = "hit"
    BY <1>4 DEF Get, Look
  <2>2. ASSUME NEW w \in before[r] PROVE Owed(cache, w)
    BY <1>1, <2>1, <2>2 DEF EntryIsOwed
  <2>3. ASSUME NEW w \in before[r] PROVE Owed(got[r], w)'
    BY <1>1, <2>1, <2>2, <2>3, OwedStays DEF Owed
  <2> QED
    BY <2>1, <2>3
<1>5. ASSUME outcome[r] \notin {"filled", "hit"} PROVE Set(r) \/ Get(r) \/ Look(r)
  <2>1. ASSUME NEW s \in Readers, Call(s) \/ Serve(s) \/ Abandon(s) PROVE <1>5!2
    BY <1>5, <2>1 DEF Call, Serve, Get, TryLock, Look, Work, Set, Throw, Release, Abandon
  <2>2. CASE LockExpires \/ CacheExpires \/ UNCHANGED vars
    BY <1>5, <2>2 DEF LockExpires, CacheExpires, readerVars, vars
  <2> QED
    BY <1>5, <2>1, <2>2, WritersLeaveReaders DEF Next
<1> QED
  BY <1>2, <1>3, <1>4, <1>5

\* The invariant of the locker, for any readers and writers: types, rounds, who
\* holds the lock and read last under it, and what each value owes to the writers
\* that deleted the key.
THEOREM LockerInvariant == Spec => []IInv
<1>1. Init => IInv
  <2> SUFFICES ASSUME Init PROVE IInv
    OBVIOUS
  <2> USE DEF Init
  <2>1. 0 \in Version /\ 0 \in 0..RetryCount /\ 0 < RetryCount
    BY SomeAttempts DEF Version
  <2>2. TypeOK
    BY <2>1 DEF TypeOK
  <2>3. RoundsLeft
    BY <2>1 DEF RoundsLeft
  <2>4. HolderHasLock /\ HolderReadLast
    BY DEF HolderHasLock, HolderReadLast, Working
  <2>5. Reads
    BY DEF Reads
  <2>6. RowIsNewest /\ EntryIsOwed
    BY DEF RowIsNewest, EntryIsOwed
  <2>7. HeldIsOwed /\ AnswersAreOwed
    BY DEF HeldIsOwed, AnswersAreOwed, Holds
  <2> QED
    BY <2>2, <2>3, <2>4, <2>5, <2>6, <2>7 DEF IInv
<1>2. IInv /\ [Next]_vars => IInv'
  BY TypeStep, RoundsStep, HolderStep, HolderReadStep, ReadsStep, RowStep, HeldStep, EntryStep,
     AnswersStep DEF IInv
<1> QED
  BY <1>1, <1>2, PTL DEF Spec

\* Among the readers whose lock did not expire at most one is at work.
THEOREM OneReaderWorks == Spec => []LoneWorker
<1>1. IInv => LoneWorker
  BY DEF IInv, HolderHasLock, LoneWorker
<1> QED
  BY <1>1, LockerInvariant, PTL

\* Who calls after a deletion is given what the writer wrote, or newer, unless a
\* reader that was overtaken stored what it had.
THEOREM DeletionsAreSeen == Spec => []ReadsSeeWrites
<1>1. IInv => ReadsSeeWrites
  BY DEF IInv, AnswersAreOwed, Owed, ReadsSeeWrites
<1> QED
  BY <1>1, LockerInvariant, PTL

\* What is read and stored under the lock never gets older.
THEOREM LockedEntriesAdvance == Spec => EntriesAdvance
<1>1. IInv /\ [Next]_vars =>
        [cache # Nothing /\ guarded /\ cache' # Nothing /\ guarded' => cache' >= cache]_vars
  <2> SUFFICES ASSUME IInv, [Next]_vars, cache # Nothing, guarded, cache' # Nothing, guarded'
               PROVE  cache' >= cache
    OBVIOUS
  <2> USE DEF IInv, TypeOK, Version
  <2>1. CASE cache' = cache
    BY <2>1
  <2>2. ASSUME NEW r \in Readers, Set(r) PROVE cache' >= cache
    BY <2>2 DEF Set, HolderReadLast, Working
  <2>3. ASSUME NEW r \in Readers,
               \/ Call(r) \/ Get(r) \/ TryLock(r) \/ Look(r) \/ Work(r)
               \/ Throw(r) \/ Release(r) \/ Abandon(r)
        PROVE  cache' = cache
    BY <2>3 DEF Call, Get, TryLock, Look, Work, Throw, Release, Abandon, entryVars
  <2>4. CASE LockExpires \/ CacheExpires \/ UNCHANGED vars
    BY <2>1, <2>4 DEF LockExpires, CacheExpires, DropEntry, entryVars, vars
  <2>5. ASSUME NEW w \in Writers,
               Write(w) \/ Evict(w) \/ EvictionLost(w) \/ EvictFirst(w) \/ Commit(w) \/ WriteOnly(w)
        PROVE  cache' = cache
    BY <2>5 DEF Write, Evict, EvictionLost, EvictFirst, Commit, WriteOnly, DropEntry, entryVars
  <2> QED
    BY <2>1, <2>2, <2>3, <2>4, <2>5 DEF Next, Serve
<1> QED
  BY <1>1, LockerInvariant, PTL DEF Spec, EntriesAdvance

-----------------------------------------------------------------------------
(***************************************************************************)
(* Choices over numbers.  NatLessThanWellFounded and WFMin give the least  *)
(* element of a set of numbers, and with it every induction made here.     *)
(***************************************************************************)
LEMMA LeastExists ==
  ASSUME NEW T, T \subseteq Nat, T # {}
  PROVE  \E n \in T : \A m \in T : n <= m
<1>1. IsWellFoundedOn(OpToRel(<, Nat), Nat)
  BY NatLessThanWellFounded
<1>2. PICK n \in T : \A m \in T : ~ (<<m, n>> \in OpToRel(<, Nat))
  BY <1>1, WFMin
<1>3. \A m \in T : ~ (m < n)
  BY <1>2 DEF OpToRel
<1> QED
  BY <1>3

\* Min finds it.
LEMMA MinIsLeast ==
  ASSUME NEW T, T \subseteq Nat, T # {}
  PROVE  Min(T) \in T /\ \A m \in T : Min(T) <= m
  BY LeastExists DEF Min

\* Of the numbers that are free, each is chosen unless it clashes with a smaller
\* one that is.
Greedy(K, lines, free, clashing) ==
  \A k \in lines : k \in K <=> k \in free /\ \A j \in K : j < k => <<j, k>> \notin clashing

\* There is such a choice: by induction on the largest number that may be chosen.
LEMMA GreedyChoice ==
  ASSUME NEW N \in Nat, NEW lines \in SUBSET (1..N), NEW Free, NEW Clashing
  PROVE  \E K \in SUBSET lines : Greedy(K, lines, Free, Clashing)
<1> DEFINE UpTo(n) == {k \in lines : k <= n}
           Chosen(K, n) == Greedy(K, UpTo(n), Free, Clashing)
           Missing == {n \in Nat : ~ \E K \in SUBSET UpTo(n) : Chosen(K, n)}
<1>1. ASSUME Missing # {} PROVE FALSE
  <2>1. PICK n \in Missing : \A m \in Missing : n <= m
    BY <1>1, LeastExists
  <2>2. CASE n = 0
    <3>1. Chosen({}, n) /\ {} \in SUBSET UpTo(n)
      BY <2>2 DEF Greedy
    <3>2. ~ \E K \in SUBSET UpTo(n) : Chosen(K, n)
      BY <2>1
    <3> HIDE DEF UpTo, Chosen
    <3> QED
      BY <3>1, <3>2
  <2>3. CASE n # 0
    <3>1. n \in Nat /\ n - 1 \in Nat /\ ~(n <= n - 1)
      BY <2>1, <2>3
    <3>2. PICK K \in SUBSET UpTo(n - 1) : Chosen(K, n - 1)
      BY <2>1, <3>1
    <3> DEFINE J == K \cup {k \in UpTo(n) : k = n /\ k \in Free /\ \A j \in K : <<j, k>> \notin Clashing}
    <3>3. J \in SUBSET UpTo(n)
      <4>1. \A k \in lines : k \in Nat
        OBVIOUS
      <4>2. \A k \in lines : k <= n - 1 => k <= n
        BY <3>1, <4>1
      <4>3. UpTo(n - 1) \subseteq UpTo(n)
        BY <4>2
      <4> QED
        BY <3>2, <4>3
    <3>4. ASSUME NEW k \in UpTo(n)
          PROVE  k \in J <=> k \in Free /\ \A j \in J : j < k => <<j, k>> \notin Clashing
      <4>1. CASE k = n
        <5>1. k \notin K /\ \A j \in J : j < k <=> j \in K
          BY <3>1, <3>2, <4>1
        <5> QED
          BY <4>1, <5>1
      <4>2. CASE k # n
        <5>1. k \in UpTo(n - 1) /\ (k \in J <=> k \in K) /\ \A j \in J : j < k => j \in K
          BY <3>1, <3>2, <4>2
        <5> QED
          BY <3>2, <5>1 DEF Greedy
      <4> QED
        BY <4>1, <4>2
    <3> QED
      BY <2>1, <3>3, <3>4 DEF Greedy
  <2> QED
    BY <2>2, <2>3
<1>2. PICK K \in SUBSET UpTo(N) : Chosen(K, N)
  BY <1>1
<1>3. UpTo(N) = lines
  <2>1. \A k \in lines : k <= N
    OBVIOUS
  <2> QED
    BY <2>1
<1> QED
  BY <1>2, <1>3

\* As many values as lines, at most.
LEMMA ImageIsSmaller ==
  ASSUME NEW S, IsFiniteSet(S), NEW f, NEW T, T \subseteq {f[k].email : k \in S}
  PROVE  IsFiniteSet(T) /\ Cardinality(T) \in Nat /\ Cardinality(T) <= Cardinality(S)
<1> DEFINE emails == {f[k].email : k \in S}
           g == [k \in S |-> f[k].email]
<1>1. g \in Surjection(S, emails)
  BY DEF Surjection
<1>2. IsFiniteSet(emails) /\ Cardinality(emails) <= Cardinality(S)
  BY <1>1, FS_Surjection
<1>3. IsFiniteSet(T) /\ Cardinality(T) <= Cardinality(emails)
  BY <1>2, FS_Subset
<1> QED
  BY <1>2, <1>3, FS_CardinalityType

-----------------------------------------------------------------------------
(***************************************************************************)
(* The chunks of a file.                                                   *)
(***************************************************************************)

\* The lines of f up to the n-th that become rows.
Before(f, n) == {k \in 1..n : f[k] \in Entry}

\* A file has finitely many lines.
LEMMA LinesAreFinite ==
  ASSUME NEW f, Len(f) \in Nat, NEW n \in 0..Len(f)
  PROVE  /\ IsFiniteSet(Eligible(f, n)) /\ Cardinality(Eligible(f, n)) \in Nat
         /\ IsFiniteSet(Before(f, n)) /\ Cardinality(Before(f, n)) \in Nat
<1>1. IsFiniteSet(1..Len(f))
  BY FS_Interval
<1>2. Eligible(f, n) \subseteq 1..Len(f) /\ Before(f, n) \subseteq 1..Len(f)
  BY DEF Eligible, Before
<1> QED
  BY <1>1, <1>2, FS_Subset, FS_CardinalityType

\* The rows between two lines of a file.
LEMMA BetweenLines ==
  ASSUME NEW f, Len(f) \in Nat, NEW n \in 0..Len(f), NEW k \in n..Len(f)
  PROVE  Eligible(f, n) \ Eligible(f, k) = {j \in n + 1 .. k : f[j] \in Entry}
  BY DEF Eligible

\* A chunk is ChunkSize lines and ends in one of them, or is what is left.
LEMMA ChunkEndIsReached ==
  ASSUME NEW f, Len(f) \in Nat, NEW n \in 0..Len(f)
  PROVE  /\ ChunkEnd(f, n) \in n..Len(f)
         /\ Fills(f, n) => ChunkEnd(f, n) \in Eligible(f, n) /\ Cardinality(Chunk(f, n)) = ChunkSize
         /\ ~Fills(f, n) => ChunkEnd(f, n) = Len(f) /\ Chunk(f, n) = Eligible(f, n)
<1> DEFINE Lines(k) == Eligible(f, n) \ Eligible(f, k)
<1>1. CASE Fills(f, n)
  <2> DEFINE Full == {k \in n..Len(f) : Cardinality(Lines(k)) >= ChunkSize}
  <2>1. Len(f) \in Full
    <3>1. Lines(Len(f)) = Eligible(f, n)
      BY DEF Eligible
    <3>2. Len(f) \in n..Len(f)
      OBVIOUS
    <3> QED
      BY <1>1, <3>1, <3>2 DEF Fills
  <2>2. PICK k \in Full : \A m \in Full : k <= m
    <3>1. n..Len(f) \subseteq Nat
      OBVIOUS
    <3>2. Full \subseteq Nat /\ Full # {}
      BY <2>1, <3>1
    <3> QED
      BY <3>2, LeastExists
  <2>3. k # n
    <3>1. Lines(n) = {}
      OBVIOUS
    <3> QED
      BY <2>2, <3>1, FS_EmptySet, ChunksHaveRows
  <2>4. k - 1 \in n..Len(f) /\ k \in n..Len(f) /\ ~(k <= k - 1)
    BY <2>2, <2>3
  <2>5. /\ IsFiniteSet(Lines(k - 1))
        /\ Cardinality(Lines(k - 1)) \in Nat /\ Cardinality(Lines(k - 1)) < ChunkSize
    <3>1. IsFiniteSet(Lines(k - 1))
      BY LinesAreFinite, FS_Difference
    <3>2. Cardinality(Lines(k - 1)) \in Nat
      BY <3>1, FS_CardinalityType
    <3>3. k - 1 \notin Full
      BY <2>2, <2>4
    <3> QED
      BY <2>4, <3>1, <3>2, <3>3, ChunksHaveRows
  <2>6. f[k] \in Entry
    <3>1. SUFFICES ASSUME f[k] \notin Entry PROVE FALSE
      OBVIOUS
    <3>2. Lines(k) = Lines(k - 1)
      BY <2>4, <3>1 DEF Eligible
    <3> QED
      BY <2>2, <2>5, <3>2, ChunksHaveRows
  <2>7. Lines(k) = Lines(k - 1) \cup {k} /\ k \notin Lines(k - 1)
    BY <2>3, <2>4, <2>6 DEF Eligible
  <2>8. Cardinality(Lines(k)) = ChunkSize
    <3>1. Cardinality(Lines(k)) = Cardinality(Lines(k - 1)) + 1
      BY <2>5, <2>7, FS_AddElement
    <3> QED
      BY <2>2, <2>5, <3>1, ChunksHaveRows
  <2>9. k \in Eligible(f, n)
    BY <2>3, <2>4, <2>6 DEF Eligible
  <2>10. /\ ChunkEnd(f, n) \in Eligible(f, n)
         /\ Cardinality(Eligible(f, n) \ Eligible(f, ChunkEnd(f, n))) = ChunkSize
    BY <1>1, <2>8, <2>9 DEF ChunkEnd
  <2> QED
    BY <1>1, <2>10 DEF Eligible, Chunk
<1>2. CASE ~Fills(f, n)
  BY <1>2 DEF ChunkEnd, Chunk, Eligible
<1> QED
  BY <1>1, <1>2

\* What a chunk adds to the lines before it.
LEMMA ChunkFollows ==
  ASSUME NEW f, Len(f) \in Nat, NEW n \in 0..Len(f)
  PROVE  LET m == ChunkEnd(f, n)
         IN  /\ Before(f, m) = Before(f, n) \cup Chunk(f, n)
             /\ IsFiniteSet(Chunk(f, n)) /\ Cardinality(Chunk(f, n)) \in Nat
             /\ Chunk(f, n) \subseteq 1..Len(f) /\ \A k \in Chunk(f, n) : f[k] \in Entry
             /\ Cardinality(Before(f, m)) = Cardinality(Before(f, n)) + Cardinality(Chunk(f, n))
<1> DEFINE m == ChunkEnd(f, n)
<1>1. m \in n..Len(f)
  BY ChunkEndIsReached
<1>2. Chunk(f, n) = {j \in n + 1 .. m : f[j] \in Entry}
  BY <1>1, BetweenLines DEF Chunk
<1>3. Before(f, m) = Before(f, n) \cup Chunk(f, n) /\ Before(f, n) \cap Chunk(f, n) = {}
  BY <1>1, <1>2 DEF Before
<1>4. IsFiniteSet(Chunk(f, n)) /\ Cardinality(Chunk(f, n)) \in Nat
  <2>1. IsFiniteSet(Chunk(f, n))
    BY LinesAreFinite, FS_Difference DEF Chunk
  <2> QED
    BY <2>1, FS_CardinalityType
<1>5. Cardinality(Before(f, m)) = Cardinality(Before(f, n)) + Cardinality(Chunk(f, n))
  <2>1. IsFiniteSet(Before(f, n)) /\ Cardinality(Before(f, n)) \in Nat
    BY LinesAreFinite
  <2>2. Cardinality(Before(f, n) \cap Chunk(f, n)) = 0
    BY <1>3, FS_EmptySet
  <2>3. Cardinality(Before(f, n) \cup Chunk(f, n)) =
          Cardinality(Before(f, n)) + Cardinality(Chunk(f, n)) - Cardinality(Before(f, n) \cap Chunk(f, n))
    BY <1>4, <2>1, FS_Union
  <2> QED
    BY <1>3, <1>4, <2>1, <2>2, <2>3
<1> QED
  BY <1>1, <1>2, <1>3, <1>4, <1>5

\* Before a line that cannot be read on the way to the end of a chunk there are
\* fewer lines than a chunk has.
LEMMA NoChunkBefore ==
  ASSUME NEW f, Len(f) \in Nat, NEW n \in 0..Len(f), NEW b \in Bad(f, n)
  PROVE  LET S == {k \in n + 1 .. b : f[k] \in Entry}
         IN  IsFiniteSet(S) /\ Cardinality(S) \in Nat /\ Cardinality(S) < ChunkSize
<1> DEFINE S == {k \in n + 1 .. b : f[k] \in Entry}
           m == ChunkEnd(f, n)
<1>1. b \in n + 1 .. m /\ f[b] \in Unreadable /\ m \in n..Len(f)
  BY ChunkEndIsReached DEF Bad
<1>2. Chunk(f, n) = {j \in n + 1 .. m : f[j] \in Entry}
  BY <1>1, BetweenLines DEF Chunk
<1>3. S \subseteq Chunk(f, n)
  BY <1>1, <1>2
<1>4. IsFiniteSet(Chunk(f, n)) /\ Cardinality(Chunk(f, n)) \in Nat
  BY ChunkFollows
<1>5. IsFiniteSet(S) /\ Cardinality(S) \in Nat /\ Cardinality(S) <= Cardinality(Chunk(f, n))
      /\ (Cardinality(S) = Cardinality(Chunk(f, n)) => S = Chunk(f, n))
  BY <1>3, <1>4, FS_Subset, FS_CardinalityType
<1>6. CASE Fills(f, n)
  <2>1. m \in Chunk(f, n) /\ Cardinality(Chunk(f, n)) = ChunkSize
    <3>1. m \in Eligible(f, n) /\ Cardinality(Chunk(f, n)) = ChunkSize
      BY <1>6, ChunkEndIsReached
    <3> QED
      BY <1>1, <1>2, <3>1 DEF Eligible
  <2>2. m \notin S
    BY <1>1, <1>2, <2>1, MarksAreNoEntries
  <2> QED
    BY <1>5, <2>1, <2>2, ChunksHaveRows
<1>7. CASE ~Fills(f, n)
  <2>1. Chunk(f, n) = Eligible(f, n)
    BY <1>7, ChunkEndIsReached
  <2> QED
    BY <1>4, <1>5, <1>7, <2>1, ChunksHaveRows DEF Fills
<1> QED
  BY <1>5, <1>6, <1>7

-----------------------------------------------------------------------------
(***************************************************************************)
(* What one statement does to the table.                                   *)
(***************************************************************************)
LEMMA AcceptedLines ==
  ASSUME NEW table, NEW f, NEW N \in Nat, NEW lines \in SUBSET (1..N)
  PROVE  LET K == Accepted(table, f, lines)
         IN  /\ K \subseteq lines
             /\ \A k \in lines :
                  k \in K <=> ~Taken(table, f[k]) /\ \A j \in K : j < k => ~Clash(f[j], f[k])
<1> DEFINE Free == {k \in lines : ~Taken(table, f[k])}
           Clashing == {p \in lines \X lines : Clash(f[p[1]], f[p[2]])}
<1>1. PICK K \in SUBSET lines : Greedy(K, lines, Free, Clashing)
  BY GreedyChoice
<1>2. \A k \in lines : k \in K <=> ~Taken(table, f[k]) /\ \A j \in K : j < k => ~Clash(f[j], f[k])
  BY <1>1 DEF Greedy
<1> QED
  BY <1>2 DEF Accepted

\* Table t keeps every row of table old, has beside them residents from these
\* lines who have not joined, and leaves no line out whose email and contact are
\* both new.
Extends(t, old, f, lines) ==
  /\ t \in [Emails -> Row \cup {Absent}]
  /\ \A e \in Emails : t[e] # old[e] =>
       /\ old[e] = Absent /\ t[e] # Absent /\ t[e].status = "NOT_JOINED"
       /\ e \in {f[k].email : k \in lines}
  /\ \A k \in lines : {f[k].email, f[k].contact} \cap Identities(t) # {}

\* One statement of createManyBulk does that to the table.
LEMMA StatementInserts ==
  ASSUME NEW table \in [Emails -> Row \cup {Absent}], NEW f, NEW N \in Nat,
         NEW lines \in SUBSET (1..N), \A k \in lines : f[k] \in Entry, NEW apt \in Apartments
  PROVE  Extends(Inserted(table, f, lines, apt), table, f, lines)
<1> DEFINE K == Accepted(table, f, lines)
           t == Inserted(table, f, lines, apt)
           In(e) == \E k \in K : f[k].email = e
<1>1. /\ K \subseteq lines
      /\ \A k \in lines : k \in K <=> ~Taken(table, f[k]) /\ \A j \in K : j < k => ~Clash(f[j], f[k])
  BY AcceptedLines
<1>2. \A k \in lines : f[k].email \in Emails /\ f[k].contact \in Contacts
  BY DEF Entry
<1>3. \A j, k \in K : f[j].email = f[k].email => j = k
  <2>1. \A j, k \in lines : j < k \/ k < j \/ j = k
    OBVIOUS
  <2> SUFFICES ASSUME NEW j \in K, NEW k \in K, f[j].email = f[k].email, j # k PROVE FALSE
    OBVIOUS
  <2>2. j < k \/ k < j
    BY <1>1, <2>1
  <2> QED
    BY <1>1, <2>2 DEF Clash
<1>4. \A k \in K : t[f[k].email] = NewResident(f[k], apt)
  <2> SUFFICES ASSUME NEW k \in K PROVE t[f[k].email] = NewResident(f[k], apt)
    OBVIOUS
  <2>1. (CHOOSE j \in K : f[j].email = f[k].email) = k
    BY <1>3
  <2> QED
    BY <1>1, <1>2, <2>1 DEF Inserted
<1>5. \A e \in Emails : ~In(e) => t[e] = table[e]
  BY DEF Inserted
<1>6. \A k \in K : NewResident(f[k], apt) \in Row
  BY <1>1, <1>2 DEF NewResident, Row, Status
<1>7. \A k \in K : table[f[k].email] = Absent
  BY <1>1 DEF Taken
<1>8. DOMAIN t = Emails /\ t = [e \in Emails |-> t[e]]
  BY DEF Inserted
<1> HIDE DEF t, K
<1>9. t \in [Emails -> Row \cup {Absent}]
  <2>1. \A e \in Emails : t[e] \in Row \cup {Absent}
    BY <1>4, <1>5, <1>6
  <2> QED
    BY <1>8, <2>1
<1>10. ASSUME NEW e \in Emails, t[e] # table[e]
       PROVE  /\ table[e] = Absent /\ t[e] # Absent /\ t[e].status = "NOT_JOINED"
              /\ e \in {f[k].email : k \in lines}
  <2>1. PICK k \in K : f[k].email = e
    BY <1>5, <1>10
  <2>2. t[e] = NewResident(f[k], apt) /\ t[e] \in Row /\ table[e] = Absent
    BY <1>4, <1>6, <1>7, <2>1
  <2> QED
    BY <1>1, <2>1, <2>2, AbsentIsNoRow DEF NewResident
<1>11. \A e \in Emails : table[e] # Absent => t[e] = table[e]
  BY <1>10
<1>12. \A e \in Emails : t[e] # Absent => e \in Identities(t) /\ t[e].contact \in Identities(t)
  BY DEF Identities
<1>13. \A k \in K : f[k].email \in Identities(t) /\ f[k].contact \in Identities(t)
  <2> SUFFICES ASSUME NEW k \in K
               PROVE  f[k].email \in Identities(t) /\ f[k].contact \in Identities(t)
    OBVIOUS
  <2>1. f[k].email \in Emails
    BY <1>1, <1>2
  <2>2. t[f[k].email] = NewResident(f[k], apt) /\ NewResident(f[k], apt) \in Row
    BY <1>4, <1>6
  <2>3. NewResident(f[k], apt).contact = f[k].contact
    BY DEF NewResident
  <2> QED
    BY <1>12, <2>1, <2>2, <2>3, AbsentIsNoRow
<1>14. ASSUME NEW k \in lines PROVE {f[k].email, f[k].contact} \cap Identities(t) # {}
  <2>1. CASE k \in K
    BY <1>13, <2>1
  <2>2. CASE Taken(table, f[k])
    BY <1>2, <1>11, <1>12, <2>2 DEF Taken
  <2>3. CASE k \notin K /\ ~Taken(table, f[k])
    <3>1. PICK j \in K : Clash(f[j], f[k])
      BY <1>1, <2>3
    <3> QED
      BY <1>13, <3>1 DEF Clash
  <2> QED
    BY <2>1, <2>2, <2>3
<1> QED
  BY <1>9, <1>10, <1>14 DEF t, Extends

-----------------------------------------------------------------------------
(***************************************************************************)
(* The invariant of the lists and the import.                              *)
(***************************************************************************)

\* Lines that can be read.
Readable(f, n) == \A b \in 1..n : f[b] \notin Unreadable

WholeChunks(n) == \E m \in Nat : n = m * ChunkSize

\* What holds of import i between two of its calls: until it has returned a count
\* it has stored whole chunks, and on the way to the end of the chunk it stores
\* next there is nothing that cannot be read.
ImportFacts(i) ==
  LET f == file[i]
      stored == Before(f, at[i])
  IN /\ ipc[i] # "done" => answer[i] = <<0, "none">>
     /\ ipc[i] = "idle" => f = <<>>
     /\ ipc[i] = "store" => home[i] \in Apartments /\ Bad(f, at[i]) = {}
     /\ \A k \in stored : {f[k].email, f[k].contact} \cap known # {}
     /\ brought[i] \subseteq {f[k].email : k \in stored}
     /\ Readable(f, at[i])
     /\ answer[i][2] # "count" => processed[i] = Cardinality(stored) /\ WholeChunks(processed[i])
     /\ answer[i][2] = "INVALID_INPUT" => Bad(f, at[i]) # {}
     /\ answer[i][2] = "count" =>
          /\ at[i] = Len(f)
          /\ answer[i][1] \in Cardinality(brought[i]) .. Cardinality(stored)
          /\ Cardinality(stored) < ChunkSize => answer[i][1] = Cardinality(brought[i])

\* What queries and commands know between two of their calls.
QueryFacts ==
  \A q \in Queries :
    /\ qpc[q] \in {"fetch", "store"} => ask[q] \in Lists \X Apartments
    /\ qpc[q] = "store" => fetched[q] \in CachedPage

CommandFacts == \A r \in Commands : cpc[r] = "evict" => kind[r] \in DOMAIN Evicts

ListsInv ==
  /\ ListsTypeOK /\ QueryFacts /\ CommandFacts /\ StaleListHasCause
  /\ \A i \in Imports : ImportFacts(i)

\* A file is a sequence of lines.
LEMMA FilesHaveLengths == \A f \in Files \cup {<<>>} : Len(f) \in Nat
  BY FilesAreLines

\* An import never gets past the end of its file.
LEMMA ImportIsWithinFile ==
  ASSUME ListsTypeOK, NEW i \in Imports
  PROVE  Len(file[i]) \in Nat /\ at[i] \in 0..Len(file[i])
<1>1. file[i] \in Files \cup {<<>>} /\ at[i] \in Nat /\ at[i] <= Len(file[i])
  BY DEF ListsTypeOK, ImportTypeOK
<1> QED
  BY <1>1, FilesHaveLengths

\* What the statement of import i does.
LEMMA StatementOfImport ==
  ASSUME ListsTypeOK, NEW i \in Imports, ipc[i] = "store", home[i] \in Apartments
  PROVE  LET f == file[i]
             n == at[i]
             t == Inserted(db, f, Chunk(f, n), home[i])
             new == {e \in Emails : db[e] # t[e]}
         IN  /\ Extends(t, db, f, Chunk(f, n))
             /\ IsFiniteSet(new) /\ Cardinality(new) \in Nat
             /\ Cardinality(new) <= Cardinality(Chunk(f, n))
<1> DEFINE f == file[i]
           n == at[i]
           t == Inserted(db, f, Chunk(f, n), home[i])
           new == {e \in Emails : db[e] # t[e]}
<1>1. Len(f) \in Nat /\ n \in 0..Len(f)
  BY ImportIsWithinFile
<1>2. /\ IsFiniteSet(Chunk(f, n)) /\ Chunk(f, n) \in SUBSET (1..Len(f))
      /\ \A k \in Chunk(f, n) : f[k] \in Entry
  BY <1>1, ChunkFollows
<1>3. db \in [Emails -> Row \cup {Absent}]
  BY DEF ListsTypeOK, ImportTypeOK
<1>4. Extends(t, db, f, Chunk(f, n))
  <2> HIDE DEF f, n
  <2> QED
    BY <1>1, <1>2, <1>3, StatementInserts
<1>5. new \subseteq {f[k].email : k \in Chunk(f, n)}
  BY <1>4 DEF Extends
<1>6. IsFiniteSet(new) /\ Cardinality(new) \in Nat /\ Cardinality(new) <= Cardinality(Chunk(f, n))
  <2> HIDE DEF f, n, new, t
  <2> QED
    BY <1>2, <1>5, ImageIsSmaller
<1> QED
  BY <1>4, <1>5, <1>6

\* An import that does not move knows no less when the table has held more.
LEMMA ImportRests ==
  ASSUME NEW i \in Imports, ImportFacts(i), known \subseteq known',
         file'[i] = file[i], home'[i] = home[i], ipc'[i] = ipc[i], at'[i] = at[i],
         processed'[i] = processed[i], answer'[i] = answer[i], brought'[i] = brought[i]
  PROVE  ImportFacts(i)'
<1>1. \A k \in Before(file[i], at[i]) : {file[i][k].email, file[i][k].contact} \cap known' # {}
  BY DEF ImportFacts
<1> QED
  BY <1>1 DEF ImportFacts

\* How the loop goes on after n lines.
LEMMA LoopOutcome ==
  ASSUME ListsTypeOK, NEW i \in Imports, NEW f, NEW n, Loop(i, f, n)
  PROVE  /\ at'[i] = n
         /\ \A j \in Imports \ {i} : at'[j] = at[j] /\ ipc'[j] = ipc[j] /\ answer'[j] = answer[j]
         /\ \/ /\ Bad(f, n) # {} /\ ipc'[i] = "done"
               /\ answer'[i] \in {<<0, "INVALID_INPUT">>, <<0, "ERROR">>}
            \/ Bad(f, n) = {} /\ ipc'[i] = "store" /\ answer'[i] = answer[i]
  BY DEF Loop, Refusal, ListsTypeOK, ImportTypeOK

\* Before its first line a file has nothing.
LEMMA NothingIsBeforeTheFirst ==
  ASSUME NEW f
  PROVE  Before(f, 0) = {} /\ Readable(f, 0) /\ Cardinality(Before(f, 0)) = 0
<1>1. Before(f, 0) = {}
  BY DEF Before
<1> QED
  BY <1>1, FS_EmptySet DEF Readable

\* No rows are a whole number of chunks.
LEMMA NoneAreWhole == WholeChunks(0)
  BY ChunksHaveRows DEF WholeChunks

\* And so are the rows of one chunk more.
LEMMA OneMoreIsWhole == \A n \in Nat : WholeChunks(n) => WholeChunks(n + ChunkSize)
<1> SUFFICES ASSUME NEW n \in Nat, NEW m \in Nat, n = m * ChunkSize PROVE WholeChunks(n + ChunkSize)
  BY DEF WholeChunks
<1>1. n + ChunkSize = (m + 1) * ChunkSize
  BY ChunksHaveRows
<1> QED
  BY <1>1 DEF WholeChunks

\* An import that begins has stored nothing, whether or not it gets to its file.
LEMMA BeginStep ==
  ASSUME ListsTypeOK, NEW i \in Imports, ImportFacts(i), Begin(i)
  PROVE  ImportFacts(i)'
<1>1. /\ ipc[i] = "idle" /\ answer[i] = <<0, "none">> /\ file[i] = <<>> /\ at[i] = 0
      /\ processed[i] = 0 /\ brought[i] = {}
  <2>1. ipc[i] = "idle" /\ answer[i] = <<0, "none">> /\ file[i] = <<>>
    BY DEF Begin, ImportFacts
  <2>2. at[i] = 0
    BY <2>1, ImportIsWithinFile
  <2>3. processed[i] = 0 /\ brought[i] = {}
    BY <2>1, <2>2, NothingIsBeforeTheFirst DEF ImportFacts
  <2> QED
    BY <2>1, <2>2, <2>3
<1>2. processed'[i] = 0 /\ brought'[i] = {}
  BY <1>1 DEF Begin
<1>3. ASSUME NEW f \in Files, NEW a \in Apartments, file' = [file EXCEPT ![i] = f],
             home' = [home EXCEPT ![i] = a], Loop(i, f, 0)
      PROVE  ImportFacts(i)'
  <2>1. file'[i] = f /\ home'[i] = a
    BY <1>3 DEF ListsTypeOK, ImportTypeOK
  <2>2. /\ at'[i] = 0
        /\ \/ /\ Bad(f, 0) # {} /\ ipc'[i] = "done"
              /\ answer'[i] \in {<<0, "INVALID_INPUT">>, <<0, "ERROR">>}
           \/ Bad(f, 0) = {} /\ ipc'[i] = "store" /\ answer'[i] = <<0, "none">>
    BY <1>1, <1>3, LoopOutcome
  <2> QED
    BY <1>2, <2>1, <2>2, NothingIsBeforeTheFirst, NoneAreWhole DEF ImportFacts
<1>4. ASSUME NEW why \in Unread, ipc' = [ipc EXCEPT ![i] = "done"],
             answer' = [answer EXCEPT ![i] = <<0, why>>], UNCHANGED <<file, home, at>>
      PROVE  ImportFacts(i)'
  <2>1. ipc'[i] = "done" /\ answer'[i] = <<0, why>> /\ file'[i] = <<>> /\ at'[i] = 0
    BY <1>1, <1>4 DEF ListsTypeOK, ImportTypeOK
  <2>2. why # "count" /\ why # "INVALID_INPUT"
    BY DEF Unread
  <2> QED
    BY <1>2, <2>1, <2>2, NothingIsBeforeTheFirst, NoneAreWhole DEF ImportFacts
<1> QED
  BY <1>3, <1>4 DEF Begin

\* An import that fails keeps the chunks it has stored.
LEMMA FailImportStep ==
  ASSUME ListsTypeOK, NEW i \in Imports, ImportFacts(i), FailImport(i)
  PROVE  ImportFacts(i)'
<1>1. /\ ipc'[i] = "done" /\ answer'[i] = <<0, "ERROR">>
      /\ UNCHANGED <<file, home, at, processed, known, brought>>
  BY DEF FailImport, ListsTypeOK, ImportTypeOK
<1>2. answer[i][2] # "count"
  BY DEF ImportFacts, FailImport
<1> QED
  BY <1>1, <1>2 DEF ImportFacts

\* What import i has stored after one more statement.
LEMMA StoredMore ==
  ASSUME ListsTypeOK, NEW i \in Imports, ImportFacts(i), StoreChunk(i)
  PROVE  LET f == file[i]
             m == ChunkEnd(f, at[i])
             new == {e \in Emails : db[e] # db'[e]}
         IN  /\ file'[i] = f /\ home'[i] = home[i] /\ brought'[i] = brought[i] \cup new
             /\ Readable(f, m) /\ brought'[i] \subseteq {f[k].email : k \in Before(f, m)}
             /\ \A k \in Before(f, m) : {f[k].email, f[k].contact} \cap known' # {}
             /\ Cardinality(Before(f, m)) = processed[i] + Cardinality(Chunk(f, at[i]))
             /\ Cardinality(brought[i]) \in Nat /\ Cardinality(brought[i]) <= processed[i]
             /\ Cardinality(brought'[i]) \in Nat
             /\ Cardinality(brought'[i]) <= Cardinality(brought[i]) + Cardinality(new)
             /\ Cardinality(new) \in Nat /\ Cardinality(new) <= Cardinality(Chunk(f, at[i]))
             /\ Cardinality(Chunk(f, at[i])) \in Nat
             /\ processed[i] \in Nat /\ WholeChunks(processed[i])
<1> DEFINE f == file[i]
           n == at[i]
           m == ChunkEnd(f, n)
           t == Inserted(db, f, Chunk(f, n), home[i])
           new == {e \in Emails : db[e] # t[e]}
<1>1. Len(f) \in Nat /\ n \in 0..Len(f)
  BY ImportIsWithinFile
<1>2. /\ ipc[i] = "store" /\ db' = t /\ known' = known \cup Identities(t)
      /\ UNCHANGED <<file, home>> /\ brought'[i] = brought[i] \cup new
  BY DEF StoreChunk, ListsTypeOK, ImportTypeOK
<1>3. /\ answer[i][2] # "count" /\ home[i] \in Apartments /\ Bad(f, n) = {}
      /\ \A k \in Before(f, n) : {f[k].email, f[k].contact} \cap known # {}
      /\ brought[i] \subseteq {f[k].email : k \in Before(f, n)} /\ Readable(f, n)
      /\ processed[i] = Cardinality(Before(f, n)) /\ WholeChunks(processed[i])
  BY <1>2 DEF ImportFacts
<1>4. /\ Extends(t, db, f, Chunk(f, n)) /\ new \subseteq {f[k].email : k \in Chunk(f, n)}
      /\ IsFiniteSet(new) /\ Cardinality(new) \in Nat
      /\ Cardinality(new) <= Cardinality(Chunk(f, n))
  <2>1. ipc[i] = "store" /\ home[i] \in Apartments
    BY <1>2, <1>3
  <2>2. Extends(t, db, f, Chunk(f, n))
    BY <2>1, StatementOfImport
  <2>3. new \subseteq {f[k].email : k \in Chunk(f, n)}
    BY <2>2 DEF Extends
  <2>4. IsFiniteSet(new) /\ Cardinality(new) \in Nat
    BY <2>1, StatementOfImport
  <2>5. Cardinality(new) <= Cardinality(Chunk(f, n))
    BY <2>1, StatementOfImport
  <2> QED
    BY <2>2, <2>3, <2>4, <2>5
<1>5. /\ Before(f, m) = Before(f, n) \cup Chunk(f, n) /\ Cardinality(Chunk(f, n)) \in Nat
      /\ Cardinality(Before(f, m)) = Cardinality(Before(f, n)) + Cardinality(Chunk(f, n))
  BY <1>1, ChunkFollows
<1>6. Readable(f, m)
  <2>1. m \in n..Len(f)
    BY <1>1, ChunkEndIsReached
  <2> QED
    BY <1>1, <1>3, <2>1 DEF Readable, Bad
<1>7. brought[i] \cup new \subseteq {f[k].email : k \in Before(f, m)}
  BY <1>3, <1>4, <1>5
<1>8. \A k \in Before(f, m) : {f[k].email, f[k].contact} \cap known' # {}
  BY <1>2, <1>3, <1>4, <1>5 DEF Extends
<1>9. /\ IsFiniteSet(brought[i]) /\ Cardinality(brought[i]) \in Nat
      /\ Cardinality(brought[i]) <= processed[i]
  <2>1. IsFiniteSet(Before(f, n))
    BY <1>1, LinesAreFinite
  <2> QED
    BY <1>3, <2>1, ImageIsSmaller
<1>10. /\ Cardinality(brought[i] \cup new) \in Nat
       /\ Cardinality(brought[i] \cup new) <= Cardinality(brought[i]) + Cardinality(new)
  <2>1. /\ IsFiniteSet(brought[i] \cup new)
        /\ Cardinality(brought[i] \cup new) =
             Cardinality(brought[i]) + Cardinality(new) - Cardinality(brought[i] \cap new)
    BY <1>4, <1>9, FS_Union
  <2>2. Cardinality(brought[i] \cap new) \in Nat
    BY <1>9, FS_Intersection, FS_CardinalityType
  <2>3. Cardinality(brought[i] \cup new) \in Nat
    BY <2>1, FS_CardinalityType
  <2> QED
    BY <1>4, <1>9, <2>1, <2>2, <2>3
<1>11. processed[i] \in Nat
  BY DEF ListsTypeOK, ImportTypeOK
<1>12. new = {e \in Emails : db[e] # db'[e]}
  BY <1>2
<1>13. Cardinality(Before(f, m)) = processed[i] + Cardinality(Chunk(f, n))
  BY <1>3, <1>5
<1> HIDE DEF m, t, new, f, n
<1> QED
  BY <1>2, <1>3, <1>4, <1>5, <1>6, <1>7, <1>8, <1>9, <1>10, <1>11, <1>12, <1>13 DEF f, n, m

\* A statement adds one chunk, or what is left of the file, and its count.
LEMMA StoreChunkStep ==
  ASSUME ListsTypeOK, NEW i \in Imports, ImportFacts(i), StoreChunk(i)
  PROVE  ImportFacts(i)'
<1> DEFINE f == file[i]
           n == at[i]
           m == ChunkEnd(f, n)
           new == {e \in Emails : db[e] # db'[e]}
<1>1. /\ file'[i] = f /\ home'[i] = home[i] /\ brought'[i] = brought[i] \cup new
      /\ Readable(f, m) /\ brought'[i] \subseteq {f[k].email : k \in Before(f, m)}
      /\ \A k \in Before(f, m) : {f[k].email, f[k].contact} \cap known' # {}
      /\ Cardinality(Before(f, m)) = processed[i] + Cardinality(Chunk(f, n))
      /\ Cardinality(brought[i]) \in Nat /\ Cardinality(brought[i]) <= processed[i]
      /\ Cardinality(brought'[i]) \in Nat
      /\ Cardinality(brought'[i]) <= Cardinality(brought[i]) + Cardinality(new)
      /\ Cardinality(new) \in Nat /\ Cardinality(new) <= Cardinality(Chunk(f, n))
      /\ Cardinality(Chunk(f, n)) \in Nat
      /\ processed[i] \in Nat /\ WholeChunks(processed[i])
  BY StoredMore
<1>2. /\ Len(f) \in Nat /\ n \in 0..Len(f) /\ ipc[i] = "store"
      /\ answer[i] = <<0, "none">> /\ home[i] \in Apartments
  BY ImportIsWithinFile DEF StoreChunk, ImportFacts
<1>3. CASE Fills(f, n)
  <2>1. Loop(i, f, m) /\ processed'[i] = processed[i] + ChunkSize
    BY <1>3 DEF StoreChunk, ListsTypeOK, ImportTypeOK
  <2>2. /\ at'[i] = m
        /\ \/ /\ Bad(f, m) # {} /\ ipc'[i] = "done"
              /\ answer'[i] \in {<<0, "INVALID_INPUT">>, <<0, "ERROR">>}
           \/ Bad(f, m) = {} /\ ipc'[i] = "store" /\ answer'[i] = <<0, "none">>
    BY <1>2, <2>1, LoopOutcome
  <2>3. processed'[i] = Cardinality(Before(f, m)) /\ WholeChunks(processed'[i])
    <3>1. Cardinality(Chunk(f, n)) = ChunkSize
      BY <1>2, <1>3, ChunkEndIsReached
    <3> QED
      BY <1>1, <2>1, <3>1, OneMoreIsWhole
  <2> HIDE DEF m, new
  <2> QED
    BY <1>1, <1>2, <2>2, <2>3 DEF ImportFacts
<1>4. CASE ~Fills(f, n)
  <2>1. /\ at'[i] = Len(f) /\ ipc'[i] = "done"
        /\ answer'[i] = <<processed[i] + Cardinality(new), "count">>
    BY <1>4 DEF StoreChunk, ListsTypeOK, ImportTypeOK
  <2>2. m = Len(f)
    BY <1>2, <1>4, ChunkEndIsReached
  <2>3. answer'[i][1] \in Cardinality(brought'[i]) .. Cardinality(Before(f, m))
    BY <1>1, <2>1
  <2>4. ASSUME Cardinality(Before(f, m)) < ChunkSize
        PROVE  answer'[i][1] = Cardinality(brought'[i])
    <3>1. processed[i] = 0
      <4>1. PICK w \in Nat : processed[i] = w * ChunkSize
        BY <1>1 DEF WholeChunks
      <4>2. w # 0 => w * ChunkSize >= ChunkSize
        BY <4>1, ChunksHaveRows
      <4> QED
        BY <1>1, <2>4, <4>1, <4>2, ChunksHaveRows
    <3>2. brought[i] = {}
      <4>1. IsFiniteSet(brought[i])
        <5>1. IsFiniteSet(Before(f, n)) /\ brought[i] \subseteq {f[k].email : k \in Before(f, n)}
          BY <1>2, LinesAreFinite DEF ImportFacts
        <5> QED
          BY <5>1, ImageIsSmaller
      <4> QED
        BY <1>1, <3>1, <4>1, FS_EmptySet
    <3> QED
      BY <1>1, <2>1, <3>1, <3>2
  <2> HIDE DEF m, new
  <2> QED
    BY <1>1, <1>2, <2>1, <2>2, <2>3, <2>4 DEF ImportFacts
<1> QED
  BY <1>3, <1>4

\* Nobody's step makes an import forget what it has stored.
LEMMA ImportStepKeepsFacts ==
  ASSUME ListsTypeOK, NEW i \in Imports, ImportStep(i), NEW j \in Imports, ImportFacts(j)
  PROVE  ImportFacts(j)'
<1>1. CASE j = i
  BY <1>1, BeginStep, StoreChunkStep, FailImportStep DEF ImportStep
<1>2. CASE j # i
  <2>1. /\ known \subseteq known' /\ file'[j] = file[j] /\ home'[j] = home[j] /\ ipc'[j] = ipc[j]
        /\ at'[j] = at[j] /\ processed'[j] = processed[j] /\ answer'[j] = answer[j]
        /\ brought'[j] = brought[j]
    BY <1>2 DEF ImportStep, Begin, StoreChunk, FailImport, Loop, ListsTypeOK, ImportTypeOK
  <2> QED
    BY <2>1, ImportRests
<1> QED
  BY <1>1, <1>2

-----------------------------------------------------------------------------
(***************************************************************************)
(* The types.                                                              *)
(***************************************************************************)

\* The loop keeps the types of what it assigns.
LEMMA LoopTypes ==
  ASSUME ListsTypeOK, NEW i \in Imports, NEW f, NEW n, Loop(i, f, n)
  PROVE  /\ at' = [at EXCEPT ![i] = n]
         /\ ipc' \in [Imports -> {"idle", "store", "done"}]
         /\ answer' \in [Imports -> Nat \X {"count"} \cup {0} \X Refusals]
<1>1. \A line : Refusal(line) \in Refusals
  BY DEF Refusal, Refusals
<1>2. answer' \in [Imports -> Nat \X {"count"} \cup {0} \X Refusals]
  <2>1. \/ answer' = answer
        \/ \E why \in Refusals : answer' = [answer EXCEPT ![i] = <<0, why>>]
    BY <1>1 DEF Loop
  <2>2. answer \in [Imports -> Nat \X {"count"} \cup {0} \X Refusals]
    BY DEF ListsTypeOK, ImportTypeOK
  <2>3. \A why \in Refusals : <<0, why>> \in Nat \X {"count"} \cup {0} \X Refusals
    OBVIOUS
  <2>4. CASE \E why \in Refusals : answer' = [answer EXCEPT ![i] = <<0, why>>]
    <3>1. PICK why \in Refusals : answer' = [answer EXCEPT ![i] = <<0, why>>]
      BY <2>4
    <3>2. <<0, why>> \in Nat \X {"count"} \cup {0} \X Refusals
      BY <2>3
    <3> QED
      BY <2>2, <3>1, <3>2
  <2> QED
    BY <2>1, <2>2, <2>4
<1> QED
  BY <1>2 DEF Loop, ListsTypeOK, ImportTypeOK

\* An import keeps the types.
LEMMA ImportTypeStep ==
  ASSUME ListsTypeOK, NEW i \in Imports, ImportFacts(i), ImportStep(i)
  PROVE  ImportTypeOK'
<1> USE DEF ListsTypeOK, ImportTypeOK
<1>1. CASE Begin(i)
  <2>1. ASSUME NEW f \in Files, NEW a \in Apartments, file' = [file EXCEPT ![i] = f],
               home' = [home EXCEPT ![i] = a], Loop(i, f, 0),
               UNCHANGED <<db, processed, known, brought>>
        PROVE  ImportTypeOK'
    <3>1. Len(f) \in Nat
      BY FilesHaveLengths
    <3>2. /\ at' = [at EXCEPT ![i] = 0] /\ ipc' \in [Imports -> {"idle", "store", "done"}]
          /\ answer' \in [Imports -> Nat \X {"count"} \cup {0} \X Refusals]
      BY <2>1, LoopTypes
    <3>3. at' \in [Imports -> Nat] /\ \A j \in Imports : at'[j] <= Len(file'[j])
      BY <2>1, <3>1, <3>2
    <3> QED
      BY <2>1, <3>2, <3>3
  <2>2. ASSUME NEW why \in Unread, ipc' = [ipc EXCEPT ![i] = "done"],
               answer' = [answer EXCEPT ![i] = <<0, why>>],
               UNCHANGED <<file, home, at, db, processed, known, brought>>
        PROVE  ImportTypeOK'
    BY <2>2 DEF Unread, Refusals
  <2> QED
    BY <1>1, <2>1, <2>2 DEF Begin
<1>2. CASE StoreChunk(i)
  <2> DEFINE f == file[i]
             n == at[i]
             m == ChunkEnd(f, n)
             t == Inserted(db, f, Chunk(f, n), home[i])
             new == {e \in Emails : db[e] # t[e]}
  <2>1. Len(f) \in Nat /\ n \in 0..Len(f) /\ m \in n..Len(f)
    BY ImportIsWithinFile, ChunkEndIsReached
  <2>2. ipc[i] = "store" /\ home[i] \in Apartments
    BY <1>2 DEF StoreChunk, ImportFacts
  <2>3. Extends(t, db, f, Chunk(f, n))
    BY <2>2, StatementOfImport
  <2>4. t \in [Emails -> Row \cup {Absent}] /\ Cardinality(new) \in Nat
    BY <2>2, <2>3, StatementOfImport DEF Extends
  <2>5. db' = t /\ known' = known \cup Identities(t) /\ UNCHANGED <<file, home>>
        /\ brought' = [brought EXCEPT ![i] = @ \cup new]
    BY <1>2 DEF StoreChunk
  <2>6. Identities(t) \subseteq Emails \cup Contacts
    BY <2>4 DEF Identities, Row
  <2>7. /\ at' \in [Imports -> Nat] /\ \A j \in Imports : at'[j] <= Len(file[j])
        /\ ipc' \in [Imports -> {"idle", "store", "done"}] /\ processed' \in [Imports -> Nat]
        /\ answer' \in [Imports -> Nat \X {"count"} \cup {0} \X Refusals]
    <3>1. CASE Fills(f, n)
      <4>1. Loop(i, f, m) /\ processed' = [processed EXCEPT ![i] = @ + ChunkSize]
        BY <1>2, <3>1 DEF StoreChunk
      <4> HIDE DEF m
      <4> QED
        <5>1. /\ at' = [at EXCEPT ![i] = m] /\ ipc' \in [Imports -> {"idle", "store", "done"}]
              /\ answer' \in [Imports -> Nat \X {"count"} \cup {0} \X Refusals]
          BY <4>1, LoopTypes
        <5>2. at' \in [Imports -> Nat] /\ \A j \in Imports : at'[j] <= Len(file[j])
          BY <2>1, <5>1
        <5>3. processed' \in [Imports -> Nat]
          BY <4>1, ChunksHaveRows
        <5> QED
          BY <5>1, <5>2, <5>3
    <3>2. CASE ~Fills(f, n)
      <4>1. /\ at' = [at EXCEPT ![i] = Len(f)] /\ ipc' = [ipc EXCEPT ![i] = "done"]
            /\ answer' = [answer EXCEPT ![i] = <<processed[i] + Cardinality(new), "count">>]
            /\ UNCHANGED processed
        BY <1>2, <3>2 DEF StoreChunk
      <4> HIDE DEF new
      <4> QED
        BY <2>1, <2>4, <4>1
    <3> QED
      BY <3>1, <3>2
  <2> HIDE DEF t
  <2> QED
    BY <2>4, <2>5, <2>6, <2>7
<1>3. CASE FailImport(i)
  BY <1>3 DEF FailImport, Refusals
<1> QED
  BY <1>1, <1>2, <1>3 DEF ImportStep

\* The rows a command can leave behind.
TableTypes == [Emails -> Row \cup {Absent}]

\* Emails and contacts of rows are emails and contacts.
LEMMA IdentitiesAreKnown == \A t \in TableTypes : Identities(t) \subseteq Emails \cup Contacts
  BY DEF Identities, TableTypes, Row

\* What doubt is thrown on a list is the kind of a command, or that the entry was
\* late or its deletion lost.
Whys == DOMAIN Evicts \cup {"late", "lost"}

\* Doubt keeps the types of entries and doubts.
LEMMA DoubtTypes ==
  ASSUME ListsTypeOK, NEW L, NEW why \in Whys, Doubt(L, why)
  PROVE  /\ entry' \in [Lists -> CachedPage \cup {NoEntry}]
         /\ doubt' \in [Lists -> SUBSET Whys]
<1>1. doubt \in [Lists -> SUBSET Whys] /\ entry \in [Lists -> CachedPage \cup {NoEntry}]
  BY DEF ListsTypeOK, Whys
<1> QED
  BY <1>1 DEF Doubt

\* So does the deletion of keys.
LEMMA DropTypes ==
  ASSUME ListsTypeOK, NEW L, Drop(L)
  PROVE  /\ entry' \in [Lists -> CachedPage \cup {NoEntry}]
         /\ doubt' \in [Lists -> SUBSET Whys]
<1>1. doubt \in [Lists -> SUBSET Whys] /\ entry \in [Lists -> CachedPage \cup {NoEntry}]
  BY DEF ListsTypeOK, Whys
<1> QED
  BY <1>1 DEF Drop

\* And the deletion of some of them.
LEMMA DropRestTypes ==
  ASSUME ListsTypeOK, NEW L, NEW K, DropRest(L, K)
  PROVE  /\ entry' \in [Lists -> CachedPage \cup {NoEntry}]
         /\ doubt' \in [Lists -> SUBSET Whys]
<1>1. doubt \in [Lists -> SUBSET Whys] /\ entry \in [Lists -> CachedPage \cup {NoEntry}]
  BY DEF ListsTypeOK, Whys
<1>2. ASSUME NEW l \in Lists PROVE doubt[l] \cup {"lost"} \in SUBSET Whys /\ {} \in SUBSET Whys
  BY <1>1 DEF Whys
<1> QED
  BY <1>1, <1>2 DEF DropRest

\* A page shows rows of residents.
LEMMA PageIsPage ==
  ASSUME ListsTypeOK, NEW l, NEW a \in Apartments
  PROVE  [page |-> Page(l, a), home |-> a] \in CachedPage
<1>1. \A e \in Emails : db[e] # Absent => db[e].contact \in Contacts /\ db[e].status \in Status
  BY DEF ListsTypeOK, ImportTypeOK, Row
<1>2. Page(l, a) \subseteq Emails \X Contacts \X Status
  BY <1>1 DEF Page
<1> QED
  BY <1>2 DEF CachedPage

\* One command changes the table.
LEMMA ChangeStep ==
  ASSUME ListsInv, NEW r \in Commands, NEW k \in DOMAIN Evicts, NEW t \in TableTypes, Change(r, k, t)
  PROVE  /\ ListsTypeOK' /\ QueryFacts' /\ CommandFacts'
         /\ \A i \in Imports : ImportFacts(i)'
<1> USE DEF ListsInv
<1>1. ListsTypeOK'
  <2>1. /\ entry' \in [Lists -> CachedPage \cup {NoEntry}]
        /\ doubt' \in [Lists -> SUBSET (DOMAIN Evicts \cup {"late", "lost"})]
    BY DoubtTypes DEF Change, Whys
  <2>2. ImportTypeOK'
    BY IdentitiesAreKnown DEF Change, importVars, ListsTypeOK, ImportTypeOK, TableTypes
  <2>3. /\ kind' \in [Commands -> DOMAIN Evicts \cup {"none"}]
        /\ cpc' \in [Commands -> {"idle", "evict", "done"}]
    BY DEF Change, ListsTypeOK
  <2> QED
    BY <2>1, <2>2, <2>3 DEF Change, queryVars, ListsTypeOK
<1>2. QueryFacts'
  BY DEF Change, queryVars, QueryFacts
<1>3. CommandFacts'
  BY DEF Change, CommandFacts, ListsTypeOK
<1>4. \A i \in Imports : ImportFacts(i)'
  BY ImportRests DEF Change, importVars
<1> QED
  BY <1>1, <1>2, <1>3, <1>4

\* A list whose page has changed has a cause, if the command deletes its key or
\* is known to forget it.
LEMMA ChangeHasCause ==
  ASSUME ListsInv, NEW r \in Commands, NEW k \in DOMAIN Evicts, NEW t \in TableTypes, Change(r, k, t),
         \A l \in Lists : \/ l \in Evicts[k] \/ k \in Forgotten[l]
                          \/ \A a \in Apartments : Page(l, a)' = Page(l, a)
  PROVE  StaleListHasCause'
<1> SUFFICES ASSUME NEW l \in Lists, entry'[l] # NoEntry, entry'[l].page # Page(l, entry[l].home)'
             PROVE  \/ doubt'[l] \cap ({"late", "lost"} \cup Forgotten[l]) # {}
                    \/ \E s \in Commands : cpc'[s] = "evict" /\ l \in Evicts[kind'[s]]
  BY DEF StaleListHasCause
<1>1. entry' = entry /\ entry[l].home \in Apartments
  BY DEF Change, Doubt, ListsInv, ListsTypeOK, CachedPage
<1>2. cpc[r] = "idle" /\ kind'[r] = k /\ (Evicts[k] # {} => cpc'[r] = "evict")
      /\ \A s \in Commands \ {r} : cpc'[s] = cpc[s] /\ kind'[s] = kind[s]
  BY DEF Change, ListsInv, ListsTypeOK
<1>3. doubt'[l] = IF l \notin Evicts[k] THEN doubt[l] \cup {k} ELSE doubt[l]
  BY <1>1 DEF Change, Doubt
<1>4. CASE l \in Evicts[k]
  BY <1>2, <1>4
<1>5. CASE l \notin Evicts[k] /\ k \in Forgotten[l]
  BY <1>3, <1>5
<1>6. CASE Page(l, entry[l].home)' = Page(l, entry[l].home)
  <2>1. entry[l].page # Page(l, entry[l].home)
    BY <1>1, <1>6
  <2>2. \/ doubt[l] \cap ({"late", "lost"} \cup Forgotten[l]) # {}
        \/ \E s \in Commands : cpc[s] = "evict" /\ l \in Evicts[kind[s]]
    BY <1>1, <2>1 DEF ListsInv, StaleListHasCause
  <2>3. doubt[l] \subseteq doubt'[l]
    BY <1>3
  <2> QED
    BY <1>2, <2>2, <2>3
<1> QED
  BY <1>1, <1>4, <1>5, <1>6

\* A resident who has not joined is not on the page of those who have.
LEMMA JoinedPageIsKept ==
  ASSUME NEW t, db' = t,
         \A e \in Emails : t[e] # db[e] => db[e] = Absent /\ t[e] # Absent /\ t[e].status = "NOT_JOINED"
  PROVE  \A a \in Apartments : Page("residentAccounts", a)' = Page("residentAccounts", a)
<1> DEFINE Shown(table, a) ==
             {d \in Emails : table[d] # Absent /\ table[d].home = a /\ table[d].status \in Joined}
<1> SUFFICES ASSUME NEW a \in Apartments
             PROVE  Page("residentAccounts", a)' = Page("residentAccounts", a)
  OBVIOUS
<1>1. Shown(t, a) = Shown(db, a) /\ \A e \in Shown(db, a) : t[e] = db[e]
  BY DEF Joined
<1>2. /\ Page("residentAccounts", a)' = {<<e, t[e].contact, t[e].status>> : e \in Shown(t, a)}
      /\ Page("residentAccounts", a) = {<<e, db[e].contact, db[e].status>> : e \in Shown(db, a)}
  BY DEF Page, Shows
<1> HIDE DEF Shown
<1> QED
  BY <1>1, <1>2

\* A command that changes the table keeps the invariant.
LEMMA CommandStep ==
  ASSUME ListsInv, NEW r \in Commands, NEW k \in DOMAIN Evicts, NEW t \in TableTypes, Change(r, k, t),
         \A l \in Lists : \/ l \in Evicts[k] \/ k \in Forgotten[l]
                          \/ \A a \in Apartments : Page(l, a)' = Page(l, a)
  PROVE  ListsInv'
  BY ChangeStep, ChangeHasCause DEF ListsInv

\* Commands that delete the key of each list, or are known not to.
LEMMA CoveredKinds ==
  /\ DOMAIN Evicts = {"signUp", "promote", "register", "decide", "decideAll", "edit", "delete",
                      "deleteRejected", "import"}
  /\ \A k \in DOMAIN Evicts \ {"register", "import"} :
       \A l \in Lists : l \in Evicts[k] \/ k \in Forgotten[l]
  /\ "residents" \in Evicts["register"] /\ Evicts["import"] = {} /\ "import" \in Forgotten["residents"]
  BY DEF Evicts, Forgotten, Lists

\* A command on one resident leaves a table.
LEMMA OneRow ==
  ASSUME ListsInv, NEW e \in Emails, NEW new \in Row \cup {Absent}
  PROVE  With(e, new) \in TableTypes
  BY DEF ListsInv, ListsTypeOK, ImportTypeOK, TableTypes, With

\* What the commands write are rows.
LEMMA RowsOfResidents ==
  ASSUME ListsInv
  PROVE  /\ \A line \in Entry, a \in Apartments :
              /\ line.email \in Emails /\ NewResident(line, a) \in Row
              /\ [NewResident(line, a) EXCEPT !.status = "PENDING"] \in Row
         /\ \A e \in Emails : db[e] # Absent =>
              /\ db[e] \in Row
              /\ \A s \in Status : [db[e] EXCEPT !.status = s] \in Row
              /\ \A c \in Contacts : [db[e] EXCEPT !.contact = c] \in Row
<1>1. \A e \in Emails : db[e] \in Row \cup {Absent}
  BY DEF ListsInv, ListsTypeOK, ImportTypeOK
<1> QED
  BY <1>1 DEF Entry, NewResident, Row, Status

\* A sign-up deletes both keys; a registered resident is not on the second list.
LEMMA InsertStep ==
  ASSUME ListsInv, NEW r \in Commands, Insert(r)
  PROVE  ListsInv'
<1>1. PICK line \in Entry, a \in Apartments :
        /\ ~Taken(db, line)
        /\ \/ Change(r, "register", With(line.email, NewResident(line, a)))
           \/ Change(r, "signUp", With(line.email, [NewResident(line, a) EXCEPT !.status = "PENDING"]))
  BY DEF Insert
<1>2. CASE Change(r, "register", With(line.email, NewResident(line, a)))
  <2> DEFINE t == With(line.email, NewResident(line, a))
  <2>1. t \in TableTypes
    BY RowsOfResidents, OneRow
  <2>2. \A e \in Emails : t[e] # db[e] =>
          db[e] = Absent /\ t[e] # Absent /\ t[e].status = "NOT_JOINED"
    <3>1. db[line.email] = Absent
      BY <1>1 DEF Taken
    <3>2. NewResident(line, a) # Absent /\ NewResident(line, a).status = "NOT_JOINED"
      BY RowsOfResidents, AbsentIsNoRow DEF NewResident
    <3> QED
      BY <3>1, <3>2 DEF With, ListsInv, ListsTypeOK, ImportTypeOK
  <2>3. db' = t
    BY <1>2 DEF Change
  <2> HIDE DEF t
  <2>4. \A b \in Apartments : Page("residentAccounts", b)' = Page("residentAccounts", b)
    BY <2>2, <2>3, JoinedPageIsKept
  <2>5. Lists = {"residents", "residentAccounts"}
    BY DEF Lists
  <2> QED
    BY <1>2, <2>1, <2>4, <2>5, CommandStep, CoveredKinds DEF t
<1>3. CASE Change(r, "signUp", With(line.email, [NewResident(line, a) EXCEPT !.status = "PENDING"]))
  <2>1. With(line.email, [NewResident(line, a) EXCEPT !.status = "PENDING"]) \in TableTypes
    BY RowsOfResidents, OneRow
  <2> QED
    BY <1>3, <2>1, CommandStep, CoveredKinds
<1> QED
  BY <1>1, <1>2, <1>3

\* A sign-up of a registered resident deletes no key, and is known not to.
LEMMA PromoteStep ==
  ASSUME ListsInv, NEW r \in Commands, Promote(r)
  PROVE  ListsInv'
<1>1. PICK e \in Emails :
        db[e] # Absent /\ Change(r, "promote", With(e, [db[e] EXCEPT !.status = "PENDING"]))
  BY DEF Promote
<1>2. With(e, [db[e] EXCEPT !.status = "PENDING"]) \in TableTypes
  BY <1>1, RowsOfResidents, OneRow DEF Status
<1> QED
  BY <1>1, <1>2, CommandStep, CoveredKinds

\* The decision on one account deletes both keys.
LEMMA DecideStep ==
  ASSUME ListsInv, NEW r \in Commands, Decide(r)
  PROVE  ListsInv'
<1>1. PICK e \in Emails, s \in Joined :
        db[e] # Absent /\ Change(r, "decide", With(e, [db[e] EXCEPT !.status = s]))
  BY DEF Decide
<1>2. With(e, [db[e] EXCEPT !.status = s]) \in TableTypes
  BY <1>1, RowsOfResidents, OneRow DEF Status, Joined
<1> QED
  BY <1>1, <1>2, CommandStep, CoveredKinds

\* The decision on all accounts deletes both keys.
LEMMA DecideAllStep ==
  ASSUME ListsInv, NEW r \in Commands, DecideAll(r)
  PROVE  ListsInv'
<1>1. PICK a \in Apartments, s \in Joined :
        LET asking == {e \in Emails : db[e] # Absent /\ db[e].home = a /\ db[e].status = "PENDING"}
        IN Change(r, "decideAll",
             [e \in Emails |-> IF e \in asking THEN [db[e] EXCEPT !.status = s] ELSE db[e]])
  BY DEF DecideAll
<1> DEFINE asking == {e \in Emails : db[e] # Absent /\ db[e].home = a /\ db[e].status = "PENDING"}
           t == [e \in Emails |-> IF e \in asking THEN [db[e] EXCEPT !.status = s] ELSE db[e]]
<1>2. t \in TableTypes
  <2>1. \A e \in Emails : db[e] \in Row \cup {Absent}
    BY DEF ListsInv, ListsTypeOK, ImportTypeOK
  <2>2. \A e \in asking : [db[e] EXCEPT !.status = s] \in Row
    BY <1>1, RowsOfResidents DEF Status, Joined
  <2> QED
    BY <2>1, <2>2 DEF TableTypes
<1> QED
  BY <1>1, <1>2, CommandStep, CoveredKinds

\* An edit deletes the first key, and is known to forget the second.
LEMMA EditStep ==
  ASSUME ListsInv, NEW r \in Commands, Edit(r)
  PROVE  ListsInv'
<1>1. PICK e \in Emails, c \in Contacts :
        db[e] # Absent /\ Change(r, "edit", With(e, [db[e] EXCEPT !.contact = c]))
  BY DEF Edit
<1>2. With(e, [db[e] EXCEPT !.contact = c]) \in TableTypes
  BY <1>1, RowsOfResidents, OneRow
<1> QED
  BY <1>1, <1>2, CommandStep, CoveredKinds

\* So does the deletion of a resident.
LEMMA DeleteStep ==
  ASSUME ListsInv, NEW r \in Commands, Delete(r)
  PROVE  ListsInv'
<1>1. PICK e \in Emails : Change(r, "delete", With(e, Absent))
  BY DEF Delete
<1>2. With(e, Absent) \in TableTypes
  BY OneRow
<1> QED
  BY <1>1, <1>2, CommandStep, CoveredKinds

\* The deletion of rejected accounts deletes both keys.
LEMMA DeleteRejectedStep ==
  ASSUME ListsInv, NEW r \in Commands, DeleteRejected(r)
  PROVE  ListsInv'
<1>1. PICK a \in Apartments :
        Change(r, "deleteRejected",
          [e \in Emails |-> IF db[e] # Absent /\ db[e].home = a /\ db[e].status = "REJECTED"
                            THEN Absent ELSE db[e]])
  BY DEF DeleteRejected
<1>2. [e \in Emails |-> IF db[e] # Absent /\ db[e].home = a /\ db[e].status = "REJECTED"
                        THEN Absent ELSE db[e]] \in TableTypes
  BY DEF ListsInv, ListsTypeOK, ImportTypeOK, TableTypes
<1> QED
  BY <1>1, <1>2, CommandStep, CoveredKinds

-----------------------------------------------------------------------------
(***************************************************************************)
(* The steps that leave the table as it is.                                *)
(***************************************************************************)
LEMMA ImportsRest ==
  ASSUME ListsInv, UNCHANGED <<db, known, importVars, ipc>>
  PROVE  ImportTypeOK' /\ \A i \in Imports : ImportFacts(i)'
<1>1. ImportTypeOK'
  BY DEF ListsInv, ListsTypeOK, ImportTypeOK, importVars
<1>2. \A i \in Imports : ImportFacts(i)'
  BY ImportRests DEF ListsInv, importVars
<1> QED
  BY <1>1, <1>2

\* A page changes only with the table.
LEMMA PagesRest == db' = db => \A l, a : Page(l, a)' = Page(l, a)
  BY DEF Page

\* A list whose key is left alone has the cause it had, if no command has left
\* that was about to delete its key.
LEMMA CauseRests ==
  ASSUME ListsInv, UNCHANGED db, NEW l \in Lists, entry'[l] # NoEntry,
         entry'[l] = entry[l], doubt[l] \subseteq doubt'[l],
         \A s \in Commands : cpc[s] = "evict" /\ l \in Evicts[kind[s]] =>
            \/ cpc'[s] = "evict" /\ kind'[s] = kind[s]
            \/ doubt'[l] \cap {"late", "lost"} # {},
         entry[l].page # Page(l, entry[l].home)
  PROVE  \/ doubt'[l] \cap ({"late", "lost"} \cup Forgotten[l]) # {}
         \/ \E s \in Commands : cpc'[s] = "evict" /\ l \in Evicts[kind'[s]]
  BY DEF ListsInv, StaleListHasCause

\* An entry that is gone is not wrong.
LEMMA EntryExpiresStep == ListsInv /\ EntryExpires => ListsInv'
<1> SUFFICES ASSUME ListsInv, EntryExpires PROVE ListsInv'
  OBVIOUS
<1>1. PICK l \in Lists : Drop({l})
  BY DEF EntryExpires
<1>2. UNCHANGED <<db, known, importVars, ipc, queryVars, cpc, kind>>
  BY DEF EntryExpires
<1>3. ImportTypeOK' /\ \A i \in Imports : ImportFacts(i)'
  BY <1>2, ImportsRest
<1>4. ListsTypeOK'
  BY <1>1, <1>2, <1>3, DropTypes DEF ListsInv, ListsTypeOK, queryVars, Whys
<1>5. QueryFacts' /\ CommandFacts'
  BY <1>2 DEF ListsInv, QueryFacts, CommandFacts, queryVars
<1>6. StaleListHasCause'
  <2> SUFFICES ASSUME NEW m \in Lists, entry'[m] # NoEntry, entry'[m].page # Page(m, entry[m].home)'
               PROVE  \/ doubt'[m] \cap ({"late", "lost"} \cup Forgotten[m]) # {}
                      \/ \E s \in Commands : cpc'[s] = "evict" /\ m \in Evicts[kind'[s]]
    BY DEF StaleListHasCause
  <2>1. entry'[m] = entry[m] /\ doubt'[m] = doubt[m]
    BY <1>1 DEF Drop
  <2>2. entry[m].page # Page(m, entry[m].home)
    BY <1>2, <2>1 DEF Page
  <2> QED
    BY <1>2, <2>1, <2>2, CauseRests
<1> QED
  BY <1>3, <1>4, <1>5, <1>6 DEF ListsInv

\* A command that leaves has deleted the keys it had to.
LEMMA DeleteKeysStep ==
  ASSUME ListsInv, NEW r \in Commands, DeleteKeys(r)
  PROVE  ListsInv'
<1>1. /\ cpc[r] = "evict" /\ cpc' = [cpc EXCEPT ![r] = "done"] /\ Drop(Evicts[kind[r]])
      /\ UNCHANGED <<db, known, importVars, ipc, queryVars, kind>>
  BY DEF DeleteKeys
<1>2. ImportTypeOK' /\ \A i \in Imports : ImportFacts(i)'
  BY <1>1, ImportsRest
<1>3. ListsTypeOK'
  BY <1>1, <1>2, DropTypes DEF ListsInv, ListsTypeOK, queryVars, Whys
<1>4. QueryFacts' /\ CommandFacts'
  BY <1>1 DEF ListsInv, ListsTypeOK, QueryFacts, CommandFacts, queryVars
<1>5. StaleListHasCause'
  <2> SUFFICES ASSUME NEW m \in Lists, entry'[m] # NoEntry, entry'[m].page # Page(m, entry[m].home)'
               PROVE  \/ doubt'[m] \cap ({"late", "lost"} \cup Forgotten[m]) # {}
                      \/ \E s \in Commands : cpc'[s] = "evict" /\ m \in Evicts[kind'[s]]
    BY DEF StaleListHasCause
  <2>1. m \notin Evicts[kind[r]] /\ entry'[m] = entry[m] /\ doubt'[m] = doubt[m]
    BY <1>1 DEF Drop
  <2>2. entry[m].page # Page(m, entry[m].home)
    BY <1>1, <2>1 DEF Page
  <2>3. \A s \in Commands : cpc[s] = "evict" /\ m \in Evicts[kind[s]] => cpc'[s] = "evict"
    BY <1>1, <2>1 DEF ListsInv, ListsTypeOK
  <2> QED
    BY <1>1, <2>1, <2>2, <2>3, CauseRests
<1> QED
  BY <1>2, <1>3, <1>4, <1>5 DEF ListsInv

\* Or a deletion is lost, and the entry knows.
LEMMA LoseEvictionStep ==
  ASSUME ListsInv, NEW r \in Commands, LoseEviction(r)
  PROVE  ListsInv'
<1>1. /\ cpc[r] = "evict" /\ cpc' = [cpc EXCEPT ![r] = "done"]
      /\ UNCHANGED <<db, known, importVars, ipc, queryVars, kind>>
  BY DEF LoseEviction
<1>6. PICK L \in SUBSET Evicts[kind[r]] : DropRest(L, Evicts[kind[r]])
  BY DEF LoseEviction
<1>2. ImportTypeOK' /\ \A i \in Imports : ImportFacts(i)'
  BY <1>1, ImportsRest
<1>3. ListsTypeOK'
  BY <1>1, <1>2, <1>6, DropRestTypes DEF ListsInv, ListsTypeOK, queryVars, Whys
<1>4. QueryFacts' /\ CommandFacts'
  BY <1>1 DEF ListsInv, ListsTypeOK, QueryFacts, CommandFacts, queryVars
<1>5. StaleListHasCause'
  <2> SUFFICES ASSUME NEW m \in Lists, entry'[m] # NoEntry, entry'[m].page # Page(m, entry[m].home)'
               PROVE  \/ doubt'[m] \cap ({"late", "lost"} \cup Forgotten[m]) # {}
                      \/ \E s \in Commands : cpc'[s] = "evict" /\ m \in Evicts[kind'[s]]
    BY DEF StaleListHasCause
  <2>1. entry'[m] = entry[m] /\ entry[m] # NoEntry /\ m \notin Evicts[kind[r]] \ L
    BY <1>6 DEF DropRest
  <2>2. doubt'[m] = IF m \in Evicts[kind[r]] THEN doubt[m] \cup {"lost"} ELSE doubt[m]
    BY <1>6, <2>1 DEF DropRest
  <2>3. entry[m].page # Page(m, entry[m].home)
    BY <1>1, <2>1 DEF Page
  <2>4. \A s \in Commands : cpc[s] = "evict" /\ m \in Evicts[kind[s]] =>
          \/ cpc'[s] = "evict" /\ kind'[s] = kind[s]
          \/ doubt'[m] \cap {"late", "lost"} # {}
    BY <1>1, <2>2 DEF ListsInv, ListsTypeOK
  <2> QED
    BY <1>1, <2>1, <2>2, <2>3, <2>4, CauseRests
<1> QED
  BY <1>2, <1>3, <1>4, <1>5 DEF ListsInv

\* A query that does not come to its Store leaves the keys alone.
LEMMA KeysRest ==
  ASSUME ListsInv, UNCHANGED <<keyVars, queryFrame>>
  PROVE  /\ ImportTypeOK' /\ \A i \in Imports : ImportFacts(i)'
         /\ CommandFacts' /\ StaleListHasCause'
<1>1. UNCHANGED <<entry, doubt, db, known, importVars, ipc, cpc, kind>>
  BY DEF keyVars, queryFrame
<1>2. ImportTypeOK' /\ \A i \in Imports : ImportFacts(i)'
  BY <1>1, ImportsRest
<1>3. CommandFacts'
  BY <1>1 DEF ListsInv, CommandFacts
<1>4. StaleListHasCause'
  BY <1>1 DEF ListsInv, StaleListHasCause, Page
<1> QED
  BY <1>2, <1>3, <1>4

\* So a query that keeps its own types and facts keeps the invariant.
LEMMA QueryRests ==
  ASSUME ListsInv, UNCHANGED <<keyVars, queryFrame>>,
         qpc' \in [Queries -> {"idle", "fetch", "store", "done"}],
         ask' \in [Queries -> Lists \X Apartments \cup {NoEntry}],
         fetched' \in [Queries -> CachedPage \cup {NoEntry}], QueryFacts'
  PROVE  ListsInv'
<1>1. ListsTypeOK'
  BY KeysRest DEF ListsInv, ListsTypeOK, keyVars, queryFrame
<1> QED
  BY <1>1, KeysRest DEF ListsInv

\* A query that asks knows its list and apartment.
LEMMA AskStep ==
  ASSUME ListsInv, NEW q \in Queries, Ask(q)
  PROVE  ListsInv'
<1>1. PICK l \in Lists, a \in Apartments :
        /\ ask' = [ask EXCEPT ![q] = <<l, a>>]
        /\ qpc' = [qpc EXCEPT ![q] = IF entry[l] # NoEntry THEN "done" ELSE "fetch"]
  BY DEF Ask
<1>2. /\ qpc' \in [Queries -> {"idle", "fetch", "store", "done"}]
      /\ ask' \in [Queries -> Lists \X Apartments \cup {NoEntry}]
      /\ fetched' \in [Queries -> CachedPage \cup {NoEntry}]
  BY <1>1 DEF ListsInv, ListsTypeOK, Ask
<1>3. QueryFacts'
  BY <1>1 DEF ListsInv, ListsTypeOK, QueryFacts, Ask
<1> QED
  BY <1>2, <1>3, QueryRests DEF Ask

\* A query that has read has a page of its apartment.
LEMMA FetchStep ==
  ASSUME ListsInv, NEW q \in Queries, Fetch(q)
  PROVE  ListsInv'
<1> DEFINE page == [page |-> Page(ask[q][1], ask[q][2]), home |-> ask[q][2]]
<1>1. page \in CachedPage
  <2>1. ask[q] \in Lists \X Apartments
    BY DEF Fetch, ListsInv, QueryFacts
  <2> QED
    BY <2>1, PageIsPage DEF ListsInv
<1>2. fetched' = [fetched EXCEPT ![q] = page]
  BY DEF Fetch
<1> HIDE DEF page
<1>3. /\ qpc' \in [Queries -> {"idle", "fetch", "store", "done"}]
      /\ ask' \in [Queries -> Lists \X Apartments \cup {NoEntry}]
      /\ fetched' \in [Queries -> CachedPage \cup {NoEntry}]
  BY <1>1, <1>2 DEF ListsInv, ListsTypeOK, Fetch
<1>4. QueryFacts'
  BY <1>1, <1>2 DEF ListsInv, ListsTypeOK, QueryFacts, Fetch
<1> QED
  BY <1>3, <1>4, QueryRests DEF Fetch

\* A query may leave.
LEMMA AwaitStep ==
  ASSUME ListsInv, NEW q \in Queries, Await(q)
  PROVE  ListsInv'
<1>1. /\ qpc' \in [Queries -> {"idle", "fetch", "store", "done"}]
      /\ ask' \in [Queries -> Lists \X Apartments \cup {NoEntry}]
      /\ fetched' \in [Queries -> CachedPage \cup {NoEntry}]
  BY DEF ListsInv, ListsTypeOK, Await, Leave
<1>2. QueryFacts'
  BY DEF ListsInv, ListsTypeOK, QueryFacts, Await, Leave
<1> QED
  BY <1>1, <1>2, QueryRests DEF Await

\* A query stores the page of now, or one that is late.
LEMMA StoreStep ==
  ASSUME ListsInv, NEW q \in Queries, Store(q)
  PROVE  ListsInv'
<1> DEFINE l == ask[q][1]
<1>1. /\ qpc[q] = "store" /\ entry' = [entry EXCEPT ![l] = fetched[q]]
      /\ doubt' = [doubt EXCEPT ![l] =
                     IF fetched[q].page = Page(l, fetched[q].home) THEN {} ELSE {"late"}]
      /\ qpc' = [qpc EXCEPT ![q] = "done"] /\ UNCHANGED <<ask, fetched, queryFrame>>
  BY DEF Store, StoreUnder, Leave
<1>2. l \in Lists /\ fetched[q] \in CachedPage
  BY <1>1 DEF ListsInv, QueryFacts
<1> HIDE DEF l
<1>3. UNCHANGED <<db, known, importVars, ipc, cpc, kind>>
  BY <1>1 DEF queryFrame
<1>4. ImportTypeOK' /\ \A i \in Imports : ImportFacts(i)'
  BY <1>3, ImportsRest
<1>5. ListsTypeOK'
  BY <1>1, <1>2, <1>3, <1>4 DEF ListsInv, ListsTypeOK
<1>6. QueryFacts' /\ CommandFacts'
  BY <1>1, <1>3 DEF ListsInv, ListsTypeOK, QueryFacts, CommandFacts
<1>7. StaleListHasCause'
  <2> SUFFICES ASSUME NEW m \in Lists, entry'[m] # NoEntry, entry'[m].page # Page(m, entry[m].home)'
               PROVE  \/ doubt'[m] \cap ({"late", "lost"} \cup Forgotten[m]) # {}
                      \/ \E s \in Commands : cpc'[s] = "evict" /\ m \in Evicts[kind'[s]]
    BY DEF StaleListHasCause
  <2>1. Page(m, entry[m].home)' = Page(m, entry'[m].home)
    BY <1>3 DEF Page
  <2>2. CASE m = l
    <3>1. entry'[m] = fetched[q]
      BY <1>1, <2>2 DEF ListsInv, ListsTypeOK
    <3>2. doubt'[m] = IF fetched[q].page = Page(l, fetched[q].home) THEN {} ELSE {"late"}
      BY <1>1, <2>2 DEF ListsInv, ListsTypeOK
    <3> QED
      BY <2>1, <2>2, <3>1, <3>2
  <2>3. CASE m # l
    <3>1. entry'[m] = entry[m] /\ doubt'[m] = doubt[m]
      BY <1>1, <2>3 DEF ListsInv, ListsTypeOK
    <3>2. entry[m].page # Page(m, entry[m].home)
      BY <2>1, <3>1
    <3> QED
      BY <1>3, <3>1, <3>2, CauseRests
  <2> QED
    BY <2>2, <2>3
<1> QED
  BY <1>4, <1>5, <1>6, <1>7 DEF ListsInv

-----------------------------------------------------------------------------
(***************************************************************************)
(* The import, and all steps together.                                     *)
(***************************************************************************)
\* The import adds nobody to the list of those who have joined.
LEMMA ImportKeepsJoined ==
  ASSUME ListsInv, NEW i \in Imports, ImportStep(i)
  PROVE  \A a \in Apartments : Page("residentAccounts", a)' = Page("residentAccounts", a)
<1>1. CASE StoreChunk(i)
  <2> DEFINE t == Inserted(db, file[i], Chunk(file[i], at[i]), home[i])
  <2>1. ipc[i] = "store" /\ home[i] \in Apartments /\ db' = t
    BY <1>1 DEF StoreChunk, ListsInv, ImportFacts
  <2>2. Extends(t, db, file[i], Chunk(file[i], at[i]))
    BY <2>1, StatementOfImport DEF ListsInv
  <2> HIDE DEF t
  <2> QED
    BY <2>1, <2>2, JoinedPageIsKept DEF Extends
<1>2. CASE Begin(i) \/ FailImport(i)
  <2>1. db' = db
    BY <1>2 DEF Begin, FailImport
  <2> QED
    BY <2>1, PagesRest
<1> QED
  BY <1>1, <1>2 DEF ImportStep

\* An import deletes no key, and is known to forget the first list.
LEMMA ImportStepInv ==
  ASSUME ListsInv, NEW i \in Imports, Import(i)
  PROVE  ListsInv'
<1>1. ImportStep(i) /\ UNCHANGED <<queryVars, cpc, kind>>
  BY DEF Import
<1>2. ImportTypeOK' /\ \A j \in Imports : ImportFacts(j)'
  BY <1>1, ImportTypeStep, ImportStepKeepsFacts DEF ListsInv
<1>3. /\ entry' \in [Lists -> CachedPage \cup {NoEntry}]
      /\ doubt' \in [Lists -> SUBSET Whys]
  <2>1. CASE db' = db
    BY <2>1 DEF Import, keyVars, ListsInv, ListsTypeOK, Whys
  <2>2. CASE db' # db
    BY <2>2, DoubtTypes, CoveredKinds DEF Import, Whys, ListsInv
  <2> QED
    BY <2>1, <2>2
<1>4. ListsTypeOK'
  BY <1>1, <1>2, <1>3 DEF ListsInv, ListsTypeOK, queryVars, Whys
<1>5. QueryFacts' /\ CommandFacts'
  BY <1>1 DEF ListsInv, QueryFacts, CommandFacts, queryVars
<1>6. StaleListHasCause'
  <2> SUFFICES ASSUME NEW l \in Lists, entry'[l] # NoEntry, entry'[l].page # Page(l, entry[l].home)'
               PROVE  \/ doubt'[l] \cap ({"late", "lost"} \cup Forgotten[l]) # {}
                      \/ \E s \in Commands : cpc'[s] = "evict" /\ l \in Evicts[kind'[s]]
    BY DEF StaleListHasCause
  <2>1. entry' = entry /\ doubt[l] \subseteq doubt'[l]
    BY DEF Import, keyVars, Doubt
  <2>2. entry[l].home \in Apartments
    BY <2>1 DEF ListsInv, ListsTypeOK, CachedPage
  <2>3. CASE Page(l, entry[l].home)' = Page(l, entry[l].home)
    <3>1. entry[l].page # Page(l, entry[l].home)
      BY <2>1, <2>3
    <3>2. \/ doubt[l] \cap ({"late", "lost"} \cup Forgotten[l]) # {}
          \/ \E s \in Commands : cpc[s] = "evict" /\ l \in Evicts[kind[s]]
      BY <2>1, <3>1 DEF ListsInv, StaleListHasCause
    <3> QED
      BY <1>1, <2>1, <3>2
  <2>4. CASE Page(l, entry[l].home)' # Page(l, entry[l].home)
    <3>1. db' # db
      BY <2>1, <2>4 DEF Page
    <3>2. l = "residents"
      <4>1. l # "residentAccounts"
        BY <1>1, <2>1, <2>2, <2>4, ImportKeepsJoined
      <4> QED
        BY <4>1 DEF Lists
    <3>3. "import" \in doubt'[l]
      BY <2>1, <3>1 DEF Import, Doubt
    <3> QED
      BY <3>2, <3>3, CoveredKinds
  <2> QED
    BY <2>3, <2>4
<1> QED
  BY <1>2, <1>4, <1>5, <1>6 DEF ListsInv

\* Every step keeps the invariant.
LEMMA ListsStep == ListsInv /\ [ListsNext]_listsVars => ListsInv'
<1> SUFFICES ASSUME ListsInv, [ListsNext]_listsVars PROVE ListsInv'
  OBVIOUS
<1>1. ASSUME NEW q \in Queries, Ask(q) \/ Fetch(q) \/ Store(q) \/ Await(q) PROVE ListsInv'
  BY <1>1, AskStep, FetchStep, StoreStep, AwaitStep
<1>2. ASSUME NEW r \in Commands,
             \/ Insert(r) \/ Promote(r) \/ Decide(r) \/ DecideAll(r) \/ Edit(r) \/ Delete(r)
             \/ DeleteRejected(r) \/ DeleteKeys(r) \/ LoseEviction(r)
      PROVE  ListsInv'
  BY <1>2, InsertStep, PromoteStep, DecideStep, DecideAllStep, EditStep, DeleteStep,
     DeleteRejectedStep, DeleteKeysStep, LoseEvictionStep
<1>3. ASSUME NEW i \in Imports, Import(i) PROVE ListsInv'
  BY <1>3, ImportStepInv
<1>4. CASE EntryExpires
  BY <1>4, EntryExpiresStep
<1>5. CASE UNCHANGED listsVars
  <2>1. UNCHANGED <<keyVars, queryFrame>>
    BY <1>5 DEF listsVars, queryFrame
  <2>2. UNCHANGED <<qpc, ask, fetched>>
    BY <1>5 DEF listsVars, queryVars
  <2>3. QueryFacts' 
    BY <2>2 DEF ListsInv, QueryFacts
  <2> QED
    BY <2>1, <2>2, <2>3, QueryRests DEF ListsInv, ListsTypeOK
<1> QED
  BY <1>1, <1>2, <1>3, <1>4, <1>5 DEF ListsNext

\* It holds at the start.
LEMMA ListsBegin == ListsInit => ListsInv
<1> SUFFICES ASSUME ListsInit PROVE ListsInv
  OBVIOUS
<1>1. \A i \in Imports : /\ file[i] = <<>> /\ home[i] = Absent /\ ipc[i] = "idle" /\ at[i] = 0
                         /\ processed[i] = 0 /\ answer[i] = <<0, "none">> /\ brought[i] = {}
  BY DEF ListsInit, ImportInit
<1>2. ListsTypeOK
  <2>1. db \in TableTypes
    BY DEF ListsInit, TableTypes
  <2>2. known \subseteq Emails \cup Contacts
    BY <2>1, IdentitiesAreKnown DEF ListsInit, ImportInit
  <2>3. Len(<<>>) = 0
    OBVIOUS
  <2>4. \A i \in Imports : at[i] <= Len(file[i])
    BY <1>1, <2>3
  <2>5. "none" \in Refusals
    BY DEF Refusals
  <2>6. ImportTypeOK
    BY <2>1, <2>2, <2>4, <2>5 DEF TableTypes, ListsInit, ImportInit, ImportTypeOK
  <2> QED
    BY <2>6 DEF ListsInit, ListsTypeOK
<1>3. ASSUME NEW i \in Imports PROVE ImportFacts(i)
  BY <1>1, NothingIsBeforeTheFirst, NoneAreWhole DEF ImportFacts
<1>4. QueryFacts /\ CommandFacts /\ StaleListHasCause
  BY DEF ListsInit, QueryFacts, CommandFacts, StaleListHasCause
<1> QED
  BY <1>2, <1>3, <1>4 DEF ListsInv

\* The invariant of the lists and the import, for any queries, commands, files and
\* chunk size.
THEOREM ListsInvariant == ListsSpec => []ListsInv
  BY ListsBegin, ListsStep, PTL DEF ListsSpec

\* The lists, the requests and the imports keep their types.
THEOREM ListsTypeCorrect == ListsSpec => []ListsTypeOK
<1>1. ListsInv => ListsTypeOK
  BY DEF ListsInv
<1> QED
  BY <1>1, ListsInvariant, PTL

\* A cached list that is not the list of its apartment any more has one of the causes
\* named there, and no other change of a resident goes unnoticed.
THEOREM StaleListsExplained == ListsSpec => []StaleListHasCause
<1>1. ListsInv => StaleListHasCause
  BY DEF ListsInv
<1> QED
  BY <1>1, ListsInvariant, PTL

\* What an import has stored, in the words of StoredInWholeChunks: of the lines up to
\* at[i], on the way to a bad line there is no further chunk.
LEMMA StoredFromFacts ==
  ASSUME ListsInv, NEW i \in Imports
  PROVE  LET f == file[i]
             offered == Eligible(f, 0)
             stored == offered \ Eligible(f, at[i])
             sound == {k \in offered : \A b \in 1 .. k : f[b] \notin Unreadable}
         IN /\ \A k \in stored : {f[k].email, f[k].contact} \cap known # {}
            /\ brought[i] \subseteq {f[k].email : k \in stored}
            /\ answer[i][2] # "count" =>
                 stored \subseteq sound /\ Cardinality(stored) % ChunkSize = 0
            /\ answer[i][2] = "INVALID_INPUT" =>
                 Cardinality(stored) = ChunkSize * (Cardinality(sound) \div ChunkSize)
            /\ answer[i][2] = "count" =>
                 /\ sound = offered /\ stored = offered
                 /\ answer[i][1] \in Cardinality(brought[i]) .. Cardinality(offered)
                 /\ Cardinality(offered) < ChunkSize => answer[i][1] = Cardinality(brought[i])
<1> DEFINE f == file[i]
           n == at[i]
           offered == Eligible(f, 0)
           stored == offered \ Eligible(f, n)
           sound == {k \in offered : \A b \in 1 .. k : f[b] \notin Unreadable}
<1>1. Len(f) \in Nat /\ n \in 0..Len(f)
  BY ImportIsWithinFile DEF ListsInv
<1>2. ImportFacts(i)
  BY DEF ListsInv
<1>3. stored = Before(f, n) /\ offered = Before(f, Len(f))
  <2>1. offered = Before(f, Len(f))
    BY DEF Eligible, Before
  <2>2. 0 \in 0..Len(f) /\ n \in 0..Len(f)
    BY <1>1
  <2>3. stored = {j \in 0 + 1 .. n : f[j] \in Entry}
    BY <1>1, <2>2, BetweenLines
  <2> QED
    BY <2>1, <2>3 DEF Before
<1>4. stored \subseteq sound /\ sound \subseteq offered
  BY <1>1, <1>2, <1>3 DEF ImportFacts, Readable, Before
<1>5. IsFiniteSet(stored) /\ Cardinality(stored) \in Nat
  BY <1>1, <1>3, LinesAreFinite
<1>6. ASSUME answer[i][2] # "count"
      PROVE  /\ Cardinality(stored) % ChunkSize = 0
             /\ \E w \in Nat : Cardinality(stored) = w * ChunkSize
  <2>1. PICK w \in Nat : Cardinality(stored) = w * ChunkSize
    BY <1>2, <1>3, <1>6 DEF ImportFacts, WholeChunks
  <2> QED
    BY <2>1, ChunksHaveRows
<1>7. ASSUME answer[i][2] = "INVALID_INPUT"
      PROVE  Cardinality(stored) = ChunkSize * (Cardinality(sound) \div ChunkSize)
  <2> DEFINE bad == Bad(f, n)
             b == Min(bad)
             S == {k \in n + 1 .. b : f[k] \in Entry}
  <2>1. bad \subseteq Nat /\ bad # {}
    BY <1>1, <1>2, <1>7, ChunkEndIsReached DEF ImportFacts, Bad
  <2>2. b \in bad /\ \A m \in bad : b <= m
    BY <2>1, MinIsLeast
  <2>3. /\ b \in n + 1 .. Len(f) /\ f[b] \in Unreadable
        /\ \A m \in n + 1 .. b - 1 : f[m] \notin Unreadable
    <3>1. ChunkEnd(f, n) \in n..Len(f)
      BY <1>1, ChunkEndIsReached
    <3>2. bad = {k \in n + 1 .. ChunkEnd(f, n) : f[k] \in Unreadable}
      BY DEF Bad
    <3> HIDE DEF b, bad
    <3> QED
      BY <1>1, <2>2, <3>1, <3>2
  <2>4. IsFiniteSet(S) /\ Cardinality(S) \in Nat /\ Cardinality(S) < ChunkSize
    BY <1>1, <2>2, NoChunkBefore
  <2>5. sound = stored \cup S /\ stored \cap S = {}
    <3>1. \A m \in 1..n : f[m] \notin Unreadable
      BY <1>2 DEF ImportFacts, Readable
    <3>2. \A m \in 1 .. b - 1 : f[m] \notin Unreadable
      BY <1>1, <2>3, <3>1
    <3>3. f[b] \notin Entry
      BY <2>3, MarksAreNoEntries
    <3> HIDE DEF b
    <3>4. offered = {k \in 1..Len(f) : f[k] \in Entry} /\ stored = {k \in 1..n : f[k] \in Entry}
      BY <1>3 DEF Before
    <3>5. \A k \in sound : k < b
      BY <1>1, <2>3, <3>4
    <3>6. \A k \in 1 .. b - 1 : f[k] \in Entry => k \in sound
      BY <1>1, <2>3, <3>2, <3>4
    <3> HIDE DEF sound, stored, offered
    <3>7. sound \subseteq offered
      BY <1>4
    <3>8. S = {k \in n + 1 .. b - 1 : f[k] \in Entry}
      BY <1>1, <2>3, <3>3
    <3>9. stored \cup S = {k \in 1 .. b - 1 : f[k] \in Entry}
      BY <1>1, <2>3, <3>4, <3>8
    <3>10. sound \subseteq stored \cup S
      BY <1>1, <2>3, <3>4, <3>5, <3>7, <3>9
    <3>11. stored \cup S \subseteq sound
      BY <3>6, <3>9
    <3>12. stored \cap S = {}
      BY <1>1, <3>4, <3>8
    <3> QED
      BY <3>10, <3>11, <3>12
  <2>6. Cardinality(sound) = Cardinality(stored) + Cardinality(S)
    <3> HIDE DEF sound, stored, S
    <3>1. Cardinality(stored \cup S) =
            Cardinality(stored) + Cardinality(S) - Cardinality(stored \cap S)
      BY <1>5, <2>4, FS_Union
    <3>2. Cardinality(stored \cap S) = 0
      BY <2>5, FS_EmptySet
    <3> QED
      BY <1>5, <2>4, <2>5, <3>1, <3>2
  <2>7. PICK w \in Nat : Cardinality(stored) = w * ChunkSize
    BY <1>6, <1>7
  <2> HIDE DEF S, sound, stored
  <2>8. Cardinality(sound) \div ChunkSize = w
    BY <1>5, <2>4, <2>6, <2>7, ChunksHaveRows
  <2> QED
    BY <2>7, <2>8, ChunksHaveRows
<1>8. ASSUME answer[i][2] = "count" PROVE n = Len(f) /\ sound = offered /\ stored = offered
  <2>1. n = Len(f)
    BY <1>2, <1>8 DEF ImportFacts
  <2> QED
    BY <1>3, <1>4, <2>1
<1> HIDE DEF sound
<1> QED
  BY <1>2, <1>3, <1>4, <1>6, <1>7, <1>8 DEF ImportFacts, sound

\* An import stores whole chunks, of readable lines, from the start of its file, or all
\* of it; its count is no less than it inserted and no more than the file offered.
THEOREM ImportsStoreWholeChunks == ListsSpec => []StoredInWholeChunks
<1>1. ListsInv => StoredInWholeChunks
  BY StoredFromFacts DEF StoredInWholeChunks
<1> QED
  BY <1>1, ListsInvariant, PTL
=============================================================================
