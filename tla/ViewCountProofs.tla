-------------------------- MODULE ViewCountProofs --------------------------
(***************************************************************************)
(* What module ViewCount promises for any number of views, items and       *)
(* editors and any size of the batch.                                      *)
(***************************************************************************)
EXTENDS ViewCount, FiniteSetTheorems, TLAPS

\* A view that has begun is about an item.
ViewsHaveItems == \A v \in Views : vpc[v] # "idle" => item[v] \in Items

\* No number anywhere exceeds the views of its item.
NumbersAreViews ==
  /\ \A i \in Items :
       /\ row[i] <= viewed[i] /\ counts[i] <= viewed[i]
       /\ cache[i] # Nothing => cache[i] <= viewed[i]
       /\ counter[i] # Nothing => counter[i] <= viewed[i]
  /\ \A v \in Views : vpc[v] # "idle" => count[v] <= viewed[item[v]]
  /\ \A e \in Editors : read[e] # Nothing => read[e].count <= viewed[read[e].item]

\* The complaints whose counter has not lived its day, and what holds of them.
Counted(i) == kind = "complaint" /\ i \notin aged

\* Their counter is exact, and there is none as long as there is no view.
CounterIsExact ==
  \A i \in Items : Counted(i) => viewed[i] = IF counter[i] = Nothing THEN 0 ELSE counter[i]

\* What the batch is about to write is no less than what it replaces.
WritesGrow ==
  \A i \in Items : Counted(i) /\ bpc = "write" /\ i \in popped => row[i] <= counts[i]

\* A batch will find i, a view will mark it, or one of either came to nothing.
Awaited(i) ==
  \/ i \in dirty \/ failed
  \/ \E v \in Views : item[v] = i /\ vpc[v] \in {"mark", "error"}

\* If there is no such thing, all views of i are stored or in the hands of the batch.
AllStored ==
  \A i \in Items : Counted(i) /\ ~Awaited(i) =>
    /\ i \notin popped => row[i] = viewed[i]
    /\ i \in popped /\ bpc = "write" => counts[i] = viewed[i]

PoppedIsHeld == bpc \in {"idle", "pop"} => popped = {}

NoEditOfComplaint == kind = "complaint" => \A e \in Editors : read[e] = Nothing

IInv ==
  /\ TypeOK /\ ViewsHaveItems /\ NumbersAreViews /\ CounterIsExact /\ WritesGrow /\ AllStored
  /\ PoppedIsHeld /\ NoEditOfComplaint

-----------------------------------------------------------------------------
(***************************************************************************)
(* Types.                                                                  *)
(***************************************************************************)

\* What the batch takes fits into it.
LEMMA PoppedFits ==
  ASSUME NEW S \in SUBSET Items, NEW D \in SUBSET Items,
         Cardinality(S) = IF Cardinality(D) < BatchSize THEN Cardinality(D) ELSE BatchSize
  PROVE  Cardinality(S) <= BatchSize
<1>1. Cardinality(D) \in Nat
  BY FiniteItems, FS_Subset, FS_CardinalityType
<1> QED
  BY <1>1, SomeBatch

\* Rows and counters are numbers, whichever of two is stored.
LEMMA StoredIsACount == \A old, new \in Nat : Stored(old, new) \in Nat
  BY DEF Stored

LEMMA TypeInit == Init => TypeOK
<1> SUFFICES ASSUME Init PROVE TypeOK
  OBVIOUS
<1>1. Cardinality(popped) <= BatchSize
  BY FS_EmptySet, SomeBatch DEF Init
<1> QED
  BY <1>1 DEF Init, TypeOK

\* The model keeps its types.
LEMMA TypeStep == TypeOK /\ ViewsHaveItems /\ [Next]_vars => TypeOK'
<1> SUFFICES ASSUME TypeOK, ViewsHaveItems, [Next]_vars PROVE TypeOK'
  OBVIOUS
<1> USE DEF TypeOK, ViewsHaveItems, viewVars, batchVars, redisVars, tableVars
<1>1. ASSUME NEW v \in Views, Fetch(v) PROVE TypeOK'
  BY <1>1 DEF Fetch
<1>2. ASSUME NEW v \in Views, Seed(v) PROVE TypeOK'
  BY <1>2 DEF Seed
<1>3. ASSUME NEW v \in Views, Increase(v) PROVE TypeOK'
  BY <1>3 DEF Increase
<1>4. ASSUME NEW v \in Views, Mark(v) PROVE TypeOK'
  BY <1>4 DEF Mark
<1>5. ASSUME NEW v \in Views, FailView(v) PROVE TypeOK'
  BY <1>5 DEF FailView
<1>6. CASE StartSync
  BY <1>6 DEF StartSync
<1>7. CASE Pop
  <2>1. PICK S \in SUBSET dirty :
          /\ Cardinality(S) = IF Cardinality(dirty) < BatchSize THEN Cardinality(dirty) ELSE BatchSize
          /\ popped' = S /\ dirty' = dirty \ S
    BY <1>7 DEF Pop
  <2>2. Cardinality(popped') <= BatchSize
    BY <2>1, PoppedFits
  <2> QED
    BY <1>7, <2>1, <2>2 DEF Pop
<1>8. CASE EndSync
  BY <1>8 DEF EndSync
<1>9. CASE ReadCounters
  BY <1>9 DEF ReadCounters
<1>10. CASE WriteCounts
  <2>1. \A i \in Items : row[i] \in Nat /\ counts[i] \in Nat /\ Stored(row[i], counts[i]) \in Nat
    BY StoredIsACount
  <2>2. row' \in [Items -> Nat]
    BY <1>10, <2>1 DEF WriteCounts
  <2> QED
    BY <1>10, <2>2, FS_EmptySet, SomeBatch DEF WriteCounts
<1>11. CASE FailSync
  BY <1>11, FS_EmptySet, SomeBatch DEF FailSync
<1>12. ASSUME NEW e \in Editors, ReadToEdit(e) PROVE TypeOK'
  BY <1>12 DEF ReadToEdit
<1>13. ASSUME NEW e \in Editors, WriteEdit(e) PROVE TypeOK'
  BY <1>13 DEF WriteEdit
<1>14. ASSUME NEW i \in Items, EntryLeaves(i) PROVE TypeOK'
  BY <1>14 DEF EntryLeaves
<1>15. ASSUME NEW i \in Items, CounterExpires(i) PROVE TypeOK'
  BY <1>15 DEF CounterExpires
<1>16. CASE UNCHANGED vars
  BY <1>16 DEF vars
<1> QED
  BY <1>1, <1>2, <1>3, <1>4, <1>5, <1>6, <1>7, <1>8, <1>9, <1>10, <1>11, <1>12, <1>13,
     <1>14, <1>15, <1>16 DEF Next, Sync

\* Only the read of a view gives it its item.
LEMMA ItemsStep == TypeOK /\ ViewsHaveItems /\ [Next]_vars => ViewsHaveItems'
<1> SUFFICES ASSUME TypeOK, ViewsHaveItems, [Next]_vars PROVE ViewsHaveItems'
  OBVIOUS
<1> USE DEF TypeOK, ViewsHaveItems, viewVars
<1>1. ASSUME NEW v \in Views, Fetch(v) \/ Seed(v) \/ Increase(v) \/ Mark(v) \/ FailView(v)
      PROVE  ViewsHaveItems'
  BY <1>1 DEF Fetch, Seed, Increase, Mark, FailView
<1>2. CASE UNCHANGED viewVars
  BY <1>2
<1>3. ASSUME \/ Sync \/ FailSync \/ UNCHANGED vars
             \/ \E e \in Editors : ReadToEdit(e) \/ WriteEdit(e)
             \/ \E i \in Items : EntryLeaves(i) \/ CounterExpires(i)
      PROVE  UNCHANGED viewVars
  BY <1>3 DEF Sync, FailSync, vars, ReadToEdit, WriteEdit, EntryLeaves, CounterExpires,
              StartSync, Pop, EndSync, ReadCounters, WriteCounts
<1> QED
  BY <1>1, <1>2, <1>3 DEF Next

-----------------------------------------------------------------------------
(***************************************************************************)
(* Numbers.                                                                *)
(***************************************************************************)

\* No step makes a number that exceeds the views.
LEMMA NumbersStep == TypeOK /\ ViewsHaveItems /\ NumbersAreViews /\ [Next]_vars => NumbersAreViews'
<1> SUFFICES ASSUME TypeOK, ViewsHaveItems, NumbersAreViews, [Next]_vars PROVE NumbersAreViews'
  OBVIOUS
<1> USE DEF TypeOK, ViewsHaveItems, NumbersAreViews, viewVars, batchVars, redisVars, tableVars
<1>1. ASSUME NEW v \in Views, Fetch(v) PROVE NumbersAreViews'
  BY <1>1 DEF Fetch
<1>2. ASSUME NEW v \in Views, Seed(v) PROVE NumbersAreViews'
  BY <1>2 DEF Seed
<1>3. ASSUME NEW v \in Views, Increase(v) PROVE NumbersAreViews'
  BY <1>3 DEF Increase
<1>4. ASSUME NEW v \in Views, Mark(v) PROVE NumbersAreViews'
  BY <1>4 DEF Mark
<1>5. ASSUME NEW v \in Views, FailView(v) PROVE NumbersAreViews'
  BY <1>5 DEF FailView
<1>6. CASE StartSync
  BY <1>6 DEF StartSync
<1>7. CASE Pop
  BY <1>7 DEF Pop
<1>8. CASE EndSync
  BY <1>8 DEF EndSync
<1>9. CASE ReadCounters
  BY <1>9 DEF ReadCounters
<1>10. CASE WriteCounts
  BY <1>10 DEF WriteCounts, Stored
<1>11. CASE FailSync
  BY <1>11 DEF FailSync
<1>12. ASSUME NEW e \in Editors, ReadToEdit(e) PROVE NumbersAreViews'
  BY <1>12 DEF ReadToEdit
<1>13. ASSUME NEW e \in Editors, WriteEdit(e) PROVE NumbersAreViews'
  BY <1>13 DEF WriteEdit
<1>14. ASSUME NEW i \in Items, EntryLeaves(i) PROVE NumbersAreViews'
  BY <1>14 DEF EntryLeaves
<1>15. ASSUME NEW i \in Items, CounterExpires(i) PROVE NumbersAreViews'
  BY <1>15 DEF CounterExpires
<1>16. CASE UNCHANGED vars
  BY <1>16 DEF vars
<1> QED
  BY <1>1, <1>2, <1>3, <1>4, <1>5, <1>6, <1>7, <1>8, <1>9, <1>10, <1>11, <1>12, <1>13,
     <1>14, <1>15, <1>16 DEF Next, Sync

\* Only an increment moves the exact counter, and it counts a view.
LEMMA CounterStep == TypeOK /\ ViewsHaveItems /\ NumbersAreViews /\ CounterIsExact /\ [Next]_vars => CounterIsExact'
<1> SUFFICES ASSUME TypeOK, ViewsHaveItems, NumbersAreViews, CounterIsExact, [Next]_vars PROVE CounterIsExact'
  OBVIOUS
<1> USE DEF TypeOK, ViewsHaveItems, NumbersAreViews, CounterIsExact, Counted, viewVars, batchVars, redisVars, tableVars
<1>1. ASSUME NEW v \in Views, Fetch(v) PROVE CounterIsExact'
  BY <1>1 DEF Fetch
<1>2. ASSUME NEW v \in Views, Seed(v) PROVE CounterIsExact'
  BY <1>2, NothingIsNoCount DEF Seed
<1>3. ASSUME NEW v \in Views, Increase(v) PROVE CounterIsExact'
  BY <1>3, NothingIsNoCount DEF Increase
<1>4. ASSUME NEW v \in Views, Mark(v) PROVE CounterIsExact'
  BY <1>4 DEF Mark
<1>5. ASSUME NEW v \in Views, FailView(v) PROVE CounterIsExact'
  BY <1>5 DEF FailView
<1>6. CASE StartSync
  BY <1>6 DEF StartSync
<1>7. CASE Pop
  BY <1>7 DEF Pop
<1>8. CASE EndSync
  BY <1>8 DEF EndSync
<1>9. CASE ReadCounters
  BY <1>9 DEF ReadCounters
<1>10. CASE WriteCounts
  BY <1>10 DEF WriteCounts
<1>11. CASE FailSync
  BY <1>11 DEF FailSync
<1>12. ASSUME NEW e \in Editors, ReadToEdit(e) PROVE CounterIsExact'
  BY <1>12 DEF ReadToEdit
<1>13. ASSUME NEW e \in Editors, WriteEdit(e) PROVE CounterIsExact'
  BY <1>13 DEF WriteEdit
<1>14. ASSUME NEW i \in Items, EntryLeaves(i) PROVE CounterIsExact'
  BY <1>14 DEF EntryLeaves
<1>15. ASSUME NEW i \in Items, CounterExpires(i) PROVE CounterIsExact'
  BY <1>15 DEF CounterExpires
<1>16. CASE UNCHANGED vars
  BY <1>16 DEF vars
<1> QED
  BY <1>1, <1>2, <1>3, <1>4, <1>5, <1>6, <1>7, <1>8, <1>9, <1>10, <1>11, <1>12, <1>13,
     <1>14, <1>15, <1>16 DEF Next, Sync

-----------------------------------------------------------------------------
(***************************************************************************)
(* What is on its way to the table.                                        *)
(***************************************************************************)

\* The batch reads an exact counter, and nobody else writes the count of a
\* complaint.
LEMMA WritesStep == TypeOK /\ NumbersAreViews /\ CounterIsExact /\ NoEditOfComplaint /\ WritesGrow /\ [Next]_vars => WritesGrow'
<1> SUFFICES ASSUME TypeOK, NumbersAreViews, CounterIsExact, NoEditOfComplaint, WritesGrow, [Next]_vars PROVE WritesGrow'
  OBVIOUS
<1> USE DEF TypeOK, NumbersAreViews, CounterIsExact, NoEditOfComplaint, WritesGrow, Counted, viewVars, batchVars, redisVars, tableVars
<1>1. ASSUME NEW v \in Views, Fetch(v) PROVE WritesGrow'
  BY <1>1 DEF Fetch
<1>2. ASSUME NEW v \in Views, Seed(v) PROVE WritesGrow'
  BY <1>2 DEF Seed
<1>3. ASSUME NEW v \in Views, Increase(v) PROVE WritesGrow'
  BY <1>3 DEF Increase
<1>4. ASSUME NEW v \in Views, Mark(v) PROVE WritesGrow'
  BY <1>4 DEF Mark
<1>5. ASSUME NEW v \in Views, FailView(v) PROVE WritesGrow'
  BY <1>5 DEF FailView
<1>6. CASE StartSync
  BY <1>6 DEF StartSync
<1>7. CASE Pop
  BY <1>7 DEF Pop
<1>8. CASE EndSync
  BY <1>8 DEF EndSync
<1>9. CASE ReadCounters
  BY <1>9 DEF ReadCounters
<1>10. CASE WriteCounts
  BY <1>10 DEF WriteCounts
<1>11. CASE FailSync
  BY <1>11 DEF FailSync
<1>12. ASSUME NEW e \in Editors, ReadToEdit(e) PROVE WritesGrow'
  BY <1>12 DEF ReadToEdit
<1>13. ASSUME NEW e \in Editors, WriteEdit(e) PROVE WritesGrow'
  BY <1>13 DEF WriteEdit
<1>14. ASSUME NEW i \in Items, EntryLeaves(i) PROVE WritesGrow'
  BY <1>14 DEF EntryLeaves
<1>15. ASSUME NEW i \in Items, CounterExpires(i) PROVE WritesGrow'
  BY <1>15 DEF CounterExpires
<1>16. CASE UNCHANGED vars
  BY <1>16 DEF vars
<1> QED
  BY <1>1, <1>2, <1>3, <1>4, <1>5, <1>6, <1>7, <1>8, <1>9, <1>10, <1>11, <1>12, <1>13,
     <1>14, <1>15, <1>16 DEF Next, Sync

\* A view leaves the sight of the batch only into a mark.
LEMMA StoredStep == TypeOK /\ ViewsHaveItems /\ CounterIsExact /\ NoEditOfComplaint /\ PoppedIsHeld /\ AllStored /\ [Next]_vars => AllStored'
<1> SUFFICES ASSUME TypeOK, ViewsHaveItems, CounterIsExact, NoEditOfComplaint, PoppedIsHeld, AllStored, [Next]_vars PROVE AllStored'
  OBVIOUS
<1> USE DEF TypeOK, ViewsHaveItems, CounterIsExact, NoEditOfComplaint, PoppedIsHeld, AllStored, Counted, Awaited, viewVars, batchVars, redisVars, tableVars
<1>1. ASSUME NEW v \in Views, Fetch(v) PROVE AllStored'
  BY <1>1 DEF Fetch
<1>2. ASSUME NEW v \in Views, Seed(v) PROVE AllStored'
  BY <1>2 DEF Seed
<1>3. ASSUME NEW v \in Views, Increase(v) PROVE AllStored'
  BY <1>3 DEF Increase
<1>4. ASSUME NEW v \in Views, Mark(v) PROVE AllStored'
  BY <1>4 DEF Mark
<1>5. ASSUME NEW v \in Views, FailView(v) PROVE AllStored'
  BY <1>5 DEF FailView
<1>6. CASE StartSync
  BY <1>6 DEF StartSync
<1>7. CASE Pop
  BY <1>7 DEF Pop
<1>8. CASE EndSync
  BY <1>8 DEF EndSync
<1>9. CASE ReadCounters
  BY <1>9 DEF ReadCounters
<1>10. CASE WriteCounts
  BY <1>10 DEF WriteCounts, Stored
<1>11. CASE FailSync
  BY <1>11 DEF FailSync
<1>12. ASSUME NEW e \in Editors, ReadToEdit(e) PROVE AllStored'
  BY <1>12 DEF ReadToEdit
<1>13. ASSUME NEW e \in Editors, WriteEdit(e) PROVE AllStored'
  BY <1>13 DEF WriteEdit
<1>14. ASSUME NEW i \in Items, EntryLeaves(i) PROVE AllStored'
  BY <1>14 DEF EntryLeaves
<1>15. ASSUME NEW i \in Items, CounterExpires(i) PROVE AllStored'
  BY <1>15 DEF CounterExpires
<1>16. CASE UNCHANGED vars
  BY <1>16 DEF vars
<1> QED
  BY <1>1, <1>2, <1>3, <1>4, <1>5, <1>6, <1>7, <1>8, <1>9, <1>10, <1>11, <1>12, <1>13,
     <1>14, <1>15, <1>16 DEF Next, Sync

\* The batch holds ids only between its pop and its write, and only notices are
\* read to be edited.
LEMMA HoldingStep ==
  TypeOK /\ PoppedIsHeld /\ NoEditOfComplaint /\ [Next]_vars => PoppedIsHeld' /\ NoEditOfComplaint'
<1> SUFFICES ASSUME TypeOK, PoppedIsHeld, NoEditOfComplaint, [Next]_vars
             PROVE  PoppedIsHeld' /\ NoEditOfComplaint'
  OBVIOUS
<1> USE DEF TypeOK, PoppedIsHeld, NoEditOfComplaint, viewVars, batchVars, redisVars, tableVars
<1>1. CASE Sync \/ FailSync
  BY <1>1 DEF Sync, FailSync, StartSync, Pop, EndSync, ReadCounters, WriteCounts
<1>2. ASSUME NEW e \in Editors, ReadToEdit(e) \/ WriteEdit(e)
      PROVE  PoppedIsHeld' /\ NoEditOfComplaint'
  BY <1>2 DEF ReadToEdit, WriteEdit
<1>3. CASE UNCHANGED <<kind, read, bpc, popped>>
  BY <1>3
<1>4. ASSUME \/ UNCHANGED vars
             \/ \E v \in Views : Fetch(v) \/ Seed(v) \/ Increase(v) \/ Mark(v) \/ FailView(v)
             \/ \E i \in Items : EntryLeaves(i) \/ CounterExpires(i)
      PROVE  UNCHANGED <<kind, read, bpc, popped>>
  BY <1>4 DEF vars, Fetch, Seed, Increase, Mark, FailView, EntryLeaves, CounterExpires
<1> QED
  BY <1>1, <1>2, <1>3, <1>4 DEF Next

-----------------------------------------------------------------------------
(***************************************************************************)
(* The theorems.                                                           *)
(***************************************************************************)

LEMMA InvariantInit == Init => IInv
<1> SUFFICES ASSUME Init PROVE IInv
  OBVIOUS
<1>1. TypeOK
  BY TypeInit
<1> QED
  BY <1>1 DEF Init, IInv, ViewsHaveItems, NumbersAreViews, CounterIsExact, WritesGrow,
              AllStored, PoppedIsHeld, NoEditOfComplaint

LEMMA InvariantStep == IInv /\ [Next]_vars => IInv'
  BY TypeStep, ItemsStep, NumbersStep, CounterStep, WritesStep, HoldingStep, StoredStep DEF IInv

\* Every number the program keeps about a view, and every call of the batch, is
\* as the parts of IInv say, in every state.
THEOREM CountingInvariant == Spec => []IInv
<1>1. Init => IInv
  BY InvariantInit
<1>2. IInv /\ [Next]_vars => IInv'
  BY InvariantStep
<1> QED
  BY <1>1, <1>2, PTL DEF Spec

\* The variables keep their types, and a batch is never larger than allowed.
THEOREM TypeCorrect == Spec => []TypeOK
<1>1. IInv => TypeOK
  BY DEF IInv
<1> QED
  BY <1>1, CountingInvariant, PTL

\* The table never counts a view that was none.
THEOREM ViewsAreNotInvented == Spec => []NoPhantomViews
<1>1. IInv => NoPhantomViews
  BY DEF IInv, NumbersAreViews, NoPhantomViews
<1> QED
  BY <1>1, CountingInvariant, PTL

\* Whatever a view of a complaint counted is stored, or somebody will store it.
THEOREM ViewsAreNotForgotten == Spec => []NoViewForgotten
<1>1. IInv => NoViewForgotten
  BY DEF IInv, AllStored, Awaited, Counted, NoViewForgotten
<1> QED
  BY <1>1, CountingInvariant, PTL

\* The batch lowers no count, except the one of a complaint whose counter is gone.
THEOREM CountsRarelyFall == Spec => OnlyEditsLowerCounts
<1> DEFINE Allowed ==
      \A i \in Items :
        row'[i] < row[i] =>
          \/ \E e \in Editors : read[e] # Nothing /\ read[e].item = i
          \/ i \in aged /\ bpc = "write"
<1>1. ASSUME IInv, [Next]_vars PROVE Allowed \/ UNCHANGED vars
  <2> USE DEF IInv, TypeOK
  <2>1. ASSUME row' = row PROVE Allowed
    BY <1>1, <2>1
  <2>2. CASE WriteCounts
    BY <1>1, <2>2 DEF WriteCounts, Stored, WritesGrow, Counted
  <2>3. ASSUME NEW e \in Editors, WriteEdit(e) PROVE Allowed
    BY <1>1, <2>3 DEF WriteEdit
  <2>4. ASSUME \/ StartSync \/ Pop \/ EndSync \/ ReadCounters \/ FailSync
               \/ \E v \in Views : Fetch(v) \/ Seed(v) \/ Increase(v) \/ Mark(v) \/ FailView(v)
               \/ \E e \in Editors : ReadToEdit(e)
               \/ \E i \in Items : EntryLeaves(i) \/ CounterExpires(i)
        PROVE  row' = row
    BY <2>4 DEF StartSync, Pop, EndSync, ReadCounters, FailSync, Fetch, Seed, Increase, Mark,
                FailView, ReadToEdit, EntryLeaves, CounterExpires, tableVars
  <2> QED
    BY <1>1, <2>1, <2>2, <2>3, <2>4 DEF Next, Sync
<1> QED
  BY <1>1, CountingInvariant, PTL DEF Spec, OnlyEditsLowerCounts
=============================================================================
