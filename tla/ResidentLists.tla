--------------------------- MODULE ResidentLists ----------------------------
(***************************************************************************)
(* The two lists of residents an administrator opens, and everything that  *)
(* makes them wrong.  The first page without a filter is cached for thirty *)
(* seconds under one key per list, which names no apartment; any other     *)
(* page is read from the database.  The commands on residents delete the   *)
(* keys after their writes, without awaiting the calls; the import of a    *)
(* file (module ResidentImport, whose steps are part of this one) deletes  *)
(* none.                                                                   *)
(*                                                                         *)
(* A command appears with its write, tests included, as one step: what can *)
(* come between them is the subject of ResidentAccounts, and a command     *)
(* that is refused does nothing to the lists.  The lock of the locker is   *)
(* left to RedisLocker: it can expire, so any number of queries may be     *)
(* between their miss and their set.  One page holds all residents.        *)
(***************************************************************************)
EXTENDS ResidentImport

CONSTANTS
  Queries,     \* requests for a list; each is served once, as each command is
  Commands,    \* requests that change residents
  Registered,  \* the emails that have rows when the model starts
  NoEntry      \* no entry, no request

Lists == {"residents", "residentAccounts"}
Joined == {"PENDING", "APPROVED", "REJECTED"}

\* The statuses a list shows.
Shows == [residents |-> {"NOT_JOINED", "APPROVED"}, residentAccounts |-> Joined]

\* findResidents and findResidentAccounts for an administrator of apartment a.
Page(l, a) ==
  {<<e, db[e].contact, db[e].status>> :
     e \in {d \in Emails : db[d] # Absent /\ db[d].home = a /\ db[d].status \in Shows[l]}}

\* What is under a key, with the apartment it was read for, which the program
\* does not store: only properties read that.
CachedPage == [page : SUBSET (Emails \X Contacts \X Status), home : Apartments]

ASSUME NoEntryIsNoData == NoEntry \notin CachedPage /\ NoEntry \notin Lists \X Apartments

\* Mutant: the decision on one resident deletes one key only.
EvictsTooLittle ==
  [signUp |-> Lists, promote |-> {}, register |-> {"residents"}, decide |-> {"residentAccounts"},
   decideAll |-> Lists, edit |-> {"residents"}, delete |-> {"residents"},
   deleteRejected |-> Lists, import |-> {}]

\* The keys each command deletes.
Evicts ==
  [signUp |-> Lists, promote |-> {}, register |-> {"residents"}, decide |-> Lists,
   decideAll |-> Lists, edit |-> {"residents"}, delete |-> {"residents"},
   deleteRejected |-> Lists, import |-> {}]

\* With those of the import.
VARIABLES
  entry,   \* entry[l] is what is under the key of list l
  qpc,     \* qpc[q] is the call query q makes next
  ask,     \* ask[q] is the list q is for and the apartment of who asks
  fetched, \* fetched[q] is what q has read from the database
  cpc,     \* cpc[r] is the call command r makes next
  kind,    \* kind[r] is what command r is
  doubt    \* history: what happened to list l since its entry was stored

queryVars == <<qpc, ask, fetched>>
keyVars == <<entry, doubt>>
listsVars == <<db, known, importVars, ipc, keyVars, queryVars, cpc, kind>>

ListsTypeOK ==
  /\ ImportTypeOK
  /\ entry \in [Lists -> CachedPage \cup {NoEntry}]
  /\ qpc \in [Queries -> {"idle", "fetch", "store", "done"}]
  /\ ask \in [Queries -> Lists \X Apartments \cup {NoEntry}]
  /\ fetched \in [Queries -> CachedPage \cup {NoEntry}]
  /\ cpc \in [Commands -> {"idle", "evict", "done"}]
  /\ kind \in [Commands -> DOMAIN Evicts \cup {"none"}]
  /\ doubt \in [Lists -> SUBSET (DOMAIN Evicts \cup {"late", "lost"})]

ListsInit ==
  /\ db \in [Emails -> Row \cup {Absent}]
  /\ \A e \in Emails : db[e] # Absent <=> e \in Registered
  /\ \A d, e \in Registered : db[d].contact = db[e].contact => d = e
  /\ ImportInit
  /\ entry = [l \in Lists |-> NoEntry] /\ doubt = [l \in Lists |-> {}]
  /\ qpc = [q \in Queries |-> "idle"] /\ ask = [q \in Queries |-> NoEntry]
  /\ fetched = [q \in Queries |-> NoEntry]
  /\ cpc = [r \in Commands |-> "idle"] /\ kind = [r \in Commands |-> "none"]

-----------------------------------------------------------------------------
(***************************************************************************)
(* The keys.                                                               *)
(***************************************************************************)

\* The entries of the lists in L leave Redis.
Drop(L) ==
  /\ entry' = [l \in Lists |-> IF l \in L THEN NoEntry ELSE entry[l]]
  /\ doubt' = [l \in Lists |-> IF l \in L THEN {} ELSE doubt[l]]

\* The entries of the lists in L may be wrong from now on, because of why.
Doubt(L, why) ==
  /\ doubt' = [l \in Lists |->
                 IF l \in L /\ entry[l] # NoEntry THEN doubt[l] \cup {why} ELSE doubt[l]]
  /\ UNCHANGED entry

\* The entries of the lists in K leave Redis, but for those in L.
DropRest(L, K) ==
  /\ entry' = [l \in Lists |-> IF l \in K \ L THEN NoEntry ELSE entry[l]]
  /\ doubt' = [l \in Lists |-> IF l \in K \ L THEN {}
                               ELSE IF l \in L /\ entry[l] # NoEntry THEN doubt[l] \cup {"lost"}
                               ELSE doubt[l]]

\* The thirty seconds of an entry are over.
EntryExpires ==
  \E l \in Lists :
    /\ entry[l] # NoEntry /\ Drop({l})
    /\ UNCHANGED <<db, known, importVars, ipc, queryVars, cpc, kind>>

-----------------------------------------------------------------------------
(***************************************************************************)
(* getResidents and getResidentAccounts.                                   *)
(***************************************************************************)
Leave(q) == qpc' = [qpc EXCEPT ![q] = "done"] /\ UNCHANGED <<ask, fetched>>

queryFrame == <<db, known, importVars, ipc, cpc, kind>>

\* Without a filter: doWork looks for the key; an entry is the answer.
Ask(q) ==
  /\ qpc[q] = "idle"
  /\ \E l \in Lists, a \in Apartments :
       /\ ask' = [ask EXCEPT ![q] = <<l, a>>]
       /\ qpc' = [qpc EXCEPT ![q] = IF entry[l] # NoEntry THEN "done" ELSE "fetch"]
  /\ UNCHANGED <<fetched, keyVars, queryFrame>>

\* The work of doWork.
Fetch(q) ==
  /\ qpc[q] = "fetch"
  /\ fetched' = [fetched EXCEPT ![q] = [page |-> Page(ask[q][1], ask[q][2]), home |-> ask[q][2]]]
  /\ qpc' = [qpc EXCEPT ![q] = "store"]
  /\ UNCHANGED <<ask, keyVars, queryFrame>>

\* The set of doWork: an entry is late if the table has changed since the work.
StoreUnder(q, l) ==
  /\ qpc[q] = "store"
  /\ entry' = [entry EXCEPT ![l] = fetched[q]]
  /\ doubt' = [doubt EXCEPT ![l] =
                 IF fetched[q].page = Page(ask[q][1], fetched[q].home) THEN {} ELSE {"late"}]
  /\ Leave(q) /\ UNCHANGED queryFrame

Store(q) == StoreUnder(q, ask[q][1])

\* Another query holds the lock: the entry it stores is found after a delay, or
\* the attempts run out and the answer is TEMPORARY_UNAVAILABLE.  Any call may
\* also throw.
Await(q) ==
  /\ qpc[q] \in {"fetch", "store"}
  /\ Leave(q) /\ UNCHANGED <<keyVars, queryFrame>>

-----------------------------------------------------------------------------
(***************************************************************************)
(* The commands.                                                           *)
(***************************************************************************)

\* Command r is of kind k and leaves the table so; its keys are deleted next.
Change(r, k, table) ==
  /\ cpc[r] = "idle"
  /\ db' = table /\ known' = known \cup Identities(table)
  /\ kind' = [kind EXCEPT ![r] = k]
  /\ cpc' = [cpc EXCEPT ![r] = IF Evicts[k] = {} THEN "done" ELSE "evict"]
  /\ Doubt(Lists \ Evicts[k], k)
  /\ UNCHANGED <<importVars, ipc, queryVars>>

With(e, row) == [db EXCEPT ![e] = row]

\* createResidentAccount for an unknown email, createResident.
Insert(r) ==
  \E line \in Entry, a \in Apartments :
    /\ ~Taken(db, line)
    /\ \/ Change(r, "register", With(line.email, NewResident(line, a)))
       \/ Change(r, "signUp", With(line.email, [NewResident(line, a) EXCEPT !.status = "PENDING"]))

\* createResidentAccount for a resident who was registered: it returns before
\* it gets to the keys.
Promote(r) ==
  \E e \in Emails :
    /\ db[e] # Absent /\ db[e].status = "NOT_JOINED"
    /\ Change(r, "promote", With(e, [db[e] EXCEPT !.status = "PENDING"]))

\* updateResidentAccountJoinStatus
Decide(r) ==
  \E e \in Emails, s \in Joined :
    /\ db[e] # Absent /\ db[e].status \in {"NOT_JOINED", "PENDING"}
    /\ Change(r, "decide", With(e, [db[e] EXCEPT !.status = s]))

\* updateResidentAccountJoinStatuses
DecideAll(r) ==
  \E a \in Apartments, s \in Joined :
    LET asking == {e \in Emails : db[e] # Absent /\ db[e].home = a /\ db[e].status = "PENDING"}
    IN /\ asking # {}
       /\ Change(r, "decideAll",
            [e \in Emails |-> IF e \in asking THEN [db[e] EXCEPT !.status = s] ELSE db[e]])

\* updateResident; the email stays what it is.
Edit(r) ==
  \E e \in Emails, c \in Contacts :
    /\ db[e] # Absent
    /\ \A d \in Emails \ {e} : db[d] # Absent => db[d].contact # c
    /\ Change(r, "edit", With(e, [db[e] EXCEPT !.contact = c]))

\* deleteResident, for a row or for none.
Delete(r) == \E e \in Emails : Change(r, "delete", With(e, Absent))

\* deleteResidentAccounts
DeleteRejected(r) ==
  \E a \in Apartments :
    Change(r, "deleteRejected",
      [e \in Emails |-> IF db[e] # Absent /\ db[e].home = a /\ db[e].status = "REJECTED"
                        THEN Absent ELSE db[e]])

\* The calls of del leave on one connection in their order, so that whatever the
\* server asks Redis later comes after them, awaited or not.
DeleteKeys(r) ==
  /\ cpc[r] = "evict" /\ cpc' = [cpc EXCEPT ![r] = "done"]
  /\ Drop(Evicts[kind[r]])
  /\ UNCHANGED <<db, known, importVars, ipc, queryVars, kind>>

\* Each call may fail, and none is made if the insert of the alarm throws before
\* them or the server stops: the entries of the lists in L stay.
LoseEviction(r) ==
  /\ cpc[r] = "evict" /\ cpc' = [cpc EXCEPT ![r] = "done"]
  /\ \E L \in SUBSET Evicts[kind[r]] \ {{}} : DropRest(L, Evicts[kind[r]])
  /\ UNCHANGED <<db, known, importVars, ipc, queryVars, kind>>

\* An import goes on; it deletes no key.
Import(i) ==
  /\ ImportStep(i)
  /\ IF db' = db THEN UNCHANGED keyVars ELSE Doubt(Lists, "import")
  /\ UNCHANGED <<queryVars, cpc, kind>>

ListsNext ==
  \/ \E q \in Queries : Ask(q) \/ Fetch(q) \/ Store(q) \/ Await(q)
  \/ \E r \in Commands :
       \/ Insert(r) \/ Promote(r) \/ Decide(r) \/ DecideAll(r) \/ Edit(r) \/ Delete(r)
       \/ DeleteRejected(r) \/ DeleteKeys(r) \/ LoseEviction(r)
  \/ \E i \in Imports : Import(i)
  \/ EntryExpires

ListsSpec == ListsInit /\ [][ListsNext]_listsVars

-----------------------------------------------------------------------------
(***************************************************************************)
(* Properties.                                                             *)
(***************************************************************************)

\* The commands known to change a list and not to delete its key.
Forgotten ==
  [residents |-> {"promote", "import"}, residentAccounts |-> {"promote", "edit", "delete"}]

\* A cached list is the list of the apartment it was read for, unless a command
\* is about to delete it, the query that stored it was overtaken, its deletion
\* was lost, or one of the five commands above changed it: no other change of a
\* resident goes unnoticed by a list that shows him.
StaleListHasCause ==
  \A l \in Lists :
    entry[l] # NoEntry /\ entry[l].page # Page(l, entry[l].home) =>
      \/ doubt[l] \cap ({"late", "lost"} \cup Forgotten[l]) # {}
      \/ \E r \in Commands : cpc[r] = "evict" /\ l \in Evicts[kind[r]]
=============================================================================
