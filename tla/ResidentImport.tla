--------------------------- MODULE ResidentImport ---------------------------
(***************************************************************************)
(* createResidentBulk: an administrator uploads a CSV file of residents    *)
(* and the service stores them in chunks, each by one SQL statement of its *)
(* own that skips every row whose email or contact the table has already.  *)
(* No transaction spans the chunks and nothing retries: a line that the    *)
(* schema refuses, an error or a restart leaves the chunks stored before.  *)
(*                                                                         *)
(* The table of residents is shared with the other commands and with the   *)
(* queries; module ResidentLists composes them with the steps below.       *)
(***************************************************************************)
EXTENDS Naturals, FiniteSets, Sequences, FiniteSetsExt

CONSTANTS
  Imports,     \* uploads; each is served once, which bounds the model
  Apartments,
  Emails,
  Contacts,
  Files,       \* contents of the uploaded files, without their first line
  ChunkSize,   \* rows per statement, 1000
  Outside,     \* a line whose building or unit the apartment does not have
  Malformed,   \* a line importResidentRowSchema refuses
  TooShort,    \* a line with too few fields, as the empty one after the last newline
  Absent       \* no row

Status == {"NOT_JOINED", "PENDING", "APPROVED", "REJECTED"}

\* A line that can be stored; name, building and unit go with the contact.
Entry == [email : Emails, contact : Contacts]

ASSUME ChunksHaveRows == ChunkSize \in Nat \ {0}

\* How the request ends at a line that cannot be read: validate throws, or
\* clean is called with undefined.
Unreadable == {Malformed, TooShort}
Refusal(line) == IF line = Malformed THEN "INVALID_INPUT" ELSE "ERROR"

ASSUME FilesAreLines == Files \subseteq Seq(Entry \cup {Outside} \cup Unreadable)
ASSUME MarksAreNoEntries ==
  /\ Outside \notin Entry /\ Unreadable \cap (Entry \cup {Outside}) = {}
  /\ Malformed # TooShort

Row == [contact : Contacts, home : Apartments, status : Status]

ASSUME AbsentIsNoRow == Absent \notin Row

VARIABLES
  db,         \* db[e] is the row of the resident with email e, or Absent
  file,       \* file[i] is the file import i works on
  home,       \* home[i] is the apartment of the administrator who asked for i
  ipc,        \* ipc[i] is the call import i makes next
  at,         \* at[i] counts the lines of file[i] up to the last one stored
  processed,  \* processed[i] is processCount
  answer,     \* answer[i] is what the administrator is told: a count, or why not
  known,      \* history: the emails and contacts the table has ever held
  brought     \* history: brought[i] is the set of emails import i inserted

importVars == <<file, home, ipc, at, processed, answer, brought>>

Refusals == {"none", "ERROR", "NOT_CSV_FILE", "APARTMENT_NOT_FOUND", "INVALID_INPUT"}

ImportTypeOK ==
  /\ db \in [Emails -> Row \cup {Absent}]
  /\ file \in [Imports -> Files \cup {<<>>}]
  /\ home \in [Imports -> Apartments \cup {Absent}]
  /\ ipc \in [Imports -> {"idle", "store", "done"}]
  /\ at \in [Imports -> Nat] /\ \A i \in Imports : at[i] <= Len(file[i])
  /\ processed \in [Imports -> Nat]
  /\ answer \in [Imports -> Nat \X {"count"} \cup {0} \X Refusals]
  /\ known \subseteq Emails \cup Contacts
  /\ brought \in [Imports -> SUBSET Emails]

Identities(table) ==
  {e \in Emails : table[e] # Absent} \cup {table[e].contact : e \in {d \in Emails : table[d] # Absent}}

ImportInit ==
  /\ file = [i \in Imports |-> <<>>] /\ home = [i \in Imports |-> Absent]
  /\ ipc = [i \in Imports |-> "idle"] /\ at = [i \in Imports |-> 0]
  /\ processed = [i \in Imports |-> 0] /\ answer = [i \in Imports |-> <<0, "none">>]
  /\ known = Identities(db)
  /\ brought = [i \in Imports |-> {}]

-----------------------------------------------------------------------------
(***************************************************************************)
(* The loop over the lines.                                                *)
(***************************************************************************)

\* The lines of f after the first n that become rows; the others are passed over.
Eligible(f, n) == {k \in n + 1 .. Len(f) : f[k] \in Entry}

\* The lines after the first n fill a whole chunk.
Fills(f, n) == Cardinality(Eligible(f, n)) >= ChunkSize

\* The line at which the loop awaits the next statement.
ChunkEnd(f, n) ==
  IF Fills(f, n)
  THEN CHOOSE k \in Eligible(f, n) : Cardinality(Eligible(f, n) \ Eligible(f, k)) = ChunkSize
  ELSE Len(f)

\* The lines on the way to the end of the chunk that cannot be read.
Bad(f, n) == {k \in n + 1 .. ChunkEnd(f, n) : f[k] \in Unreadable}

\* The lines whose rows the next statement inserts.
Chunk(f, n) == Eligible(f, n) \ Eligible(f, ChunkEnd(f, n))

\* ON CONFLICT DO NOTHING, for any unique column.
Taken(table, line) ==
  \/ table[line.email] # Absent
  \/ \E e \in Emails : table[e] # Absent /\ table[e].contact = line.contact

Clash(line, other) == line.email = other.email \/ line.contact = other.contact

\* The lines that get in: their email and contact are new to the table and to
\* the lines that got in before them.
Accepted(table, f, lines) ==
  CHOOSE K \in SUBSET lines :
    \A k \in lines :
      k \in K <=> ~Taken(table, f[k]) /\ \A j \in K : j < k => ~Clash(f[j], f[k])

\* Mutant: the link to the apartment is left out.
NewResidentUnlinked(line, apt) == [contact |-> line.contact, home |-> Absent, status |-> "NOT_JOINED"]

NewResident(line, apt) == [contact |-> line.contact, home |-> apt, status |-> "NOT_JOINED"]

\* The table after the statement for these lines of f.
Inserted(table, f, lines, apt) ==
  LET new == Accepted(table, f, lines)
      lineOf(e) == CHOOSE k \in new : f[k].email = e
  IN [e \in Emails |-> IF \E k \in new : f[k].email = e THEN NewResident(f[lineOf(e)], apt)
                                                        ELSE table[e]]

-----------------------------------------------------------------------------
(***************************************************************************)
(* The import.                                                             *)
(***************************************************************************)

\* Import i has consumed n lines of f: it prepares the next chunk, or throws.
Loop(i, f, n) ==
  /\ at' = [at EXCEPT ![i] = n]
  /\ \/ /\ Bad(f, n) # {}
        /\ ipc' = [ipc EXCEPT ![i] = "done"]
        /\ answer' = [answer EXCEPT ![i] = <<0, Refusal(f[Min(Bad(f, n))])>>]
     \/ /\ Bad(f, n) = {}
        /\ ipc' = [ipc EXCEPT ![i] = "store"]
        /\ UNCHANGED answer

\* How the request ends before the first line: a call throws, the body getFile
\* returns is empty, as it always is outside of development, or findById finds
\* no apartment.
Unread == {"ERROR", "NOT_CSV_FILE", "APARTMENT_NOT_FOUND"}

\* findAdminById, getFile, readFile and findById change nothing.
Begin(i) ==
  /\ ipc[i] = "idle"
  /\ \/ \E f \in Files, a \in Apartments :
          /\ file' = [file EXCEPT ![i] = f] /\ home' = [home EXCEPT ![i] = a]
          /\ Loop(i, f, 0)
     \/ \E why \in Unread :
          /\ ipc' = [ipc EXCEPT ![i] = "done"]
          /\ answer' = [answer EXCEPT ![i] = <<0, why>>]
          /\ UNCHANGED <<file, home, at>>
  /\ UNCHANGED <<db, processed, known, brought>>

\* Mutant: what is left after the last whole chunk is not stored.
StoreChunkForgettingRest(i) ==
  LET f == file[i]
      n == at[i]
      table == IF Fills(f, n) THEN Inserted(db, f, Chunk(f, n), home[i]) ELSE db
  IN /\ ipc[i] = "store"
     /\ db' = table /\ known' = known \cup Identities(table)
     /\ brought' = [brought EXCEPT ![i] = @ \cup {e \in Emails : db[e] # table[e]}]
     /\ \/ /\ Fills(f, n)
           /\ processed' = [processed EXCEPT ![i] = @ + ChunkSize]
           /\ Loop(i, f, ChunkEnd(f, n))
        \/ /\ ~Fills(f, n)
           /\ at' = [at EXCEPT ![i] = Len(f)] /\ ipc' = [ipc EXCEPT ![i] = "done"]
           /\ answer' = [answer EXCEPT ![i] = <<processed[i], "count">>]
           /\ UNCHANGED processed
     /\ UNCHANGED <<file, home>>

\* createManyBulk.  A whole chunk counts as ChunkSize whatever was inserted; the
\* statement for the rest of the file, which may be empty, returns its own count.
StoreChunk(i) ==
  LET f == file[i]
      n == at[i]
      table == Inserted(db, f, Chunk(f, n), home[i])
      new == {e \in Emails : db[e] # table[e]}
  IN /\ ipc[i] = "store"
     /\ db' = table /\ known' = known \cup Identities(table)
     /\ brought' = [brought EXCEPT ![i] = @ \cup new]
     /\ \/ /\ Fills(f, n)
           /\ processed' = [processed EXCEPT ![i] = @ + ChunkSize]
           /\ Loop(i, f, ChunkEnd(f, n))
        \/ /\ ~Fills(f, n)
           /\ at' = [at EXCEPT ![i] = Len(f)] /\ ipc' = [ipc EXCEPT ![i] = "done"]
           /\ answer' = [answer EXCEPT ![i] = <<processed[i] + Cardinality(new), "count">>]
           /\ UNCHANGED processed
     /\ UNCHANGED <<file, home>>

\* A statement throws, or the server stops.
FailImport(i) ==
  /\ ipc[i] = "store"
  /\ ipc' = [ipc EXCEPT ![i] = "done"]
  /\ answer' = [answer EXCEPT ![i] = <<0, "ERROR">>]
  /\ UNCHANGED <<db, file, home, at, processed, known, brought>>

ImportStep(i) == Begin(i) \/ StoreChunk(i) \/ FailImport(i)

-----------------------------------------------------------------------------
(***************************************************************************)
(* Properties.                                                             *)
(***************************************************************************)

\* What an import has stored is a whole number of chunks from the start of its
\* file, or the whole of it: a line that cannot be read costs exactly the rows
\* of its own chunk and those after it, nothing past the last stored chunk has
\* entered the table, and a file that was answered with a count has all its rows
\* stored or known.  That count is at least what the import inserted and at most
\* what the file offered, and exact for a file shorter than a chunk.
StoredInWholeChunks ==
  \A i \in Imports :
    LET f == file[i]
        offered == Eligible(f, 0)
        stored == offered \ Eligible(f, at[i])
        sound == {k \in offered : \A b \in 1 .. k : f[b] \notin Unreadable}
    IN /\ \A k \in stored : {f[k].email, f[k].contact} \cap known # {}
       /\ brought[i] \subseteq {f[k].email : k \in stored}
       /\ answer[i][2] # "count" =>
            stored \subseteq sound /\ Cardinality(stored) % ChunkSize = 0
       /\ answer[i][2] = "INVALID_INPUT" =>
            Cardinality(stored) = ChunkSize * (Cardinality(sound) \div ChunkSize)
       /\ answer[i][2] = "count" =>
            /\ sound = offered /\ stored = offered
            /\ answer[i][1] \in Cardinality(brought[i]) .. Cardinality(offered)
            /\ Cardinality(offered) < ChunkSize => answer[i][1] = Cardinality(brought[i])
=============================================================================
