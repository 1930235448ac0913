----------------------------- MODULE JsonlStore -----------------------------
(***************************************************************************)
(* The portable store (_local_agent_store.py): four NDJSON files, each     *)
(* rewritten as a whole by every call that changes it.  A call reads the   *)
(* file, computes the new rows, truncates the file and writes them.        *)
(* Nothing suspends between these steps, so in one process calls follow    *)
(* one another; but a process may die at any of them, a write may fail     *)
(* half way, and another process may read the file at any of them.         *)
(*                                                                         *)
(* A file is a sequence of lines.  A line is a row, or the beginning of a  *)
(* row whose rest was never written: Torn where it ends after a character, *)
(* Split where it ends inside one (rows are written as UTF-8, not as       *)
(* ASCII).  A row has the columns                                          *)
(*   owner: cwd of an agent, agentId of a run or checkpoint, runId of an   *)
(*          event                                                          *)
(*   id:    agentId, runId, blobId, or the idempotencyKey of an event      *)
(*   order: updatedAt, turnNumber, - or seq                                *)
(*   ver:   which write of the document the row holds                      *)
(***************************************************************************)
EXTENDS Integers, Sequences, FiniteSets, SequencesExt

CONSTANTS Owner,     \* working directories, agents or runs
          Id,        \* ids, and idempotency keys
          Stored,    \* the rows there are at the start, for each table
          Limit,     \* the page size of a listing
          MaxRows,   \* bound: rows of a file
          MaxCalls   \* bound: writing calls of a behaviour

VARIABLES file,      \* the lines of each file
          pending,   \* the write under way: its file, rows and what it answers
          purge,     \* runs whose events runs.delete has still to delete
          reader,    \* a caller that lists one table page after page
          clock,     \* the time, for updatedAt
          acked,     \* history: the rows of each table as the answers tell
          given,     \* history: <<run, key, seq>> answered by append
          calls      \* writing calls made so far

vars == <<file, pending, purge, reader, clock, acked, given, calls>>

Table == {"agents", "runs", "events", "checkpoints"}
NoKey == 0
Row == [owner: Owner \cup Id, id: Id \cup Owner \cup {NoKey}, order: Nat, ver: Nat]
Torn == [torn |-> "line"]
Split == [torn |-> "character"]
None == [table |-> "none"]

TypeOK == /\ file \in [Table -> Seq(Row \cup {Torn, Split})]
          /\ pending = None \/ (pending.table \in Table /\ pending.rows \in Seq(Row))
          /\ purge \subseteq Id
          /\ acked \in [Table -> SUBSET Row]
          /\ given \subseteq Id \X Owner \X Nat
          /\ clock \in Nat /\ calls \in 0 .. MaxCalls

-----------------------------------------------------------------------------
(* Reading.  The whole text is decoded first: a character that was cut     *)
(* raises, whatever else the file holds.  Then a line that is not JSON is  *)
(* dropped if it is the last, and raises otherwise.                        *)
Undecodable(lines) == \E i \in DOMAIN lines : lines[i] = Split
Corrupt(lines) == \E i \in 1 .. Len(lines) - 1 : lines[i] = Torn
Rows(lines) == SelectSeq(lines, LAMBDA line : line \in Row)

SameKey(t, r, s) == IF t = "events" THEN r.owner = s.owner /\ r.order = s.order
                    ELSE r.id = s.id /\ (t = "agents" \/ r.owner = s.owner)

\* an empty set is a filter that was not given
Matches(filter, r) == /\ filter.owners # {} => r.owner \in filter.owners
                      /\ filter.ids # {} => r.id \in filter.ids
Without(rows, filter) == SelectSeq(rows, LAMBDA r : ~Matches(filter, r))
Position(t, r) == CASE t = "agents" -> <<-r.order, -r.id>>
                    [] t = "runs" -> <<r.order, r.id>>
                    [] t = "events" -> <<r.order, 0>>
                    [] t = "checkpoints" -> <<r.id, 0>>
\* Mutant: rows in the same place of the order are not told apart.
PrecedesByOrder(p, q) == p[1] < q[1]

Precedes(p, q) == p[1] < q[1] \/ (p[1] = q[1] /\ p[2] < q[2])
Start == <<-1000, 0>>      \* no cursor: before every position

\* one page: the rows after the cursor, sorted, as many as the limit allows
Remaining(t, rows, owner, cursor) ==
  {r \in ToSet(rows) : r.owner = owner /\ Precedes(cursor, Position(t, r))}
Page(t, rest) ==
  SubSeq(SetToSortSeq(rest, LAMBDA r, s : Precedes(Position(t, r), Position(t, s))),
         1, IF Cardinality(rest) < Limit THEN Cardinality(rest) ELSE Limit)

-----------------------------------------------------------------------------
Init == /\ file = Stored
        /\ pending = None /\ reader = None
        /\ purge = {} /\ clock = 1 /\ calls = 0
        /\ acked = [t \in Table |-> ToSet(Stored[t])] /\ given = {}

\* the next call of this process may begin: the lock is free
Free == pending = None /\ purge = {} /\ calls < MaxCalls /\ calls' = calls + 1
\* every call reads its file first; one that raises there changes nothing
Reads(t) == ~Undecodable(file[t]) /\ ~Corrupt(file[t])

\* _write_jsonl_file opens the file for writing, which empties it
Rewrite(t, rows, told, answer) ==
  /\ file' = [file EXCEPT ![t] = <<>>]
  /\ pending' = [table |-> t, rows |-> rows, acked |-> told, given |-> answer]

Tick == clock' \in {clock, clock + 1}

\* Mutant: a document that is there already is created once more.
CreateUnchecked(t, row) ==
  LET rows == Rows(file[t]) IN
  /\ Free /\ Reads(t) /\ t # "events" /\ Len(rows) < MaxRows
  /\ Rewrite(t, Append(rows, row), acked[t] \cup {row}, {})
  /\ UNCHANGED <<purge, reader, acked, given>>

Create(t, row) ==
  LET rows == Rows(file[t]) IN
  /\ Free /\ Reads(t) /\ t # "events" /\ Len(rows) < MaxRows
  /\ ~\E r \in ToSet(rows) : SameKey(t, r, row)
  /\ Rewrite(t, Append(rows, row), acked[t] \cup {row}, {})
  /\ UNCHANGED <<purge, reader, acked, given>>

\* the caller's document replaces the stored one
Update(t, row) ==
  LET rows == Rows(file[t]) IN
  /\ Free /\ Reads(t) /\ t # "events"
  /\ \E i \in DOMAIN rows :
       /\ SameKey(t, rows[i], row)
       /\ ~\E j \in 1 .. i - 1 : SameKey(t, rows[j], row)
       /\ Rewrite(t, [rows EXCEPT ![i] = row],
                  {r \in acked[t] : ~SameKey(t, r, row)} \cup {row}, {})
  /\ UNCHANGED <<purge, reader, acked, given>>

\* agents.delete raises and runs.delete returns when no row matches; the
\* events of the runs deleted follow, call by call
Delete(t, filter) ==
  LET rows == Rows(file[t])
      kept == Without(rows, filter) IN
  /\ Free /\ Reads(t)
  /\ t \in {"agents", "runs"} => Len(kept) < Len(rows)
  /\ Rewrite(t, kept, {r \in acked[t] : ~Matches(filter, r)}, {})
  /\ purge' = IF t = "runs" THEN {r.id : r \in ToSet(rows) \ ToSet(kept)} ELSE {}
  /\ UNCHANGED <<reader, clock, acked, given>>

PurgeEvents(run) ==
  LET gone == [owners |-> {run}, ids |-> {}] IN
  /\ pending = None /\ run \in purge /\ Reads("events")
  /\ purge' = purge \ {run}
  /\ Rewrite("events", Without(Rows(file["events"]), gone),
             {r \in acked["events"] : ~Matches(gone, r)}, {})
  /\ UNCHANGED <<reader, clock, acked, given, calls>>

\* the events cannot be read: runs.delete raises, its runs already deleted
PurgeFails ==
  /\ pending = None /\ purge # {} /\ ~Reads("events")
  /\ purge' = {}
  /\ UNCHANGED <<file, pending, reader, clock, acked, given, calls>>

NextSeq(rows, run) ==
  LET seqs == {0} \cup {r.order : r \in {r \in ToSet(rows) : r.owner = run}} IN
  1 + CHOOSE m \in seqs : \A n \in seqs : n <= m

\* a key that is there already is answered with the row that has it
AppendAgain(run, key) ==
  \E r \in ToSet(Rows(file["events"])) :
    /\ Free /\ Reads("events") /\ key # NoKey /\ r.owner = run /\ r.id = key
    /\ given' = given \cup {<<run, key, r.order>>}
    /\ UNCHANGED <<file, pending, purge, reader, clock, acked>>

AppendEvent(run, key) ==
  LET rows == Rows(file["events"])
      row == [owner |-> run, id |-> key, order |-> NextSeq(rows, run), ver |-> 0] IN
  /\ Free /\ Reads("events") /\ Len(rows) < MaxRows
  /\ ~\E r \in ToSet(rows) : key # NoKey /\ r.owner = run /\ r.id = key
  /\ Rewrite("events", Append(rows, row), acked["events"] \cup {row},
             IF key = NoKey THEN {} ELSE {<<run, key, row.order>>})
  /\ UNCHANGED <<purge, reader, clock, acked, given>>

\* some lines reach the disk
WriteLines ==
  /\ pending # None
  /\ LET at == Len(file[pending.table]) IN
     /\ at < Len(pending.rows)
     /\ file' = [file EXCEPT ![pending.table] = SubSeq(pending.rows, 1, at + 1)]
  /\ UNCHANGED <<pending, purge, reader, clock, acked, given, calls>>

\* deleted events give their offsets free, and so does a crash
Told(t, rows, old, new) ==
  IF t # "events" THEN old
  ELSE {g \in old \cup new : \E r \in ToSet(rows) : r.owner = g[1] /\ r.id = g[2]}

\* what a listing must give: the rows that keep their place while it lasts
StillThere(t, rows) ==
  IF reader = None \/ reader.table # t THEN reader
  ELSE [reader EXCEPT !.steady = {r \in @ : \E s \in ToSet(rows) :
                                    SameKey(t, r, s) /\ Position(t, r) = Position(t, s)}]

\* the call returns
Written ==
  /\ pending # None /\ Len(file[pending.table]) = Len(pending.rows)
  /\ reader' = StillThere(pending.table, pending.rows)
  /\ acked' = [acked EXCEPT ![pending.table] = pending.acked]
  /\ given' = Told(pending.table, pending.rows, given, pending.given)
  /\ pending' = None
  /\ UNCHANGED <<file, purge, clock, calls>>

\* A write ends before its rows are all there: whole lines are written, and
\* possibly the beginning of the next one.
CutShort ==
  /\ pending # None
  /\ LET t == pending.table
         lines == file[t] IN
     /\ \/ UNCHANGED file
        \/ /\ Len(lines) < Len(pending.rows)
           /\ \E cut \in {Torn, Split} : file' = [file EXCEPT ![t] = Append(lines, cut)]
     /\ acked' = [acked EXCEPT ![t] = ToSet(lines)]
     /\ given' = Told(t, lines, given, {})
  /\ pending' = None /\ purge' = {}
  /\ UNCHANGED <<clock, calls>>

\* the process dies, and a new one starts
Crash == CutShort /\ reader' = None

\* the write raises (a full disk): the call fails, and the process goes on
WriteFails == CutShort /\ reader' = StillThere(pending.table, file[pending.table])

-----------------------------------------------------------------------------
(* A caller of this process lists the rows of an owner, page after page.   *)
StartListing(t, owner) ==
  /\ pending = None /\ reader = None /\ Reads(t)
  /\ reader' = [table |-> t, owner |-> owner, cursor |-> Start, got |-> <<>>,
                steady |-> {r \in ToSet(Rows(file[t])) : r.owner = owner},
                done |-> FALSE]
  /\ UNCHANGED <<file, pending, purge, clock, acked, given, calls>>

\* nextCursor is there if something remains after this page
NextPage ==
  /\ pending = None /\ reader # None /\ ~reader.done /\ Reads(reader.table)
  /\ LET t == reader.table
         rest == Remaining(t, Rows(file[t]), reader.owner, reader.cursor)
         page == Page(t, rest) IN
     reader' = [reader EXCEPT
       !.got = @ \o page,
       !.done = Cardinality(rest) <= Limit,
       !.cursor = IF page = <<>> THEN @ ELSE Position(t, Last(page))]
  /\ UNCHANGED <<file, pending, purge, clock, acked, given, calls>>

\* the caller has all, or a page raised
EndListing == /\ pending = None /\ reader # None
              /\ reader.done \/ ~Reads(reader.table)
              /\ reader' = None
              /\ UNCHANGED <<file, pending, purge, clock, acked, given, calls>>

-----------------------------------------------------------------------------
Filter == [owners : {{}} \cup {{o} : o \in Owner \cup Id}, ids : {{}} \cup {{i} : i \in Id}]
Turn(owner) == 1 + Cardinality({r \in ToSet(Rows(file["runs"])) : r.owner = owner})

\* what callers do with a document: an agent is stamped with the time and
\* keeps its directory, a run keeps its turn
SaveAgent(owner, id) ==
  LET row == [owner |-> owner, id |-> id, order |-> clock', ver |-> (calls + 1) % 2] IN
  /\ Tick
  /\ \A r \in ToSet(Rows(file["agents"])) : r.id = id => r.owner = owner
  /\ Create("agents", row) \/ Update("agents", row)
SaveRun(owner, id) ==
  \E turn \in {Turn(owner)} \cup {r.order : r \in ToSet(Rows(file["runs"]))} :
    LET row == [owner |-> owner, id |-> id, order |-> turn, ver |-> (calls + 1) % 2] IN
    /\ UNCHANGED clock
    /\ \/ turn = Turn(owner) /\ Create("runs", row)
       \/ /\ \E r \in ToSet(Rows(file["runs"])) :
               SameKey("runs", r, row) /\ r.order = turn
          /\ Update("runs", row)
SaveCheckpoint(owner, id) ==
  LET row == [owner |-> owner, id |-> id, order |-> 0, ver |-> (calls + 1) % 2] IN
  /\ UNCHANGED clock
  /\ Create("checkpoints", row) \/ Update("checkpoints", row)
SaveEvent(run, key) == \/ AppendEvent(run, key) /\ UNCHANGED clock
                       \/ AppendAgain(run, key)

\* the calls that concern some of the tables
NextOn(tables) ==
  \/ \E o \in Owner, i \in Id :
       \/ "agents" \in tables /\ SaveAgent(o, i)
       \/ "runs" \in tables /\ SaveRun(o, i)
       \/ "checkpoints" \in tables /\ SaveCheckpoint(o, i)
  \/ \E r \in Id, k \in Owner \cup {NoKey} : "events" \in tables /\ SaveEvent(r, k)
  \/ \E t \in tables, f \in Filter : (t = "events" => f.ids = {}) /\ Delete(t, f)
  \/ \E run \in purge : PurgeEvents(run)
  \/ PurgeFails \/ WriteLines \/ Written \/ Crash \/ WriteFails
  \/ \E t \in tables, o \in Owner : StartListing(t, o)
  \/ NextPage \/ EndListing

Next == NextOn(Table)
Spec == Init /\ [][Next]_vars

-----------------------------------------------------------------------------
(* What a write that was cut short leaves at the end of a file is the only *)
(* damage there is: no document is there twice, the events of a run are in *)
(* the order of their offsets with at most one event per idempotency key,  *)
(* and a file that no longer reads is one whose last character was cut.    *)
FilesSound ==
  /\ TypeOK
  /\ \A t \in Table :
       LET rows == Rows(file[t]) IN
       /\ \A i \in 1 .. Len(file[t]) - 1 : file[t][i] \in Row
       /\ \A i, j \in DOMAIN rows : i < j =>
            /\ ~SameKey(t, rows[i], rows[j])
            /\ t = "events" /\ rows[i].owner = rows[j].owner =>
                 /\ rows[i].order < rows[j].order
                 /\ rows[i].id = rows[j].id => rows[i].id = NoKey

(* While no call rewrites a file, its rows are those that the answers      *)
(* given so far tell, less what a write cut short took: a call of one      *)
(* table never changes another, a file that no longer reads takes no other *)
(* with it, and an append that is repeated is stored once, under the       *)
(* offset it was answered with.                                            *)
AnswersHold ==
  /\ \A t \in Table : (pending = None \/ pending.table # t) =>
       ToSet(Rows(file[t])) = acked[t]
  /\ (pending = None \/ pending.table # "events") =>
       \A g \in given : \E r \in acked["events"] :
         r.owner = g[1] /\ r.id = g[2] /\ r.order = g[3]

(* A listing that ends has given every row that kept its place meanwhile   *)
(* exactly once, and no agent twice, however rows come, go and move        *)
(* between its pages.                                                      *)
ListedOnce ==
  reader # None /\ reader.done =>
    LET Times(r) == Cardinality({i \in DOMAIN reader.got : SameKey(reader.table, reader.got[i], r)}) IN
    /\ \A r \in reader.steady : Times(r) = 1
    /\ reader.table = "agents" => \A r \in ToSet(reader.got) : Times(r) = 1
(* What tests/test_jsonl_store.py says of the store                        *)
(* (test_jsonl_tolerates_partial_last_line): a file whose last line is     *)
(* partial can still be read.                                              *)
ToleratesPartialLine == \A t \in Table : ~Undecodable(file[t]) /\ ~Corrupt(file[t])
=============================================================================
