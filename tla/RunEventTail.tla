---------------------------- MODULE RunEventTail ----------------------------
(***************************************************************************)
(* Reading a local run while it is being written: RunEventTailer, and      *)
(* LocalRun.stream(), observe() and wait() on top of it.                   *)
(*                                                                         *)
(* The writer is the one of LocalRuntime seen from a single run: an        *)
(* executor that appends messages and ends the turn, and the cancel or     *)
(* forced send that may overtake it, as segments of statements.  Writer    *)
(* and reader are tasks of one event loop, which switches only where the   *)
(* reader suspends, or live in two processes that share the store, where   *)
(* the statements of both interleave.                                      *)
(***************************************************************************)
EXTENDS Naturals, Sequences

CONSTANTS
  Places,         \* where the reader may run, see Place
  PageLimit,      \* rows per page: 100 in list_run_events unless given
  MaxLog          \* bound: the executor emits while its log is shorter

\* In the writer's event loop, as a consumer that does not suspend while it holds
\* a message ("loop") or as one that awaits then or is in a thread ("slow"); or in
\* another process.
Place == {"loop", "slow", "process"}

ASSUME TailAssumption ==
  /\ Places \subseteq Place
  /\ PageLimit \in Nat \ {0}
  /\ MaxLog \in Nat

VARIABLES
  log,            \* run_events of the run; the offset of an event is its index
  row,            \* runs.status of the run
  alive,          \* the executor is still consuming its stream
  todo,           \* what is left of the writer's segment
  pc,             \* where the reader is
  client,         \* what it serves and where
  mode,           \* replay, tail, or replay-and-tail
  from,           \* the offset after which it has to deliver
  offset,         \* the offset it has reached
  page,           \* the rows of the current page still to be looked at
  more,           \* next_offset of the page is not None
  saw,            \* a terminal event was in the page
  got,            \* history: the offsets of the events yielded to the consumer
  result          \* the status wait() returned

writer == <<log, row, alive, todo>>
reader == <<pc, client, mode, from, offset, page, more, saw, got, result>>
vars == <<log, row, alive, todo, pc, client, mode, from, offset, page, more, saw, got, result>>

Terminal == {"FINISHED", "ERROR", "CANCELLED", "EXPIRED"}
Event == {"message", "result", "done"} \cup Terminal

\* is_terminal_local_run_stream_event: these stop a tail.
IsTerminalEvent(e) == e \in Terminal \cup {"result", "done"}

Client == [op : {"stream", "observe", "wait"}, place : Place]
SharedLoop == client.place # "process"

\* stream() yields the public messages, observe() the terminal envelopes too.
Yields(e) == client.op = "observe" \/ e \notin {"result", "done"}

-----------------------------------------------------------------------------
Init ==
  /\ log = <<"message">>
  /\ row = "RUNNING"
  /\ alive = TRUE
  /\ todo = <<>>
  /\ pc = "start"
  /\ client \in [op : {"stream", "observe", "wait"}, place : Places]
  /\ mode = "replay"
  /\ from \in IF client.op = "observe" THEN {0, 1} ELSE {0}
  /\ offset = from
  /\ page = <<>>
  /\ more = FALSE
  /\ saw = FALSE
  /\ got = <<>>
  /\ result = "none"

\* Where the reader gives the loop away: before it starts and after it ended,
\* asleep between two polls, and with the consumer holding a message if the
\* consumer suspends there; wait() never does.
Suspended ==
  \/ pc \in {"start", "sleep", "ended"}
  \/ pc = "held" /\ client.place = "slow" /\ client.op # "wait"

WriterRuns == SharedLoop => Suspended
ReaderRuns == SharedLoop => todo = <<>>

(* The writer *)

Append1(e) == [do |-> "append", arg |-> e]
Mark(status) == [do |-> "mark", arg |-> status]
Statement == [do : {"append"}, arg : Event] \cup [do : {"mark"}, arg : Terminal]

\* _finish and _fail: the status message first, the row next.
EndScript(status) == << Append1(status), Mark(status), Append1("result"), Append1("done") >>

\* _cancel_async and expire_active_run: the row first.
CancelScript == << Mark("CANCELLED"), Append1("CANCELLED"), Append1("result"), Append1("done") >>
ExpireScript == << Mark("EXPIRED"), Append1("EXPIRED") >>

Emit ==
  /\ WriterRuns /\ alive /\ todo = <<>>
  /\ Len(log) < MaxLog
  /\ log' = Append(log, "message")
  /\ UNCHANGED <<row, alive, todo, reader>>

EndTurn(status) ==
  /\ WriterRuns /\ alive /\ todo = <<>>
  /\ todo' = EndScript(status)
  /\ alive' = FALSE
  /\ UNCHANGED <<log, row, reader>>

\* A cancel or a forced send: it sees a live row; the executor is not stopped.
Overtake(script) ==
  /\ WriterRuns /\ todo = <<>>
  /\ row = "RUNNING"
  /\ todo' = script
  /\ UNCHANGED <<log, row, alive, reader>>

WriterStatement ==
  /\ WriterRuns /\ todo # <<>>
  /\ \/ /\ Head(todo).do = "append"
        /\ log' = Append(log, Head(todo).arg)
        /\ UNCHANGED row
     \/ /\ Head(todo).do = "mark"
        /\ row' = Head(todo).arg
        /\ UNCHANGED log
  /\ todo' = Tail(todo)
  /\ UNCHANGED <<alive, reader>>

\* The writer's process dies, also between two statements; the reader's lives on.
WriterCrashes ==
  /\ ~SharedLoop
  /\ alive \/ todo # <<>>
  /\ alive' = FALSE
  /\ todo' = <<>>
  /\ UNCHANGED <<log, row, reader>>

-----------------------------------------------------------------------------
(* The reader *)

\* A LocalRun made while the row was live tails; one made later replays.  The
\* mode "tail" is the tailer's own: without an offset, it runs over what is there.
Start(m) ==
  /\ ReaderRuns /\ pc = "start"
  /\ m = "replay" => row \in Terminal
  /\ m = "tail" => client.op # "wait"
  /\ mode' = m
  /\ pc' = IF m = "tail" /\ from = 0 THEN "drain" ELSE "list"
  /\ UNCHANGED <<writer, client, from, offset, page, more, saw, got, result>>

\* list_run_events(after_offset = a): the offsets of a page, and whether more follow.
PageEnd(a) == IF a + PageLimit < Len(log) THEN a + PageLimit ELSE Len(log)
MoreAfter(a) == Len(log) > a + PageLimit

\* Mutant: a page starts with the row it was to start after.
PageFrom(a) == [i \in 1 .. PageEnd(a) - a |-> IF a = 0 THEN i ELSE a + i - 1]

PageAfter(a) == [i \in 1 .. PageEnd(a) - a |-> a + i]

\* _drain_existing, one page: nothing is yielded.
Drain ==
  /\ ReaderRuns /\ pc = "drain"
  /\ offset' = PageEnd(offset)
  /\ from' = PageEnd(offset)
  /\ pc' = IF MoreAfter(offset) THEN "drain" ELSE "list"
  /\ UNCHANGED <<writer, client, mode, page, more, saw, got, result>>

ListPage ==
  /\ ReaderRuns /\ pc = "list"
  /\ page' = PageAfter(offset)
  /\ more' = MoreAfter(offset)
  /\ saw' = FALSE
  /\ pc' = "page"
  /\ UNCHANGED <<writer, client, mode, from, offset, got, result>>

\* The next event of the page, yielded unless it is not for this client.
TakeEvent ==
  LET e == log[Head(page)]
  IN  /\ ReaderRuns /\ pc = "page" /\ page # <<>>
      /\ offset' = Head(page)
      /\ page' = Tail(page)
      /\ saw' = (saw \/ IsTerminalEvent(e))
      /\ got' = IF Yields(e) THEN Append(got, Head(page)) ELSE got
      /\ pc' = IF Yields(e) THEN "held" ELSE "page"
      /\ UNCHANGED <<writer, client, mode, from, more, result>>

\* The consumer asks for the next message.
ConsumerReturns ==
  /\ ReaderRuns /\ pc = "held"
  /\ pc' = "page"
  /\ UNCHANGED <<writer, client, mode, from, offset, page, more, saw, got, result>>

\* wait() reads the row once the stream has ended.
AfterStream == IF client.op = "wait" THEN "find_run" ELSE "ended"

\* Mutant: the row is looked at before the next page.
PageDoneRowFirst ==
  /\ ReaderRuns /\ pc = "page" /\ page = <<>>
  /\ pc' = IF saw \/ row \in Terminal THEN AfterStream
           ELSE IF more THEN "list"
           ELSE IF mode = "replay" THEN AfterStream
           ELSE "row"
  /\ UNCHANGED <<writer, client, mode, from, offset, page, more, saw, got, result>>

PageDone ==
  /\ ReaderRuns /\ pc = "page" /\ page = <<>>
  /\ pc' = IF saw THEN AfterStream
           ELSE IF more THEN "list"
           ELSE IF mode = "replay" THEN AfterStream
           ELSE "row"
  /\ UNCHANGED <<writer, client, mode, from, offset, page, more, saw, got, result>>

\* Mutant: only the executor's verdicts end a tail.
ReadRowVerdict ==
  /\ ReaderRuns /\ pc = "row"
  /\ pc' = IF row \in {"FINISHED", "ERROR"} THEN AfterStream ELSE "sleep"
  /\ UNCHANGED <<writer, client, mode, from, offset, page, more, saw, got, result>>

\* find_run after a page without a terminal event: an ended run ends the tail.
ReadRow ==
  /\ ReaderRuns /\ pc = "row"
  /\ pc' = IF row \in Terminal THEN AfterStream ELSE "sleep"
  /\ UNCHANGED <<writer, client, mode, from, offset, page, more, saw, got, result>>

Wake ==
  /\ ReaderRuns /\ pc = "sleep"
  /\ pc' = "list"
  /\ UNCHANGED <<writer, client, mode, from, offset, page, more, saw, got, result>>

\* _wait_async: the status of the result is the row's.
WaitFindsRun ==
  /\ ReaderRuns /\ pc = "find_run"
  /\ result' = row
  /\ pc' = "ended"
  /\ UNCHANGED <<writer, client, mode, from, offset, page, more, saw, got>>

-----------------------------------------------------------------------------
Writer ==
  \/ Emit
  \/ \E status \in {"FINISHED", "ERROR"} : EndTurn(status)
  \/ \E script \in {CancelScript, ExpireScript} : Overtake(script)
  \/ WriterStatement
  \/ WriterCrashes

ReaderStep ==
  \/ Drain
  \/ ListPage
  \/ TakeEvent
  \/ ConsumerReturns
  \/ PageDone
  \/ ReadRow
  \/ Wake
  \/ WaitFindsRun

Next ==
  \/ Writer
  \/ \E m \in {"replay", "tail", "replay-and-tail"} : Start(m)
  \/ ReaderStep

Spec == Init /\ [][Next]_vars

\* The loop goes on executing the segment it is in, and the consumer goes on
\* asking for messages.  Nothing is assumed of the executor.
Fairness == WF_vars(WriterStatement) /\ WF_vars(ReaderStep)
FairSpec == Spec /\ Fairness

-----------------------------------------------------------------------------
TypeOK ==
  /\ log \in Seq(Event)
  /\ row \in {"RUNNING"} \cup Terminal
  /\ alive \in BOOLEAN
  /\ todo \in Seq(Statement)
  /\ pc \in {"start", "drain", "list", "page", "held", "row", "sleep", "find_run", "ended"}
  /\ client \in Client
  /\ mode \in {"replay", "tail", "replay-and-tail"}
  /\ from \in Nat
  /\ offset \in Nat
  /\ page \in Seq(Nat)
  /\ more \in BOOLEAN
  /\ saw \in BOOLEAN
  /\ got \in Seq(Nat)
  /\ result \in {"none", "RUNNING"} \cup Terminal

\* A consumer is given each event of the log after `from` that is meant for it
\* exactly once and in the order of the log, as far as the tailer has come: pages
\* join without a gap or an overlap while the log grows under them.
ExactlyOnceInOrder ==
  /\ \A i, j \in DOMAIN got : i < j => got[i] < got[j]
  /\ \A k \in from + 1 .. offset :
       Yields(log[k]) <=> \E i \in DOMAIN got : got[i] = k
  /\ \A i \in DOMAIN got : from < got[i] /\ got[i] <= offset

\* Why: a page holds the offsets that follow the one the tailer has reached, none
\* beyond the log, and before the first page is read nothing has been delivered.
PageIsNext ==
  /\ from <= offset /\ offset + Len(page) <= Len(log)
  /\ \A i \in DOMAIN page : page[i] = offset + i
  /\ pc \in {"start", "drain"} => got = <<>> /\ page = <<>> /\ from = offset

PagingInv == ExactlyOnceInOrder /\ PageIsNext

\* A tail that ended has seen its run end: in the log or, for a run that ended
\* before the part of the log it reads, in the row.
NeverEndsEarly ==
  pc \in {"find_run", "ended"} => row # "RUNNING" \/ \E k \in 1 .. offset : IsTerminalEvent(log[k])

\* A tail gives what the log holds, neither more nor in another order, and goes on
\* for as long as the run does.
TailIsFaithful == ExactlyOnceInOrder /\ NeverEndsEarly

\* When a stream that began at the start of the log ends, the consumer has been
\* given every message up to and including the verdict.
FirstVerdict(k) == log[k] \in Terminal /\ \A j \in 1 .. k - 1 : log[j] \notin Terminal

VerdictDelivered ==
  pc = "ended" /\ mode # "tail" =>
    \A k \in 1 .. Len(log) : FirstVerdict(k) => k <= offset

\* Holds as long as nothing comes between the end of a page and the look at the row:
\* for a reader in the writer's loop that does not suspend in a page.
NothingLost == client.place = "loop" => VerdictDelivered

\* In the writer's own process wait() returns the status of a run that has ended,
\* and ERROR if its stream gave it that status message.  In another process the
\* row may still be RUNNING when the stream ends with the message.
WaitReportsVerdict ==
  pc = "ended" /\ client.op = "wait" /\ SharedLoop =>
    /\ result \in Terminal
    /\ (\E i \in DOMAIN got : log[got[i]] = "ERROR") => result = "ERROR"

\* The two together: who reads in the writer's own loop has the whole of the run.
LoopReadersAgree == NothingLost /\ WaitReportsVerdict

\* Once the run has ended in the store, whoever tails it is let go.
TailEnds == (row \in Terminal /\ pc # "start") ~> pc = "ended"

=============================================================================
