---------------------------- MODULE LocalRuntime ----------------------------
(***************************************************************************)
(* The life of one local agent: its row and its runs in the SQLite store   *)
(* (`agents`, `runs`, `run_events`), the `LocalAgent` objects that send    *)
(* messages to it, and the executors that carry its runs out.              *)
(*                                                                         *)
(* The event loop of a process runs one task at a time, and no operation   *)
(* of the SQLite store suspends the task that calls it.  What a task does  *)
(* to the store between two suspensions is a SEGMENT, a list of SQL        *)
(* statements and transactions that no other task of the same process can  *)
(* interleave with; the segments of different processes, which share the   *)
(* file `index.db`, interleave at every statement.  seg[p] is the segment  *)
(* process p is in the middle of.                                          *)
(***************************************************************************)
EXTENDS Naturals, Sequences

CONSTANTS
  Process,      \* the OS processes that share the store
  Handle,       \* the LocalAgent objects on this agent, at most one per name
  ProcOf,       \* the process each of them lives in
  Creator,      \* the handle that Agent.create returned
  Ops,          \* the optional events the clients and the world produce
  MaxRuns,      \* bound: no send creates a run once so many exist
  MaxLog        \* bound: an executor emits while its log is shorter

ASSUME ConstantsAssumption ==
  /\ ProcOf \in [Handle -> Process]
  /\ Creator \in Handle
  /\ Ops \subseteq {"force", "cancel", "archive", "close", "crash", "abort", "unsupported"}
  /\ MaxRuns \in Nat
  /\ MaxLog \in Nat

VARIABLES
  agent,        \* the row of the agent: its status and active_run_id
  runs,         \* the rows of its runs, in the order of their insertion
  log,          \* the run_events rows of each run; seq is the index
  pending,      \* _pending_run_id of each handle
  open,         \* which handles are open
  exec,         \* the executor of each run
  seg           \* the segment each process is in

vars == <<agent, runs, log, pending, open, exec, seg>>

NoRun == 0      \* the NULL of active_run_id and the None of _pending_run_id

Terminal == {"FINISHED", "ERROR", "CANCELLED", "EXPIRED"}
RunStatus == {"QUEUED", "RUNNING"} \cup Terminal
AgentStatus == {"IDLE", "RUNNING", "ARCHIVED"}

\* The events a log holds: the messages of a run (status messages are named by
\* their status, "user" is the message that was sent, "progress" stands for what
\* the server reports: assistant, thinking, tool_call, usage and injected user
\* messages) and the two terminal envelopes.
Event == {"request", "user", "RUNNING", "progress", "result", "done"} \cup Terminal

\* The life of an executor: not created, connecting, streaming, run() is about
\* to record a failure, over.
Phase == {"none", "starting", "running", "failing", "gone"}
Alive == {"starting", "running", "failing"}

Live(r) == runs[r].status \notin Terminal

-----------------------------------------------------------------------------
(* Segments: statements still to be executed, each with its local values.  *)
(* (A definition introduced as a mutant is a plausible mistake in the one   *)
(* that follows it; the specification does not use it.)                     *)

Verb == {"expire", "expire_run", "choose", "get_agent", "get_active", "count",
         "insert_run", "start", "append", "insert_event", "drive", "find",
         "mark", "stop"}

Statement == [do : Verb, r : Nat, arg : Event \cup {"none"}, n : Nat]

Do(verb) == [do |-> verb, r |-> NoRun, arg |-> "none", n |-> 0]
DoOn(verb, r) == [do |-> verb, r |-> r, arg |-> "none", n |-> 0]
DoWith(verb, r, arg) == [do |-> verb, r |-> r, arg |-> arg, n |-> 0]

\* The statements about a run name one of the first n runs.
StatementOver(n) ==
  {s \in Statement :
     /\ s.do \notin {"expire", "choose", "get_agent", "count", "insert_run"} => s.r \in 1 .. n
     /\ s.do = "mark" => s.arg \in Terminal
     /\ s.do \in {"append", "insert_event"} => s.arg \in Event}

Segment(n) == [op : {"idle", "send", "force", "cancel", "turn", "fail"},
               h : Handle, todo : Seq(StatementOver(n))]

Idle == [op |-> "idle", h |-> Creator, todo |-> <<>>]

\* LocalAgent._send_async from the choice of the run on to create_task(_drive).
StartScript(r) ==
  << DoOn("start", r), DoWith("append", r, "request"), DoWith("append", r, "user"),
     DoWith("append", r, "RUNNING"), DoOn("drive", r) >>

\* LocalAgentExecutor._finish and _fail, and the end of the executor after them.
EndScript(r, status) ==
  << DoWith("append", r, status), DoWith("mark", r, status),
     DoWith("append", r, "result"), DoWith("append", r, "done"), DoOn("stop", r) >>

\* LocalRun._cancel_async once it has seen a live run.
CancelScript(r) ==
  << DoWith("mark", r, "CANCELLED"), DoWith("append", r, "CANCELLED"),
     DoWith("append", r, "result"), DoWith("append", r, "done") >>

\* Mutant: the expired run's log does not say so.
ExpireScriptRowOnly(r) == << DoWith("mark", r, "EXPIRED") >>

\* LocalAgentStore.expire_active_run once it has seen a live run.
ExpireScript(r) ==
  << DoWith("mark", r, "EXPIRED"), DoWith("append", r, "EXPIRED") >>

IsIdle(p) == seg[p].todo = <<>>
At(p, verb) == seg[p].todo # <<>> /\ Head(seg[p].todo).do = verb
Cur(p) == Head(seg[p].todo)

Begin(p, op, h, todo) ==
  /\ IsIdle(p)
  /\ seg' = [seg EXCEPT ![p] = [op |-> op, h |-> h, todo |-> todo]]

\* The current statement is done; `more` comes before the rest of the segment.
Continue(p, more) ==
  LET rest == more \o Tail(seg[p].todo)
  IN  seg' = [seg EXCEPT ![p] = IF rest = <<>> THEN Idle
                                ELSE [op |-> @.op, h |-> @.h, todo |-> rest]]

\* The current statement raises, or the segment returns early.
Leave(p) == seg' = [seg EXCEPT ![p] = Idle]

-----------------------------------------------------------------------------
\* create_local_agent: LocalAgentStore.create_agent has inserted the agent and
\* its first run in one transaction and the handle keeps the run as pending.
Init ==
  /\ agent = [status |-> "IDLE", active |-> 1]
  /\ runs = << [status |-> "QUEUED", turn |-> 1] >>
  /\ log = << <<>> >>
  /\ pending = [h \in Handle |-> IF h = Creator THEN 1 ELSE NoRun]
  /\ open = [h \in Handle |-> h = Creator]
  /\ exec = << [phase |-> "none", h |-> Creator] >>
  /\ seg = [p \in Process |-> Idle]

\* resume_local_agent: a new LocalAgent object without a pending run.
Resume(h) ==
  /\ ~open[h]
  /\ IsIdle(ProcOf[h])
  /\ open' = [open EXCEPT ![h] = TRUE]
  /\ pending' = [pending EXCEPT ![h] = NoRun]
  /\ UNCHANGED <<agent, runs, log, exec, seg>>

\* LocalAgent.send(..., local.force): the part of _send_async up to its first
\* suspension, in wait_until_started.
Send(h, force) ==
  /\ open[h]
  /\ force => "force" \in Ops
  /\ IF force THEN Begin(ProcOf[h], "force", h, <<Do("expire"), Do("choose")>>)
              ELSE Begin(ProcOf[h], "send", h, <<Do("choose")>>)
  /\ UNCHANGED <<agent, runs, log, pending, open, exec>>

\* LocalRun.cancel(), from any process that holds a LocalRun of run r.
Cancel(p, r) ==
  /\ "cancel" \in Ops
  /\ Begin(p, "cancel", Creator, <<DoOn("find", r)>>)
  /\ UNCHANGED <<agent, runs, log, pending, open, exec>>

\* Agent.archive and Agent.unarchive: one UPDATE of the row.
SetAgentStatus(p, status) ==
  /\ "archive" \in Ops
  /\ IsIdle(p)
  /\ agent' = [agent EXCEPT !.status = status]
  /\ UNCHANGED <<runs, log, pending, open, exec, seg>>

\* LocalAgent.close and aclose: the tasks of the handle are cancelled.  The
\* CancelledError is not caught by `except Exception`: nothing is recorded.
Close(h) ==
  /\ "close" \in Ops
  /\ open[h]
  /\ IsIdle(ProcOf[h])
  /\ open' = [open EXCEPT ![h] = FALSE]
  /\ exec' = [r \in DOMAIN exec |->
                IF exec[r].phase \in Alive /\ exec[r].h = h
                THEN [exec[r] EXCEPT !.phase = "gone"] ELSE exec[r]]
  /\ UNCHANGED <<agent, runs, log, pending, seg>>

\* The process ends between two statements.
Crash(p) ==
  /\ "crash" \in Ops
  /\ open' = [h \in Handle |-> open[h] /\ ProcOf[h] # p]
  /\ exec' = [r \in DOMAIN exec |->
                IF exec[r].phase \in Alive /\ ProcOf[exec[r].h] = p
                THEN [exec[r] EXCEPT !.phase = "gone"] ELSE exec[r]]
  /\ seg' = [seg EXCEPT ![p] = Idle]
  /\ UNCHANGED <<agent, runs, log, pending>>

-----------------------------------------------------------------------------
(* expire_active_run *)

\* SELECT of the agent row.
ExpireReadAgent(p) ==
  /\ At(p, "expire")
  /\ Continue(p, IF agent.active = NoRun THEN <<>>
                 ELSE <<DoOn("expire_run", agent.active)>>)
  /\ UNCHANGED <<agent, runs, log, pending, open, exec>>

\* Mutant: a run that is still queued is not expired.
ExpireReadRunIfRunning(p) ==
  /\ At(p, "expire_run")
  /\ Continue(p, IF runs[Cur(p).r].status = "RUNNING" THEN ExpireScript(Cur(p).r) ELSE <<>>)
  /\ UNCHANGED <<agent, runs, log, pending, open, exec>>

\* SELECT of the active run; only a live one is expired.
ExpireReadRun(p) ==
  /\ At(p, "expire_run")
  /\ Continue(p, IF Live(Cur(p).r) THEN ExpireScript(Cur(p).r) ELSE <<>>)
  /\ UNCHANGED <<agent, runs, log, pending, open, exec>>

(* _send_async: the pending run if it is still queued, else a follow-up *)

ChooseRun(p) ==
  LET h == seg[p].h
      w == pending[h]
  IN  /\ At(p, "choose")
      /\ pending' = [pending EXCEPT ![h] = NoRun]
      /\ Continue(p, IF w # NoRun /\ runs[w].status = "QUEUED"
                     THEN StartScript(w) ELSE <<Do("get_agent")>>)
      /\ UNCHANGED <<agent, runs, log, open, exec>>

(* create_follow_up_run *)

\* Mutant: the status of the agent is taken for its being busy.
FollowUpTrustsIdle(p) ==
  /\ At(p, "get_agent")
  /\ IF agent.status = "ARCHIVED" THEN Leave(p)
     ELSE Continue(p, IF agent.active = NoRun \/ agent.status = "IDLE" THEN <<Do("count")>>
                      ELSE <<DoOn("get_active", agent.active)>>)
  /\ UNCHANGED <<agent, runs, log, pending, open, exec>>

\* SELECT of the agent row: ConfigurationError if it is archived.
FollowUpReadAgent(p) ==
  /\ At(p, "get_agent")
  /\ IF agent.status = "ARCHIVED" THEN Leave(p)
     ELSE Continue(p, IF agent.active = NoRun THEN <<Do("count")>>
                      ELSE <<DoOn("get_active", agent.active)>>)
  /\ UNCHANGED <<agent, runs, log, pending, open, exec>>

\* SELECT of the active run: AgentBusyError if it is live.
FollowUpReadActive(p) ==
  /\ At(p, "get_active")
  /\ IF Live(Cur(p).r) THEN Leave(p) ELSE Continue(p, <<Do("count")>>)
  /\ UNCHANGED <<agent, runs, log, pending, open, exec>>

\* SELECT COUNT(*) of the runs.  At the bound the send is given up instead.
FollowUpCount(p) ==
  /\ At(p, "count")
  /\ IF Len(runs) < MaxRuns
     THEN Continue(p, <<[Do("insert_run") EXCEPT !.n = Len(runs)]>>)
     ELSE Leave(p)
  /\ UNCHANGED <<agent, runs, log, pending, open, exec>>

\* The transaction that inserts the run and points the agent to it.
FollowUpInsert(p) ==
  LET r == Len(runs) + 1
  IN  /\ At(p, "insert_run")
      /\ runs' = Append(runs, [status |-> "QUEUED", turn |-> Cur(p).n + 1])
      /\ log' = Append(log, <<>>)
      /\ exec' = Append(exec, [phase |-> "none", h |-> Creator])
      /\ agent' = [status |-> "IDLE", active |-> r]
      /\ Continue(p, StartScript(r))
      /\ UNCHANGED <<pending, open>>

-----------------------------------------------------------------------------
(* The statements the scripts are made of *)

IdleUnlessArchived(status) ==
  IF agent.status = "ARCHIVED" THEN "ARCHIVED" ELSE status

\* mark_run_starting: one transaction over both tables, without a condition.
MarkRunStarting(p) ==
  LET r == Cur(p).r
  IN  /\ At(p, "start")
      /\ runs' = [runs EXCEPT ![r].status = "RUNNING"]
      /\ agent' = [status |-> IdleUnlessArchived("RUNNING"), active |-> r]
      /\ Continue(p, <<>>)
      /\ UNCHANGED <<log, pending, open, exec>>

\* Mutant: the agent's active_run_id is left alone.
MarkKeepsActive(p) ==
  LET r == Cur(p).r
  IN  /\ At(p, "mark")
      /\ runs' = [runs EXCEPT ![r].status = Cur(p).arg]
      /\ agent' = [agent EXCEPT !.status = IdleUnlessArchived("IDLE")]
      /\ Continue(p, <<>>)
      /\ UNCHANGED <<log, pending, open, exec>>

\* mark_run_terminal: one transaction; whatever the run's status was, and
\* whichever run is the active one.
MarkRunTerminal(p) ==
  LET r == Cur(p).r
  IN  /\ At(p, "mark")
      /\ runs' = [runs EXCEPT ![r].status = Cur(p).arg]
      /\ agent' = [status |-> IdleUnlessArchived("IDLE"), active |-> NoRun]
      /\ Continue(p, <<>>)
      /\ UNCHANGED <<log, pending, open, exec>>

\* append_run_event, its SELECT MAX(seq).
ReadMaxSeq(p) ==
  /\ At(p, "append")
  /\ Continue(p, <<[Cur(p) EXCEPT !.do = "insert_event", !.n = Len(log[Cur(p).r])]>>)
  /\ UNCHANGED <<agent, runs, log, pending, open, exec>>

\* append_run_event, its INSERT with seq = max + 1, the primary key being free.
InsertEvent(p) ==
  LET r == Cur(p).r
  IN  /\ At(p, "insert_event")
      /\ Len(log[r]) = Cur(p).n
      /\ log' = [log EXCEPT ![r] = Append(@, Cur(p).arg)]
      /\ Continue(p, <<>>)
      /\ UNCHANGED <<agent, runs, pending, open, exec>>

\* Mutant: INSERT OR IGNORE.
InsertConflictIgnored(p) ==
  /\ At(p, "insert_event")
  /\ Len(log[Cur(p).r]) # Cur(p).n
  /\ Continue(p, <<>>)
  /\ UNCHANGED <<agent, runs, log, pending, open, exec>>

\* The same INSERT when another process took that seq meanwhile: IntegrityError.
\* A send or a cancel raises to its caller; the consumer of a stream raises into
\* run(), which will record a failure; raised by that record, it ends run().
InsertEventConflict(p) ==
  LET r == Cur(p).r
      next == IF seg[p].op = "turn" THEN "failing" ELSE "gone"
  IN  /\ At(p, "insert_event")
      /\ Len(log[r]) # Cur(p).n
      /\ exec' = IF seg[p].op \in {"turn", "fail"}
                 THEN [exec EXCEPT ![r].phase = next] ELSE exec
      /\ Leave(p)
      /\ UNCHANGED <<agent, runs, log, pending, open>>

\* Mutant: a run that has ended is cancelled too.
CancelUnchecked(p) ==
  /\ At(p, "find")
  /\ Continue(p, CancelScript(Cur(p).r))
  /\ UNCHANGED <<agent, runs, log, pending, open, exec>>

\* LocalRun._cancel_async: find_run, and nothing to do for a terminal run.
CancelFindRun(p) ==
  /\ At(p, "find")
  /\ Continue(p, IF Live(Cur(p).r) THEN CancelScript(Cur(p).r) ELSE <<>>)
  /\ UNCHANGED <<agent, runs, log, pending, open, exec>>

\* asyncio.create_task(_drive()): the executor of the run exists from here on.
Drive(p) ==
  /\ At(p, "drive")
  /\ exec' = [exec EXCEPT ![Cur(p).r] = [phase |-> "starting", h |-> seg[p].h]]
  /\ Continue(p, <<>>)
  /\ UNCHANGED <<agent, runs, log, pending, open>>

\* The constructor of LocalAgentExecutor raises before the task is created: the
\* sandbox that the options ask for is not to be had.  The run stays RUNNING, and
\* nobody drives it.
DriveFails(p) ==
  /\ "unsupported" \in Ops
  /\ At(p, "drive")
  /\ Leave(p)
  /\ UNCHANGED <<agent, runs, log, pending, open, exec>>

\* Mutant: the consumer goes on with its loop after _finish.
ExecutorGoesOn(p) ==
  /\ At(p, "stop")
  /\ Continue(p, <<>>)
  /\ UNCHANGED <<agent, runs, log, pending, open, exec>>

\* run() returns after _finish or _fail.
ExecutorReturns(p) ==
  /\ At(p, "stop")
  /\ exec' = [exec EXCEPT ![Cur(p).r].phase = "gone"]
  /\ Continue(p, <<>>)
  /\ UNCHANGED <<agent, runs, log, pending, open>>

-----------------------------------------------------------------------------
(* LocalAgentExecutor: what its stream makes it do.  run() and the task that *)
(* consumes its stream are one here, which is right as long as run() does    *)
(* not give up on that task; ExecutorSession has the two apart.              *)

ProcOfRun(r) == ProcOf[exec[r].h]

\* Outside a segment of its process, the task of run r moves to another phase.
Turns(r, from, to) ==
  /\ exec[r].phase = from
  /\ IsIdle(ProcOfRun(r))
  /\ exec' = [exec EXCEPT ![r].phase = to]
  /\ UNCHANGED <<agent, runs, log, pending, open, seg>>

\* The token exchange, the MCP servers and the stream are up.
StartupDone(r) == Turns(r, "starting", "running")

\* One of them failed, or the stream was not open within 30 s.
StartupFails(r) == Turns(r, "starting", "failing")

\* Mutant: run() does not look at how the task of the stream ended.
StreamFailsSilently(r) == Turns(r, "running", "gone")

\* The stream fails, and with it the task that run() awaits.
StreamFails(r) == Turns(r, "running", "failing")

\* exec_server_control_message.abort: the consumer leaves its loop at the next
\* message and calls neither _finish nor _fail.
StreamAborted(r) == "abort" \in Ops /\ Turns(r, "running", "gone")

\* _on_interaction: one more message for the log.
Emit(r) ==
  /\ exec[r].phase = "running"
  /\ Len(log[r]) < MaxLog
  /\ Begin(ProcOfRun(r), "turn", exec[r].h, <<DoWith("append", r, "progress")>>)
  /\ UNCHANGED <<agent, runs, log, pending, open, exec>>

\* turn_ended: _finish.  The stream ends before it: _fail.
EndTurn(r, status) ==
  /\ exec[r].phase = "running"
  /\ Begin(ProcOfRun(r), "turn", exec[r].h, EndScript(r, status))
  /\ UNCHANGED <<agent, runs, log, pending, open, exec>>

\* The `except Exception` of run(): _fail.
RunFails(r) ==
  /\ exec[r].phase = "failing"
  /\ Begin(ProcOfRun(r), "fail", exec[r].h, EndScript(r, "ERROR"))
  /\ UNCHANGED <<agent, runs, log, pending, open, exec>>

-----------------------------------------------------------------------------
\* One statement of the segment process p is in.
Step(p) ==
  \/ ExpireReadAgent(p)
  \/ ExpireReadRun(p)
  \/ ChooseRun(p)
  \/ FollowUpReadAgent(p)
  \/ FollowUpReadActive(p)
  \/ FollowUpCount(p)
  \/ FollowUpInsert(p)
  \/ MarkRunStarting(p)
  \/ MarkRunTerminal(p)
  \/ ReadMaxSeq(p)
  \/ InsertEvent(p)
  \/ InsertEventConflict(p)
  \/ CancelFindRun(p)
  \/ Drive(p)
  \/ DriveFails(p)
  \/ ExecutorReturns(p)

\* What the clients and the world do to the handles.
Client ==
  \/ \E h \in Handle : Resume(h) \/ Close(h)
  \/ \E h \in Handle, force \in BOOLEAN : Send(h, force)
  \/ \E p \in Process : Crash(p)
  \/ \E p \in Process, r \in DOMAIN runs : Cancel(p, r)
  \/ \E p \in Process, status \in {"ARCHIVED", "IDLE"} : SetAgentStatus(p, status)

\* What starts or ends the turn of run r.
Startup(r) == StartupDone(r) \/ StartupFails(r)
TurnEnds(r) == \E status \in {"FINISHED", "ERROR"} : EndTurn(r, status)
TurnStops(r) == TurnEnds(r) \/ StreamFails(r)

Executor(r) ==
  \/ Startup(r)
  \/ Emit(r)
  \/ TurnStops(r)
  \/ StreamAborted(r)
  \/ RunFails(r)

Next ==
  \/ \E p \in Process : Step(p)
  \/ Client
  \/ \E r \in DOMAIN exec : Executor(r)

Spec == Init /\ [][Next]_vars

-----------------------------------------------------------------------------
\* Every variable has its type, and the references of the tables, the handles and
\* the segments are to runs that exist: no update or SELECT by id comes to nothing.
TypeOK ==
  /\ agent \in [status : AgentStatus, active : 0 .. Len(runs)]
  /\ runs \in Seq([status : RunStatus, turn : Nat])
  /\ log \in Seq(Seq(Event))
  /\ exec \in Seq([phase : Phase, h : Handle])
  /\ Len(log) = Len(runs) /\ Len(exec) = Len(runs)
  /\ pending \in [Handle -> 0 .. Len(runs)]
  /\ open \in [Handle -> BOOLEAN]
  /\ seg \in [Process -> Segment(Len(runs))]

\* What one process guarantees, whatever its clients do.
\* ---------------------------------------------------------------------------

\* active_run_id is NULL or the id of the run created last, and that run has not
\* ended: the busy check of create_follow_up_run reads the run that matters.
ActiveIsNewestLive ==
  agent.active # NoRun => agent.active = Len(runs) /\ Live(agent.active)

\* Why: a run that is started from pending, or a follow-up that is inserted, was
\* checked against active_run_id in the same segment, and nothing of the segment
\* lies between the check and its use.
Checked == {"start", "get_active", "count", "insert_run"}

PendingIsActive ==
  \A h \in Handle :
    /\ pending[h] \in {NoRun, 1}
    /\ pending[h] # NoRun /\ runs[pending[h]].status = "QUEUED" => agent.active = pending[h]

ChecksHold ==
  \A p \in Process :
    /\ \A i \in DOMAIN seg[p].todo : seg[p].todo[i].do \in Checked => i = 1
    /\ At(p, "start") \/ At(p, "get_active") => Cur(p).r = agent.active
    /\ At(p, "count") \/ At(p, "insert_run") => agent.active = NoRun

ActiveRunInv == ActiveIsNewestLive /\ PendingIsActive /\ ChecksHold

\* An agent shown as RUNNING has a run that is: the two rows are only changed
\* together, although cancel, force and a superseded executor all write them.
RunningAgentHasRunningRun ==
  agent.status = "RUNNING" =>
    agent.active \in DOMAIN runs /\ runs[agent.active].status = "RUNNING"

\* A forced send is never refused as busy: when it comes to the busy check, what
\* it would be refused for has expired (_send_async, expire_active_run first).
ForceUnblocks ==
  \A p \in Process :
    At(p, "get_agent") /\ seg[p].op = "force" =>
      agent.active = NoRun \/ ~Live(agent.active)

\* FINISHED and ERROR, the executor's verdicts, are final: a cancel or a force
\* that comes after them changes nothing.
VerdictIsFinal ==
  [][ \A r \in DOMAIN runs :
        runs[r].status \in {"FINISHED", "ERROR"} => runs'[r].status = runs[r].status ]_vars

\* Between segments a run has ended if and only if its log says so, and the last
\* status message of the log is the status of the row: a reader of the log and a
\* reader of the row agree (as long as no process dies inside a segment).
NoVerdict(l) == \A i \in DOMAIN l : l[i] \notin Terminal

LastVerdict(l, status) ==
  \E i \in DOMAIN l : l[i] = status /\ \A j \in i + 1 .. Len(l) : l[j] \notin Terminal

Agrees(r) ==
  IF Live(r) THEN NoVerdict(log[r]) ELSE LastVerdict(log[r], runs[r].status)

LogAgreesWithRow ==
  (\A p \in Process : IsIdle(p)) => \A r \in DOMAIN runs : Agrees(r)

\* An executor is over only when the row of its run has a terminal status, which
\* wait() and the next send look for, unless its handle was closed: no failure, and
\* no cancel, force or other executor in between, leaves a RUNNING run that nobody
\* will end.  (A run whose executor could not be made never had one; a forced send
\* expires it.)
NoRunLeftBehind ==
  [][ \A r \in DOMAIN exec :
        exec[r].phase \in Alive /\ exec'[r].phase = "gone" =>
          runs[r].status \in Terminal \/ ~open'[exec[r].h] ]_vars

\* What holds whatever the clients of several processes do.
\* ---------------------------------------------------------------------------

\* Rows of run_events are never overwritten or reordered, although the seq of an
\* event is computed from a SELECT outside its INSERT's transaction.
AppendOnly ==
  [][ \A r \in DOMAIN log :
        /\ Len(log'[r]) >= Len(log[r])
        /\ SubSeq(log'[r], 1, Len(log[r])) = log[r] ]_vars

\* A run is handed to an executor only with its request, the user's message and
\* RUNNING in its log, once each and in this order: a send that could not record
\* them raises.
Started == <<"request", "user", "RUNNING">>

Recorded(l, k) ==
  /\ \A i \in 1 .. 3 : i <= k <=> \E m \in DOMAIN l : l[m] = Started[i]
  /\ \A m, n \in DOMAIN l, i, j \in 1 .. 3 :
       l[m] = Started[i] /\ l[n] = Started[j] => (m < n <=> i < j)

DrivenRunsAreRecorded ==
  \A r \in DOMAIN exec : exec[r].phase # "none" => Recorded(log[r], 3)

\* The log of a run that was neither cancelled nor expired is request, user, RUNNING,
\* messages, one verdict, result, done, or an initial part of that: only one executor
\* was ever started for it, and nothing is appended after its end.
Interrupted(l) == {"EXPIRED", "CANCELLED"} \cap {l[i] : i \in DOMAIN l} # {}

InOrder(l) ==
  \A i \in DOMAIN l :
    /\ l[i] = "request" <=> i = 1
    /\ l[i] = "user" <=> i = 2
    /\ l[i] = "RUNNING" <=> i = 3
    /\ l[i] \in Terminal \cup {"progress"} => l[i - 1] \in {"RUNNING", "progress"}
    /\ l[i] = "result" => l[i - 1] \in Terminal
    /\ l[i] = "done" => l[i - 1] = "result"

OneVerdict == \A r \in DOMAIN log : Interrupted(log[r]) \/ InOrder(log[r])

\* What holds in one process when no client cancels a run or forces a send.
\* ---------------------------------------------------------------------------

\* The agent has at most one run that has not ended: what the busy check of
\* create_follow_up_run is for.
OneLiveRun ==
  \A r, s \in DOMAIN runs : Live(r) /\ Live(s) => r = s

\* The runs as the turns of the abstract specification.
TurnOf(status) ==
  CASE status = "QUEUED" -> "queued"
    [] status = "RUNNING" -> "running"
    [] OTHER -> "ended"

Agent == INSTANCE AgentTurns WITH turns <- [r \in DOMAIN runs |-> TurnOf(runs[r].status)]

\* In one process, without cancel and force, the store, the handles and the
\* executors together take one turn at a time (docs/local-runtime.md: "Follow-up
\* run creation checks the agent's active run").
TakesTurns == Agent!Spec

=============================================================================
