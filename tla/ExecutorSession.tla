--------------------------- MODULE ExecutorSession ---------------------------
(***************************************************************************)
(* LocalAgentExecutor, the tasks that carry out one run: run() itself, the *)
(* task _consume_server that run() starts and that reads the stream, the   *)
(* background tasks in which requests of the server are carried out, the   *)
(* callers of steer(), and the send() that waits for the run to start.     *)
(* All of them are tasks of one event loop.                                *)
(*                                                                         *)
(* An action is what a task does from one suspension to the next.  The     *)
(* SQLite store never suspends its caller, so _finish and _fail are each   *)
(* part of one action.  A message the consumer handles without suspending  *)
(* is an action of its own, although in the code several of them may be    *)
(* handled in a row.                                                       *)
(***************************************************************************)
EXTENDS Naturals, Sequences

CONSTANTS
  Steer,        \* the calls of steer()
  Exec,         \* the exec and kv requests of the server
  Job,          \* the subagent jobs they start
  Ops,          \* the optional events that clients and the world produce
  MaxLog        \* bound: the server reports while the log is shorter

ASSUME ConstantsAssumption ==
  /\ Exec \cap Job = {}
  /\ Ops \subseteq {"slow_start", "request_fails", "early_end", "abort",
                    "close", "steer_fails"}
  /\ MaxLog \in Nat

VARIABLES
  run,          \* where run() is suspended
  consumer,     \* where the task of _consume_server is
  leaves,       \* why the consumer left its loop
  caller,       \* where the send() that started the run is
  started,      \* _started
  active,       \* _generation_active
  abort,        \* _abort
  requested,    \* the server has received the run_request
  bg,           \* _bg_tasks
  spawned,      \* every background task so far
  awaited,      \* the background tasks that the consumer gathers
  steers,       \* the calls of steer() and their waiters
  log,          \* what was recorded of the run: messages and ends
  closed        \* the drive task of the run was cancelled

server == <<leaves, abort, requested>>
work == <<bg, spawned, awaited>>
vars == <<run, consumer, leaves, caller, started, active, abort, requested, bg,
          spawned, awaited, steers, log, closed>>

End == {"FINISHED", "ERROR"}
Outcome == {"complete_delivered", "revert_to_followup"}

\* The points at which run() awaits: the start-up of transport and MCP servers,
\* `ready`, the append of the run_request, the consumer, the clean-up.
RunAt == {"starting", "ready", "request", "stream", "cleanup", "over"}

\* The points at which the consumer awaits: open_run, the next message, the
\* reply to an interaction_query, session.aclose, the gathering of background
\* tasks; and how it ends.
ConsumerAt == {"none", "opening", "reading", "replying", "closing", "gathering",
               "returned", "raised", "cancelled"}

\* _run_session is set.
SessionOpen == consumer \in {"reading", "replying", "closing"}

\* The waiter of s is in _steer_waiters.
Waiting(s) == steers[s].at \in {"append", "future"}
Unresolved(s) == Waiting(s) /\ steers[s].future = "none"

TypeOK ==
  /\ run \in RunAt
  /\ consumer \in ConsumerAt
  /\ leaves \in {"no", "turn_ended", "stop", "error", "cancel"}
  /\ caller \in {"started", "task", "back"}
  /\ started \in BOOLEAN /\ active \in BOOLEAN /\ abort \in BOOLEAN
  /\ requested \in BOOLEAN /\ closed \in BOOLEAN
  /\ bg \subseteq spawned /\ awaited \subseteq spawned
  /\ spawned \subseteq Exec \cup Job
  /\ steers \in [Steer -> [at : {"idle", "append", "future", "back"},
                           future : Outcome \cup {"none"},
                           timer : BOOLEAN,
                           answer : Outcome \cup {"none"}]]
  /\ log \in Seq({"message"} \cup End)

\* LocalAgent._send_async has created the executor and the task that drives it,
\* and waits for `_started`.
Init ==
  /\ run = "starting" /\ consumer = "none" /\ leaves = "no" /\ caller = "started"
  /\ started = FALSE /\ active = FALSE /\ abort = FALSE
  /\ requested = FALSE /\ closed = FALSE
  /\ bg = {} /\ spawned = {} /\ awaited = {}
  /\ steers = [s \in Steer |-> [at |-> "idle", future |-> "none",
                                timer |-> FALSE, answer |-> "none"]]
  /\ log = <<>>

-----------------------------------------------------------------------------
(* The waiters *)

\* _SteerWaiter.resolve: the first outcome counts.
Resolved(waiter, outcome) ==
  [waiter EXCEPT !.timer = FALSE,
                 !.future = IF @ = "none" THEN outcome ELSE @]

\* _revert_pending_steers
Reverted ==
  [s \in Steer |-> IF Waiting(s) THEN Resolved(steers[s], "revert_to_followup")
                                 ELSE steers[s]]

-----------------------------------------------------------------------------
(* LocalAgentExecutor.run *)

\* The finally clause of run(), up to its first await.
CleanUp ==
  /\ run' = "cleanup"
  /\ active' = FALSE
  /\ steers' = Reverted

\* Mutant: a failure of the start-up leaves _started alone.
FailSilently ==
  /\ log' = Append(log, "ERROR")
  /\ UNCHANGED started
  /\ CleanUp

\* The except clause, and with it _fail.
Fail ==
  /\ log' = Append(log, "ERROR")
  /\ started' = TRUE
  /\ CleanUp

\* The token is exchanged and the MCP servers are up.
StartupDone ==
  /\ run = "starting"
  /\ run' = "ready"
  /\ active' = TRUE
  /\ consumer' = "opening"
  /\ UNCHANGED <<server, work, caller, started, steers, log, closed>>

StartupFails ==
  /\ run = "starting"
  /\ Fail
  /\ UNCHANGED <<server, work, consumer, caller, closed>>

\* The 30 s that run() gives open_run are over.
ReadyTimeout ==
  /\ "slow_start" \in Ops
  /\ run = "ready" /\ consumer = "opening"
  /\ Fail
  /\ UNCHANGED <<server, work, consumer, caller, closed>>

\* `ready` is set and open_run succeeded; the run_request is on its way.
SessionReady ==
  /\ run = "ready" /\ SessionOpen
  /\ started' = TRUE
  /\ run' = "request"
  /\ UNCHANGED <<server, work, consumer, caller, active, steers, log, closed>>

\* `ready` is set and there is no session: the consumer has raised, or it is so
\* far that _append finds no session to send to.
SessionMissing ==
  /\ run = "ready" /\ consumer # "opening" /\ ~SessionOpen
  /\ Fail
  /\ UNCHANGED <<server, work, consumer, caller, closed>>

\* The server may have the run_request before the append returns or fails.
RequestArrives ==
  /\ run = "request" /\ ~requested
  /\ requested' = TRUE
  /\ UNCHANGED <<run, consumer, leaves, abort, work, caller, started, active, steers,
                 log, closed>>

RequestSent ==
  /\ run = "request" /\ requested
  /\ run' = "stream"
  /\ UNCHANGED <<server, work, consumer, caller, started, active, steers, log, closed>>

RequestFails ==
  /\ "request_fails" \in Ops
  /\ run = "request"
  /\ Fail
  /\ UNCHANGED <<server, work, consumer, caller, closed>>

\* `await stream_task` returns, or is cancelled with the task.
StreamReturns ==
  /\ run = "stream" /\ consumer \in {"returned", "cancelled"}
  /\ CleanUp
  /\ UNCHANGED <<server, work, consumer, caller, started, log, closed>>

StreamRaises ==
  /\ run = "stream" /\ consumer = "raised"
  /\ Fail
  /\ UNCHANGED <<server, work, consumer, caller, closed>>

\* The MCP servers and the client are closed.
CleanedUp ==
  /\ run = "cleanup"
  /\ run' = "over"
  /\ UNCHANGED <<server, work, consumer, caller, started, active, steers, log, closed>>

-----------------------------------------------------------------------------
(* LocalAgentExecutor._consume_server *)

OpenSucceeds ==
  /\ consumer = "opening"
  /\ consumer' = "reading"
  /\ UNCHANGED <<server, work, run, caller, started, active, steers, log, closed>>

OpenFails ==
  /\ consumer = "opening"
  /\ consumer' = "raised"
  /\ UNCHANGED <<server, work, run, caller, started, active, steers, log, closed>>

\* The next message is read.  The server sends none before it has the
\* run_request, and none arrives once the client is closed.
Reads == consumer = "reading" /\ requested /\ run # "over"
Handles == Reads /\ ~abort

\* An interaction_update that is recorded.
Report ==
  /\ Handles /\ Len(log) < MaxLog
  /\ log' = Append(log, "message")
  /\ UNCHANGED <<server, work, run, consumer, caller, started, active, steers, closed>>

\* context_injection_state, for an injection the server may have received.
Acknowledge(s, state) ==
  /\ Handles /\ Waiting(s)
  /\ steers' = [steers EXCEPT ![s] =
       CASE state = "queued" -> [@ EXCEPT !.timer = FALSE]
         [] state = "delivered" -> Resolved(@, "complete_delivered")
         [] OTHER -> Resolved(@, "revert_to_followup")]
  /\ UNCHANGED <<server, work, run, consumer, caller, started, active, log, closed>>

\* exec_server_message and kv_server_message: a background task.
Request(e) ==
  /\ Handles /\ e \notin spawned
  /\ bg' = bg \cup {e}
  /\ spawned' = spawned \cup {e}
  /\ UNCHANGED <<server, awaited, run, consumer, caller, started, active, steers,
                 log, closed>>

\* exec_server_control_message
AbortSignal ==
  /\ "abort" \in Ops /\ Handles
  /\ abort' = TRUE
  /\ UNCHANGED <<leaves, requested, work, run, consumer, caller, started, active,
                 steers, log, closed>>

\* interaction_query: the consumer itself awaits the reply.
Query ==
  /\ Handles
  /\ consumer' = "replying"
  /\ UNCHANGED <<server, work, run, caller, started, active, steers, log, closed>>

Replied ==
  /\ consumer = "replying"
  /\ consumer' = "reading"
  /\ UNCHANGED <<server, work, run, caller, started, active, steers, log, closed>>

\* The loop is left; the finally clause awaits session.aclose().
Leave(why) ==
  /\ leaves' = why
  /\ consumer' = "closing"
  /\ UNCHANGED <<abort, requested, work, run, caller, started, active, steers, log,
                 closed>>

\* turn_ended, which the server sends when no request of its is open.
TurnEnded == Handles /\ bg \cap Exec = {} /\ Leave("turn_ended")

\* A message after the abort signal.
Aborted == Reads /\ abort /\ Leave("stop")

\* The stream is over or broken.
StreamEnds ==
  /\ consumer = "reading"
  /\ requested \/ "early_end" \in Ops \/ run = "over"
  /\ \/ Leave("stop")
     \/ Leave("error")

ReplyFails == consumer = "replying" /\ Leave("error")

\* What _consume_server records at its end: nothing after an abort signal.
Recorded ==
  IF abort THEN log
  ELSE Append(log, IF leaves = "turn_ended" THEN "FINISHED" ELSE "ERROR")

\* Mutant: a consumer that raises records the failure that run() records too.
SessionClosedFailing ==
  /\ consumer = "closing" /\ leaves \in {"error", "cancel"}
  /\ consumer' = IF leaves = "error" THEN "raised" ELSE "cancelled"
  /\ log' = Append(log, "ERROR")
  /\ steers' = Reverted
  /\ UNCHANGED <<server, work, run, caller, started, active, closed>>

\* The session is closed and forgotten, and the reason to leave is an exception.
SessionClosedRaising ==
  /\ consumer = "closing" /\ leaves \in {"error", "cancel"}
  /\ consumer' = IF leaves = "error" THEN "raised" ELSE "cancelled"
  /\ steers' = Reverted
  /\ UNCHANGED <<server, work, run, caller, started, active, log, closed>>

\* Mutant: background tasks are not gathered.
SessionClosedAtOnce ==
  /\ consumer = "closing" /\ leaves \in {"turn_ended", "stop"}
  /\ consumer' = "returned"
  /\ log' = Recorded
  /\ steers' = Reverted
  /\ UNCHANGED <<server, work, run, caller, started, active, closed>>

\* The session is closed and forgotten; the background tasks of this moment are
\* gathered, and the end is recorded if there are none.
SessionClosed ==
  /\ consumer = "closing" /\ leaves \in {"turn_ended", "stop"}
  /\ IF bg = {} THEN /\ consumer' = "returned"
                     /\ log' = Recorded
                     /\ UNCHANGED awaited
                ELSE /\ consumer' = "gathering"
                     /\ awaited' = bg
                     /\ UNCHANGED log
  /\ steers' = Reverted
  /\ UNCHANGED <<server, bg, spawned, run, caller, started, active, closed>>

Gathered ==
  /\ consumer = "gathering" /\ awaited \cap bg = {}
  /\ consumer' = "returned"
  /\ log' = Recorded
  /\ UNCHANGED <<server, work, run, caller, started, active, steers, closed>>

-----------------------------------------------------------------------------
(* Background tasks.  None of them raises. *)

\* A request is carried out; that the reply fails to be sent is ignored.
ExecEnds(e) ==
  /\ e \in bg \cap Exec
  /\ bg' = bg \ {e}
  /\ UNCHANGED <<server, spawned, awaited, run, consumer, caller, started, active,
                 steers, log, closed>>

\* A subagent_args request starts a job, which may outlive it.
StartJob(e, j) ==
  /\ e \in bg \cap Exec /\ j \notin spawned
  /\ bg' = bg \cup {j}
  /\ spawned' = spawned \cup {j}
  /\ UNCHANGED <<server, awaited, run, consumer, caller, started, active, steers,
                 log, closed>>

JobEnds(j) ==
  /\ j \in bg \cap Job
  /\ bg' = bg \ {j}
  /\ UNCHANGED <<server, spawned, awaited, run, consumer, caller, started, active,
                 steers, log, closed>>

-----------------------------------------------------------------------------
(* LocalAgentExecutor.steer *)

\* The LocalRun that send() returned is steered: the injection is sent if the
\* turn is live.  _session_ready has been set by then.
SteerRun(s) ==
  /\ steers[s].at = "idle" /\ caller = "back"
  /\ steers' = [steers EXCEPT ![s] =
       IF active /\ SessionOpen /\ ~abort
       THEN [@ EXCEPT !.at = "append", !.timer = TRUE]
       ELSE [@ EXCEPT !.at = "back", !.answer = "revert_to_followup"]]
  /\ UNCHANGED <<server, work, run, consumer, caller, started, active, log, closed>>

InjectionSent(s) ==
  /\ steers[s].at = "append"
  /\ steers' = [steers EXCEPT ![s].at = "future"]
  /\ UNCHANGED <<server, work, run, consumer, caller, started, active, log, closed>>

\* The append raises; the server may have received the injection.
InjectionFails(s) ==
  /\ "steer_fails" \in Ops
  /\ steers[s].at = "append"
  /\ steers' = [steers EXCEPT ![s] =
       [Resolved(@, "revert_to_followup") EXCEPT !.at = "back",
                                                 !.answer = "revert_to_followup"]]
  /\ UNCHANGED <<server, work, run, consumer, caller, started, active, log, closed>>

\* STEER_ACK_TIMEOUT_S have passed.
SteerTimeout(s) ==
  /\ Waiting(s) /\ steers[s].timer
  /\ steers' = [steers EXCEPT ![s] = Resolved(@, "revert_to_followup")]
  /\ UNCHANGED <<server, work, run, consumer, caller, started, active, log, closed>>

SteerReturns(s) ==
  /\ steers[s].at = "future" /\ steers[s].future # "none"
  /\ steers' = [steers EXCEPT ![s].at = "back", ![s].answer = steers[s].future]
  /\ UNCHANGED <<server, work, run, consumer, caller, started, active, log, closed>>

-----------------------------------------------------------------------------
(* LocalAgent *)

\* wait_until_started returns; a run that is no longer active is awaited.
SendSeesStart ==
  /\ caller = "started" /\ started
  /\ caller' = IF active THEN "back" ELSE "task"
  /\ UNCHANGED <<server, work, run, consumer, started, active, steers, log, closed>>

SendJoins ==
  /\ caller = "task" /\ run = "over"
  /\ caller' = "back"
  /\ UNCHANGED <<server, work, run, consumer, started, active, steers, log, closed>>

\* close() and aclose() cancel the task that drives run(); the agent does not own
\* its store.  Where run() awaits the consumer, the consumer is cancelled, which
\* session.aclose swallows and which gather passes on to the tasks it awaits.
Close ==
  /\ "close" \in Ops /\ ~closed /\ run # "over"
  /\ closed' = TRUE
  /\ \/ /\ \/ run \in {"starting", "ready", "request"}
           \/ run = "stream" /\ consumer \in {"returned", "raised", "cancelled"}
        /\ CleanUp
        /\ UNCHANGED <<server, work, consumer, log>>
     \/ /\ run = "stream" /\ consumer \in {"reading", "replying"}
        /\ consumer' = "closing" /\ leaves' = "cancel"
        /\ UNCHANGED <<run, active, abort, requested, work, steers, log>>
     \/ /\ run = "stream" /\ consumer = "closing"
        /\ UNCHANGED <<run, active, consumer, server, work, steers, log>>
     \/ /\ run = "stream" /\ consumer = "gathering"
        /\ consumer' = "cancelled"
        /\ bg' = bg \ awaited
        /\ UNCHANGED <<run, active, server, spawned, awaited, steers, log>>
     \/ /\ run = "cleanup"
        /\ run' = "over"
        /\ UNCHANGED <<active, consumer, server, work, steers, log>>
  /\ UNCHANGED <<caller, started>>

-----------------------------------------------------------------------------
RunNext ==
  \/ StartupDone \/ StartupFails \/ ReadyTimeout \/ SessionReady \/ SessionMissing
  \/ RequestArrives \/ RequestSent \/ RequestFails
  \/ StreamReturns \/ StreamRaises \/ CleanedUp

ConsumerNext ==
  \/ OpenSucceeds \/ OpenFails
  \/ Report \/ AbortSignal \/ Query \/ Replied
  \/ \E s \in Steer, state \in {"queued", "delivered", "rejected"} :
       Acknowledge(s, state)
  \/ \E e \in Exec : Request(e)
  \/ TurnEnded \/ Aborted \/ StreamEnds \/ ReplyFails
  \/ SessionClosedRaising \/ SessionClosed \/ Gathered

WorkNext ==
  \/ \E e \in Exec : ExecEnds(e)
  \/ \E e \in Exec, j \in Job : StartJob(e, j)
  \/ \E j \in Job : JobEnds(j)

ClientNext ==
  \/ \E s \in Steer : \/ SteerRun(s) \/ InjectionSent(s) \/ InjectionFails(s)
                      \/ SteerTimeout(s) \/ SteerReturns(s)
  \/ SendSeesStart \/ SendJoins \/ Close

Next == RunNext \/ ConsumerNext \/ WorkNext \/ ClientNext

Spec == Init /\ [][Next]_vars

\* The loop goes on running its tasks, and what has a time limit is over in time:
\* the opening of the run (30 s of run()), a waiter (its timer), the closing of a
\* session, of the MCP servers and of the client.  Nothing else of the world is
\* fair: the exchange of the key, the start of the MCP servers and the appends of
\* an HTTP/1 run have no time limit (`read=None`), a stream may stay silent, and
\* tools and subagent jobs may go on for ever.
Fairness ==
  /\ WF_vars(run = "ready" /\ (OpenSucceeds \/ OpenFails \/ ReadyTimeout))
  /\ WF_vars(SessionReady \/ SessionMissing)
  /\ WF_vars(StreamReturns \/ StreamRaises)
  /\ WF_vars(CleanedUp)
  /\ WF_vars(SessionClosedRaising \/ SessionClosed)
  /\ WF_vars(Gathered)
  /\ \A s \in Steer : WF_vars(SteerTimeout(s)) /\ WF_vars(SteerReturns(s))
  /\ WF_vars(SendSeesStart)
  /\ WF_vars(SendJoins)

LiveSpec == Spec /\ Fairness

-----------------------------------------------------------------------------
(* Properties *)

Ended == \E i \in DOMAIN log : log[i] \in End

\* run() has failed or was closed before it came to await its consumer, which goes on
\* until the client is closed.
Abandoned ==
  run \in {"cleanup", "over"} /\ consumer \notin {"none", "returned", "raised", "cancelled"}

\* run(), which records failures, and its consumer, which records ends, never both
\* record the end of a stream: whatever is appended after an end is the failure of
\* a run_request that came too late, or comes from a consumer run() gave up on.
OneEnd == [][Ended => run \in {"ready", "request"} \/ Abandoned]_log

\* A run that was neither aborted nor closed is not left without an end, whatever
\* failed: run() relies on the consumer for it, and the consumer on run().
EndRecorded == run \in {"cleanup", "over"} /\ ~abort /\ ~closed => Ended

\* A run is reported as finished only when none of the tools and subagents it
\* started is at work, and none is started later.
FinishedIsIdle == (\E i \in DOMAIN log : log[i] = "FINISHED") => bg = {}

\* What the log says of the end of a run that is over is there, and is true.
EndIsTrue == EndRecorded /\ FinishedIsIdle

\* A caller of steer() that has no answer yet has a timer, or a session whose end
\* will answer: "queued" clears the timer, so that without a session nobody would.
NoSteerStranded == \A s \in Steer : Unresolved(s) => steers[s].timer \/ SessionOpen

\* No steer() is left without an answer by a run that is over, even when the
\* consumer of its stream is not.
NoSteerOutlivesRun == run \in {"cleanup", "over"} => \A s \in Steer : ~Unresolved(s)

\* What run() waits for without a time limit: the exchange of the key and the start
\* of the MCP servers, the append of the run_request, the next message or the append
\* of a reply, and the background tasks the consumer gathers.
WaitsForWorld ==
  \/ run \in {"starting", "request"}
  \/ run = "stream" /\ consumer \in {"reading", "replying"}
  \/ run = "stream" /\ consumer = "gathering" /\ awaited \cap bg # {}

\* Whatever fails, is late or is closed, everyone who waits for the run is let go,
\* unless the service or a tool is what he waits for.  send() returns, or the agent
\* is closed, or the start-up goes on for ever: _started is set by every path of
\* run() but its cancellation.  A steer() returns, or its append is never answered,
\* or a server that has queued it keeps the session open.  And run() ends, or waits
\* for the world for ever, never for a task of its own.
AllReturn ==
  /\ <>(caller = "back" \/ closed) \/ <>[](run = "starting")
  /\ \A s \in Steer : Waiting(s) ~> \/ steers[s].at = "back"
                                    \/ [](steers[s].at = "append")
                                    \/ [](Unresolved(s) /\ ~steers[s].timer /\ SessionOpen)
  /\ <>(run = "over") \/ <>[]WaitsForWorld
=============================================================================
