# A TLA+ model of opencursor

opencursor is a Python SDK for coding agents. A *local* agent keeps its state in
a SQLite file of the workspace, or in a store the application supplies, and
carries out a run by talking to a remote model server over one bidirectional
stream; a *cloud* agent runs elsewhere and is followed over server-sent events.
This directory models the parts of the SDK in which several actors change or read
shared state and the algorithms they rest on, checks the models with TLC and proves
the central invariants with TLAPS. Paths below are relative to `src/opencursor/`
unless they begin with `src/` or `docs/`.

## 1. Inventory

| Component | State it keeps | Operations | What is hard, and what makes it correct | Module |
|---|---|---|---|---|
| Local run store (`_local_runtime.py`, `LocalAgentStore`) | tables `agents`, `runs`, `run_events` of `index.db`, shared by all processes of the workspace | create agent, follow-up run, starting, terminal, expire, append event, list messages, usage | check-then-act over several statements, two processes; the rows of agent and run agree, logs are append-only | `LocalRuntime`, `History` |
| Handles (`LocalAgent`, `LocalRun`) | pending run, tasks, last known status | send, force, cancel, close, resume, stream, observe, wait | a send races cancels, forced sends and old executors; one run at a time, a verdict stays | `LocalRuntime`, `AgentTurns`, `CheckpointHandover` |
| Run event tailer | offset in the log | replay, tail, replay-and-tail | reads log and row at different times while they are written; every event once and in order, a tail ends when the run does | `RunEventTail` |
| Executor (`_local_executor.py`) | the session, background tasks, steer waiters, checkpoint | run, consume the stream, finish, fail | several tasks, an opening with a limit, abort, failures inside failure handling; exactly one end is recorded | `ExecutorSession` |
| Steering | a waiter and a timer per injection | steer, acknowledgement | a time limit that races the acknowledgement | `ExecutorSession` |
| Requests of the service (`_on_kv`, `_on_exec`, `_on_shell_stream`) | blobs, shell processes | blobs, tools, streamed shell commands | answers whose sending fails, cancellation; nothing is started that is not allowed, a stream is one of the protocol's | `ToolCalls` |
| File tools (`_exec_read` ... , `_ripgrep.py`) | none | read, ls, glob, find, grep, write, delete, fetch | limits at their boundary, directories that change or cannot be opened, pages of a file that changes; what is cut says so | `FileTools` |
| Subagents (`_subagents.py`) | job registry, futures | launch, await, move to background, cancel | result, time limit, move to the background and cancel race; an answer is what became of the job | `Subagents` |
| Connect transport (`_connect.py`) | append sequence number, queues, "HTTP/2 failed" flag | open run, read, send, fall back, close | chunks, failed or concurrent appends, time limit of the start | `ConnectTransport` |
| Protobuf codec (`_protobuf.py`) | none | encode, decode, JSON values | widths, oneofs, packed lists, fields of a newer peer | `Codec` |
| Cloud agent and run (`_cloud_agent.py`, `_cloud_api.py`, `_sse.py`) | `_server_created`, last event id, status | create, send, stream, reconnect, poll, cancel, observe | lost requests and answers, reconnects: nothing lost, repeated or taken for another, the deadline | `CloudRunStream`, `CloudSends`, `Framing` |
| JSONL and composed stores (`_local_agent_store.py`) | NDJSON files | get, put, append, list with cursors, delete | rewrite in place and a crash in it, characters that are cut, cursors over changing lists | `JsonlStore` |
| Protocol store adapter (`ProtocolRuntimeStore`) | none | the operations of the run store, over a store whose calls may suspend | read-modify-write with suspensions or a crash between | `ProtocolStore`, `History` |
| MCP servers and OAuth (`_mcp.py`, `_mcp_oauth.py`) | sessions, links, pending calls, tokens | start, log in, refresh, call, read, close | late answers, two tasks that connect, a close that overtakes a start | `McpServers`, `Framing` |
| Login (`_auth.py`) | stored key, caches of processes | login polling, logout, look-up | back-off, expiry, processes that share a file | `Login` |
| Sandbox (`_sandbox.py`) | remembered preflight, directory of policies | policy, search for the helper, preflight, clean-up, run | processes that clear each other's files; the policy that was asked for is the one that applies | `SandboxPolicy`, `SandboxHelper`, `ToolCalls` |
| Shell parser (`_shell_parse.py`) | the account of descriptors | deny rules, redirections | quoting; descriptors that are copied and closed | `ShellPolicy`, `Redirects` |
| Sync facade (`_sync_runtime.py`) | one background loop and thread | start, submit, iterate, stop | callers that start it at once, the end of the process | `SyncLoop` |
| Run helpers (`_run_api.py`) | none | counters of a turn, sums, envelopes | absent and zero counters | `History`, `RunEventTail` |
| Task runner of the cookbook (`src/examples/cookbook/dag_task_runner`) | states of tasks, timers, the file | check and rank a document, run, cancel, show | threads, stopping, deadlines, a debounced write in a thread of its own | `DagRunner`, `CanvasWriter` |
| Messages, types, errors, settings, diagnostics, facade, scripts | little or none | conversion, formatting, delegation | data | - |

How they interact. `Agent.create` and `Agent.resume` open the store and make a
`LocalAgent`. `send` chooses a run in the store, records the message, and starts
a `LocalAgentExecutor` as a task of the same loop; the executor opens a session
through the transport, answers the server's requests with tools, subagents and
MCP servers, and appends what it is told to the run's log. `LocalRun` knows
nothing of the executor, except for steering: it reads the log and the run's row
through the tailer, and `cancel` writes to both. So executor, handles and readers
communicate through the store alone, from any number of processes. A synchronous
caller does all of this through the background loop, one coroutine per call.

`PROJECT.json` lists the hazards of the code at the lines where they bite, each
with the properties that watch it and what they have to leave out.

## 2. Modules

| Module | Models |
|---|---|
| `LocalRuntime` | one agent: its rows, its handles, its runs and their executors, in any number of processes |
| `AgentTurns` | the abstract promise: an agent takes one turn at a time |
| `ExecutorSession` | one executor: `run()`, its consumer, background tasks, steers, the waiting `send` |
| `CheckpointHandover` | how the state of the conversation gets from turn to turn |
| `RunEventTail` | reading one run while it is written: tailer, `stream`, `observe`, `wait` |
| `History` | reading all runs of an agent: `list_messages` by pages, `get_usage` |
| `ToolCalls` | the requests of the service: blobs, tools, shell commands, their streams |
| `ShellPolicy`, `SandboxPolicy` | operators `ToolCalls` is built from: deny rules and quoting; forms of a policy |
| `Redirects` | the account of descriptors, beside what the shell does |
| `SandboxHelper` | where the helper is found, the preflight, the files of policies |
| `FileTools` | reading, searching and fetching, beside programs that change the workspace |
| `Subagents` | jobs and the requests that wait for them |
| `ConnectTransport` | a run's connection: HTTP/2, HTTP/1, fallback, frames, queue, appends |
| `Codec` | the encoding of messages and JSON values |
| `McpServers` | one server, its transports, calls, login and refresh |
| `Framing` | messages cut out of the output of a server, events out of a connection |
| `CloudRunStream`, `CloudConstants` | following one run of the cloud service over connections that drop; its constants |
| `CloudSends` | messages to cloud agents, keys, lost requests and answers |
| `JsonlStore` | the four files of the portable store; `MCJsonlStore`: with one agent, for TLC |
| `ProtocolStore` | the runtime's operations over a document store |
| `Login` | login, logout and look-up in processes that share a file |
| `SyncLoop` | the event loop behind synchronous calls |
| `DagRunner`, `CanvasWriter` | the task runner and the file it shows |
| `MCLocalRuntime`, `MCExecutorSession` | instances for TLC of one module each |
| `MCFollowing`, `MCExchange`, `MCPersistence` | instances of several modules, see below |
| `MCAlone` | `MCPersistence` with the parts that have recursive operators |
| `LocalRuntime_proofs`, `RunRecords_proofs`, `Turns_proofs` | theorems about `LocalRuntime`: types, the active run and the logs; what a log holds; turns and verdicts |
| `RunEventTail_proofs`, `ExecutorSession_proofs` | theorems about those |
| `CloudRunStream_proofs` | theorems about `CloudRunStream` and `CloudSends` |
| `Exchange_proofs` | theorems about `McpServers`, `ConnectTransport` and `Subagents` |
| `Persistence_proofs` | theorems about `SyncLoop`, `CheckpointHandover`, `CanvasWriter`, `Login`, `Redirects` and `SandboxHelper` |

### Instances of several modules

`MCPersistence`, `MCAlone` (which extends it), `MCExchange` and `MCFollowing` each
instantiate several components that share no state and have nothing to say to each other. A variable
`part` is chosen in the initial state and tells which of them a behaviour is about;
the others keep their initial states, for which one is picked where there are
several. So the state space is the sum, not the product, and each component is
checked as if it had a run of its own. Fairness is stated for every component; it is
trivially met for one that takes no step. Properties of one part are stated as
implications, or hold of an initial state.

### Segments

The methods of `LocalAgentStore` are coroutines that never suspend: they await
only each other, and SQLite is called synchronously. A task therefore runs from
one real suspension to the next without any other task of its loop in between,
and what it does to the store meanwhile is a list of SQL statements. That list
is a *segment*. `LocalRuntime` keeps the segment each process is in (`seg`); an
action executes one statement (or one `with self._db` transaction) and leaves
the rest. In one process segments are atomic, since a new one begins only when
the last is done; processes interleave at every statement. A crash or an
exception drops the rest of a segment.

| Definition | Code |
|---|---|
| `Init`, `Resume` | `create_local_agent`, `resume_local_agent` |
| `Send`, `ChooseRun`, `StartScript`, `Drive`, `DriveFails` | `LocalAgent._send_async` up to `create_task(_drive())`, or up to a constructor that raises |
| `ExpireReadAgent`, `ExpireReadRun`, `ExpireScript` | `expire_active_run` |
| `FollowUpReadAgent` ... `FollowUpInsert` | `create_follow_up_run`, one action per statement |
| `MarkRunStarting`, `MarkRunTerminal` | the two transactions over both tables |
| `ReadMaxSeq`, `InsertEvent`, `InsertEventConflict` | `append_run_event`: the SELECT, the INSERT, its IntegrityError |
| `Cancel`, `CancelFindRun`, `CancelScript` | `LocalRun._cancel_async` |
| `Close`, `Crash`, `SetAgentStatus` | `close`, the end of a process, archive and unarchive |
| `StartupDone` ... `RunFails`, `EndScript` | `LocalAgentExecutor.run`, `_consume_server`, `_on_interaction`, `_finish`, `_fail` |

What the server sends is a choice: messages for the log, the end of the turn, a
broken stream, an abort. Event payloads are abstracted to their kinds; the
model, the prompt and the checkpoint play no part.

### Readers, executors, streams

`RunEventTail` keeps the writer of a single run, simplified from `LocalRuntime`
(no sequence conflicts, no start-up), and models the reader at the granularity
of its suspensions. `client.place` says where the consumer is: in the writer's loop
and taking messages as they come (`loop`), in that loop but suspending while it holds
one (`slow`), which an awaiting consumer does and a synchronous `for` loop always
does, since `iterate_async` submits each step to the background loop, or in another
process, interleaving with every statement of the writer.

`ExecutorSession` takes apart what `LocalRuntime` has as one executor. `run()`
starts the task `_consume_server`, waits for it to be ready, sends the
run_request and awaits it; the consumer spawns background tasks and gathers them.
Both can record an end: the consumer when the stream is over, `run()` when
something raises. An action is what a task does up to its next await. `LocalRuntime`
is right about the ends of a run as long as there is one of them (`OneEnd`), that is
unless `run()` gives up on a consumer that is still at work; then a run can have two,
and what `LocalRuntime` shows of verdicts (`VerdictIsFinal`, `OneVerdict`) does not
apply to it.

| Variable | Code |
|---|---|
| `run`, `consumer` | the await at which `run()` and `_consume_server` are |
| `leaves`, `abort` | `finished` and the exception in flight; `_abort` |
| `caller`, `started`, `active` | `_send_async` after `create_task`; `_started`, `_generation_active` |
| `bg`, `awaited` | `_bg_tasks`; the list given to `gather` |
| `steers` | the calls of `steer()`, with future and timer of the `_SteerWaiter` |

Assumed of the server: it answers nothing before it has the run_request, and ends
the turn only when none of its requests is open. The model handles every message
in a step of its own; the consumer handles several in a row when they are already
queued, so the model has interleavings the code has not. The agent of a closed
handle is one that does not own its store. What is done for a request is in
`ToolCalls`, `FileTools` and `Subagents`; here a request is a task that ends, and a
subagent is a job that ends, not an executor.

`CheckpointHandover` has the turns of one `LocalAgent`, each with the checkpoint it
was given, the one it holds and how far its executor's task is.

`CloudRunStream` is the task of `_run_stream_loop`, with `cancel` beside it. An event
is its index in `frames`, which is also its id; `Opens` asks for those after `lastId`.
The service is external: it keeps the events, sends them in order, and refuses to
cancel a run that has ended. An action of the loop is what it does up to its next
await. `loop` is the await it is at: opening a connection, reading an event, in
`get_run` (`refetch` from the loop, `poll` from `_poll_run_until_terminal`), in the
back-off or between two polls. Time is one flag, `late`: the 72 h of the code are over
(`docs/sse-event-stream.md:47` speaks of 2 h). What an event contains is abstracted to
whether it is queued, whether its id is stored, and whether it ends the run.

### What goes over the connection

`ConnectTransport` has the runs of one client with both transports of each. A frame is
two pieces, a chunk any number of them. `Send` takes the next number before the
request of an HTTP/1 append is made; requests in `flying` arrive in any order, fail, or
are repeated with a new access token (`AppendStale`). `timedOut` marks a transport
whose start took too long: its task is left behind on purpose.

`ToolCalls` is `_on_kv`, `_on_exec`, `_on_shell_stream` and `_exec_shell` with one task
per request. Every message to the service may fail to be sent, and the cancellation of
the run may come at any await. A command is a word with quotes, so that the deny rules
(`ShellPolicy`) are compared with what the shell makes of it; the policy of a request
goes through all the forms of `SandboxPolicy` before it reaches the helper.
`Redirects` keeps, beside the account that `parse_shell_command` has of each descriptor,
what the descriptor really is.

`Subagents` has the jobs of an executor and the requests about them. A request in the
foreground starts its job and is answered with the error that
`create_task(shield(...))` raises (finding 4); the ones that wait are those of
`_exec_subagent_await`.

`FileTools` has the workspace as a set of paths with texts that other programs change
between any two steps. A reading by pages is several requests, and a search opens one
directory after the other (`walk`): opening one is a step of its own, which may fail
(`CannotOpen`), and between two of them files come and go. An answer keeps beside it what
was there all the time (`steady`), what was there at any time (`ever`), and which
directories were not opened, which is what the property compares it with. Whether a
search ends at an error, or passes over the directory, depends on the version of Python;
the model has both.

`Codec` writes and reads byte for byte, with small digits: a byte has `Digit` values
beside its continuation bit, and negative numbers are reduced modulo `Modulus`, so
that the carries of the code occur with numbers of two and three digits. It has
recursive operators, as messages nest, and therefore no theorems.

`McpServers` has `start()`, logins, calls, readings and `aclose()` as tasks that
share the session. An answer is late, lost, for another request, or a request of the
server's own. `Framing` abstracts bytes to the pieces their reader tells apart and
cuts them into chunks anywhere.

### Stores, clients, tools around the SDK

`JsonlStore` has a file as a sequence of lines. A call truncates the file and writes
its rows; a crash or a failing write after any number of them, and in the middle of one,
leaves the rest out and perhaps the beginning of a line. If that ends after a character
(`Torn`), the next call drops it; if it ends inside one (`Split`), no call can read the
file any more (finding 5): every action has the guard `Reads`. `ProtocolStore` is
given either a store whose calls suspend or one whose calls do not (`suspends`); an
operation is its list of calls. `Login` has a clock for the expiry of a poll and of a
key. `CloudSends` has a service that remembers keys; a caller repeats a message only
under the key it gave. `SyncLoop` has the loop as what became of each of its threads,
since two callers can start one each. `SandboxHelper` has files by their age and what
each process saw when it last cleared the directory; a file that is old may stay, since
errors are swallowed there. What a runtime says of support depends on the platform, on
whether a sandbox was requested, and only then, on Linux, on a preflight. `DagRunner` checks the document
it was given before it runs it; a thread of a task is at the await or call it is at.
`CanvasWriter` gives the timer's thread, the flush and the writes steps of their own:
the writing is outside of the lock. Two histories tell what happened: `overtaken`, that a
write began before another had ended, and `early`, that `flush` returned while a timer
was still writing. `History` reads the runs one after the other while
they grow; a client goes on with the next page behind what it has.

### Mutants

A definition introduced by a comment as a mutant is a plausible mistake in the
definition after it. The specifications do not use these definitions;
`PROJECT.json` pairs each property of each passing run with one of them, and
under that run's configuration TLC finds the property violated when the mutant
takes the definition's place.

## 3. Runs

| Run | Bounds | Question |
|---|---|---|
| `MCTurns` | 1 process, no cancel or force, 3 runs, logs to 4 | one run at a time: refinement of `AgentTurns` |
| `MCSuperseded` | 1 process, force, cancel and close, 3 runs, logs to 3 | what `active_run_id`, the busy check, the logs and verdicts promise while executors outlive their runs; whether a run can be left without its end |
| `MCSharedStore` | 2 processes, force, archive, crash, 1 run, logs to 5 | conflicts of `seq`, the rows and the log of a run two processes write to |
| `MCExecutor` | 2 exec requests, 1 job, 1 steer, logs to 2, every failure, abort and cancellation, fairness | one end, after all work; `send`, `steer` and `run` come to an end, or wait for the world |
| `MCFollowing` | tails: readers in the loop, slow ones and ones in another process, crashes, pages of 2, logs to 6, fairness. stream: 1 reconnect before polling, 3 events, every failure, cancel, fairness. sends: 3 handles, one of which resumes, 2 messages, 3 sends, 2 under way. bytes: 3 items, cut anywhere | paging under a growing log, when tails end, is everything delivered, does `wait` agree with the log; a cloud run followed to its end; the run of a message; what is read is what was sent |
| `MCExchange` | connection: 1 run, 1 message each way and its end, 2 sends. tools: 2 requests. subagents: 3 requests. MCP: both transports, 4 links. login: 1 process. Fairness | what a run exchanges with the world is in order and its own, and all of it ends, or waits for a peer where there is no limit |
| `MCAlone` | see below | the components that stand alone, for their safety |
| `MCForceOverlap` | violation | two live runs after a forced send |
| `MCTailSlowConsumer` | violation | the end of a run is not delivered |
| `MCHandoverEager` | violation | the next turn gets an older checkpoint |
| `MCForeground` | violation, 1 request | a foreground subagent is answered while its job runs |
| `MCTornLine` | violation, 1 agent, 1 call | a file that was cut inside a character cannot be read |

The parts of `MCAlone`. `FileTools`, `Codec` and `DagRunner` have recursive operators and
are instantiated there; the others are those of `MCPersistence`, which is what
`Persistence_proofs` extends.

| Part | Bounds | Property |
|---|---|---|
| `JsonlStore`, by tables | 2 owners, 2 ids, pages of 1, 3 rows, 3 calls, a crash or failing write in each, inside a character or not | `FilesHold`: damage is at the end of a file and of that file only, answers stay true, listings give each row once |
| `ProtocolStore` | 2 tasks, 3 runs, 2 operations if calls suspend and 4 if not, crashes | `TurnsKept`, `ArchivedStays` |
| `CheckpointHandover` | 4 turns, 6 checkpoints, a client that waits for the task | `LatestCheckpointSent` |
| `Login` | 2 processes, 2 backends, 3 attempts, 2 logins | `KeysAreCurrent` |
| `Redirects` | 3 descriptors, statements and redirections without a bound | `DevNullIsSound` |
| `FileTools` | 6 paths, texts to 3 lines, 3 collected files, outputs to 3 lines, 1 change while directories are searched (`MaxChanges`) | `AnswersAreWhole` |
| `Codec` | a message type with a field of each kind, numbers to three digits, 2 pieces, 4 unknown fields | `RoundTrip` |
| `DagRunner` | 3 tasks, 9 documents, rings and missing tasks among them | `TasksInOrder` |
| `SyncLoop` | 2 callers, one of which iterates, 3 loops | `CallsAreServed` |
| `CanvasWriter` | 2 threads, 4 states, 3 timers | `FlushShowsLatest` |
| `SandboxHelper` | 2 threads in one or two processes, 5 installations on Linux and elsewhere, ages to 4 | `HelperIsSound` |
| `History` | 2 runs, 3 events of which 2 are read, pages of 1 | `HistoryIsTold` |

Why the bounds suffice. Two handles are enough for two sends to race and for one
handle to hold a stale pending run; three runs are needed for an executor of the
first to end while the third is created beside the second, which is the shortest
way to two live runs. An executor emits at least once past the three messages of
`send` with `MaxLog` 4. With `MaxLog` 3 (`MCSuperseded`) it does not emit, but its end, the cancel
and the forced send still append, and that is what the run is about. Two
rows per page and six events give a full page, a page with a successor and a
short page. Two exec requests and a job are enough for a job to start while the
other request is answered, and for a gather to miss it; steers do not interact but
for the revert of all of them, so one is enough, and the theorems are for any number.
One reconnect and three events (four with the result) put a drop before, at and after a
legacy event and an event with an id, and reach the polling; the counter of attempts
plays no other part. Two sends are enough for the numbers of appends to cross, three
subagent requests for one that starts a job, one that awaits it and one that moves it.
Three pieces of a stream are enough for one to be cut, one to be joined to it and one to
wait behind both. Three rows and pages of one are enough for a row to move
over the page's edge; two processes and a clock of a few ticks for one to clear what
the other has just written or is about to read. A send that would create a run beyond `MaxRuns` is given up, which
looks to the rest of the model like a send that raised. Deadlock is not checked:
a system whose handles are all closed and whose runs have all ended is done, and so is
one whose bounds are used up.

The statement `Live(r)` means "not in `TERMINAL_LOCAL_STATUSES`".

### Fairness

The code has few time limits: 30 s for the opening of a run, limits on waiters, on
the closing of things, on the wait for an answer of an MCP server and for the browser,
and on commands. HTTP requests have none for reading (`_connect.py:150`), and the
exchange of the key and the start of the MCP servers are awaited outside of the 30 s. So
fairness is stated for what the loop itself does and for what has a limit, and the
liveness properties say who may wait for ever, and for whom.

`LocalRuntime` has no fairness. That a run ends takes an executor that goes on, and the
service owes it nothing; what its runs check is that the executor does not end without
the run (`NoRunLeftBehind`). Closes end it so, as do aborts and crashes, which
`MCSuperseded` leaves out: each of them leaves the run `RUNNING` for good.

The tails of `MCFollowing` assume only that the reader and the segment in progress are
executed, nothing of the executor.

`MCExecutor` assumes weak fairness of every task that can run, of the opening of a run and
of timers. Nothing optional is fair: no abort, close or failing append has to happen; and
nothing is assumed of the start-up, of appends, of the stream, or of tools and
jobs. `AllReturn` names these as the places where `run()`, `send` and `steer` may wait
for ever; what it excludes is that one of them waits for a task of the SDK that is gone,
or for an event nobody will set. It sets closed agents aside: a task cancelled during the
start-up never sets `_started`, and the `send` that waits for it hangs.

For the cloud, `MCFollowing` assumes that the task and time go on, that requests are
answered or time out (300 s), and that no connection lasts for ever: the code looks at its deadline only
between connections, so one that is kept open by heartbeats is the service's to end.
Nothing is assumed of the run itself.

`MCExchange` assumes that tasks that can run do, and that waits with a time limit end.
Nothing is assumed of the service or of a server: neither has to answer, to end a stream or
to take an input, and nested runs and handlers need not end. `AllEnd` therefore leaves a
connection in the request for its configuration, an answer that the service does not
take, a handler at work, a subagent awaited without a limit, and an MCP call whose
message the server does not read (`HeldByServer`: `_mcp.py:439` drains outside of the
limit) or whose answer comes piece by piece.

## 4. Findings

1. **A forced send does not stop the old executor** (`MCForceOverlap`).
   `expire_active_run` marks the run and leaves its executor alone; when that
   executor ends its turn, `mark_run_terminal` clears `active_run_id`, which by
   then is the new run's. The next send finds the agent free. `cancel` has the
   same gap. `docs/local-runtime.md:38` and `docs/errors.md:14` say otherwise.
2. **A tail can end before it has delivered the end** (`MCTailSlowConsumer`).
   After a page without a terminal event the tailer looks at the row and, if
   the row is terminal, returns without listing again. A writer that ran while
   the consumer held a message of that page is missed. `docs/local-runtime.md:68`,
   `docs/messages.md:49`.
3. **The next turn can start from an older checkpoint** (`MCHandoverEager`).
   `_drive` hands the checkpoint over after `run()` has closed the MCP servers (up
   to 2 s each) and the client; the run is `FINISHED` before that. A client that
   sends as soon as `wait` returns continues from the checkpoint before, or from an
   empty conversation. `docs/local-runtime.md:125`.
4. **A foreground subagent is answered with an error while it runs** (`MCForeground`).
   `_local_executor.py:963` gives `create_task` the Future that `shield` returns, which
   raises TypeError; line 852 makes an answer of it. The nested run goes on.
   `docs/local-runtime.md:146` and `examples/local_subagent.py:37` promise its result.
5. **A partial last line can make a file unreadable** (`MCTornLine`). Rows are written
   with `ensure_ascii=False`, and `read_text` decodes the whole file first: a line that
   was cut inside a character raises for every row. The test
   `test_jsonl_tolerates_partial_last_line` (`tests/test_jsonl_store.py:111`) has a partial
   line of ASCII only.

Why properties are not stated more strongly than they are. Most of these are
behaviours of the code that no document promises to be otherwise; where a history
variable is named, it marks the behaviours the property sets aside.

* `LoopReadersAgree` is for one process. In another, the log says ERROR before
  the row does, and `wait`, which ends its stream at the message and then reads the
  row, can return "running" without the error that `docs/errors.md:101` promises.
* `OneEnd` leaves a late run_request and an abandoned consumer aside. When the
  append of the run_request fails although it arrived, `run()` records ERROR and
  closes, and the consumer, which nobody stops, may record FINISHED meanwhile.
* `NoGap`, a part of `StreamIsTrue`, speaks of what the loop has come past. What was
  reported after a drop is not fetched any more when `get_run` says that the run has
  ended: `stream()` then ends without those messages.
* `NoRepeatBehindId`, a part of `NothingTwice`, allows legacy events to be queued
  twice. Their ids are not stored and `_emitted_legacy` is never filled;
  `docs/sse-event-stream.md:29` says only that they *may* be deduplicated.
* `VerdictAgrees` leaves errors aside: a refused connection is an error for the
  client, whatever becomes of the run.
* No property relates the acknowledgement `delivered` to what `steer()` returns:
  when the append fails after the acknowledgement, it returns `revert_to_followup`.
* `InOrder` says nothing of numbers that are missing: an append that failed keeps its
  number. `OneTransport` sets aside a transport whose start took too long (`timedOut`).
* `AnswersAreOwn` excepts the server's own requests (`of = "server"`): a message with
  an id that is a request of the server is taken for the answer to the call of that
  number. `LinksAreKept` sets aside a login of a server that is connected or
  connecting (`overlap`), which leaves a transport open, and links opened behind
  `aclose` (`lateLinks`), which nobody closes.
* `FramesAreRead` sets aside messages on lines that share a chunk with anything else
  (`apart`): the buffer is parsed as one message, which fails, and they are read late or
  never. Characters that a chunk cuts (`split`) are replaced in an event.
* `RunIsOfMessage` excepts several first messages under the handle's own key, which
  get the run of one of them, and a handle that resumed the agent and repeats the
  message that made it, which runs it again: the two requests go to two endpoints.
* `FilesHold` loses what a write that was cut short took: a rewritten file holds at least
  a beginning of its rows, until it cannot be read at all (finding 5).
* `TurnsKept` speaks of stores whose calls do not suspend, but for a deleted agent; over
  one that suspends, updates that cross are lost.
* `KeysAreCurrent` sets aside a process after another changed the file (`others`): it
  goes on with the key it read.
* `AnswersAreWhole` excepts what lies in a directory that could not be opened: `_glob_files`
  and `_ls_node` swallow the OSError, and `ls` even says that the children were processed. It
  speaks of what was there all the time the directories were searched. It lets `find` be
  silent about what is beyond the collected files, and `grep` call an answer cut that is
  exactly as long as its limit.
* `TasksInOrder` excepts a run whose `send` raised after it was recorded: the task has no
  handle to cancel it with.
* `RoundTrip` is about data a message can have. An object with the names of the
  protocol's own form of a value is read as that value.
* `CallsAreServed` does not say that there is one loop: between `_ready.set()` and
  `run_forever` a second caller finds none running and starts another. A call that
  waited ten seconds for a loop may fail (`late`).
* `FlushShowsLatest` sets aside writes that crossed (`overtaken`): the timer's write is
  outside of the lock (`canvas_writer.py:198`) and may land after the last one, or within
  it. Where a timer took the last state before `flush` could (`early`), `flush` finds
  nothing scheduled and returns: the property then says only that this timer is still
  writing the state, has written it, or has failed to. It is a daemon thread, and may
  never get there.
* `HelperIsSound` excepts a policy that came of age between its writing and the start of
  its helper; and a helper of the workspace is found where the user's variable or the
  search path lead, or if the program itself lies there: only the search above the
  interpreter leaves the workspace out. Where no sandbox was requested, or on macOS,
  `supported` means no more than that there is a helper. That a sandbox is *not*
  supported may be wrong for good: a preflight that took too long is remembered for the
  process.
* `HistoryIsTold` sets aside a message that an earlier run gets behind a later one's
  while pages are read (`shifted`): all numbers behind it move. Of a run only the first
  10000 events are read, and its usage comes last.

## 5. Theorems

All of them hold for any number of handles, runs, requests, threads and processes, and
for logs, queues and pages of any length, unless a theorem names an assumption. Each
follows from an invariant that is inductive; TLC checked every one of these on the
instances before it was proved.

### The local runtime

* `TypeCorrect`: `Spec => []TypeOK`, for any number of processes. `TypeOK` is
  inductive: besides the types it says that every reference, of the agent row,
  of a handle and of each statement still to be executed, is to a run that
  exists, and that the three tables grow together. The proof has a lemma per
  kind of statement and one case per action.
* `RunningAgentCorrect`: `Spec => []RunningAgentHasRunningRun`, for any number
  of processes; inductive together with `TypeOK`.
* `ActiveRunCorrect` and `ActiveNewestLiveCorrect`, for one process:
  `active_run_id` is NULL or the newest run, and that run is live. Not inductive
  by itself: `MarkRunStarting` writes the run of the statement into the agent
  row, and `FollowUpInsert` a new one over whatever is there. `ActiveRunInv` adds
  what makes these safe. A pending run that is still queued *is* the active one;
  a statement that relies on an earlier check is the first of its segment, so
  that no statement lies between check and use; and at that point what was
  checked still holds. With a second process the invariant fails, since the
  other process acts between the two statements.
* `AppendOnlyCorrect`: no step changes or reorders a recorded event, for any
  number of processes. It follows from the types of the statements alone: only
  `InsertEvent` writes to the log, and it only adds at the end; a conflict of
  `seq` raises instead.
* `DrivenRunsAreRecordedCorrect` and `OneVerdictCorrect`, for any number of processes that
  interleave at their statements and for every operation, crashes included. Both follow
  from `RecordInv`, which says, for each kind of segment, what the log of its run holds as
  a function of how many statements are left: a segment is known by its end, since a
  crash cuts it off but never takes a statement out of its middle. Beside it `RunInv`
  relates the log to the phase of the run's executor, and `StartedOnce` says that no two
  segments start the same run. The start is safe only because a run is handed to the
  handle that made it and to no other.
* `VerdictIsFinalCorrect` and `ForceUnblocksCorrect`, for one process. `VerdictInv` says
  that a run with an executor is not queued and that a statement which will mark a run
  was decided from a row that still is what it was, so an unconditional UPDATE finds
  the row it expects. `ForceInv` says that in front of the agent row's reading by a forced
  send there is still a statement that ends the active run, or there is none.
* `OneLiveRunCorrect` and `TakesTurnsCorrect`, for one process without forced sends and
  cancels (`Undisturbed`; `MCForceOverlap` shows that the first fails with them). `OneTurn`:
  the active run is the only one that has not ended. `TakesTurns` is the refinement of
  `AgentTurns`: each statement either leaves the rows of the abstraction alone or is the
  queueing, the start or the end of its last turn.
* `LogAgreesCorrect`, for one process that does not die inside a segment
  (`"crash" \notin Ops`). Some segments write the verdict to the log first and others
  to the row; `LogInv` says that between the two writes the one that is done agrees with
  the one to come, and that otherwise the two agree.

### Readers and executors

* `TailTypeCorrect`, `ExactlyOnceCorrect`, `NeverEndsEarlyCorrect` and, for what
  `MCFollowing` checks of both, `TailIsFaithfulCorrect`, for `RunEventTail`. What the
  consumer was given is exactly what the log holds for it up to the tailer's offset.
  Inductive with `PageIsNext`: the rows in hand are the piece of the log that starts at
  the offset, which stays true while the log grows because rows are only added. A tail
  that ended saw a terminal event or a terminal row; the invariant of the proof says
  that an end, once there, stays.
* `LoopReadersAgreeCorrect`, for a reader in the writer's loop. `WriterInv` says where the
  log may differ from the row, which is only in the middle of a segment of the writer,
  and `SteadyInv` that a reader that does not give the loop away within a page holds the
  end of the log, or knows that more follows, until it sleeps.
* `EndRecordedCorrect` and `OneEndCorrect`, for `ExecutorSession`. The first needs
  that a consumer that returned without an abort has recorded an end, and that one
  that was cancelled was so by a close. The second needs that a recorded end means
  that `run()` is past its consumer or the consumer has returned. `EndIsLastCorrect`
  says that nothing at all follows an end when the run_request gets through in time
  and nothing is cancelled (`Undisturbed`): then `run()` fails only before there is a
  consumer or after it has raised, and one that raised recorded nothing.
* `FinishedIsIdleCorrect`: what makes it inductive is that after the end of a turn
  no request is open, so nothing can be started, and the gathered tasks are all.
  `EndIsTrueCorrect` joins it with `EndRecordedCorrect` to what `MCExecutor` checks.
* `NoSteerStrandedCorrect` and `NoSteerOutlivesRunCorrect`, together with the fact
  that the turn is live only until the clean-up.

### The cloud, and what a run exchanges with the world

* `NoGapCorrect` and `NoRepeatCorrect`, for `CloudRunStream` with any number of
  attempts and events. `StreamInv` says that everything was handled up to the id, up to
  each queued message and, on an open connection, up to the next event; `IdInv` that the
  connection is always ahead of the id.
* `VerdictAgreesCorrect`, `OverIsSettledCorrect` and `StaysSettledCorrect` share
  `VerdictInv`: an answer on its way is the truth or "running", an accepted cancel
  means a cancelled run, and the loop goes on only while there is no verdict.
  `StaysSettled` needs all three: it is why a cancel that returns late cannot replace
  "finished". `StreamIsTrueCorrect` and `NothingTwiceCorrect` join these and the two
  above to what `MCFollowing` checks.

* `RunIsOfMessageCorrect`, for `CloudSends` with any number of handles, messages and
  requests that are lost, late or repeated. `SendsTyped`, then `SendsSettle`: what a handle
  knows of its agent comes from a send of its own; and `ServiceKnows`: what the service
  made and remembers was asked for by a send, and no two runs have one key and one
  endpoint. `KeysAssumption` says that a key a message is repeated under belongs to that
  message and is not the key a handle made for itself, which is a new UUID in the code.
* `AnswersAreOwnCorrect` and `LinksAreKeptCorrect`, for `McpServers`. A number is given once
  per link (`Numbered`), so that a worker holds its own answer or a request of the server's
  (`Own`); logins begin when `start()` is over (`Began`); and unless a login came across
  another connection, one task at most connects, the session's link is the one this task
  has opened, and every other open link was opened too late (`Kept`).
* `OneTransportCorrect` and `InOrderCorrect`, for `ConnectTransport`. `WiresOk` says, for each
  phase of a run and each of its transports, what the wire, the queue and the decoded
  pieces add up to: always a beginning of what the service wrote. `AllNumbersOk` says
  that every number below the next one is with at most one request, on its way or arrived.
  A lemma about the frames in a list of pieces is stated without recursion.
* `AnswersAreTrueCorrect`, for `Subagents`: the property is inductive together with the fact
  that only a job that was started is awaited or has ended. Nothing of it is about
  foreground requests, which do not wait.

### Components that stand alone

* `CallsAreServedCorrect`, for `SyncLoop`: a loop that a thread has got has begun and ends
  only with the process (`LoopsLast`), and unless a wait timed out, who starts one is in
  the lock until it is ready (`OneStarts`).
* `LatestCheckpointCorrect`, for a client that waits for the task: only the newest
  turn is under way, and it, or else the agent, has the latest checkpoint.
* `FlushShowsLatestCorrect`, for `CanvasWriter`: when the main thread tells of the last state
  no other has one to tell (`MainLast`), and of writes that do not cross there is one at a
  time, by which the last state is written, or a failure noted (`OneWrites`). If `flush`
  returned before a timer was done (`early`), that timer's write is the last state's.
* `KeysAreCurrentCorrect`, for `Login`: a process that no other has gone behind has read
  nothing yet, or what is in the file.
* `DevNullIsSoundCorrect`, for `Redirects`: the property is inductive as it stands.
* `HelperIsSoundCorrect`, for `SandboxHelper`: a policy that is not too old is in the
  directory until its helper has started (`PoliciesKept`), whoever clears it; a preflight
  that is remembered as passed was passed (`Preflights`), and whoever asked for a sandbox
  got its answer from it, on Linux. `FoundOutside`: what the search above the interpreter
  finds is not of the workspace. The nearest of the directories above exists because a set of
  numbers has a least one (`Least`, from the well-foundedness of `<`, since the induction
  rules of the library take an operator).
* `TurnsKeptCorrect` and `ArchivedStaysCorrect`, for `ProtocolStore` with any number of tasks,
  runs and operations. An operation is a sequence of calls to the store, so the invariant
  `DocsInv` has to say which sequences a task may have ahead: `Fits` tells, for each call,
  which ones come behind it and how many, and a suffix of one that fits does fit
  (`Behind`), so that no step needs to know which operation it is of. For every store the
  rest is about types, and a deleted agent stays deleted because no call makes one and
  a document that is gone is not written. Where calls do not suspend, one task at most is
  under way. Then what it has read is what is stored when it writes (`ReadAt`), a forced send that has looked finds no
  live run at the check (`ForcedAt`), and, unless an operation is cut off, the documents
  agree (`Sound`) but for the calls between which an operation parts them, and there
  `SoundAt` says what is yet to be written.

Some proved invariants are checked by no run of their own: `TypeOK` of the proved
modules, `AppendOnly`, `RunningAgentHasRunningRun`, `OneLiveRun` without forced sends,
`NoSteerStranded`, `NoSteerOutlivesRun`, `OverIsSettled` and `EndIsLast` are implied by the
theorems for the instances, too. The runs are left to what is not proved, and to what
a mutant shows to be worth a run.

Assumptions: the named assumption on the constants of each proved module, which TLC
evaluates in every run, and `OneProcess`, `Undisturbed`, `"crash" \notin Ops` or `~Eager` where a
theorem names it. `MCPersistence`, `MCExchange` and `MCFollowing` name those of the
modules they instantiate (`SyncAssumption`, `CanvasAssumption`, `LoginAssumption`,
`AgeAssumption`, `DocumentsAssumption`, `SitesAssumption`, `RedirectAssumption`; `McpAssumption`,
`ConnectAssumption`; `KeysAssumption`). They bound nothing but say that a number is a
positive one, that a set is finite, or that two names differ.

Only model-checked:

* liveness (`TailEnds`, `AllReturn`, `StreamEnds`, `AllEnd`), which is out of the
  prover's reach, as is ENABLED;
* `RoundTrip`, `AnswersAreWhole` and `TasksInOrder`: their modules have recursive operators,
  and what those compute for every message, text or document is induction over data;
* `FilesHold`, `HistoryIsTold`, `FramesAreRead` and `RunsAsAllowed`, which compare with the result
  of a fold, a sort or a filter over sequences of any length: induction over data, too;
* `AnswersFit`, whose streams are built from the requests of a set.

## 6. What is left out

* `LocalRuntime`: `delete_agent` and the listings of the catalog; the check for a missing
  model, which raises before anything is written; SQLite's lock time limit (a failed
  statement would drop the segment like an exception).
* `ExecutorSession`: a store that raises, or that suspends its callers; nested executors
  as executors of their own; heartbeats.
* `CheckpointHandover`: forced sends and cancels.
* `CloudRunStream`, `CloudSends`: a second `stream()` on the same handle, which waits for
  an end mark that is queued only once; archiving, deleting and listing agents; artifacts;
  the form of events; the rate of polls.
* `ToolCalls`, `FileTools`: diagnostics, custom tools, the search of the web and images,
  which are calls that return; `Redirects` has the operators, the grammar is
  tree-sitter's; `ShellPolicy` leaves out numeric escapes.
* `SandboxPolicy`: the normalisation of paths and globs.
* `Codec`: bytes that no encoder writes; reading them raises.
* `McpServers`: which addresses a login asks, PKCE, and two managers that share the file
  of tokens. `Framing`: a header without a length; the single answer of an HTTP server.
* `Login`: the key of the environment, which comes before the stored one.
* `JsonlStore`: a second process that writes at the same time, of which nothing is
  promised: each rewrites what it read.
* `DagRunner`, `CanvasWriter`: what the canvas looks like, the prompts of tasks.

Not modelled at all, with reasons, in `PROJECT.json` under "components": the public
facade (`agent.py`, `cursor.py`), which delegates; `types.py` and most of `messages.py`,
which are data classes; configuration and settings; the class of each error; the scripts
that extract the protocol; the other examples of the cookbook.

## 7. What could follow

* `ToolCalls`: `AnswersFit` for any number of requests.
* `CheckpointHandover` with forced sends, and the executor of `LocalRuntime` as an
  abstraction of `ExecutorSession`.
