---------------------------- MODULE MCPersistence ----------------------------
(***************************************************************************)
(* Small instances of the components that stand alone, for their safety:   *)
(* the files of the portable store, the documents over such a store, the   *)
(* checkpoint of a conversation, the login that processes share, the       *)
(* account of the redirections of a command, the loop behind synchronous   *)
(* calls, the helper of the sandbox with its files, the file that the task *)
(* runner of the cookbook writes, and what an agent tells of its runs.     *)
(* The modules share no state; a behaviour concerns one of them, and       *)
(* "part" tells which, for JsonlStore by the tables it is about: no call   *)
(* but the deletion of runs concerns two of them.                          *)
(***************************************************************************)
EXTENDS CheckpointHandover, Integers, TLC

CONSTANTS Owner, Id, Stored, Limit, MaxRows, MaxCalls,                  \* JsonlStore
          Task, t1, t2, MaxRuns, MaxOps,                                \* ProtocolStore
          Process, Backend, MaxAttempts, Lifetime, MaxTime, MaxLogins,  \* Login
          Fd,                                                           \* Redirects
          Caller, Iterating, MaxLoops, MaxItems,                        \* SyncLoop
          TaskThread, MaxVersion, MaxTimers,                            \* CanvasWriter
          Thread, Sites, Workdir, Interval, MaxAge, MaxNow,             \* SandboxHelper
          MaxLogs, MaxEvents, EventCap, PageSize, Counts                \* History

VARIABLES file, pending, purge, reader, clock, acked, given, calls,
          agentDoc, runDoc, log, made, alive, firstRun, task, suspends, cut, deleted,
          refused, ops,
          disk, cache, login, now, keys, others,
          kinds, allDevNull, real,
          lock, current, ready, loops, callers, exit, late,
          version, clones, scheduled, timers, timer, writes, failed, canvas, main, overtaken, early,
          site, tick, policies, cleaned, preflight, tasks, passed,
          logs, atWork, reading, pages, answered, shifted,
          part       \* what the behaviour is about

fileVars == <<file, pending, purge, reader, clock, acked, given, calls>>
documentVars == <<agentDoc, runDoc, log, made, alive, firstRun, task, suspends, cut,
                  deleted, refused, ops>>
accountVars == <<disk, cache, login, now, keys, others>>
shellVars == <<kinds, allDevNull, real>>
syncVars == <<lock, current, ready, loops, callers, exit, late>>
canvasVars == <<version, clones, scheduled, timers, timer, writes, failed, canvas, main, overtaken,
                early>>
sandboxVars == <<site, tick, policies, cleaned, preflight, tasks, passed>>
historyVars == <<logs, atWork, reading, pages, answered, shifted>>

Files == INSTANCE JsonlStore
Documents == INSTANCE ProtocolStore
Account == INSTANCE Login
Shell == INSTANCE Redirects
Facade == INSTANCE SyncLoop
Shown == INSTANCE CanvasWriter
Helper == INSTANCE SandboxHelper
Past == INSTANCE History

\* the numbers that stand for what else a redirection may lead to are no descriptors
ASSUME RedirectAssumption == {10, 11, 12} \cap Fd = {}
ASSUME LoginAssumption == MaxAttempts \in Nat \ {0} /\ {Lifetime, MaxTime, MaxLogins} \subseteq Nat
ASSUME DocumentsAssumption == MaxRuns \in Nat \ {0}
ASSUME AgeAssumption == Interval \in Nat /\ MaxAge \in Nat
ASSUME SitesAssumption ==
  \A s \in Sites : /\ s.process \in [Thread -> Process]
                   /\ s.program \in Seq(STRING) /\ s.interpreter \in Seq(STRING)
\* no thread of a task has the name of the main thread
ASSUME CanvasAssumption == "main" \notin TaskThread
\* no thread has the name of what is in the lock otherwise
ASSUME SyncAssumption == {"free", "exit"} \cap Caller = {} /\ MaxItems \in Nat

R(owner, id, order) == [owner |-> owner, id |-> id, order |-> order, ver |-> 0]
SmallFiles == [agents |-> <<R(1, 1, 1), R(1, 2, 1)>>,
               runs |-> <<R(1, 1, 1), R(1, 2, 2)>>,
               events |-> <<R(1, 0, 1), R(2, 1, 1)>>,
               checkpoints |-> <<R(1, 2, 0), R(1, 1, 0)>>]
SmallOps == [s \in BOOLEAN |-> IF s THEN 2 ELSE 4]

\* a helper above the interpreter, above the program, named by the user, none but
\* those of the workspace, whose repository is w, and one that the search path finds
\* there; threads of one process and of two
Site(processOfB, platform, named, path, program, interpreter, helpers) ==
  [process |-> [a |-> "p", b |-> processOfB], platform |-> platform, named |-> named, path |-> path,
   program |-> program, interpreter |-> interpreter, helpers |-> helpers, git |-> {<<"w">>}]
SmallWorkdir == <<"w", "x">>
WorkspaceOnly == Site("p", "linux", <<>>, <<>>, <<"h">>, <<"w", "v">>, {<<"w">>, <<"w", "v">>})
SmallSites == {Site("p", "linux", <<>>, <<>>, <<"h">>, <<"w", "v">>, {<<>>, <<"w">>, <<"w", "v">>}),
               Site("q", "linux", <<>>, <<>>, SmallWorkdir, <<"h">>, {<<"h">>, <<"w">>}),
               Site("q", "darwin", <<SmallWorkdir>>, <<>>, <<"h">>, <<"w">>, {<<"h">>}),
               Site("p", "other", <<>>, <<<<"w", "b">>>>, <<"h">>, <<"w">>, {}), WorkspaceOnly}

\* turns that count nothing, some things, and others
SmallCounts == {<<>>, [input |-> 1], [input |-> 2, cached |-> 1, reasoning |-> 1]}

OneOf(name) == part = {name}
FileParts == {{"agents"}, {"runs", "events"}, {"checkpoints"}}
Parts == FileParts \cup {{"documents"}, {"handover"}, {"account"}, {"shell"},
                         {"facade"}, {"shown"}, {"helper"}, {"past"}}
PartsInit == /\ Init /\ Files!Init /\ Documents!Init /\ Account!Init /\ Shell!Init
             /\ Facade!Init /\ Shown!Init /\ Helper!Init /\ Past!Init
             /\ ~OneOf("documents") => suspends = FALSE /\ firstRun = 1
             /\ ~OneOf("helper") => site = WorkspaceOnly
OnFiles == /\ part \in FileParts /\ Files!NextOn(part)
           /\ UNCHANGED <<vars, documentVars, accountVars, shellVars, syncVars,
                          canvasVars, sandboxVars, historyVars, part>>
OnDocuments == /\ OneOf("documents") /\ Documents!Next
               /\ UNCHANGED <<vars, fileVars, accountVars, shellVars, syncVars,
                              canvasVars, sandboxVars, historyVars, part>>
OnHandover == /\ OneOf("handover") /\ Next
              /\ UNCHANGED <<fileVars, documentVars, accountVars, shellVars, syncVars,
                             canvasVars, sandboxVars, historyVars, part>>
OnAccount == /\ OneOf("account") /\ Account!Next
             /\ UNCHANGED <<vars, fileVars, documentVars, shellVars, syncVars,
                            canvasVars, sandboxVars, historyVars, part>>
OnShell == /\ OneOf("shell") /\ Shell!Next
           /\ UNCHANGED <<vars, fileVars, documentVars, accountVars, syncVars,
                          canvasVars, sandboxVars, historyVars, part>>
OnFacade == /\ OneOf("facade") /\ Facade!Next
            /\ UNCHANGED <<vars, fileVars, documentVars, accountVars, shellVars,
                           canvasVars, sandboxVars, historyVars, part>>
OnShown == /\ OneOf("shown") /\ Shown!Next
           /\ UNCHANGED <<vars, fileVars, documentVars, accountVars, shellVars,
                          syncVars, sandboxVars, historyVars, part>>
OnHelper == /\ OneOf("helper") /\ Helper!Next
            /\ UNCHANGED <<vars, fileVars, documentVars, accountVars, shellVars,
                           syncVars, canvasVars, historyVars, part>>
OnPast == /\ OneOf("past") /\ Past!Next
          /\ UNCHANGED <<vars, fileVars, documentVars, accountVars, shellVars,
                         syncVars, canvasVars, sandboxVars, part>>
PartsNext == \/ OnFiles \/ OnDocuments \/ OnHandover \/ OnAccount \/ OnShell
             \/ OnFacade \/ OnShown \/ OnHelper \/ OnPast
partsVars == <<vars, fileVars, documentVars, accountVars, shellVars, syncVars, canvasVars,
               sandboxVars, historyVars>>

\* see JsonlStore: what can be read at every moment, that what the answers of calls
\* tell is there, and that page after page nothing is missed and nothing comes twice
FilesHold == part \in FileParts => Files!FilesSound /\ Files!AnswersHold /\ Files!ListedOnce
\* see ProtocolStore: what operations over the documents keep
TurnsKept == OneOf("documents") => Documents!TurnsKept
\* see ProtocolStore: an archived agent stays archived until it is unarchived
ArchivedStays == Documents!ArchivedStays
\* see Login: which key a process is given
KeysAreCurrent == OneOf("account") => Account!KeysAreCurrent
\* see Redirects: what is found to be /dev/null
DevNullIsSound == OneOf("shell") => Shell!DevNullIsSound
\* see SyncLoop: a submitted call has a loop that runs
CallsAreServed == OneOf("facade") => Facade!CallsAreServed
\* see CanvasWriter: the last state is what the file shows
FlushShowsLatest == OneOf("shown") => Shown!FlushShowsLatest
\* see SandboxHelper: the policy of a helper that starts, and where it is from
HelperIsSound == OneOf("helper") => Helper!HelperIsSound
\* see History: the messages and the usage of all runs
HistoryIsTold == OneOf("past") => Past!HistoryIsTold
=============================================================================
