----------------------------- MODULE ToolCalls ------------------------------
(***************************************************************************)
(* The requests of the service that an executor carries out with tools     *)
(* (_local_executor.py: _on_kv, _on_exec, _on_shell_stream, _exec_shell).  *)
(* Each is a task of its own; tasks begin in the order of their requests.  *)
(* A shell command is looked at, run in a thread or in the event loop, and *)
(* answered with one result or, streamed, with a sequence of events.  Each *)
(* message to the service may fail to be sent.                             *)
(***************************************************************************)
EXTENDS Naturals, Sequences, FiniteSets, SequencesExt, ShellPolicy, SandboxPolicy

CONSTANTS Message,    \* the requests, which arrive in this order: 1 .. n
          Inputs      \* what each request may be

VARIABLES call,       \* what each request is, and where its task is
          blobs,      \* the key-value store, for one key
          runtime,    \* SandboxRuntime: its default type, and whether it has the helper
          ran,        \* history: the commands that were started
          said        \* history: what was sent for each request, "lost" if it failed

toolVars == <<call, blobs, runtime, ran, said>>

NoData == "none"
Waiting == [kind |-> "none", at |-> "new", todo |-> <<>>, outcome |-> "none"]
Outcomes == {"success", "failure", "timeout", "spawn_error", "unsupported"}

Init == /\ call = [m \in Message |-> Waiting]
        /\ blobs = NoData
        /\ runtime \in [type : {"insecure_none", "workspace_readwrite"}, helper : BOOLEAN]
        /\ runtime.type # "insecure_none" => runtime.helper
        /\ ran = {} /\ said = [m \in Message |-> <<>>]

-----------------------------------------------------------------------------
Quiet == UNCHANGED <<blobs, runtime, ran>>
\* the task goes on to send some messages; without any it is over
Says(m, todo, outcome) ==
  call' = [call EXCEPT ![m] = [@ EXCEPT !.at = "sending", !.todo = todo, !.outcome = outcome]]
Ends(m) == call' = [call EXCEPT ![m] = [@ EXCEPT !.at = "over", !.todo = <<>>]]

\* what denylist_reason says of a command is the same whenever it is asked
IsShell(input) == input.kind \in {"shell", "stream"}
IsDenied(input) == Denied(input.command.text, input.command.simple, input.rules)
Receive(m, input) ==
  /\ call[m].at = "new" /\ \A n \in Message : n < m => call[n].at # "new"
  /\ call' = [call EXCEPT ![m] = [at |-> "begins", todo |-> <<>>, outcome |-> "none",
                                  denied |-> IsShell(input) /\ IsDenied(input)] @@ input]
  /\ Quiet /\ UNCHANGED said
\* a task begins after the tasks of the requests before it
Begins(m, kind) == /\ call[m].at = "begins" /\ call[m].kind = kind
                   /\ \A n \in Message : n < m => call[n].at # "begins"
                   /\ UNCHANGED <<said, runtime>>

\* _on_kv
SetBlob(m) == /\ Begins(m, "set") /\ blobs' = call[m].data
              /\ Says(m, <<"set">>, "none") /\ UNCHANGED ran
GetBlob(m) == Begins(m, "get") /\ Says(m, <<blobs>>, "none") /\ UNCHANGED <<blobs, ran>>

\* a handler returns or raises: either way there is a result, but tools of the
\* user, other servers and subagents may take any time; a request that has no
\* handler is thrown
Handles(m) == /\ Begins(m, "tool") /\ call' = [call EXCEPT ![m].at = "handling"]
              /\ UNCHANGED <<blobs, ran>>
Handled(m) == /\ call[m].at = "handling" /\ Says(m, <<"result">>, "none")
              /\ Quiet /\ UNCHANGED said
Unhandled(m) == /\ Begins(m, "unknown") /\ Says(m, <<"throw">>, "none") /\ UNCHANGED <<blobs, ran>>

-----------------------------------------------------------------------------
(* Shell commands *)
Policy(c) == EffectivePolicy(runtime.type, c.policy)

\* _exec_shell up to the process: what stands in its way, if anything
Obstacle(c) == IF c.denied THEN "rejected"
               ELSE IF SandboxIsOn(Policy(c)) /\ ~runtime.helper THEN "unsupported"
               ELSE "none"
Spawned(m) == [call |-> m, sandbox |-> IF SandboxIsOn(Policy(call[m]))
                                       THEN <<HelperDocument(Policy(call[m]))>> ELSE <<>>]
\* it ends, is killed at its time limit, or cannot be started, which a
\* sandboxed command reports as a sandbox that is not supported
Runs(m, outcome) ==
  IF outcome \in {"spawn_error", "unsupported"}
  THEN UNCHANGED ran /\ (outcome = "unsupported" <=> SandboxIsOn(Policy(call[m])))
  ELSE ran' = ran \cup {Spawned(m)}

\* shell_args: all of it in the event loop
Shell(m) ==
  LET c == call[m] IN
  /\ Begins(m, "shell") /\ UNCHANGED blobs
  /\ IF c.approval \/ Obstacle(c) = "rejected" THEN Says(m, <<"rejected">>, "none") /\ UNCHANGED ran
     ELSE IF Obstacle(c) = "unsupported" THEN Says(m, <<"spawn_error">>, "none") /\ UNCHANGED ran
     ELSE \E outcome \in Outcomes :
            /\ Runs(m, outcome)
            /\ Says(m, <<IF outcome = "unsupported" THEN "spawn_error" ELSE outcome>>, outcome)

\* shell_stream_args: refused, or started
Stream(m) ==
  LET c == call[m] IN
  /\ Begins(m, "stream") /\ UNCHANGED <<blobs, ran>>
  /\ IF c.denied \/ c.approval THEN Says(m, <<"rejected", "close">>, "none")
     ELSE Says(m, <<"start">>, "none")
\* a thread runs the command
InThread(m) == call[m].kind = "stream" /\ call[m].at = "sending" /\ call[m].todo = <<>>
\* Mutant: nothing follows the word that there is no sandbox.
EventsUnclosed(outcome, out) ==
  IF outcome = "unsupported" THEN <<"unsupported">>
  ELSE (IF out /\ outcome # "spawn_error" THEN <<"stdout">> ELSE <<>>)
       \o (IF out \/ outcome = "spawn_error" THEN <<"stderr">> ELSE <<>>)
       \o <<CASE outcome = "success" -> "exit 0" [] outcome = "timeout" -> "exit 124"
              [] OTHER -> "exit 1">>
       \o <<"close">>

Events(outcome, out) ==
  IF outcome = "unsupported" THEN <<"unsupported", "close">>
  ELSE (IF out /\ outcome # "spawn_error" THEN <<"stdout">> ELSE <<>>)
       \o (IF out \/ outcome = "spawn_error" THEN <<"stderr">> ELSE <<>>)
       \o <<CASE outcome = "success" -> "exit 0" [] outcome = "timeout" -> "exit 124"
              [] OTHER -> "exit 1">>
       \o <<"close">>
ThreadReturns(m) ==
  /\ InThread(m) /\ UNCHANGED <<blobs, runtime, said>>
  /\ \E outcome \in Outcomes, out \in BOOLEAN :
       /\ IF Obstacle(call[m]) = "unsupported" THEN outcome = "unsupported" /\ UNCHANGED ran
          ELSE Runs(m, outcome)
       /\ Says(m, Events(outcome, out), outcome)

-----------------------------------------------------------------------------
\* _append: the last message ends the task, except a start
Sent(m) ==
  /\ call[m].at = "sending" /\ call[m].todo # <<>>
  /\ said' = [said EXCEPT ![m] = Append(@, Head(call[m].todo))]
  /\ IF Tail(call[m].todo) # <<>> \/ Head(call[m].todo) = "start"
     THEN Says(m, Tail(call[m].todo), call[m].outcome)
     ELSE Ends(m)
  /\ Quiet
\* a stream that fails is thrown; any other failure is the end of the task
NotSent(m) ==
  /\ call[m].at = "sending" /\ call[m].todo # <<>>
  /\ IF call[m].kind = "stream" /\ Head(call[m].todo) # "throw"
     THEN Says(m, <<"throw">>, call[m].outcome) ELSE Ends(m)
  /\ said' = [said EXCEPT ![m] = Append(@, "lost")]
  /\ Quiet

\* the consumer of the run is cancelled; what a thread has started goes on
CancelAll ==
  /\ call' = [m \in Message |-> [call[m] EXCEPT !.todo = <<>>,
                !.at = IF @ = "over" THEN @ ELSE "cancelled"]]
  /\ \E started \in SUBSET {Spawned(m) : m \in {m \in Message : InThread(m) /\ Obstacle(call[m]) = "none"}} :
       ran' = ran \cup started
  /\ UNCHANGED <<blobs, runtime, said>>

Works(m) == \/ SetBlob(m) \/ GetBlob(m) \/ Handles(m) \/ Unhandled(m)
            \/ Shell(m) \/ Stream(m) \/ ThreadReturns(m)
Next == \/ \E m \in Message : \/ Works(m) \/ Handled(m) \/ Sent(m) \/ NotSent(m)
                              \/ \E input \in Inputs[m] : Receive(m, input)
        \/ CancelAll
(* Tasks run, and commands have time limits.  Handlers need not have one,  *)
(* and the request that carries a message to the service has none.         *)
Fairness == \A m \in Message : WF_toolVars(Works(m))
Spec == Init /\ [][Next]_toolVars
FairSpec == Spec /\ Fairness

-----------------------------------------------------------------------------
TypeOK == /\ runtime \in [type : Types, helper : BOOLEAN]
          /\ \A m \in Message :
               /\ call[m].at \in {"new", "begins", "handling", "sending", "over", "cancelled"}
               /\ call[m].outcome \in Outcomes \cup {"none"}
               /\ IsShell(call[m]) =>
                    /\ \A i \in DOMAIN call[m].policy : call[m].policy[i] \in Requested
                    /\ \A i \in DOMAIN call[m].command.word :
                         call[m].command.word[i] \in Piece({call[m].command.word[i].char})
          /\ \A p \in ran : p.call \in Message

(* Whatever fails to be sent, a command is started only if it needs no     *)
(* approval and no rule names it, however it is quoted; only where a       *)
(* streamed command was announced; and under the sandbox that the request  *)
(* or the runtime asks for, which lets it reach the hosts that the request *)
(* lets it reach, and no others.                                           *)
RunsAsAllowed ==
  /\ TypeOK
  /\ \A p \in ran :
    LET c == call[p.call]
        read == Collapse(AsRead(c.command.word)) IN
    /\ ~c.approval
    /\ \A rule \in c.rules : ~RuleInvalid(rule) => ~MatchesForm(Strip(Collapse(rule)), read)
    /\ c.kind = "stream" => said[p.call] # <<>> /\ said[p.call][1] = "start"
    /\ (p.sandbox = <<>>) <=> (IF c.policy # <<>> THEN c.policy[1].type \notin {2, 3}
                               ELSE runtime.type = "insecure_none")
    /\ p.sandbox # <<>> =>
         \A host \in Host : HelperPermits(p.sandbox[1], host) <=>
                              (c.policy # <<>> /\ Asked(c.policy[1], host))

(* What is sent for a streamed command is one of the streams of the        *)
(* protocol, to its end unless the run is cancelled; or, from where sending *)
(* fails, the report of that, if it can be sent at least.  Exit code 0 is  *)
(* that of a command that was run and succeeded.  A blob is given as the   *)
(* last request before, of those that set it, left it.                     *)
Streams ==
  {<<"rejected", "close">>, <<"start", "unsupported", "close">>} \cup
  {<<"start">> \o out \o <<exit, "close">> :
     out \in {<<>>, <<"stdout">>, <<"stderr">>, <<"stdout", "stderr">>},
     exit \in {"exit 0", "exit 1", "exit 124"}}
Cut(stream) == {SubSeq(stream, 1, n) \o end : n \in 0 .. Len(stream) - 1,
                                             end \in {<<"lost", "throw">>, <<"lost", "lost">>}}
AnswersFit ==
  \A m \in Message :
    /\ call[m].kind = "stream" =>
         \E stream \in Streams : \E whole \in {stream} \cup Cut(stream) :
           IF call[m].at = "over" THEN said[m] = whole ELSE IsPrefix(said[m], whole)
    /\ "exit 0" \in ToSet(said[m]) =>
         call[m].outcome = "success" /\ \E p \in ran : p.call = m
    /\ call[m].kind = "get" /\ ToSet(said[m]) \ {"lost"} # {} =>
         LET sets == {n \in 1 .. m - 1 : call[n].kind = "set"} IN
         said[m] = <<IF sets = {} THEN NoData ELSE call[Max(sets)].data>>

(* Every request that arrives is carried out, unless its handler does not  *)
(* end; what remains is that the service takes the answer.                 *)
AtRest == \A m \in Message : /\ call[m].at # "begins"
                             /\ call[m].at = "sending" => call[m].todo # <<>>
RequestsEnd == []<>AtRest
=============================================================================
