----------------------------- MODULE Subagents ------------------------------
(***************************************************************************)
(* The subagent jobs of an executor (_local_executor.py, _subagents.py).   *)
(* Each request of the server is carried out by a task of its own: one     *)
(* that starts a job, for the background or to wait for it; one that       *)
(* awaits a job, with or without a time limit; one that moves the job of a *)
(* tool call to the background.  The jobs are tasks, too.  The executor is *)
(* that of a run of the user: nested ones refuse to start jobs, and so     *)
(* know none.                                                              *)
(***************************************************************************)
EXTENDS Naturals, FiniteSets

CONSTANTS Request,    \* the requests
          ToolCall    \* the ids of tool calls, which may occur again

VARIABLES job,        \* the job that each request has started, if any
          byTool,     \* SubagentRegistry._by_tool
          asked       \* the requests: what they are, and where they are

subagentVars == <<job, byTool, asked>>

Job == Request        \* a job is named by the request that starts it
NoJob == "no job"
Outcome == {"success", "error"}
Answers == Outcome \cup {"background", "still running", "not found", "accepted"}
Idle == [kind |-> "none", of |-> NoJob, at |-> "idle", answer |-> "none"]

TypeOK ==
  /\ job \in [Job -> [future : Outcome \cup {"none", "cancelled"}, moved : BOOLEAN,
                      runs : Outcome \cup {"no", "yes", "cancelled"}]]
  /\ byTool \in [ToolCall -> Job \cup {NoJob}]
  /\ asked \in [Request ->
       [kind : {"none", "foreground", "background", "await", "await timed", "force"},
        of : Job \cup {NoJob}, at : {"idle", "waiting", "over", "cancelled"},
        answer : Answers \cup {"none"}]]

Init == /\ job = [j \in Job |-> [future |-> "none", moved |-> FALSE, runs |-> "no"]]
        /\ byTool = [t \in ToolCall |-> NoJob]
        /\ asked = [q \in Request |-> Idle]

-----------------------------------------------------------------------------
Over(q, kind, of, answer) ==
  asked' = [asked EXCEPT ![q] = [kind |-> kind, of |-> of, at |-> "over", answer |-> answer]]
WaitsFor(q, kind, of) ==
  asked' = [asked EXCEPT ![q] = [kind |-> kind, of |-> of, at |-> "waiting", answer |-> "none"]]

(* _exec_subagent: the job is registered under its agent and its tool      *)
(* call, whose last job counts.  A request that is to wait for its job     *)
(* does not: create_task is given the future that shield returns, which is *)
(* not a coroutine, and raises.  The request is answered with that error   *)
(* at once, and the job goes on.                                           *)
Start(q, tool, background) ==
  /\ asked[q].at = "idle"
  /\ job' = [job EXCEPT ![q].runs = "yes"]
  /\ byTool' = IF tool = "" THEN byTool ELSE [byTool EXCEPT ![tool] = q]
  /\ IF background THEN Over(q, "background", q, "background")
                   ELSE Over(q, "foreground", q, "error")

\* the nested run returns or raises; the first result counts
JobEnds(j, outcome) ==
  LET first == IF job[j].future = "none" THEN outcome ELSE job[j].future IN
  /\ job[j].runs = "yes"
  /\ job' = [job EXCEPT ![j] = [@ EXCEPT !.runs = outcome, !.future = first]]
  /\ UNCHANGED <<byTool, asked>>

\* _exec_subagent_await
AwaitUnknown(q) ==
  /\ asked[q].at = "idle" /\ Over(q, "await", NoJob, "not found")
  /\ UNCHANGED <<job, byTool>>
Await(q, j, timed) ==
  /\ asked[q].at = "idle" /\ job[j].runs # "no"
  /\ WaitsFor(q, IF timed THEN "await timed" ELSE "await", j)
  /\ UNCHANGED <<job, byTool>>
Awaited(q) ==
  LET j == asked[q].of IN
  /\ asked[q].at = "waiting" /\ job[j].future # "none"
  /\ Over(q, asked[q].kind, j, job[j].future)
  /\ UNCHANGED <<job, byTool>>

\* Mutant: the future is not shielded, and cancelled at the end of the time limit.
AwaitTimesOutUnshielded(q) ==
  LET j == asked[q].of IN
  /\ asked[q].kind = "await timed" /\ asked[q].at = "waiting"
  /\ \E answer \in {job[j].future, "still running"} \ {"none"} : Over(q, "await timed", j, answer)
  /\ job' = [job EXCEPT ![j].future = IF @ = "none" THEN "cancelled" ELSE @]
  /\ UNCHANGED byTool

\* the future is shielded: the job goes on.  From Python 3.12 on, a result that
\* comes together with the end of the time limit may be passed over.
AwaitTimesOut(q) ==
  LET j == asked[q].of IN
  /\ asked[q].kind = "await timed" /\ asked[q].at = "waiting"
  /\ \E answer \in {job[j].future, "still running"} \ {"none"} : Over(q, "await timed", j, answer)
  /\ UNCHANGED <<job, byTool>>

\* _exec_force_background: nothing waits for what it sets
Force(q, tool) ==
  LET j == IF tool = "" THEN NoJob ELSE byTool[tool] IN
  /\ asked[q].at = "idle"
  /\ IF j = NoJob THEN Over(q, "force", j, "not found") /\ UNCHANGED job
     ELSE Over(q, "force", j, "accepted") /\ job' = [job EXCEPT ![j].moved = TRUE]
  /\ UNCHANGED byTool

\* the consumer is cancelled while it gathers the tasks of the run; jobs that
\* tasks have started since it began to are not among them
CancelAll ==
  /\ \E late \in SUBSET Job :
       job' = [j \in Job |-> [job[j] EXCEPT !.runs =
                                IF @ = "yes" /\ j \notin late THEN "cancelled" ELSE @]]
  /\ asked' = [q \in Request |->
                 [asked[q] EXCEPT !.at = IF @ \in {"waiting", "idle"} THEN "cancelled" ELSE @]]
  /\ UNCHANGED byTool

Wake(q) == Awaited(q) \/ AwaitTimesOut(q)
Next == \/ \E q \in Request, tool \in ToolCall \cup {""} :
             \/ \E background \in BOOLEAN : Start(q, tool, background)
             \/ Force(q, tool)
        \/ \E j \in Job, outcome \in Outcome : JobEnds(j, outcome)
        \/ \E q \in Request : \/ Wake(q) \/ AwaitUnknown(q)
                              \/ \E j \in Job, timed \in BOOLEAN : Await(q, j, timed)
        \/ CancelAll

(* The loop runs what is ready and ends what has a time limit.  A nested   *)
(* run need not end.                                                       *)
Fairness == \A q \in Request : WF_subagentVars(Wake(q))
Spec == Init /\ [][Next]_subagentVars
FairSpec == Spec /\ Fairness

-----------------------------------------------------------------------------
(* However the ends of jobs, time limits, moves to the background and the  *)
(* cancellation of the run race: what a job is known by is how its run     *)
(* ended; a request that awaits a job waits for one that still can be      *)
(* known, and is answered with just that, or that the job still runs if it *)
(* has a time limit.                                                       *)
IsAwait(q) == asked[q].kind \in {"await", "await timed"} /\ asked[q].of # NoJob
AnswersAreTrue ==
  /\ TypeOK
  /\ \A j \in Job : job[j].future = IF job[j].runs \in Outcome THEN job[j].runs ELSE "none"
  /\ \A q \in Request : IsAwait(q) =>
       LET j == asked[q].of IN
       /\ asked[q].at = "waiting" => job[j].runs \in Outcome \cup {"yes"}
       /\ asked[q].at = "over" =>
            \/ asked[q].answer = job[j].runs
            \/ asked[q].answer = "still running" /\ asked[q].kind = "await timed"

(* A request that does not ask for the background is answered when its job *)
(* is over, with the result, or has been moved to the background.  The     *)
(* documentation says so (docs/local-runtime.md: "nested local Run ...     *)
(* success is SubagentSuccess with final_message"); the code does not.     *)
ForegroundWaits ==
  \A q \in Request : asked[q].kind = "foreground" /\ asked[q].at = "over" =>
                       job[q].runs # "yes" \/ job[q].moved

(* Every request is answered, or cancelled with the run, unless it awaits  *)
(* without a time limit a job that does not end.                           *)
AtRest == \A q \in Request : asked[q].at = "waiting" =>
            asked[q].kind = "await" /\ job[asked[q].of].runs = "yes"
RequestsAnswered == []<>AtRest
=============================================================================
