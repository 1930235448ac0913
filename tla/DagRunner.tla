----------------------------- MODULE DagRunner ------------------------------
(***************************************************************************)
(* The task runner of the cookbook (dag.py, run_dag.py): a document of     *)
(* tasks that depend on each other is checked and put in ranks; the tasks  *)
(* of a rank run at the same time, each in a thread with an agent of its   *)
(* own, and the next rank follows when all of them are over.  The canvas   *)
(* the runner draws, and the texts tasks get and give, are left out.       *)
(***************************************************************************)
EXTENDS Naturals, Sequences, FiniteSets, SequencesExt

CONSTANTS Job,          \* the ids of tasks
          Document      \* depends_on of each task, as documents may have it

VARIABLES deps,         \* the document
          ranks,        \* compute_ranks
          runner,       \* where run_dag is: its step, and its rank
          left,         \* tasks of the rank that were not looked at yet
          status,       \* of each task
          thread,       \* where the thread of each task is
          run,          \* the run of each task: its status, whether run_task has it,
                        \* and whether a cancel was tried
          stop,         \* the flag a signal sets
          outcome       \* runOutcome

dagVars == <<deps, ranks, runner, left, status, thread, run, stop, outcome>>

NoRun == [status |-> "none", held |-> FALSE, cancelled |-> FALSE]
Ended == {"FINISHED", "ERROR"}

-----------------------------------------------------------------------------
(* The document *)
Dependents(d, t) == {u \in Job : t \in d[u]}
\* _detect_cycle: depth first; a task is grey while what depends on it is visited
RECURSIVE Visit(_, _, _)
Visit(d, color, stack) ==
  IF stack = <<>> THEN [cycle |-> FALSE, color |-> color]
  ELSE LET top == Head(stack)
           child == CHOOSE c \in top.children : TRUE
           rest == <<[top EXCEPT !.children = @ \ {child}]>> \o Tail(stack)
       IN  CASE top.children = {} -> Visit(d, [color EXCEPT ![top.id] = "black"], Tail(stack))
             [] top.children # {} /\ color[child] = "grey" -> [cycle |-> TRUE, color |-> color]
             [] top.children # {} /\ color[child] = "black" -> Visit(d, color, rest)
             [] top.children # {} /\ color[child] = "white" ->
                  Visit(d, [color EXCEPT ![child] = "grey"],
                        <<[id |-> child, children |-> Dependents(d, child)]>> \o rest)
HasCycle(d) ==
  FoldLeft(LAMBDA seen, t :
             IF seen.cycle \/ seen.color[t] # "white" THEN seen
             ELSE Visit(d, [seen.color EXCEPT ![t] = "grey"], <<[id |-> t, children |-> Dependents(d, t)]>>),
           [cycle |-> FALSE, color |-> [t \in Job |-> "white"]], SetToSeq(Job)).cycle
\* parse_dag
Refused(d) == \/ \E t \in Job : ~(d[t] \subseteq Job) \/ t \in d[t]
              \/ HasCycle(d)
\* compute_ranks counts down the dependencies of each task that are not placed
RECURSIVE RanksOf(_, _, _)
RanksOf(d, remaining, placed) ==
  LET frontier == {t \in Job \ placed : remaining[t] = 0}
  IN  IF frontier = {} THEN <<>>
      ELSE <<frontier>> \o
           RanksOf(d, [t \in Job |-> remaining[t] - Cardinality(d[t] \cap frontier)], placed \cup frontier)

Init == /\ deps \in Document /\ ranks = <<>>
        /\ runner = [at |-> "read", rank |-> 0] /\ left = {}
        /\ status = [t \in Job |-> "PENDING"] /\ thread = [t \in Job |-> "none"]
        /\ run = [t \in Job |-> NoRun]
        /\ stop = FALSE /\ outcome = "none"

-----------------------------------------------------------------------------
(* run_dag *)
Quiet == UNCHANGED <<deps, ranks, stop>>
ReadDocument ==
  /\ runner.at = "read"
  /\ IF Refused(deps)
     THEN runner' = [runner EXCEPT !.at = "refused"] /\ UNCHANGED <<ranks, left>>
     ELSE /\ ranks' = RanksOf(deps, [t \in Job |-> Cardinality(deps[t])], {})
          /\ runner' = [at |-> "rank", rank |-> 1] /\ left' = ranks'[1]
  /\ UNCHANGED <<deps, status, thread, run, stop, outcome>>
\* on_signal
Signal == /\ runner.at \in {"rank", "wait"} /\ ~stop /\ stop' = TRUE
          /\ UNCHANGED <<deps, ranks, runner, left, status, thread, run, outcome>>

\* Mutant: a task is skipped only if all it depends on failed.
FailedAll(t) == IF \A d \in deps[t] : status[d] = "ERROR" THEN deps[t] ELSE {}

Failed(t) == {d \in deps[t] : status[d] = "ERROR"}
\* one task of the rank: skipped, or given to a thread
Submit(t) ==
  /\ runner.at = "rank" /\ t \in left /\ left' = left \ {t}
  /\ IF Failed(t) # {}
     THEN status' = [status EXCEPT ![t] = "ERROR"] /\ UNCHANGED thread
     ELSE thread' = [thread EXCEPT ![t] = "queued"] /\ UNCHANGED status
  /\ UNCHANGED <<runner, run, outcome>> /\ Quiet
AllSubmitted == /\ runner.at = "rank" /\ left = {}
                /\ runner' = [runner EXCEPT !.at = "wait"]
                /\ UNCHANGED <<left, status, thread, run, outcome>> /\ Quiet
\* mark_run_terminated
Terminated == status' = [t \in Job |-> IF status[t] \in Ended THEN status[t] ELSE "ERROR"]
\* the threads of the rank are over: what one of them raised is raised here
RankOver ==
  /\ runner.at = "wait" /\ \A t \in Job : thread[t] \in {"none", "over", "raised"}
  /\ IF \E t \in Job : thread[t] = "raised"
     THEN /\ runner' = [runner EXCEPT !.at = "raised"] /\ outcome' = "FAILED" /\ Terminated
          /\ UNCHANGED left
     ELSE IF runner.rank < Len(ranks)
     THEN /\ runner' = [at |-> "rank", rank |-> runner.rank + 1] /\ left' = ranks[runner.rank + 1]
          /\ UNCHANGED <<outcome, status>>
     ELSE /\ outcome' = IF \E t \in Job : status[t] = "ERROR" THEN "FAILED" ELSE "SUCCESS"
          /\ runner' = [runner EXCEPT !.at = IF outcome' = "SUCCESS" THEN "exit 0" ELSE "exit 1"]
          /\ UNCHANGED <<left, status>>
  /\ UNCHANGED <<thread, run>> /\ Quiet

-----------------------------------------------------------------------------
(* run_task *)
Moves(t, from, to) == thread[t] = from /\ thread' = [thread EXCEPT ![t] = to]
Elsewhere == UNCHANGED <<runner, left, outcome>> /\ Quiet
Settle(t, s) == status' = [status EXCEPT ![t] = s]
Begin(t) == Moves(t, "queued", "begun") /\ Settle(t, "RUNNING") /\ UNCHANGED run /\ Elsewhere
\* Agent.create is outside the try: what it raises ends the thread
CreateAgent(t) == /\ Moves(t, "begun", "created") \/ Moves(t, "begun", "raised")
                  /\ UNCHANGED <<status, run>> /\ Elsewhere
Send(t) == /\ Moves(t, "created", "streams")
           /\ run' = [run EXCEPT ![t] = [NoRun EXCEPT !.status = "running", !.held = TRUE]]
           /\ UNCHANGED status /\ Elsewhere
\* send() raises: before it recorded the run as RUNNING, or after that, and
\* run_task is left without the run in both cases
SendFails(t) == /\ Moves(t, "created", "closes") /\ Settle(t, "ERROR")
                /\ \E s \in {"none", "running"} : run' = [run EXCEPT ![t].status = s]
                /\ Elsewhere
\* the service ends a run when it likes
RunEnds(t) == /\ run[t].status = "running"
              /\ \E s \in {"finished", "error"} : run' = [run EXCEPT ![t].status = s]
              /\ UNCHANGED <<thread, status>> /\ Elsewhere
\* cancel() stops the run, or raises
Cancels(t) == \/ run' = [run EXCEPT ![t].cancelled = TRUE]
              \/ run' = [run EXCEPT ![t].cancelled = TRUE,
                                    ![t].status = IF @ = "running" THEN "cancelled" ELSE @]
\* the flag, the deadline or an event that does not come: TimeoutError_
GiveUp(t) == /\ \E at \in {"streams", "event", "waits"} : Moves(t, at, "closes")
             /\ Settle(t, "ERROR") /\ Cancels(t) /\ Elsewhere
\* the stream or wait() raises something else
StreamFails(t) == /\ \E at \in {"streams", "event", "waits"} : Moves(t, at, "closes")
                  /\ Settle(t, "ERROR") /\ UNCHANGED run /\ Elsewhere
\* the flag is read, and only then is the next event waited for
FlagIsClear(t) == Moves(t, "streams", "event") /\ ~stop /\ UNCHANGED <<status, run>> /\ Elsewhere
EventComes(t) == Moves(t, "event", "streams") /\ UNCHANGED <<status, run>> /\ Elsewhere
StreamEnds(t) == /\ Moves(t, "event", "waits") /\ run[t].status # "running"
                 /\ UNCHANGED <<status, run>> /\ Elsewhere
Waited(t) == /\ Moves(t, "waits", "closes")
             /\ Settle(t, IF run[t].status = "finished" THEN "FINISHED" ELSE "ERROR")
             /\ UNCHANGED run /\ Elsewhere
\* finally
Close(t) == /\ Moves(t, "closes", "over")
            /\ IF run[t].held /\ run[t].status = "running" THEN Cancels(t) ELSE UNCHANGED run
            /\ UNCHANGED status /\ Elsewhere
RunTask(t) == \/ Begin(t) \/ CreateAgent(t) \/ Send(t) \/ SendFails(t) \/ GiveUp(t)
              \/ StreamFails(t) \/ FlagIsClear(t) \/ EventComes(t) \/ StreamEnds(t) \/ Waited(t) \/ Close(t)

Next == \/ ReadDocument \/ Signal \/ AllSubmitted \/ RankOver
        \/ \E t \in Job : Submit(t) \/ RunTask(t) \/ RunEnds(t)
Spec == Init /\ [][Next]_dagVars

-----------------------------------------------------------------------------
\* a document is refused if and only if some tasks wait for each other, or for
\* one that is not there; the ranks have each task once, as early as can be
PlanIsRight ==
  /\ runner.at # "read" =>
       (runner.at = "refused" <=>
          \/ \E t \in Job : ~(deps[t] \subseteq Job)
          \/ \E ring \in SUBSET Job : ring # {} /\ \A t \in ring : deps[t] \cap ring # {})
  /\ ranks # <<>> => \A t \in Job : \E i \in DOMAIN ranks :
       /\ {j \in DOMAIN ranks : t \in ranks[j]} = {i}
       /\ deps[t] \subseteq UNION {ranks[j] : j \in 1 .. i - 1}
       /\ i > 1 => deps[t] \cap ranks[i - 1] # {}
\* A task that has begun found what it depends on finished; the runner ends
\* with every task settled, reports success only if all of them finished, and
\* leaves no run behind that it did not try to cancel, but one whose send()
\* raised after the run was recorded: nobody has that run to cancel it.
TasksInOrder ==
  /\ PlanIsRight
  /\ \A t \in Job : thread[t] # "none" => \A d \in deps[t] : status[d] = "FINISHED"
  /\ outcome # "none" =>
       /\ \A t \in Job : status[t] \in Ended
       /\ (outcome = "SUCCESS" <=> \A t \in Job : status[t] = "FINISHED")
       /\ \A t \in Job : run[t].status = "running" /\ run[t].held => run[t].cancelled
=============================================================================
