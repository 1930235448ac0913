--------------------------- MODULE ProtocolStore ---------------------------
(***************************************************************************)
(* ProtocolRuntimeStore (_local_runtime.py): the runtime's store on top of *)
(* a document store that the application supplies.  Each operation is a    *)
(* sequence of calls of that store: a document is read, changed and        *)
(* written back whole by a later call.                                     *)
(*                                                                         *)
(* If a call of the store suspends, tasks of the process interleave        *)
(* between any two calls.  The calls of the JSONL store never do, and then *)
(* an operation is one step of the event loop; a process may die between   *)
(* two calls in either case.  Init leaves open which store it is.          *)
(***************************************************************************)
EXTENDS Naturals, Sequences, FiniteSets

CONSTANTS Task,      \* coroutines that call the store, besides the executors
          MaxRuns,   \* bound: runs created
          MaxOps     \* bound: operations begun, by whether the store suspends

VARIABLES agentDoc,  \* the document of the agent
          runDoc,    \* the documents of its runs, by id
          log,       \* the runs that have events
          made,      \* how many runs were created
          alive,     \* the runs whose executor is at work
          firstRun,  \* the handle's run that Agent.create made
          task,      \* what each task has still to do, and what it has read
          suspends,  \* whether the calls of the store suspend
          cut,       \* history: the process died in the middle of an operation
          deleted,   \* history: the agent was deleted
          refused,   \* history: a forced send was told that the agent is busy
          ops        \* operations begun

docs == <<agentDoc, runDoc, log, made, alive, firstRun>>
vars == <<docs, task, suspends, cut, deleted, refused, ops>>

Run == 1 .. MaxRuns
NoRun == 0
Nil == [status |-> "nil"]
Terminal == {"finished", "error", "cancelled", "expired"}
AgentDocs == [status : {"idle", "running", "archived"}, active : Run \cup {NoRun}]
RunDocs == [status : Terminal \cup {"queued", "running"}, turn : Nat]
Worker == Task \cup Run      \* an executor is named by its run
Idle == [todo |-> <<>>, run |-> NoRun, read |-> Nil, forced |-> FALSE]

TypeOK == /\ agentDoc \in AgentDocs \cup {Nil}
          /\ runDoc \in [Run -> RunDocs \cup {Nil}]
          /\ \A w \in Worker : /\ task[w].run \in Run \cup {NoRun}
                               /\ task[w].read \in AgentDocs \cup RunDocs \cup {Nil}
          /\ log \subseteq Run /\ alive \subseteq Run /\ firstRun \in Run \cup {NoRun}

-----------------------------------------------------------------------------
(* The operations as sequences of calls.  A call is a name and an argument. *)
Call(name, arg) == [call |-> name, arg |-> arg]
Do(name) == Call(name, "")

FollowUp == <<Do("check agent"), Do("check active"), Do("count runs"),
              Do("runs.create"), Do("read agent"), Call("write agent", "follow")>>
Mark(status) == <<Do("read run"), Call("write run", status),
                  Do("read agent"), Call("write agent", status)>>
Begun == Mark("running") \o <<Do("append"), Do("append"), Do("append"), Do("drive")>>
Send(forced) == (IF forced THEN <<Do("find agent"), Do("find active")>> ELSE <<>>)
                \o (IF firstRun # NoRun THEN <<Do("find pending")>> ELSE FollowUp \o Begun)
End(status) == <<Do("append")>> \o Mark(status) \o <<Do("append"), Do("append")>>
Cancel == <<Do("find run")>> \o Mark("cancelled")
          \o <<Do("append"), Do("append"), Do("append")>>
SetStatus(status) == <<Do("read agent"), Call("write agent", status)>>
DeleteAgent == <<Do("runs.delete"), Do("checkpoints.delete"), Do("agents.delete")>>

-----------------------------------------------------------------------------
\* create_agent has made the agent and then its run, or died in between
Init == /\ agentDoc = [status |-> "idle", active |-> 1]
        /\ \E first \in {Nil, [status |-> "queued", turn |-> 1]} :
             /\ runDoc = [r \in Run |-> IF r = 1 THEN first ELSE Nil]
             /\ firstRun = IF first = Nil THEN NoRun ELSE 1
        /\ log = {} /\ made = 1 /\ alive = {}
        /\ task = [w \in Worker |-> Idle]
        /\ suspends \in BOOLEAN
        /\ cut = FALSE /\ deleted = FALSE /\ refused = FALSE /\ ops = 0

AtRest(w) == task[w].todo = <<>>
\* the other tasks of the loop run only where a call suspends
HasLoop(w) == suspends \/ \A v \in Worker \ {w} : AtRest(v)

Begin(t, todo, run, forced) ==
  /\ AtRest(t) /\ HasLoop(t) /\ ops < MaxOps[suspends] /\ ops' = ops + 1
  /\ task' = [task EXCEPT ![t] = [todo |-> todo, run |-> run, read |-> Nil, forced |-> forced]]
  /\ UNCHANGED <<docs, suspends, cut, deleted, refused>>

BeginSend(t, forced) == Begin(t, Send(forced), NoRun, forced)
BeginCancel(t, r) == runDoc[r] # Nil /\ Begin(t, Cancel, r, FALSE)
BeginSetStatus(t, status) == Begin(t, SetStatus(status), NoRun, FALSE)
BeginDelete(t) == Begin(t, DeleteAgent, NoRun, FALSE)
\* _finish and _fail of the executor
BeginEnd(r, status) ==
  /\ r \in alive /\ AtRest(r) /\ HasLoop(r)
  /\ task' = [task EXCEPT ![r] = [todo |-> End(status), run |-> r, read |-> Nil, forced |-> FALSE]]
  /\ alive' = alive \ {r}
  /\ UNCHANGED <<agentDoc, runDoc, log, made, firstRun, suspends, cut, deleted, refused, ops>>

-----------------------------------------------------------------------------
(* One call of the store.  Performs names the call and what the task goes  *)
(* on with; an exception leaves it nothing to do.                          *)
Performs(w, name) == ~AtRest(w) /\ HasLoop(w) /\ Head(task[w].todo).call = name
Arg(w) == Head(task[w].todo).arg
Rest(w) == Tail(task[w].todo)
GoesOn(w, todo) ==
  task' = [task EXCEPT ![w] = IF todo = <<>> THEN Idle ELSE [@ EXCEPT !.todo = todo]]
Raises(w) == task' = [task EXCEPT ![w] = Idle]
Reads(w, doc, todo) == task' = [task EXCEPT ![w].read = doc, ![w].todo = todo]
Drop(seq, n) == SubSeq(seq, n + 1, Len(seq))
Live(r) == r # NoRun /\ runDoc[r] # Nil /\ runDoc[r].status \notin Terminal
Same == UNCHANGED <<suspends, cut, ops>>

\* expire_active_run: the agent, then its run
FindAgent(w) ==
  /\ Performs(w, "find agent")
  /\ IF agentDoc = Nil \/ agentDoc.active = NoRun THEN GoesOn(w, Drop(Rest(w), 1))
     ELSE task' = [task EXCEPT ![w].run = agentDoc.active, ![w].todo = Rest(w)]
  /\ UNCHANGED <<docs, deleted, refused>>
\* Mutant: only a run that has begun is expired.
FindActiveBegun(w) ==
  /\ Performs(w, "find active")
  /\ GoesOn(w, IF runDoc[task[w].run].status = "running"
               THEN Mark("expired") \o <<Do("append")>> \o Rest(w) ELSE Rest(w))
  /\ UNCHANGED <<docs, deleted, refused>>

FindActive(w) ==
  /\ Performs(w, "find active")
  /\ GoesOn(w, IF Live(task[w].run)
               THEN Mark("expired") \o <<Do("append")>> \o Rest(w) ELSE Rest(w))
  /\ UNCHANGED <<docs, deleted, refused>>

\* the run of Agent.create is used once, if it is still queued
FindPending(w) ==
  /\ Performs(w, "find pending")
  /\ IF firstRun # NoRun /\ runDoc[firstRun].status = "queued"
     THEN task' = [task EXCEPT ![w].run = firstRun, ![w].todo = Begun]
     ELSE GoesOn(w, FollowUp \o Begun)
  /\ firstRun' = NoRun
  /\ UNCHANGED <<agentDoc, runDoc, log, made, alive, deleted, refused>>

CheckAgent(w) ==
  /\ Performs(w, "check agent")
  /\ IF agentDoc = Nil \/ agentDoc.status = "archived" THEN Raises(w)
     ELSE task' = [task EXCEPT ![w].run = agentDoc.active, ![w].todo = Rest(w)]
  /\ UNCHANGED <<docs, deleted, refused>>
CheckActive(w) ==
  /\ Performs(w, "check active")
  /\ IF Live(task[w].run) THEN Raises(w) ELSE GoesOn(w, Rest(w))
  /\ refused' = (refused \/ (task[w].forced /\ Live(task[w].run)))
  /\ UNCHANGED <<docs, deleted>>
Listed == {r \in Run : runDoc[r] # Nil}
NextTurn == 1 + Cardinality(Listed)
NewRun == [status |-> "queued", turn |-> NextTurn]
CountRuns(w) ==
  /\ Performs(w, "count runs")
  /\ Reads(w, NewRun, Rest(w))
  /\ UNCHANGED <<docs, deleted, refused>>
CreateRun(w) ==
  /\ Performs(w, "runs.create")
  /\ made < MaxRuns /\ made' = made + 1
  /\ runDoc' = [runDoc EXCEPT ![made'] = task[w].read]
  /\ task' = [task EXCEPT ![w].run = made', ![w].todo = Rest(w)]
  /\ UNCHANGED <<agentDoc, log, alive, firstRun, deleted, refused>>

\* a document that is not there is not written either
ReadRun(w) ==
  /\ Performs(w, "read run")
  /\ Reads(w, runDoc[task[w].run],
           IF runDoc[task[w].run] = Nil THEN Drop(Rest(w), 1) ELSE Rest(w))
  /\ UNCHANGED <<docs, deleted, refused>>
WriteRun(w) ==
  /\ Performs(w, "write run")
  /\ IF runDoc[task[w].run] = Nil THEN Raises(w) /\ UNCHANGED runDoc
     ELSE /\ runDoc' = [runDoc EXCEPT ![task[w].run] = [task[w].read EXCEPT !.status = Arg(w)]]
          /\ GoesOn(w, Rest(w))
  /\ UNCHANGED <<agentDoc, log, made, alive, firstRun, deleted, refused>>

ReadAgent(w) ==
  /\ Performs(w, "read agent")
  /\ IF agentDoc = Nil /\ task[w].run = NoRun THEN Raises(w)
     ELSE Reads(w, agentDoc, IF agentDoc = Nil THEN Drop(Rest(w), 1) ELSE Rest(w))
  /\ UNCHANGED <<docs, deleted, refused>>
\* Mutant: the status of the run decides.
KeptNever(doc, status) == status

\* an archived agent stays archived while its runs begin and end
Kept(doc, status) == IF doc.status = "archived" THEN "archived" ELSE status
AgentWritten(doc, run, for) ==
  CASE for = "follow"  -> [status |-> Kept(doc, "idle"), active |-> run]
    [] for = "running" -> [status |-> Kept(doc, "running"), active |-> run]
    [] for \in Terminal -> [status |-> Kept(doc, "idle"), active |-> NoRun]
    [] OTHER -> [doc EXCEPT !.status = for]
WriteAgent(w) ==
  /\ Performs(w, "write agent")
  /\ IF agentDoc = Nil THEN Raises(w) /\ UNCHANGED agentDoc
     ELSE agentDoc' = AgentWritten(task[w].read, task[w].run, Arg(w)) /\ GoesOn(w, Rest(w))
  /\ UNCHANGED <<runDoc, log, made, alive, firstRun, deleted, refused>>

AppendEvent(w) ==
  /\ Performs(w, "append")
  /\ log' = log \cup {task[w].run}
  /\ GoesOn(w, Rest(w))
  /\ UNCHANGED <<agentDoc, runDoc, made, alive, firstRun, deleted, refused>>
\* the executor's task is created
Drive(w) ==
  /\ Performs(w, "drive")
  /\ alive' = alive \cup {task[w].run}
  /\ GoesOn(w, Rest(w))
  /\ UNCHANGED <<agentDoc, runDoc, log, made, firstRun, deleted, refused>>
FindRun(w) ==
  /\ Performs(w, "find run")
  /\ GoesOn(w, IF Live(task[w].run) THEN Rest(w) ELSE <<>>)
  /\ UNCHANGED <<docs, deleted, refused>>

DeleteRuns(w) ==
  /\ Performs(w, "runs.delete")
  /\ runDoc' = [r \in Run |-> Nil] /\ log' = {r \in log : runDoc[r] = Nil}
  /\ GoesOn(w, Rest(w))
  /\ UNCHANGED <<agentDoc, made, alive, firstRun, deleted, refused>>
DeleteCheckpoints(w) ==
  /\ Performs(w, "checkpoints.delete") /\ GoesOn(w, Rest(w))
  /\ UNCHANGED <<docs, deleted, refused>>
DeleteAgentDoc(w) ==
  /\ Performs(w, "agents.delete") /\ agentDoc' = Nil /\ deleted' = TRUE
  /\ GoesOn(w, Rest(w))
  /\ UNCHANGED <<runDoc, log, made, alive, firstRun, refused>>

Step(w) ==
  /\ \/ FindAgent(w) \/ FindActive(w) \/ FindPending(w) \/ CheckAgent(w)
     \/ CheckActive(w) \/ CountRuns(w) \/ CreateRun(w) \/ ReadRun(w) \/ WriteRun(w)
     \/ ReadAgent(w) \/ WriteAgent(w) \/ AppendEvent(w) \/ Drive(w) \/ FindRun(w)
     \/ DeleteRuns(w) \/ DeleteCheckpoints(w) \/ DeleteAgentDoc(w)
  /\ Same

\* the process dies; the next one resumes the agent
Crash == /\ ops < MaxOps[suspends] /\ ops' = ops + 1
         /\ cut' = (cut \/ \E w \in Worker : ~AtRest(w))
         /\ task' = [w \in Worker |-> Idle] /\ alive' = {} /\ firstRun' = NoRun
         /\ UNCHANGED <<agentDoc, runDoc, log, made, suspends, deleted, refused>>

Next == \/ \E t \in Task :
             \/ \E forced \in BOOLEAN : BeginSend(t, forced)
             \/ \E r \in Run : BeginCancel(t, r)
             \/ \E status \in {"idle", "archived"} : BeginSetStatus(t, status)
             \/ BeginDelete(t)
        \/ \E r \in Run, status \in {"finished", "error"} : BeginEnd(r, status)
        \/ \E w \in Worker : Step(w)
        \/ Crash
Spec == Init /\ [][Next]_vars

-----------------------------------------------------------------------------
(* Over a store whose calls do not suspend, operations keep the turns as   *)
(* the SQLite store does: between operations the active run is the newest  *)
(* and has not ended, and a running agent has a running run, unless the    *)
(* process died in the middle of one; and whatever died, a forced send is  *)
(* never told that the agent is busy.  Over any store, an agent that was   *)
(* deleted does not come back, although operations that read it before     *)
(* still write it afterwards.                                              *)
TurnsKept ==
  /\ TypeOK
  /\ deleted => agentDoc = Nil
  /\ ~suspends =>
    /\ ~refused
    /\ (~cut /\ agentDoc # Nil /\ \A w \in Worker : AtRest(w)) =>
         /\ agentDoc.active # NoRun /\ runDoc[agentDoc.active] # Nil =>
              agentDoc.active = made /\ Live(made)
         /\ agentDoc.status = "running" =>
              agentDoc.active # NoRun /\ runDoc[agentDoc.active].status = "running"

(* Over a store whose calls do not suspend, only unarchiving and deleting  *)
(* end the archived status, whatever begins, ends or dies meanwhile.       *)
ArchivedStays ==
  [][agentDoc.status = "archived" /\ ~suspends =>
       \/ agentDoc' = Nil \/ agentDoc'.status = "archived"
       \/ \E t \in Task : ~AtRest(t) /\ Head(task[t].todo) = Call("write agent", "idle")]_vars
=============================================================================
