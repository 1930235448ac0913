------------------------------ MODULE SyncLoop ------------------------------
(***************************************************************************)
(* The event loop behind the synchronous calls (_sync_runtime.py): threads *)
(* that have no loop of their own submit coroutines to one in a thread of  *)
(* its own, which the first call starts and the end of the process stops.  *)
(* An iteration over an asynchronous generator submits one coroutine for   *)
(* each item, and one to close the generator.                              *)
(***************************************************************************)
EXTENDS Naturals, Sequences, FiniteSets

CONSTANTS Caller, Iterating,    \* threads, and those of them that iterate
          MaxLoops, MaxItems    \* bounds

VARIABLES lock,       \* who is in _lock
          current,    \* _loop; 0 is None
          ready,      \* _ready
          loops,      \* where the thread of each loop is
          callers,    \* where each thread is, at which item, and with which loop
          exit,       \* stop(), which atexit calls
          late        \* history: a wait for _ready has timed out

syncVars == <<lock, current, ready, loops, callers, exit, late>>

Init == /\ lock = "free" /\ current = 0 /\ ready = FALSE /\ loops = <<>>
        /\ callers = [c \in Caller |-> [at |-> "calls", item |-> 0, loop |-> 0]]
        /\ exit = "no" /\ late = FALSE

\* is_running; what is pending at the end is awaited by running again
IsRunning(l) == l # 0 /\ loops[l] \in {"running", "stopping", "draining"}
To(c, at, l) == callers' = [callers EXCEPT ![c].at = at, ![c].loop = l]

-----------------------------------------------------------------------------
\* start: takes the loop that runs, or starts one and waits for it in the lock
TakesLoop(c) == /\ callers[c].at = "calls" /\ lock = "free" /\ IsRunning(current)
                /\ To(c, "has loop", current)
                /\ UNCHANGED <<lock, current, ready, loops, exit, late>>
StartsThread(c) ==
  /\ callers[c].at = "calls" /\ lock = "free" /\ ~IsRunning(current) /\ Len(loops) < MaxLoops
  /\ lock' = c /\ ready' = FALSE /\ loops' = Append(loops, "starting") /\ To(c, "starts", 0)
  /\ UNCHANGED <<current, exit, late>>
Raises(c) == callers' = [callers EXCEPT ![c] = [at |-> "raised", item |-> @.item, loop |-> 0]]
Started(c) ==
  /\ callers[c].at = "starts" /\ lock' = "free" /\ late' = (late \/ ~ready)
  /\ IF current = 0 THEN Raises(c) ELSE To(c, "has loop", current)
  /\ UNCHANGED <<current, ready, loops, exit>>

LoopThread(l, from, to) == loops[l] = from /\ loops' = [loops EXCEPT ![l] = to]
\* _run, until the loop runs: the loop is there before _ready is set
\* Mutant: _ready is set first.
BeginsReadyFirst(l) ==
  \/ LoopThread(l, "starting", "made") /\ ready' = TRUE /\ UNCHANGED current
  \/ LoopThread(l, "made", "ready") /\ current' = l /\ UNCHANGED ready
  \/ LoopThread(l, "ready", "running") /\ UNCHANGED <<current, ready>>
Begins(l) ==
  \/ LoopThread(l, "starting", "made") /\ current' = l /\ UNCHANGED ready
  \/ LoopThread(l, "made", "ready") /\ ready' = TRUE /\ UNCHANGED current
  \/ LoopThread(l, "ready", "running") /\ UNCHANGED <<current, ready>>
RunsThread(l) == Begins(l) /\ UNCHANGED <<lock, callers, exit, late>>

-----------------------------------------------------------------------------
\* submit: run_coroutine_threadsafe raises if the loop is closed
Submit(c) ==
  /\ callers[c].at = "has loop"
  /\ IF loops[callers[c].loop] = "closed" THEN Raises(c) ELSE To(c, "submitted", callers[c].loop)
  /\ UNCHANGED <<lock, current, ready, loops, exit, late>>
BeginsTask(c) == /\ callers[c].at = "submitted" /\ IsRunning(callers[c].loop)
                 /\ To(c, "task", callers[c].loop)
                 /\ UNCHANGED <<lock, current, ready, loops, exit, late>>
Closing == MaxItems + 1
\* What a thread does with an answer: an iteration asks for the next item, or
\* closes its generator: at the end, after an exception, and when it is left.
Answered(c, ok) ==
  callers' = [callers EXCEPT ![c] =
    IF c \notin Iterating \/ @.item = Closing
    THEN [@ EXCEPT !.at = IF ok \/ c \in Iterating THEN "returned" ELSE "raised", !.loop = 0]
    ELSE [at |-> "calls", item |-> IF ok /\ @.item < MaxItems THEN @.item + 1 ELSE Closing, loop |-> 0]]
Finishes(c) == /\ callers[c].at = "task" /\ IsRunning(callers[c].loop)
               /\ \E ok \in BOOLEAN : (ok \/ c \in Iterating) /\ Answered(c, ok)
               /\ UNCHANGED <<lock, current, ready, loops, exit, late>>

-----------------------------------------------------------------------------
\* stop: asks the loop that runs to end, and waits for its thread in the lock
Stop == /\ exit = "no" /\ lock = "free"
        /\ IF IsRunning(current)
           THEN exit' = "joins" /\ lock' = "exit" /\ loops' = [loops EXCEPT ![current] = "stopping"]
           ELSE exit' = "done" /\ UNCHANGED <<lock, loops>>
        /\ UNCHANGED <<current, ready, callers, late>>
\* the thread has ended, or takes longer than 5 seconds
Joined == /\ exit = "joins" /\ exit' = "done" /\ lock' = "free"
          /\ UNCHANGED <<current, ready, loops, callers, late>>
\* _run, after the loop: its tasks are cancelled and awaited, not what waits to
\* become one
Drains(l) == LoopThread(l, "stopping", "draining") /\ UNCHANGED <<lock, current, ready, callers, exit, late>>
Cancelled(c) == /\ callers[c].at = "task" /\ loops[callers[c].loop] = "draining"
                /\ Answered(c, FALSE)
                /\ UNCHANGED <<lock, current, ready, loops, exit, late>>
ThreadEnds(l) == /\ \A c \in Caller : callers[c].at = "task" => callers[c].loop # l
                 /\ LoopThread(l, "draining", "closed") /\ current' = 0
                 /\ UNCHANGED <<lock, ready, callers, exit, late>>

Next == \/ \E c \in Caller : \/ TakesLoop(c) \/ StartsThread(c) \/ Started(c) \/ Submit(c)
                             \/ BeginsTask(c) \/ Finishes(c) \/ Cancelled(c)
        \/ \E l \in DOMAIN loops : RunsThread(l) \/ Drains(l) \/ ThreadEnds(l)
        \/ Stop \/ Joined
Spec == Init /\ [][Next]_syncVars

-----------------------------------------------------------------------------
\* Until the process ends, a call that was submitted is one of a loop that runs
\* or will, also when a second loop has taken the place of the first, whose
\* thread had not come to run it; no call fails for want of a loop, unless its
\* thread took more than ten seconds.  Then a call may fail, or never return.
CallsAreServed ==
  /\ \A c \in Caller :
       /\ callers[c].at \in {"has loop", "submitted", "task"}
            => loops[callers[c].loop] \in {"made", "ready", "running"} \/ exit # "no"
       /\ callers[c].at = "raised" => exit # "no" \/ late
  /\ current = 0 /\ exit = "no" => \A l \in DOMAIN loops : loops[l] = "starting"
  /\ Cardinality({l \in DOMAIN loops : loops[l] \in {"starting", "made"}}) <= 1 \/ late
=============================================================================
