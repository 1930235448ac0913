---------------------------- MODULE CanvasWriter ----------------------------
(***************************************************************************)
(* The file in which the task runner of the cookbook shows its state       *)
(* (dag_task_runner/canvas_writer.py, with its use in run_dag.py).  The    *)
(* threads of the tasks schedule snapshots, a timer writes the latest of   *)
(* them in a thread of its own, and the main thread writes the last one    *)
(* itself when the tasks are over.                                         *)
(***************************************************************************)
EXTENDS Naturals, Sequences, FiniteSets

CONSTANTS TaskThread, MaxVersion, MaxTimers     \* bounds: changes of the state, timers

VARIABLES version,    \* of the state of the run
          clones,     \* the snapshot that each thread has cloned and not yet scheduled; 0 is none
          scheduled,  \* _pending; 0 is None
          timers, timer,    \* where each timer is, and _timer; 0 is None
          writes,     \* calls of _write_now
          failed,     \* _last_error
          canvas,     \* what the file shows
          main,       \* where the main thread is
          overtaken,  \* history: a write began before another had ended
          early       \* history: flush returned while a timer was still writing

canvasVars == <<version, clones, scheduled, timers, timer, writes, failed, canvas, main, overtaken, early>>

Main == "main"
ByMain == 0     \* a write of flush, where the others are of a timer
Nothing == [shows |-> 0, mixed |-> FALSE]
Init == /\ version = 0 /\ clones = [w \in TaskThread \cup {Main} |-> 0] /\ scheduled = 0
        /\ timers = <<>> /\ timer = 0 /\ writes = {} /\ failed = FALSE
        /\ canvas = Nothing /\ main = "waits" /\ overtaken = FALSE
        /\ early = FALSE

-----------------------------------------------------------------------------
\* a task changes, and its thread clones the state: outside of the lock
Change(w) == /\ version < MaxVersion /\ clones[w] = 0
             /\ version' = version + 1 /\ clones' = [clones EXCEPT ![w] = version']
TaskChanges(w) == /\ main = "waits" /\ Change(w)
                  /\ UNCHANGED <<scheduled, timers, timer, writes, failed, canvas, main, overtaken, early>>
\* schedule: one timer for what comes until it fires
Schedule(w) ==
  /\ clones[w] # 0 /\ clones' = [clones EXCEPT ![w] = 0] /\ scheduled' = clones[w]
  /\ IF timer # 0 THEN UNCHANGED <<timers, timer>>
     ELSE Len(timers) < MaxTimers /\ timers' = Append(timers, "armed") /\ timer' = Len(timers')
  /\ main' = IF w = Main THEN "flushes" ELSE main
  /\ UNCHANGED <<version, writes, failed, canvas, overtaken, early>>

\* Mutant: what is written stays pending.
TakesAndKeeps(by) ==
  /\ timer' = 0 /\ overtaken' = (overtaken \/ (scheduled # 0 /\ writes # {})) /\ UNCHANGED scheduled
  /\ writes' = writes \cup {w \in {[of |-> scheduled, by |-> by, at |-> "opens"]} : w.of # 0}
\* the snapshot that _flush_timer and flush take in the lock, to write it
Takes(by) ==
  /\ timer' = 0 /\ overtaken' = (overtaken \/ (scheduled # 0 /\ writes # {})) /\ scheduled' = 0
  /\ writes' = writes \cup {w \in {[of |-> scheduled, by |-> by, at |-> "opens"]} : w.of # 0}

Fire(t) == /\ timers[t] = "armed" /\ timers' = [timers EXCEPT ![t] = "fired"]
           /\ UNCHANGED <<version, clones, scheduled, timer, writes, failed, canvas, main, overtaken, early>>
FlushTimer(t) == /\ timers[t] = "fired" /\ timers' = [timers EXCEPT ![t] = "over"]
                 /\ Takes(t)
                 /\ UNCHANGED <<version, clones, failed, canvas, main, early>>

-----------------------------------------------------------------------------
\* write_text empties the file and then writes it: what another thread has
\* written in between shows where it is longer
Opens(w) == /\ w.at = "opens" /\ canvas' = Nothing
            /\ writes' = (writes \ {w}) \cup {[w EXCEPT !.at = "writes"]}
            /\ UNCHANGED <<version, clones, scheduled, timers, timer, failed, main, overtaken, early>>
Written(w) == /\ w.at = "writes" /\ writes' = writes \ {w} /\ failed' = FALSE
              /\ \E mixed \in {FALSE, canvas.shows # 0} : canvas' = [shows |-> w.of, mixed |-> mixed]
              /\ UNCHANGED <<version, clones, scheduled, timers, timer, main, overtaken, early>>
Fails(w) == /\ writes' = writes \ {w} /\ failed' = TRUE
            /\ main' = IF w.by = ByMain THEN "raised" ELSE main
            /\ UNCHANGED <<version, clones, scheduled, timers, timer, canvas, overtaken, early>>

\* run_dag: the threads are over, and the main thread tells the outcome
Finalize == /\ main = "waits" /\ \A w \in TaskThread : clones[w] = 0
            /\ Change(Main) /\ main' = "schedules"
            /\ UNCHANGED <<scheduled, timers, timer, writes, failed, canvas, overtaken, early>>
\* flush: a timer that has fired cannot be cancelled
Flush == /\ main = "flushes" /\ main' = "writes"
         /\ timers' = [t \in DOMAIN timers |-> IF t = timer /\ timers[t] = "armed" THEN "over" ELSE timers[t]]
         /\ Takes(ByMain)
         /\ UNCHANGED <<version, clones, failed, canvas, early>>
FlushReturns == /\ main = "writes" /\ \A w \in writes : w.by # ByMain
                /\ main' = IF failed THEN "raised" ELSE "returned"
                /\ early' = (~failed /\ writes # {})
                /\ UNCHANGED <<version, clones, scheduled, timers, timer, writes, failed, canvas, overtaken>>
\* a run that failed is marked terminated, scheduled and flushed once more
Terminate == /\ main = "raised" /\ Change(Main) /\ main' = "schedules"
             /\ UNCHANGED <<scheduled, timers, timer, writes, failed, canvas, overtaken, early>>

Next == \/ \E w \in TaskThread \cup {Main} : Schedule(w)
        \/ \E w \in TaskThread : TaskChanges(w)
        \/ \E t \in DOMAIN timers : Fire(t) \/ FlushTimer(t)
        \/ \E w \in writes : Opens(w) \/ Written(w) \/ Fails(w)
        \/ Finalize \/ Flush \/ FlushReturns \/ Terminate
Spec == Init /\ [][Next]_canvasVars

-----------------------------------------------------------------------------
\* When flush has returned, the file shows the last state of the run and stays so,
\* whatever fired or failed before, with two exceptions: two writes crossed; or a
\* timer had taken the last state before flush could, which then returns although
\* that timer has still to write it, and may fail to.
Shows(state) == canvas = [shows |-> state, mixed |-> FALSE]
FlushShowsLatest ==
  main = "returned" /\ ~overtaken =>
    IF early THEN (\E w \in writes : w.of = version) \/ (writes = {} /\ (Shows(version) \/ failed))
    ELSE Shows(version) /\ writes = {}
=============================================================================
