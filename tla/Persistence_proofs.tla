------------------------- MODULE Persistence_proofs -------------------------
(***************************************************************************)
(* Theorems about the components of MCPersistence, each with constants of  *)
(* any value.                                                              *)
(***************************************************************************)
EXTENDS MCPersistence, SequenceTheorems, FiniteSetTheorems, TLAPS

-----------------------------------------------------------------------------
(* The loop behind synchronous calls: who is in the lock, and where the    *)
(* threads of the loops are.                                               *)

LoopAt == {"starting", "made", "ready", "running", "stopping", "draining", "closed"}
Begun == {"made", "ready", "running"}
CallerAt == {"calls", "starts", "has loop", "submitted", "task", "returned", "raised"}
CallerState == [at : CallerAt, item : Nat, loop : Nat]

SyncTyped ==
  /\ loops \in Seq(LoopAt) /\ callers \in [Caller -> CallerState]
  /\ current \in {0} \cup DOMAIN loops /\ ready \in BOOLEAN /\ late \in BOOLEAN
  /\ lock \in {"free", "exit"} \cup Caller /\ exit \in {"no", "joins", "done"}

\* A loop ends only when the process does; before that the current one has begun,
\* and so have all that a thread has got.
LoopsLast ==
  /\ exit = "no" => \A l \in DOMAIN loops : loops[l] \in {"starting"} \cup Begun
  /\ \A l \in DOMAIN loops :
       l = current \/ (\E c \in Caller : callers[c].at \in {"has loop", "submitted", "task"}
                                         /\ callers[c].loop = l)
         => loops[l] # "starting"
  /\ \A c \in Caller : callers[c].at \in {"has loop", "submitted", "task"} =>
                         callers[c].loop \in DOMAIN loops
  /\ current = 0 /\ exit = "no" => \A l \in DOMAIN loops : loops[l] = "starting"

\* Unless a wait for it timed out, who starts a loop is in the lock until it is
\* ready, and it is the newest.
OneStarts ==
  /\ \A c \in Caller : callers[c].at = "starts" <=> lock = c
  /\ exit = "joins" <=> lock = "exit"
  /\ ready /\ exit = "no" => current # 0
  /\ \A c \in Caller : callers[c].at = "raised" => exit # "no" \/ late
  /\ ~late => \A l \in DOMAIN loops : loops[l] \in {"starting", "made"} =>
                l = Len(loops) /\ lock \in Caller /\ ~ready

SyncInv == SyncTyped /\ LoopsLast /\ OneStarts

LEMMA InitSync == Facade!Init => SyncInv
<1> SUFFICES ASSUME Facade!Init PROVE SyncInv
  OBVIOUS
<1>1. SyncTyped
  BY EmptySeq DEF Facade!Init, SyncTyped, CallerState, CallerAt
<1>2. DOMAIN loops = {}
  BY EmptySeq DEF Facade!Init
<1>3. /\ \A c \in Caller : callers[c].at = "calls"
      /\ lock = "free" /\ current = 0 /\ ready = FALSE /\ exit = "no" /\ late = FALSE
  BY DEF Facade!Init
<1>4. LoopsLast
  BY <1>2, <1>3 DEF LoopsLast
<1>5. OneStarts
  BY <1>2, <1>3, SyncAssumption DEF OneStarts
<1> QED BY <1>1, <1>4, <1>5 DEF SyncInv

\* A thread moves on with a loop it has got or without one, and nothing else moves.
LEMMA CallerMoves ==
  ASSUME SyncInv, NEW c \in Caller, NEW e \in CallerState,
         callers' = [callers EXCEPT ![c] = e], callers[c].at # "starts", e.at # "starts",
         UNCHANGED <<lock, current, ready, loops, exit, late>>,
         e.at = "raised" => exit # "no" \/ late,
         e.at \in {"has loop", "submitted", "task"} =>
           e.loop \in DOMAIN loops /\ loops[e.loop] # "starting"
  PROVE  SyncInv'
<1>1. SyncTyped'
  BY DEF SyncInv, SyncTyped
<1>2. callers \in [Caller -> CallerState]
  BY DEF SyncInv, SyncTyped
<1>3. \A d \in Caller : d # c => callers'[d] = callers[d]
  BY <1>2
<1>4. callers'[c] = e
  BY <1>2
<1>5. LoopsLast'
  BY <1>3, <1>4 DEF SyncInv, LoopsLast
<1>6. OneStarts'
  BY <1>3, <1>4 DEF SyncInv, OneStarts
<1> QED BY <1>1, <1>5, <1>6 DEF SyncInv

\* What an answer leaves of a thread.
LEMMA AnsweredIs ==
  ASSUME SyncInv, NEW c \in Caller, NEW ok \in BOOLEAN, Facade!Answered(c, ok)
  PROVE  \E e \in CallerState : /\ callers' = [callers EXCEPT ![c] = e]
                                /\ e.at \in {"calls", "returned", "raised"}
                                /\ e.at = "raised" => ~ok /\ c \notin Iterating
<1>1. callers[c] \in CallerState /\ Facade!Closing \in Nat
  BY SyncAssumption DEF SyncInv, SyncTyped, Facade!Closing
<1> DEFINE e == IF c \notin Iterating \/ callers[c].item = Facade!Closing
                THEN [callers[c] EXCEPT !.at = IF ok \/ c \in Iterating THEN "returned" ELSE "raised",
                                        !.loop = 0]
                ELSE [at |-> "calls",
                      item |-> IF ok /\ callers[c].item < MaxItems
                               THEN callers[c].item + 1 ELSE Facade!Closing, loop |-> 0]
<1>2. callers' = [callers EXCEPT ![c] = e]
  BY DEF Facade!Answered
<1>3. e \in CallerState /\ e.at \in {"calls", "returned", "raised"}
      /\ (e.at = "raised" => ~ok /\ c \notin Iterating)
  <2>1. CASE c \notin Iterating \/ callers[c].item = Facade!Closing
    <3> DEFINE at == IF ok \/ c \in Iterating THEN "returned" ELSE "raised"
    <3>1. e = [callers[c] EXCEPT !.at = at, !.loop = 0]
      BY <2>1
    <3>2. at \in {"returned", "raised"} /\ (at = "raised" => ~ok /\ c \notin Iterating)
      OBVIOUS
    <3> HIDE DEF e, at
    <3> QED BY <1>1, <3>1, <3>2 DEF CallerState, CallerAt
  <2>2. CASE ~(c \notin Iterating \/ callers[c].item = Facade!Closing)
    <3> DEFINE item == IF ok /\ callers[c].item < MaxItems
                       THEN callers[c].item + 1 ELSE Facade!Closing
    <3>1. e = [at |-> "calls", item |-> item, loop |-> 0]
      BY <2>2
    <3>2. item \in Nat
      BY <1>1 DEF CallerState
    <3> HIDE DEF e, item
    <3> QED BY <3>1, <3>2 DEF CallerState, CallerAt
  <2> QED BY <2>1, <2>2
<1> QED BY <1>2, <1>3

\* Threads that call, submit and are answered.
LEMMA CallersStay ==
  ASSUME SyncInv, NEW c \in Caller,
         Facade!TakesLoop(c) \/ Facade!Submit(c) \/ Facade!BeginsTask(c)
           \/ Facade!Finishes(c) \/ Facade!Cancelled(c)
  PROVE  SyncInv'
<1>0. /\ callers[c] \in CallerState /\ callers \in [Caller -> CallerState]
      /\ current \in {0} \cup DOMAIN loops
      /\ \A l \in DOMAIN loops : loops[l] \in LoopAt
  BY ElementOfSeq, LenProperties DEF SyncInv, SyncTyped
<1>1. CASE Facade!TakesLoop(c)
  <2>1. current \in DOMAIN loops /\ loops[current] # "starting" /\ current \in Nat
    <3>1. current # 0 /\ loops[current] \in {"running", "stopping", "draining"}
      BY <1>1 DEF Facade!TakesLoop, Facade!IsRunning
    <3>2. DOMAIN loops \subseteq Nat
      BY LenProperties DEF SyncInv, SyncTyped
    <3> QED BY <1>0, <3>1, <3>2
  <2> DEFINE e == [callers[c] EXCEPT !.at = "has loop", !.loop = current]
  <2>2. callers' = [callers EXCEPT ![c] = e]
    BY <1>0, <1>1 DEF Facade!TakesLoop, Facade!To
  <2>3. e \in CallerState /\ e.at = "has loop" /\ e.loop = current
    BY <1>0, <2>1 DEF CallerState, CallerAt
  <2> HIDE DEF e
  <2> QED BY <1>1, <2>1, <2>2, <2>3, CallerMoves DEF Facade!TakesLoop
<1>2. CASE Facade!Submit(c)
  <2>1. callers[c].loop \in DOMAIN loops /\ loops[callers[c].loop] # "starting"
    BY <1>2 DEF Facade!Submit, SyncInv, LoopsLast
  <2>2. CASE loops[callers[c].loop] = "closed"
    <3> DEFINE e == [at |-> "raised", item |-> callers[c].item, loop |-> 0]
    <3>1. callers' = [callers EXCEPT ![c] = e]
      BY <1>0, <1>2, <2>2 DEF Facade!Submit, Facade!Raises
    <3>2. e \in CallerState /\ e.at = "raised"
      BY <1>0 DEF CallerState, CallerAt
    <3>3. exit # "no"
      BY <2>1, <2>2 DEF SyncInv, LoopsLast, Begun
    <3> HIDE DEF e
    <3> QED BY <1>2, <3>1, <3>2, <3>3, CallerMoves DEF Facade!Submit
  <2>3. CASE loops[callers[c].loop] # "closed"
    <3> DEFINE e == [callers[c] EXCEPT !.at = "submitted", !.loop = callers[c].loop]
    <3>1. callers' = [callers EXCEPT ![c] = e]
      BY <1>0, <1>2, <2>3 DEF Facade!Submit, Facade!To
    <3>2. e \in CallerState /\ e.at = "submitted" /\ e.loop = callers[c].loop
      BY <1>0 DEF CallerState, CallerAt
    <3> HIDE DEF e
    <3> QED BY <1>2, <2>1, <3>1, <3>2, CallerMoves DEF Facade!Submit
  <2> QED BY <2>2, <2>3
<1>3. CASE Facade!BeginsTask(c)
  <2>1. callers[c].loop \in DOMAIN loops /\ loops[callers[c].loop] # "starting"
    BY <1>3 DEF Facade!BeginsTask, SyncInv, LoopsLast
  <2> DEFINE e == [callers[c] EXCEPT !.at = "task", !.loop = callers[c].loop]
  <2>2. callers' = [callers EXCEPT ![c] = e]
    BY <1>0, <1>3 DEF Facade!BeginsTask, Facade!To
  <2>3. e \in CallerState /\ e.at = "task" /\ e.loop = callers[c].loop
    BY <1>0 DEF CallerState, CallerAt
  <2> HIDE DEF e
  <2> QED BY <1>3, <2>1, <2>2, <2>3, CallerMoves DEF Facade!BeginsTask
<1>4. CASE Facade!Finishes(c)
  <2>1. PICK ok \in BOOLEAN : (ok \/ c \in Iterating) /\ Facade!Answered(c, ok)
    BY <1>4 DEF Facade!Finishes
  <2>2. PICK e \in CallerState : /\ callers' = [callers EXCEPT ![c] = e]
                                 /\ e.at \in {"calls", "returned", "raised"}
                                 /\ e.at = "raised" => ~ok /\ c \notin Iterating
    BY <2>1, AnsweredIs
  <2> QED BY <1>4, <2>1, <2>2, CallerMoves DEF Facade!Finishes
<1>5. CASE Facade!Cancelled(c)
  <2>1. PICK e \in CallerState : /\ callers' = [callers EXCEPT ![c] = e]
                                 /\ e.at \in {"calls", "returned", "raised"}
    BY <1>5, AnsweredIs DEF Facade!Cancelled
  <2>2. exit # "no"
    <3>1. callers[c].loop \in DOMAIN loops /\ loops[callers[c].loop] = "draining"
      BY <1>5 DEF Facade!Cancelled, SyncInv, LoopsLast
    <3> QED BY <3>1 DEF SyncInv, LoopsLast, Begun
  <2> QED BY <1>5, <2>1, <2>2, CallerMoves DEF Facade!Cancelled
<1> QED BY <1>1, <1>2, <1>3, <1>4, <1>5

\* A thread that starts a loop enters the lock and adds the newest.
LEMMA StartsStay ==
  ASSUME SyncInv, NEW c \in Caller, Facade!StartsThread(c)
  PROVE  SyncInv'
<1> DEFINE e == [callers[c] EXCEPT !.at = "starts", !.loop = 0]
           n == Len(loops) + 1
<1>1. /\ callers[c] \in CallerState /\ callers \in [Caller -> CallerState]
      /\ loops \in Seq(LoopAt) /\ Len(loops) \in Nat /\ DOMAIN loops = 1..Len(loops)
      /\ current \in {0} \cup DOMAIN loops
  BY LenProperties DEF SyncInv, SyncTyped
<1>2. callers' = [callers EXCEPT ![c] = e]
  BY <1>1 DEF Facade!StartsThread, Facade!To
<1>3. e \in CallerState /\ e.at = "starts"
  BY <1>1 DEF CallerState, CallerAt
<1>4. loops' = Append(loops, "starting")
  BY DEF Facade!StartsThread
<1>5. /\ loops' \in Seq(LoopAt) /\ Len(loops') = n /\ DOMAIN loops' = 1..n
      /\ loops'[n] = "starting" /\ \A l \in DOMAIN loops : loops'[l] = loops[l]
  BY <1>1, <1>4, AppendProperties, LenProperties DEF LoopAt
<1>6. \A l \in DOMAIN loops' : l \in DOMAIN loops \/ l = n
  BY <1>1, <1>5
<1>7. DOMAIN loops \subseteq DOMAIN loops' /\ n \notin DOMAIN loops /\ n # 0
  BY <1>1, <1>5
<1> HIDE DEF e, n
<1>8. /\ \A d \in Caller : d # c => callers'[d] = callers[d]
      /\ callers'[c] = e
  BY <1>1, <1>2
<1>9. /\ callers[c].at = "calls" /\ lock = "free" /\ lock' = c /\ ready' = FALSE
      /\ UNCHANGED <<current, exit, late>>
      /\ ~(current # 0 /\ loops[current] \in {"running", "stopping", "draining"})
  BY DEF Facade!StartsThread, Facade!IsRunning
<1>10. SyncTyped'
  BY <1>1, <1>2, <1>3, <1>5, <1>7, <1>9 DEF SyncInv, SyncTyped
<1>11. LoopsLast'
  <2>1. exit = "no" => \A l \in DOMAIN loops' : loops'[l] \in {"starting"} \cup Begun
    BY <1>5, <1>6 DEF SyncInv, LoopsLast
  <2>2. \A d \in Caller : callers'[d].at \in {"has loop", "submitted", "task"} =>
          d # c /\ callers'[d].loop \in DOMAIN loops /\ loops[callers'[d].loop] # "starting"
    BY <1>3, <1>8 DEF SyncInv, LoopsLast
  <2>3. \A l \in DOMAIN loops' :
          l = current \/ (\E d \in Caller : callers'[d].at \in {"has loop", "submitted", "task"}
                                            /\ callers'[d].loop = l)
            => loops'[l] # "starting"
    <3> SUFFICES ASSUME NEW l \in DOMAIN loops',
                        l = current \/ (\E d \in Caller :
                          callers'[d].at \in {"has loop", "submitted", "task"}
                          /\ callers'[d].loop = l)
                 PROVE  loops'[l] # "starting"
      OBVIOUS
    <3>1. CASE l = current
      <4>1. l \in DOMAIN loops
        BY <3>1, <1>1, <1>7, <1>6
      <4> QED BY <4>1, <3>1, <1>5 DEF SyncInv, LoopsLast
    <3>2. CASE l # current
      BY <3>2, <2>2, <1>5
    <3> QED BY <3>1, <3>2
  <2>4. current = 0 /\ exit = "no" => \A l \in DOMAIN loops' : loops'[l] = "starting"
    BY <1>5, <1>6 DEF SyncInv, LoopsLast
  <2> QED BY <2>1, <2>2, <2>3, <2>4, <1>7, <1>9 DEF LoopsLast
<1>12. OneStarts'
  <2>1. \A d \in Caller : callers'[d].at = "starts" <=> lock' = d
    BY <1>3, <1>8, <1>9, SyncAssumption DEF SyncInv, OneStarts
  <2>2. exit # "joins" /\ lock' # "exit"
    BY <1>9, SyncAssumption DEF SyncInv, OneStarts
  <2>3. \A d \in Caller : callers'[d].at = "raised" => exit # "no" \/ late
    BY <1>3, <1>8 DEF SyncInv, OneStarts
  <2>4. ~late => \A l \in DOMAIN loops' : loops'[l] \in {"starting", "made"} => l = n
    BY <1>5, <1>6, <1>9, SyncAssumption DEF SyncInv, OneStarts
  <2> QED BY <2>1, <2>2, <2>3, <2>4, <1>5, <1>9 DEF OneStarts
<1> QED BY <1>10, <1>11, <1>12 DEF SyncInv

\* It leaves the lock with the loop that has begun, or with none.
LEMMA StartedStay ==
  ASSUME SyncInv, NEW c \in Caller, Facade!Started(c)
  PROVE  SyncInv'
<1>1. /\ callers[c] \in CallerState /\ callers \in [Caller -> CallerState]
      /\ current \in {0} \cup DOMAIN loops /\ DOMAIN loops \subseteq Nat
  BY LenProperties DEF SyncInv, SyncTyped
<1>2. /\ callers[c].at = "starts" /\ lock' = "free" /\ late' = (late \/ ~ready)
      /\ UNCHANGED <<current, ready, loops, exit>> /\ lock = c
  BY DEF Facade!Started, SyncInv, OneStarts
<1>3. \E e \in CallerState : /\ callers' = [callers EXCEPT ![c] = e]
                             /\ \/ e.at = "raised" /\ current = 0
                                \/ e.at = "has loop" /\ e.loop = current /\ current # 0
  <2>1. CASE current = 0
    <3> DEFINE e == [at |-> "raised", item |-> callers[c].item, loop |-> 0]
    <3>1. callers' = [callers EXCEPT ![c] = e]
      BY <2>1 DEF Facade!Started, Facade!Raises
    <3>2. e \in CallerState /\ e.at = "raised"
      BY <1>1 DEF CallerState, CallerAt
    <3> HIDE DEF e
    <3> QED BY <3>1, <3>2, <2>1
  <2>2. CASE current # 0
    <3> DEFINE e == [callers[c] EXCEPT !.at = "has loop", !.loop = current]
    <3>1. callers' = [callers EXCEPT ![c] = e]
      BY <2>2, <1>1 DEF Facade!Started, Facade!To
    <3>2. current \in Nat
      BY <1>1
    <3>3. e \in CallerState /\ e.at = "has loop" /\ e.loop = current
      BY <1>1, <3>2 DEF CallerState, CallerAt
    <3> HIDE DEF e
    <3> QED BY <3>1, <3>3, <2>2
  <2> QED BY <2>1, <2>2
<1>4. PICK e \in CallerState : /\ callers' = [callers EXCEPT ![c] = e]
                               /\ \/ e.at = "raised" /\ current = 0
                                  \/ e.at = "has loop" /\ e.loop = current /\ current # 0
  BY <1>3
<1>5. /\ \A d \in Caller : d # c => callers'[d] = callers[d]
      /\ callers'[c] = e
  BY <1>1, <1>4
<1>6. SyncTyped'
  BY <1>1, <1>2, <1>4 DEF SyncInv, SyncTyped
<1>7. LoopsLast'
  <2>1. \A d \in Caller : callers'[d].at \in {"has loop", "submitted", "task"} =>
          callers'[d].loop \in DOMAIN loops
    BY <1>1, <1>4, <1>5 DEF SyncInv, LoopsLast
  <2>2. \A l \in DOMAIN loops :
          l = current \/ (\E d \in Caller : callers'[d].at \in {"has loop", "submitted", "task"}
                                            /\ callers'[d].loop = l)
            => loops[l] # "starting"
    <3>1. \A l \in DOMAIN loops : l = current => loops[l] # "starting"
      BY DEF SyncInv, LoopsLast
    <3>2. \A l \in DOMAIN loops, d \in Caller :
            d # c /\ callers'[d].at \in {"has loop", "submitted", "task"}
              /\ callers'[d].loop = l => loops[l] # "starting"
      BY <1>5 DEF SyncInv, LoopsLast
    <3>3. \A l \in DOMAIN loops :
            callers'[c].at \in {"has loop", "submitted", "task"} /\ callers'[c].loop = l
              => l = current
      BY <1>4, <1>5
    <3> QED BY <3>1, <3>2, <3>3
  <2> QED BY <2>1, <2>2, <1>2 DEF SyncInv, LoopsLast
<1>8. OneStarts'
  <2>1. \A d \in Caller : callers'[d].at = "starts" <=> lock' = d
    BY <1>2, <1>4, <1>5, SyncAssumption DEF SyncInv, OneStarts
  <2>2. exit # "joins" /\ lock' # "exit"
    BY <1>2, SyncAssumption DEF SyncInv, OneStarts
  <2>3. \A d \in Caller : callers'[d].at = "raised" => exit # "no" \/ late'
    BY <1>2, <1>4, <1>5 DEF SyncInv, OneStarts
  <2>4. ~late' => \A l \in DOMAIN loops : loops[l] \notin {"starting", "made"}
    <3> SUFFICES ASSUME ~late', NEW l \in DOMAIN loops, loops[l] \in {"starting", "made"}
                 PROVE  FALSE
      OBVIOUS
    <3>1. ~late /\ ready
      BY <1>2 DEF SyncInv, SyncTyped
    <3> QED BY <3>1 DEF SyncInv, OneStarts
  <2> QED BY <2>1, <2>2, <2>3, <2>4, <1>2 DEF SyncInv, OneStarts
<1> QED BY <1>6, <1>7, <1>8 DEF SyncInv

\* A loop's thread goes on, and nothing but it and what it says changes.
LEMMA ThreadIs ==
  ASSUME SyncInv, NEW l \in DOMAIN loops, NEW to \in LoopAt, loops' = [loops EXCEPT ![l] = to]
  PROVE  /\ loops' \in Seq(LoopAt) /\ Len(loops') = Len(loops) /\ DOMAIN loops' = DOMAIN loops
         /\ loops'[l] = to /\ \A k \in DOMAIN loops : k # l => loops'[k] = loops[k]
<1>1. loops \in Seq(LoopAt)
  BY DEF SyncInv, SyncTyped
<1> QED BY <1>1, ExceptSeq, LenProperties

LEMMA BeginsStay ==
  ASSUME SyncInv, NEW l \in DOMAIN loops, Facade!RunsThread(l)
  PROVE  SyncInv'
<1>0. /\ UNCHANGED <<lock, callers, exit, late>> /\ loops \in Seq(LoopAt)
      /\ DOMAIN loops = 1..Len(loops) /\ Len(loops) \in Nat
      /\ callers \in [Caller -> CallerState] /\ lock \in {"free", "exit"} \cup Caller
      /\ current \in {0} \cup DOMAIN loops /\ ready \in BOOLEAN /\ late \in BOOLEAN
      /\ exit \in {"no", "joins", "done"}
  BY LenProperties DEF Facade!RunsThread, SyncInv, SyncTyped
<1>1. CASE loops[l] = "starting" /\ loops' = [loops EXCEPT ![l] = "made"] /\ current' = l
           /\ UNCHANGED ready
  <2>1. /\ loops' \in Seq(LoopAt) /\ Len(loops') = Len(loops) /\ DOMAIN loops' = DOMAIN loops
        /\ loops'[l] = "made" /\ \A k \in DOMAIN loops : k # l => loops'[k] = loops[k]
    BY <1>1, ThreadIs DEF LoopAt
  <2>2. SyncTyped'
    BY <1>0, <1>1, <2>1 DEF SyncTyped
  <2>3. l # 0
    BY <1>0
  <2>4. LoopsLast'
    BY <1>0, <1>1, <2>1, <2>3 DEF SyncInv, LoopsLast, Begun
  <2>5. OneStarts'
    BY <1>0, <1>1, <2>1, <2>3 DEF SyncInv, OneStarts
  <2> QED BY <2>2, <2>4, <2>5 DEF SyncInv
<1>2. CASE loops[l] = "made" /\ loops' = [loops EXCEPT ![l] = "ready"] /\ ready' = TRUE
           /\ UNCHANGED current
  <2>1. /\ loops' \in Seq(LoopAt) /\ Len(loops') = Len(loops) /\ DOMAIN loops' = DOMAIN loops
        /\ loops'[l] = "ready" /\ \A k \in DOMAIN loops : k # l => loops'[k] = loops[k]
    BY <1>2, ThreadIs DEF LoopAt
  <2>2. SyncTyped'
    BY <1>0, <1>2, <2>1 DEF SyncTyped
  <2>3. LoopsLast'
    BY <1>0, <1>2, <2>1 DEF SyncInv, LoopsLast, Begun
  <2>4. exit = "no" => current # 0
    BY <1>2 DEF SyncInv, LoopsLast
  <2>5. ~late => \A k \in DOMAIN loops : loops'[k] \notin {"starting", "made"}
    BY <1>2, <2>1 DEF SyncInv, OneStarts
  <2>6. OneStarts'
    BY <1>0, <1>2, <2>1, <2>4, <2>5 DEF SyncInv, OneStarts
  <2> QED BY <2>2, <2>3, <2>6 DEF SyncInv
<1>3. CASE loops[l] = "ready" /\ loops' = [loops EXCEPT ![l] = "running"]
           /\ UNCHANGED <<current, ready>>
  <2>1. /\ loops' \in Seq(LoopAt) /\ Len(loops') = Len(loops) /\ DOMAIN loops' = DOMAIN loops
        /\ loops'[l] = "running" /\ \A k \in DOMAIN loops : k # l => loops'[k] = loops[k]
    BY <1>3, ThreadIs DEF LoopAt
  <2>2. SyncTyped'
    BY <1>0, <1>3, <2>1 DEF SyncTyped
  <2>3. LoopsLast'
    BY <1>0, <1>3, <2>1 DEF SyncInv, LoopsLast, Begun
  <2>4. OneStarts'
    BY <1>0, <1>3, <2>1 DEF SyncInv, OneStarts
  <2> QED BY <2>2, <2>3, <2>4 DEF SyncInv
<1> QED BY <1>1, <1>2, <1>3 DEF Facade!RunsThread, Facade!Begins, Facade!LoopThread

\* A thread that has been asked to stop: the process is ending.
LEMMA EndsStay ==
  ASSUME SyncInv, NEW l \in DOMAIN loops, Facade!Drains(l) \/ Facade!ThreadEnds(l)
  PROVE  SyncInv'
<1>0. PICK to \in {"draining", "closed"} :
        /\ loops[l] \in {"stopping", "draining"} /\ loops' = [loops EXCEPT ![l] = to]
        /\ current' \in {0, current} /\ UNCHANGED <<lock, ready, callers, exit, late>>
  BY DEF Facade!Drains, Facade!ThreadEnds, Facade!LoopThread
<1>1. /\ loops' \in Seq(LoopAt) /\ Len(loops') = Len(loops) /\ DOMAIN loops' = DOMAIN loops
      /\ loops'[l] = to /\ \A k \in DOMAIN loops : k # l => loops'[k] = loops[k]
  BY <1>0, ThreadIs DEF LoopAt
<1>2. exit # "no" /\ current \in {0} \cup DOMAIN loops /\ 0 \notin DOMAIN loops
  <2>1. exit # "no"
    BY <1>0 DEF SyncInv, LoopsLast, Begun
  <2>2. loops \in Seq(LoopAt) /\ current \in {0} \cup DOMAIN loops
    BY DEF SyncInv, SyncTyped
  <2>3. 0 \notin DOMAIN loops
    BY <2>2, LenProperties
  <2> QED BY <2>1, <2>2, <2>3
<1>3. SyncTyped'
  BY <1>0, <1>1, <1>2 DEF SyncInv, SyncTyped
<1>4. LoopsLast'
  BY <1>0, <1>1, <1>2 DEF SyncInv, LoopsLast
<1>5. OneStarts'
  BY <1>0, <1>1, <1>2 DEF SyncInv, OneStarts
<1> QED BY <1>3, <1>4, <1>5 DEF SyncInv

LEMMA StopStays ==
  ASSUME SyncInv, Facade!Stop
  PROVE  SyncInv'
<1>1. /\ exit = "no" /\ lock = "free" /\ exit' # "no" /\ exit' \in {"joins", "done"}
      /\ exit' = "joins" <=> lock' = "exit"
      /\ lock' \in {"exit", "free"} /\ UNCHANGED <<current, ready, callers, late>>
  BY DEF Facade!Stop
<1>2. \A c \in Caller : callers[c].at # "starts" /\ lock' # c
  BY <1>1, SyncAssumption DEF SyncInv, OneStarts
<1>3. /\ loops' \in Seq(LoopAt) /\ Len(loops') = Len(loops) /\ DOMAIN loops' = DOMAIN loops
      /\ \A k \in DOMAIN loops : loops'[k] \in {loops[k], "stopping"}
  <2>1. CASE UNCHANGED loops
    BY <2>1 DEF SyncInv, SyncTyped
  <2>2. CASE Facade!IsRunning(current) /\ loops' = [loops EXCEPT ![current] = "stopping"]
    <3>1. current \in DOMAIN loops
      BY <2>2 DEF Facade!IsRunning, SyncInv, SyncTyped
    <3>2. /\ loops' \in Seq(LoopAt) /\ Len(loops') = Len(loops) /\ DOMAIN loops' = DOMAIN loops
          /\ loops'[current] = "stopping"
          /\ \A k \in DOMAIN loops : k # current => loops'[k] = loops[k]
      BY <2>2, <3>1, ThreadIs DEF LoopAt
    <3> QED BY <3>2
  <2> QED BY <2>1, <2>2 DEF Facade!Stop
<1>4. SyncTyped'
  BY <1>1, <1>3 DEF SyncInv, SyncTyped
<1>5. LoopsLast'
  BY <1>1, <1>3 DEF SyncInv, LoopsLast
<1>6. ~late => \A k \in DOMAIN loops : loops'[k] \notin {"starting", "made"}
  BY <1>1, <1>3, SyncAssumption DEF SyncInv, OneStarts
<1>7. OneStarts'
  BY <1>1, <1>2, <1>3, <1>6 DEF SyncInv, OneStarts
<1> QED BY <1>4, <1>5, <1>7 DEF SyncInv

LEMMA JoinedStays ==
  ASSUME SyncInv, Facade!Joined
  PROVE  SyncInv'
<1>1. /\ exit = "joins" /\ exit' = "done" /\ lock' = "free" /\ lock = "exit"
      /\ UNCHANGED <<current, ready, loops, callers, late>>
  BY DEF Facade!Joined, SyncInv, OneStarts
<1>2. SyncTyped' /\ LoopsLast'
  BY <1>1 DEF SyncInv, SyncTyped, LoopsLast
<1>3. OneStarts'
  BY <1>1, SyncAssumption DEF SyncInv, OneStarts
<1> QED BY <1>2, <1>3 DEF SyncInv

LEMMA NextSync ==
  ASSUME SyncInv, [Facade!Next]_syncVars
  PROVE  SyncInv'
<1>1. CASE UNCHANGED syncVars
  BY <1>1 DEF syncVars, SyncInv, SyncTyped, LoopsLast, OneStarts
<1>2. CASE Facade!Next
  BY <1>2, CallersStay, StartsStay, StartedStay, BeginsStay, EndsStay, StopStays, JoinedStays
     DEF Facade!Next
<1> QED BY <1>1, <1>2

LEMMA SyncInvServes == ASSUME SyncInv PROVE Facade!CallsAreServed
<1>1. \A c \in Caller :
        /\ callers[c].at \in {"has loop", "submitted", "task"}
             => loops[callers[c].loop] \in {"made", "ready", "running"} \/ exit # "no"
        /\ callers[c].at = "raised" => exit # "no" \/ late
  BY DEF SyncInv, LoopsLast, OneStarts, Begun
<1>2. current = 0 /\ exit = "no" => \A l \in DOMAIN loops : loops[l] = "starting"
  BY DEF SyncInv, LoopsLast
<1> DEFINE S == {l \in DOMAIN loops : loops[l] \in {"starting", "made"}}
<1>3. ~late => Facade!Cardinality(S) <= 1
  <2> SUFFICES ASSUME ~late PROVE Facade!Cardinality(S) <= 1
    OBVIOUS
  <2>1. S \subseteq {Len(loops)}
    BY DEF SyncInv, OneStarts
  <2>2. IsFiniteSet({Len(loops)}) /\ Cardinality({Len(loops)}) = 1
    BY FS_Singleton
  <2> HIDE DEF S
  <2>3. Cardinality(S) \in Nat /\ Cardinality(S) <= 1
    BY <2>1, <2>2, FS_Subset, FS_CardinalityType
  <2>4. Facade!Cardinality(S) = Cardinality(S)
    BY DEF Facade!Cardinality, Cardinality
  <2> QED BY <2>3, <2>4
<1> QED BY <1>1, <1>2, <1>3 DEF Facade!CallsAreServed

\* Calls are served, for any number of threads and loops.
THEOREM CallsAreServedCorrect == Facade!Spec => []CallsAreServed
<1>1. Facade!Init => SyncInv
  BY InitSync
<1>2. SyncInv /\ [Facade!Next]_syncVars => SyncInv'
  BY NextSync
<1>3. SyncInv => CallsAreServed
  BY SyncInvServes DEF CallsAreServed
<1> QED BY <1>1, <1>2, <1>3, PTL DEF Facade!Spec, Facade!syncVars, syncVars

-----------------------------------------------------------------------------
(* The checkpoint of a conversation.                                       *)

\* Type correctness of the turns and the checkpoints they carry.
THEOREM HandoverTypeCorrect == Spec => []TypeOK
<1>1. Init => TypeOK
  BY DEF Init, TypeOK, Checkpoint
<1>2. TypeOK /\ [Next]_vars => TypeOK'
  <2> SUFFICES ASSUME TypeOK, [Next]_vars
               PROVE TypeOK'
    OBVIOUS
  <2> USE DEF TypeOK
  <2>1. CASE Send
    <3>1. [phase |-> "streaming", sent |-> held, checkpoint |-> held] \in Turn
      BY DEF Turn
    <3> QED
      BY <2>1, <3>1, AppendProperties DEF Send
  <2>2. ASSUME NEW t \in DOMAIN turns,
               Update(t) \/ EndTurn(t) \/ Returns(t) \/ Raises(t)
        PROVE TypeOK'
    <3>1. turns[t] \in Turn
      OBVIOUS
    <3>2. PICK turn \in Turn : turns' = [turns EXCEPT ![t] = turn]
      <4>1. [turns[t] EXCEPT !.checkpoint = latest + 1] \in Turn
        <5>1. latest + 1 \in Checkpoint
          BY DEF Checkpoint
        <5> QED
          BY <3>1, <5>1 DEF Turn
      <4>2. \A phase \in {"ended", "over"} : [turns[t] EXCEPT !.phase = phase] \in Turn
        BY <3>1 DEF Turn
      <4> QED
        BY <2>2, <4>1, <4>2 DEF Update, EndTurn, Returns, Raises
    <3>3. turns' \in Seq(Turn)
      BY <3>2, ExceptSeq
    <3>4. held' \in Checkpoint /\ latest' \in Checkpoint
      BY <2>2, <3>1 DEF Update, EndTurn, Returns, Raises, Turn, Checkpoint
    <3> QED
      BY <3>3, <3>4
  <2>3. CASE UNCHANGED vars
    BY <2>3 DEF vars
  <2> QED
    BY <2>1, <2>2, <2>3 DEF Next
<1> QED
  BY <1>1, <1>2, PTL DEF Spec

\* What a client that waits for the executor's task maintains: only the newest turn
\* may be under way, it knows the latest checkpoint, and once it is over the agent
\* does.
HandoverInv ==
  /\ \A t \in DOMAIN turns : t < Len(turns) => turns[t].phase = "over"
  /\ \A t \in DOMAIN turns : turns[t].phase # "over" =>
       turns[t].sent = held /\ turns[t].checkpoint = latest
  /\ (\A t \in DOMAIN turns : turns[t].phase = "over") => held = latest

\* The step of the next theorem: every action keeps HandoverInv.
LEMMA HandoverInvStep ==
  ~Eager /\ TypeOK /\ HandoverInv /\ [Next]_vars => HandoverInv'
<1> SUFFICES ASSUME ~Eager, TypeOK, HandoverInv, [Next]_vars
             PROVE HandoverInv'
  OBVIOUS
<1> USE DEF TypeOK, HandoverInv, Turn, Checkpoint
<1>Under. \A t \in DOMAIN turns : turns[t].phase # "over" => t = Len(turns)
  OBVIOUS
<1>1. CASE Send
  BY <1>1 DEF Send
<1>2. ASSUME NEW t \in DOMAIN turns, Update(t) PROVE HandoverInv'
  <2>1. t = Len(turns)
    BY <1>2, <1>Under DEF Update
  <2> QED
    BY <1>2, <2>1 DEF Update
<1>3. ASSUME NEW t \in DOMAIN turns, EndTurn(t) PROVE HandoverInv'
  BY <1>3 DEF EndTurn
<1>4. ASSUME NEW t \in DOMAIN turns, Returns(t) \/ Raises(t) PROVE HandoverInv'
  <2>1. t = Len(turns) /\ turns[t].phase # "over"
    BY <1>4, <1>Under DEF Returns, Raises
  <2>2. held' = latest /\ latest' = latest
    BY <1>4, <2>1 DEF Returns, Raises
  <2>3. turns' = [turns EXCEPT ![t].phase = "over"]
    BY <1>4 DEF Returns, Raises
  <2>4. \A u \in DOMAIN turns' : turns'[u].phase = "over"
    BY <2>1, <2>3
  <2> QED
    BY <2>2, <2>4
<1>5. CASE UNCHANGED vars
  BY <1>5 DEF vars
<1> QED
  BY <1>1, <1>2, <1>3, <1>4, <1>5 DEF Next

\* For any number of turns and checkpoints, and whatever fails, each turn continues
\* from the latest checkpoint if the client waits for the executor's task.
THEOREM LatestCheckpointCorrect ==
  ASSUME ~Eager PROVE Spec => LatestCheckpointSent
<1>1. Init => HandoverInv
  BY DEF Init, HandoverInv
<1>2. TypeOK /\ HandoverInv /\ [Next]_vars => HandoverInv'
  BY HandoverInvStep
<1>3. TypeOK /\ HandoverInv /\ [Next]_vars
        => [Len(turns') > Len(turns) => turns'[Len(turns')].sent = latest]_vars
  <2> SUFFICES ASSUME TypeOK, HandoverInv, Next, Len(turns') > Len(turns)
               PROVE turns'[Len(turns')].sent = latest
    BY DEF vars
  <2>1. Send
    BY DEF Next, Update, EndTurn, Returns, Raises, TypeOK, Turn
  <2>2. held = latest
    BY <2>1 DEF Send, HandoverInv
  <2> QED
    BY <2>1, <2>2 DEF Send, TypeOK
<1> QED
  BY <1>1, <1>2, <1>3, HandoverTypeCorrect, PTL DEF Spec, LatestCheckpointSent

-----------------------------------------------------------------------------
(* The file of the task runner: who writes, and what is told of the last   *)
(* state.                                                                  *)

Snapshot == [of : Nat, by : Nat, at : {"opens", "writes"}]
MainAt == {"waits", "schedules", "flushes", "writes", "returned", "raised"}

CanvasTyped ==
  /\ version \in Nat /\ clones \in [TaskThread \cup {Shown!Main} -> Nat] /\ scheduled \in Nat
  /\ timers \in Seq({"armed", "fired", "over"}) /\ writes \subseteq Snapshot
  /\ failed \in BOOLEAN /\ overtaken \in BOOLEAN /\ early \in BOOLEAN /\ main \in MainAt

\* The main thread tells the last state when no other thread has one to tell, and
\* what it writes itself is written while it waits for that.
MainLast ==
  /\ main # "waits" => version # 0 /\ \A w \in TaskThread : clones[w] = 0
  /\ main = "schedules" => clones[Shown!Main] = version
  /\ main # "schedules" => clones[Shown!Main] = 0
  /\ main \in {"writes", "returned"} => scheduled = 0
  /\ \A w \in writes : w.by = Shown!ByMain =>
       main = "writes" /\ \A v \in writes : v.by = Shown!ByMain => v = w

\* The last state is written, is being written, or a write has failed.
ShowsLast == Shown!Shows(version)
LastIsOut == (\E w \in writes : w.of = version) \/ (writes = {} /\ (failed \/ ShowsLast))

OneWrites == ~overtaken =>
  /\ \A v, w \in writes : v = w
  /\ \A w \in writes : w.at = "writes" => canvas = Shown!Nothing
  /\ main = "flushes" => scheduled = version \/ (scheduled = 0 /\ LastIsOut)
  /\ main \in {"writes", "returned"} => LastIsOut
  /\ main = "returned" /\ ~early => writes = {} /\ ShowsLast

CanvasInv == CanvasTyped /\ MainLast /\ OneWrites

LEMMA InitCanvas == Shown!Init => CanvasInv
<1> SUFFICES ASSUME Shown!Init PROVE CanvasInv
  OBVIOUS
<1>1. CanvasTyped
  BY EmptySeq DEF Shown!Init, CanvasTyped, MainAt
<1>2. MainLast /\ OneWrites
  BY DEF Shown!Init, MainLast, OneWrites
<1> QED BY <1>1, <1>2 DEF CanvasInv

LEMMA MainIsNoTask == Shown!Main \notin TaskThread
  BY CanvasAssumption DEF Shown!Main

LEMMA TasksChange ==
  ASSUME CanvasInv, NEW w \in TaskThread, Shown!TaskChanges(w)
  PROVE  CanvasInv'
<1>1. /\ main = "waits" /\ version' = version + 1 /\ version \in Nat
      /\ clones' = [clones EXCEPT ![w] = version'] /\ w # Shown!Main
      /\ UNCHANGED <<scheduled, timers, timer, writes, failed, canvas, main, overtaken, early>>
  BY MainIsNoTask DEF Shown!TaskChanges, Shown!Change, CanvasInv, CanvasTyped
<1>2. CanvasTyped'
  BY <1>1 DEF CanvasInv, CanvasTyped
<1>3. MainLast'
  BY <1>1 DEF CanvasInv, CanvasTyped, MainLast
<1>4. OneWrites'
  BY <1>1 DEF CanvasInv, OneWrites
<1> QED BY <1>2, <1>3, <1>4 DEF CanvasInv

\* The main thread changes the state: at the end, and after a failure.
LEMMA MainChanges ==
  ASSUME CanvasInv, Shown!Finalize \/ Shown!Terminate
  PROVE  CanvasInv'
<1>1. /\ main' = "schedules" /\ version' = version + 1 /\ version \in Nat
      /\ clones' = [clones EXCEPT ![Shown!Main] = version']
      /\ main \in {"waits", "raised"}
      /\ UNCHANGED <<scheduled, timers, timer, writes, failed, canvas, overtaken, early>>
  BY DEF Shown!Finalize, Shown!Terminate, Shown!Change, CanvasInv, CanvasTyped
<1>2. \A w \in TaskThread : clones[w] = 0
  BY DEF Shown!Finalize, Shown!Terminate, CanvasInv, MainLast
<1>3. CanvasTyped'
  BY <1>1 DEF CanvasInv, CanvasTyped, MainAt
<1>4. MainLast'
  <2>1. /\ clones'[Shown!Main] = version' /\ version' # 0
        /\ \A w \in TaskThread : clones'[w] = 0
    BY <1>1, <1>2, MainIsNoTask DEF CanvasInv, CanvasTyped
  <2>2. \A w \in writes : w.by # Shown!ByMain
    BY <1>1 DEF CanvasInv, MainLast
  <2> QED BY <1>1, <2>1, <2>2 DEF MainLast
<1>5. OneWrites'
  BY <1>1 DEF CanvasInv, OneWrites
<1> QED BY <1>3, <1>4, <1>5 DEF CanvasInv

LEMMA Schedules ==
  ASSUME CanvasInv, NEW w \in TaskThread \cup {Shown!Main}, Shown!Schedule(w)
  PROVE  CanvasInv'
<1>1. /\ clones[w] # 0 /\ clones' = [clones EXCEPT ![w] = 0] /\ scheduled' = clones[w]
      /\ main' = IF w = Shown!Main THEN "flushes" ELSE main
      /\ UNCHANGED <<version, writes, failed, canvas, overtaken, early>>
  BY DEF Shown!Schedule
<1>2. /\ clones \in [TaskThread \cup {Shown!Main} -> Nat]
      /\ timers \in Seq({"armed", "fired", "over"})
  BY DEF CanvasInv, CanvasTyped
<1>3. timers' \in Seq({"armed", "fired", "over"})
  BY <1>2, AppendProperties DEF Shown!Schedule
<1>4. CanvasTyped'
  BY <1>1, <1>2, <1>3 DEF CanvasInv, CanvasTyped, MainAt
<1>5. CASE w = Shown!Main
  <2>1. main = "schedules" /\ main' = "flushes" /\ scheduled' = version
        /\ clones'[Shown!Main] = 0
    BY <1>1, <1>2, <1>5 DEF CanvasInv, MainLast
  <2>2. \A v \in TaskThread : clones'[v] = clones[v]
    BY <1>1, <1>2, <1>5, MainIsNoTask
  <2>3. MainLast'
    BY <1>1, <2>1, <2>2 DEF CanvasInv, MainLast
  <2>4. OneWrites'
    BY <1>1, <2>1 DEF CanvasInv, OneWrites
  <2> QED BY <1>4, <2>3, <2>4 DEF CanvasInv
<1>6. CASE w # Shown!Main
  <2>1. main = "waits" /\ main' = "waits" /\ clones'[Shown!Main] = clones[Shown!Main]
    BY <1>1, <1>2, <1>6 DEF CanvasInv, MainLast
  <2>2. MainLast'
    BY <1>1, <2>1 DEF CanvasInv, MainLast
  <2>3. OneWrites'
    BY <1>1, <2>1 DEF CanvasInv, OneWrites
  <2> QED BY <1>4, <2>2, <2>3 DEF CanvasInv
<1> QED BY <1>5, <1>6

LEMMA Fires ==
  ASSUME CanvasInv, NEW t \in DOMAIN timers, Shown!Fire(t)
  PROVE  CanvasInv'
<1>1. /\ timers' \in Seq({"armed", "fired", "over"})
      /\ UNCHANGED <<version, clones, scheduled, timer, writes, failed, canvas, main, overtaken, early>>
  BY ExceptSeq DEF Shown!Fire, CanvasInv, CanvasTyped
<1>2. CanvasTyped' /\ MainLast'
  BY <1>1 DEF CanvasInv, CanvasTyped, MainLast
<1>3. OneWrites'
  BY <1>1 DEF CanvasInv, OneWrites, LastIsOut, ShowsLast, Shown!Shows
<1> QED BY <1>2, <1>3 DEF CanvasInv

\* What is pending is taken: it is written, alone unless it overtakes another write.
Taken(by) ==
  /\ scheduled' = 0 /\ overtaken' \in BOOLEAN /\ writes' \subseteq Snapshot
  /\ \A w \in writes' : w \in writes \/ w = [of |-> scheduled, by |-> by, at |-> "opens"]
  /\ writes \subseteq writes'
  /\ scheduled = 0 => writes' = writes /\ overtaken' = overtaken
  /\ scheduled # 0 => \E w \in writes' : w.of = scheduled
  /\ scheduled # 0 /\ ~overtaken' => /\ ~overtaken /\ writes = {} /\ \A v, w \in writes' : v = w
                                    /\ \A w \in writes' : w.at = "opens" /\ w.by = by

LEMMA TakesOne ==
  ASSUME CanvasInv, NEW by \in Nat, Shown!Takes(by),
         UNCHANGED <<version, clones, failed, canvas, early>>
  PROVE  Taken(by)
<1>1. /\ scheduled' = 0 /\ overtaken' = (overtaken \/ (scheduled # 0 /\ writes # {}))
      /\ writes' = writes \cup {w \in {[of |-> scheduled, by |-> by, at |-> "opens"]} : w.of # 0}
      /\ writes \subseteq Snapshot /\ scheduled \in Nat /\ overtaken \in BOOLEAN
  BY DEF Shown!Takes, CanvasInv, CanvasTyped
<1> DEFINE new == [of |-> scheduled, by |-> by, at |-> "opens"]
<1>2. new \in Snapshot /\ new.of = scheduled /\ new.by = by /\ new.at = "opens"
  BY <1>1 DEF Snapshot
<1> HIDE DEF new
<1>3. writes' = writes \cup {w \in {new} : w.of # 0}
  BY <1>1 DEF new
<1>4. /\ scheduled = 0 => writes' = writes
      /\ scheduled # 0 => writes' = writes \cup {new}
  BY <1>2, <1>3
<1>5. \A w \in writes' : w \in writes \/ w = new
  BY <1>3
<1>6. writes' \subseteq Snapshot /\ overtaken' \in BOOLEAN
  BY <1>1, <1>2, <1>5
<1>7. scheduled # 0 /\ ~overtaken' => ~overtaken /\ writes = {}
  BY <1>1
<1>8. scheduled # 0 /\ ~overtaken' => /\ \A v, w \in writes' : v = w
                                      /\ \A w \in writes' : w.at = "opens" /\ w.by = by
  BY <1>2, <1>5, <1>7
<1>9. scheduled = 0 => overtaken' = overtaken
  BY <1>1
<1>10. writes \subseteq writes' /\ (scheduled # 0 => \E w \in writes' : w.of = scheduled)
  BY <1>2, <1>3, <1>4
<1> QED BY <1>1, <1>4, <1>5, <1>6, <1>7, <1>8, <1>9, <1>10 DEF Taken, new

LEMMA TimerFlushes ==
  ASSUME CanvasInv, NEW t \in DOMAIN timers, Shown!FlushTimer(t)
  PROVE  CanvasInv'
<1>1. /\ timers' \in Seq({"armed", "fired", "over"})
      /\ UNCHANGED <<version, clones, failed, canvas, main, early>> /\ Shown!Takes(t)
  BY ExceptSeq DEF Shown!FlushTimer, CanvasInv, CanvasTyped
<1>2. t \in Nat /\ t # Shown!ByMain
  <2>1. timers \in Seq({"armed", "fired", "over"})
    BY DEF CanvasInv, CanvasTyped
  <2> QED BY <2>1, LenProperties DEF Shown!ByMain
<1>3. Taken(t)
  BY <1>1, <1>2, TakesOne
<1>4. CanvasTyped'
  BY <1>1, <1>3 DEF CanvasInv, CanvasTyped, Taken
<1>5. \A w \in writes' : w.by = Shown!ByMain => w \in writes
  BY <1>2, <1>3 DEF Taken
<1>6. MainLast'
  BY <1>1, <1>3, <1>5 DEF CanvasInv, MainLast, Taken
<1>7. OneWrites'
  <2> SUFFICES ASSUME ~overtaken' PROVE OneWrites'
    BY DEF OneWrites
  <2>1. CASE scheduled = 0
    BY <1>1, <1>3, <2>1 DEF CanvasInv, OneWrites, LastIsOut, ShowsLast, Shown!Shows, Taken
  <2>2. CASE scheduled # 0
    <3>1. main \notin {"writes", "returned"}
      BY <2>2 DEF CanvasInv, MainLast
    <3>2. main = "flushes" => scheduled = version
      BY <1>3, <2>2 DEF CanvasInv, OneWrites, Taken
    <3>3. main = "flushes" => LastIsOut'
      BY <1>1, <1>3, <2>2, <3>2 DEF LastIsOut, Taken
    <3> QED BY <1>1, <1>3, <2>2, <3>1, <3>3 DEF OneWrites, Taken
  <2> QED BY <2>1, <2>2
<1> QED BY <1>4, <1>6, <1>7 DEF CanvasInv

LEMMA MainFlushes ==
  ASSUME CanvasInv, Shown!Flush
  PROVE  CanvasInv'
<1>1. /\ main = "flushes" /\ main' = "writes"
      /\ UNCHANGED <<version, clones, failed, canvas, early>> /\ Shown!Takes(Shown!ByMain)
      /\ timers' = [t \in DOMAIN timers |-> IF t = timer /\ timers[t] = "armed" THEN "over" ELSE timers[t]]
  BY DEF Shown!Flush
<1>2. timers' \in Seq({"armed", "fired", "over"})
  <2>1. timers \in Seq({"armed", "fired", "over"})
    BY DEF CanvasInv, CanvasTyped
  <2>2. DOMAIN timers = 1 .. Len(timers) /\ Len(timers) \in Nat
        /\ \A t \in DOMAIN timers : timers[t] \in {"armed", "fired", "over"}
    BY <2>1, LenProperties, ElementOfSeq
  <2>3. timers' \in [1 .. Len(timers) -> {"armed", "fired", "over"}]
    BY <1>1, <2>2
  <2> QED BY <2>2, <2>3, SeqDef
<1>3. Shown!ByMain \in Nat
  BY DEF Shown!ByMain
<1>4. Taken(Shown!ByMain)
  BY <1>1, <1>3, TakesOne
<1>5. CanvasTyped'
  BY <1>1, <1>2, <1>4 DEF CanvasInv, CanvasTyped, MainAt, Taken
<1>6. \A w \in writes : w.by # Shown!ByMain
  BY <1>1 DEF CanvasInv, MainLast
<1>7. \A v, w \in writes' : v.by = Shown!ByMain /\ w.by = Shown!ByMain => v = w
  BY <1>4, <1>6 DEF Taken
<1>8. MainLast'
  BY <1>1, <1>4, <1>7 DEF CanvasInv, MainLast, Taken
<1>9. OneWrites'
  <2> SUFFICES ASSUME ~overtaken' PROVE OneWrites'
    BY DEF OneWrites
  <2>1. LastIsOut'
    <3>1. CASE scheduled = 0
      <4>1. LastIsOut
        BY <1>1, <1>4, <3>1 DEF CanvasInv, OneWrites, MainLast, Taken
      <4> QED BY <1>1, <1>4, <3>1, <4>1 DEF LastIsOut, ShowsLast, Shown!Shows, Taken
    <3>2. CASE scheduled # 0
      <4>1. scheduled = version
        BY <1>1, <1>4, <3>2 DEF CanvasInv, OneWrites, Taken
      <4> QED BY <1>1, <1>4, <3>2, <4>1 DEF LastIsOut, Taken
    <3> QED BY <3>1, <3>2
  <2>2. /\ \A v, w \in writes' : v = w
        /\ \A w \in writes' : w.at = "writes" => canvas' = Shown!Nothing
    BY <1>1, <1>4 DEF CanvasInv, OneWrites, Taken
  <2> QED BY <1>1, <2>1, <2>2 DEF OneWrites
<1> QED BY <1>5, <1>8, <1>9 DEF CanvasInv

\* A write begins, and the file is empty.
LEMMA WriteOpens ==
  ASSUME CanvasInv, NEW w \in writes, Shown!Opens(w)
  PROVE  CanvasInv'
<1> DEFINE v == [w EXCEPT !.at = "writes"]
<1>1. /\ w.at = "opens" /\ canvas' = Shown!Nothing /\ writes' = (writes \ {w}) \cup {v}
      /\ UNCHANGED <<version, clones, scheduled, timers, timer, failed, main, overtaken, early>>
      /\ writes \subseteq Snapshot
  BY DEF Shown!Opens, CanvasInv, CanvasTyped
<1>2. v \in Snapshot /\ v.of = w.of /\ v.by = w.by /\ v.at = "writes"
  BY <1>1 DEF Snapshot
<1> HIDE DEF v
<1>3. CanvasTyped'
  BY <1>1, <1>2 DEF CanvasInv, CanvasTyped
<1>4. \A x \in writes' : x = v \/ (x \in writes /\ x # w)
  BY <1>1
<1>5. MainLast'
  <2>1. \A x \in writes' : x.by = Shown!ByMain =>
          main = "writes" /\ \A y \in writes' : y.by = Shown!ByMain => y = x
    <3> SUFFICES ASSUME NEW x \in writes', x.by = Shown!ByMain
                 PROVE  main = "writes" /\ \A y \in writes' : y.by = Shown!ByMain => y = x
      OBVIOUS
    <3>1. CASE x = v
      <4>1. w.by = Shown!ByMain
        BY <1>2, <3>1
      <4> QED BY <4>1, <3>1, <1>4 DEF CanvasInv, MainLast
    <3>2. CASE x \in writes /\ x # w
      <4>1. w.by # Shown!ByMain
        BY <3>2 DEF CanvasInv, MainLast
      <4> QED BY <4>1, <3>2, <1>2, <1>4 DEF CanvasInv, MainLast
    <3> QED BY <3>1, <3>2, <1>4
  <2> QED BY <1>1, <2>1 DEF CanvasInv, MainLast
<1>6. OneWrites'
  <2> SUFFICES ASSUME ~overtaken' PROVE OneWrites'
    BY DEF OneWrites
  <2>1. writes = {w}
    BY <1>1 DEF CanvasInv, OneWrites
  <2>2. writes' = {v}
    BY <1>1, <2>1
  <2>3. LastIsOut => w.of = version
    BY <2>1 DEF LastIsOut
  <2>4. LastIsOut => LastIsOut'
    BY <1>1, <1>2, <2>2, <2>3 DEF LastIsOut
  <2> QED BY <1>1, <1>2, <2>1, <2>2, <2>4 DEF CanvasInv, OneWrites
<1> QED BY <1>3, <1>5, <1>6 DEF CanvasInv

\* A write ends: the file shows it, and nothing else if it was alone.
LEMMA WriteEnds ==
  ASSUME CanvasInv, NEW w \in writes, Shown!Written(w)
  PROVE  CanvasInv'
<1>1. /\ w.at = "writes" /\ writes' = writes \ {w} /\ failed' = FALSE
      /\ UNCHANGED <<version, clones, scheduled, timers, timer, main, overtaken, early>>
  BY DEF Shown!Written
<1>2. PICK mixed \in {FALSE, canvas.shows # 0} : canvas' = [shows |-> w.of, mixed |-> mixed]
  BY DEF Shown!Written
<1>3. CanvasTyped' /\ MainLast'
  BY <1>1 DEF CanvasInv, CanvasTyped, MainLast
<1>4. OneWrites'
  <2> SUFFICES ASSUME ~overtaken' PROVE OneWrites'
    BY DEF OneWrites
  <2>1. writes = {w} /\ canvas = Shown!Nothing
    BY <1>1 DEF CanvasInv, OneWrites
  <2>2. writes' = {} /\ canvas' = [shows |-> w.of, mixed |-> FALSE]
    BY <1>1, <1>2, <2>1 DEF Shown!Nothing
  <2>3. LastIsOut => w.of = version
    BY <2>1 DEF LastIsOut
  <2>4. LastIsOut => LastIsOut'
    BY <1>1, <2>2, <2>3 DEF LastIsOut, ShowsLast, Shown!Shows
  <2> QED BY <1>1, <2>1, <2>2, <2>4 DEF CanvasInv, OneWrites
<1> QED BY <1>3, <1>4 DEF CanvasInv

LEMMA WriteFails ==
  ASSUME CanvasInv, NEW w \in writes, Shown!Fails(w)
  PROVE  CanvasInv'
<1>1. /\ writes' = writes \ {w} /\ failed' = TRUE
      /\ main' = IF w.by = Shown!ByMain THEN "raised" ELSE main
      /\ UNCHANGED <<version, clones, scheduled, timers, timer, canvas, overtaken, early>>
  BY DEF Shown!Fails
<1>2. CanvasTyped'
  BY <1>1 DEF CanvasInv, CanvasTyped, MainAt
<1>3. MainLast'
  <2>1. CASE w.by = Shown!ByMain
    <3>1. main = "writes" /\ main' = "raised" /\ \A v \in writes' : v.by # Shown!ByMain
      BY <1>1, <2>1 DEF CanvasInv, MainLast
    <3> QED BY <1>1, <3>1 DEF CanvasInv, MainLast
  <2>2. CASE w.by # Shown!ByMain
    BY <1>1, <2>2 DEF CanvasInv, MainLast
  <2> QED BY <2>1, <2>2
<1>4. OneWrites'
  <2> SUFFICES ASSUME ~overtaken' PROVE OneWrites'
    BY DEF OneWrites
  <2>1. writes = {w} /\ writes' = {}
    BY <1>1 DEF CanvasInv, OneWrites
  <2>2. LastIsOut'
    BY <1>1, <2>1 DEF LastIsOut
  <2>3. main' = main \/ main' = "raised"
    BY <1>1
  <2> QED BY <1>1, <2>1, <2>2, <2>3 DEF CanvasInv, OneWrites
<1> QED BY <1>2, <1>3, <1>4 DEF CanvasInv

LEMMA FlushEnds ==
  ASSUME CanvasInv, Shown!FlushReturns
  PROVE  CanvasInv'
<1>1. /\ main = "writes" /\ \A w \in writes : w.by # Shown!ByMain
      /\ main' = IF failed THEN "raised" ELSE "returned"
      /\ early' = (~failed /\ writes # {})
      /\ UNCHANGED <<version, clones, scheduled, timers, timer, writes, failed, canvas, overtaken>>
  BY DEF Shown!FlushReturns
<1>2. CanvasTyped'
  BY <1>1 DEF CanvasInv, CanvasTyped, MainAt
<1>3. MainLast'
  BY <1>1 DEF CanvasInv, MainLast
<1>4. OneWrites'
  BY <1>1 DEF CanvasInv, OneWrites, LastIsOut, ShowsLast, Shown!Shows
<1> QED BY <1>2, <1>3, <1>4 DEF CanvasInv

LEMMA NextCanvas ==
  ASSUME CanvasInv, [Shown!Next]_canvasVars
  PROVE  CanvasInv'
<1>1. CASE UNCHANGED canvasVars
  BY <1>1 DEF canvasVars, CanvasInv, CanvasTyped, MainLast, OneWrites, LastIsOut, ShowsLast, Shown!Shows
<1>2. CASE Shown!Next
  BY <1>2, TasksChange, MainChanges, Schedules, Fires, TimerFlushes, MainFlushes,
     WriteOpens, WriteEnds, WriteFails, FlushEnds
     DEF Shown!Next
<1> QED BY <1>1, <1>2

\* When flush has returned the file shows the last state, or two writes crossed, or a
\* timer is still to write that state, for any number of tasks, timers and changes.
THEOREM FlushShowsLatestCorrect == Shown!Spec => []FlushShowsLatest
<1>1. Shown!Init => CanvasInv
  BY InitCanvas
<1>2. CanvasInv /\ [Shown!Next]_canvasVars => CanvasInv'
  BY NextCanvas
<1>3. CanvasInv => FlushShowsLatest
  BY DEF FlushShowsLatest, Shown!FlushShowsLatest, CanvasInv, OneWrites, ShowsLast, LastIsOut
<1> QED BY <1>1, <1>2, <1>3, PTL DEF Shown!Spec, Shown!canvasVars, canvasVars

-----------------------------------------------------------------------------
(* The login: who has read the file knows what is in it.                   *)

LoginState == [at : {"away", "poll", "mint", "name", "save"}, backend : Backend \cup {"none"},
               attempt : 0 .. MaxAttempts - 1, errors : 0 .. 2, get : BOOLEAN,
               key : 0 .. MaxLogins, expires : Nat]
LoginInv ==
  /\ disk \in Account!Credentials /\ cache \in [Process -> Account!Credentials]
  /\ login \in [Process -> LoginState]
  /\ now \in 0 .. MaxTime /\ keys \in 0 .. MaxLogins /\ others \subseteq Process
  /\ \A p \in Process \ others : cache[p] \in {Account!Unread, disk}

LEMMA Zeros == 0 \in 0 .. MaxAttempts - 1 /\ 0 \in 0 .. MaxLogins /\ 0 \in 0 .. MaxTime /\ 0 \in 0 .. 2
BY LoginAssumption

LEMMA AwayIs == Account!Polls \in LoginState /\ Account!Away \in LoginState
<1>1. Account!Polls \in LoginState
  BY Zeros DEF Account!Polls, LoginState
<1>2. Account!Away \in LoginState
  BY <1>1 DEF Account!Away, LoginState
<1> QED BY <1>1, <1>2

LEMMA InitLogin == Account!Init => LoginInv
<1> SUFFICES ASSUME Account!Init PROVE LoginInv
  OBVIOUS
<1>1. Account!Nothing \in Account!Credentials /\ Account!Unread \in Account!Credentials
  BY Zeros DEF Account!Nothing, Account!Unread, Account!Credentials, Account!Key
<1> QED BY <1>1, AwayIs, Zeros DEF Account!Init, LoginInv

\* A login goes on, and the file and what is known of it stay as they are.
LEMMA LoginMoves ==
  ASSUME LoginInv, NEW p \in Process, NEW e \in LoginState, NEW k \in 0 .. MaxLogins,
         login' = [login EXCEPT ![p] = e], keys' = k, UNCHANGED <<disk, cache, now, others>>
  PROVE  LoginInv'
BY DEF LoginInv

LEMMA AgainIs ==
  ASSUME LoginInv, NEW p \in Process, NEW errors \in 0 .. 3, NEW get \in BOOLEAN,
         Account!Again(p, errors, get)
  PROVE  \E e \in LoginState : login' = [login EXCEPT ![p] = e]
<1>1. CASE login[p].attempt + 1 = MaxAttempts \/ errors = 3
  BY <1>1, AwayIs DEF Account!Again, Account!Leaves
<1>2. CASE ~(login[p].attempt + 1 = MaxAttempts \/ errors = 3)
  <2> DEFINE e == [login[p] EXCEPT !.attempt = login[p].attempt + 1, !.errors = errors, !.get = get]
  <2>1. login' = [login EXCEPT ![p] = e]
    BY <1>2 DEF Account!Again, LoginInv, LoginState
  <2>2. login[p] \in LoginState
    BY DEF LoginInv
  <2>3. login[p].attempt + 1 \in 0 .. MaxAttempts - 1 /\ errors \in 0 .. 2
    BY <1>2, <2>2, LoginAssumption DEF LoginState
  <2>4. e \in LoginState
    BY <2>2, <2>3 DEF LoginState
  <2> HIDE DEF e
  <2> QED BY <2>1, <2>4
<1> QED BY <1>1, <1>2

LEMMA LoginSteps ==
  ASSUME LoginInv, NEW p \in Process,
         \/ \E b \in Backend : Account!Begin(p, b)
         \/ Account!PollFails(p) \/ Account!NotYet(p) \/ Account!NoPost(p)
         \/ Account!SignedIn(p) \/ Account!Mint(p)
  PROVE  LoginInv'
<1>0. /\ login[p] \in LoginState /\ keys \in 0 .. MaxLogins /\ now \in 0 .. MaxTime
      /\ login \in [Process -> LoginState]
  BY DEF LoginInv
<1>1. CASE \E b \in Backend : Account!Begin(p, b)
  <2>1. PICK b \in Backend : Account!Begin(p, b)
    BY <1>1
  <2> DEFINE e == [Account!Polls EXCEPT !.backend = b]
  <2>2. e \in LoginState
    BY AwayIs DEF LoginState
  <2>3. login' = [login EXCEPT ![p] = e] /\ UNCHANGED <<disk, cache, now, others, keys>>
    BY <2>1 DEF Account!Begin, Account!Kept
  <2> HIDE DEF e
  <2> QED BY <1>0, <2>2, <2>3, LoginMoves
<1>2. CASE Account!PollFails(p)
  <2>1. login[p].errors + 1 \in 0 .. 3 /\ login[p].get \in BOOLEAN
    BY <1>0 DEF LoginState
  <2>2. PICK e \in LoginState : login' = [login EXCEPT ![p] = e]
    BY <1>2, <2>1, AgainIs DEF Account!PollFails
  <2> QED BY <1>0, <1>2, <2>2, LoginMoves DEF Account!PollFails, Account!Kept
<1>3. CASE Account!NotYet(p)
  <2>1. 0 \in 0 .. 3 /\ login[p].get \in BOOLEAN
    BY <1>0 DEF LoginState
  <2>2. PICK e \in LoginState : login' = [login EXCEPT ![p] = e]
    BY <1>3, <2>1, AgainIs DEF Account!NotYet
  <2> QED BY <1>0, <1>3, <2>2, LoginMoves DEF Account!NotYet, Account!Kept
<1>4. CASE Account!NoPost(p)
  <2>1. login[p].errors \in 0 .. 3
    BY <1>0 DEF LoginState
  <2>2. PICK e \in LoginState : login' = [login EXCEPT ![p] = e]
    BY <1>4, <2>1, AgainIs DEF Account!NoPost
  <2> QED BY <1>0, <1>4, <2>2, LoginMoves DEF Account!NoPost, Account!Kept
<1>5. CASE Account!SignedIn(p)
  <2>1. \E e \in LoginState : login' = [login EXCEPT ![p] = e]
    <3>1. CASE Account!Leaves(p)
      BY <3>1, AwayIs DEF Account!Leaves
    <3> DEFINE e == [login[p] EXCEPT !.at = "mint", !.expires = now + Lifetime,
                                     !.attempt = 0, !.errors = 0, !.get = FALSE]
    <3>2. CASE login' = [login EXCEPT ![p] = e]
      <4>1. now + Lifetime \in Nat
        BY <1>0, LoginAssumption
      <4>2. e \in LoginState
        BY <1>0, <4>1, Zeros DEF LoginState
      <4> HIDE DEF e
      <4> QED BY <3>2, <4>2
    <3> QED BY <1>5, <3>1, <3>2 DEF Account!SignedIn
  <2>2. PICK e \in LoginState : login' = [login EXCEPT ![p] = e]
    BY <2>1
  <2> QED BY <1>0, <1>5, <2>2, LoginMoves DEF Account!SignedIn, Account!Kept
<1>6. CASE Account!Mint(p)
  <2>1. keys' \in 0 .. MaxLogins
    BY <1>0, <1>6, LoginAssumption DEF Account!Mint
  <2>2. \E e \in LoginState : login' = [login EXCEPT ![p] = e]
    <3>1. CASE Account!Leaves(p)
      BY <3>1, AwayIs DEF Account!Leaves
    <3>2. CASE login' = [login EXCEPT ![p].at = "name", ![p].key = keys']
      <4> DEFINE e == [login[p] EXCEPT !.at = "name", !.key = keys']
      <4>1. login' = [login EXCEPT ![p] = e]
        BY <1>0, <3>2
      <4>2. e \in LoginState
        BY <1>0, <2>1 DEF LoginState
      <4> HIDE DEF e
      <4> QED BY <4>1, <4>2
    <3> QED BY <1>6, <3>1, <3>2 DEF Account!Mint
  <2>3. PICK e \in LoginState : login' = [login EXCEPT ![p] = e]
    BY <2>2
  <2> QED BY <1>6, <2>1, <2>3, LoginMoves DEF Account!Mint, Account!Kept
<1> QED BY <1>1, <1>2, <1>3, <1>4, <1>5, <1>6

\* A process changes the file: it forgets what it has read, and who has read the
\* file is among the others from now on.
LEMMA FileChanges ==
  ASSUME LoginInv, NEW p \in Process, NEW new \in Account!Credentials, Account!Changes(p, new),
         login' \in [Process -> LoginState], UNCHANGED <<now, keys>>
  PROVE  LoginInv'
<1>1. /\ disk' = new /\ cache' = [cache EXCEPT ![p] = Account!Unread]
      /\ others' = (Process \ {p}) \cap (others \cup {q \in Process : cache[q] # Account!Unread})
      /\ cache \in [Process -> Account!Credentials]
  BY DEF Account!Changes, LoginInv
<1>2. Account!Unread \in Account!Credentials
  BY LoginAssumption DEF Account!Unread, Account!Credentials, Account!Key
<1>3. \A q \in Process \ others' : cache'[q] = Account!Unread
  BY <1>1
<1> QED BY <1>1, <1>2, <1>3 DEF LoginInv

LEMMA NextLogin ==
  ASSUME LoginInv, [Account!Next]_accountVars
  PROVE  LoginInv'
<1>1. CASE UNCHANGED accountVars
  BY <1>1 DEF accountVars, LoginInv
<1>2. ASSUME NEW p \in Process, Account!Saved(p)
      PROVE  LoginInv'
  <2> DEFINE new == [key |-> login[p].key, backend |-> login[p].backend, expires |-> login[p].expires]
  <2>1. login[p] \in LoginState
    BY DEF LoginInv
  <2>2. new \in Account!Credentials
    BY <2>1 DEF LoginState, Account!Credentials, Account!Key
  <2>3. login' \in [Process -> LoginState]
    BY <1>2, AwayIs DEF Account!Saved, Account!Leaves, LoginInv
  <2>4. Account!Changes(p, new) /\ UNCHANGED <<now, keys>>
    BY <1>2 DEF Account!Saved
  <2> HIDE DEF new
  <2> QED BY <2>2, <2>3, <2>4, FileChanges
<1>3. ASSUME NEW p \in Process, Account!Logout(p)
      PROVE  LoginInv'
  <2>1. Account!Nothing \in Account!Credentials
    BY LoginAssumption DEF Account!Nothing, Account!Credentials, Account!Key
  <2> QED BY <1>3, <2>1, FileChanges DEF Account!Logout, LoginInv
<1>4. ASSUME NEW p \in Process, Account!Lookup(p)
      PROVE  LoginInv'
  BY <1>4 DEF Account!Lookup, Account!Known, LoginInv
<1>5. CASE Account!Tick
  BY <1>5, LoginAssumption DEF Account!Tick, LoginInv
<1>6. CASE Account!Next
  BY <1>2, <1>3, <1>4, <1>5, <1>6, LoginSteps DEF Account!Next, Account!Step
<1> QED BY <1>1, <1>6

\* A process is given the key that is stored, for any number of processes, services,
\* logins and attempts.
THEOREM KeysAreCurrentCorrect == Account!Spec => []KeysAreCurrent
<1>1. Account!Init => LoginInv
  BY InitLogin
<1>2. LoginInv /\ [Account!Next]_accountVars => LoginInv'
  BY NextLogin
<1>3. LoginInv => KeysAreCurrent
  <2> SUFFICES ASSUME LoginInv PROVE Account!KeysAreCurrent
    BY DEF KeysAreCurrent
  <2>1. Account!TypeOK
    <3>1. \A p \in Process : login[p] \in LoginState
      BY DEF LoginInv
    <3>2. 0 .. MaxAttempts - 1 \subseteq 0 .. MaxAttempts
      BY LoginAssumption
    <3> QED BY <3>1, <3>2 DEF LoginInv, LoginState, Account!TypeOK, Account!Key
  <2>2. \A p \in Process \ others : Account!Known(p) = disk
    BY DEF LoginInv, Account!Known
  <2> QED BY <2>1, <2>2 DEF Account!KeysAreCurrent, Account!Usable
<1> QED BY <1>1, <1>2, <1>3, PTL DEF Account!Spec, Account!loginVars, accountVars

-----------------------------------------------------------------------------
(* Redirections: what is found to be /dev/null is, so the property of the  *)
(* runs is inductive as it stands.                                         *)

LEMMA InitShell == Shell!Init => Shell!DevNullIsSound
BY DEF Shell!Init, Shell!DevNullIsSound, Shell!TypeOK, Shell!Fresh, Shell!Originals

\* A redirection that is allowed leads to /dev/null, or copies what is neither a file
\* nor anything else that is found to be /dev/null.
LEMMA RedirectStays ==
  ASSUME Shell!DevNullIsSound, allDevNull, NEW operator \in Shell!Operators,
         NEW fd \in Fd \cup {Shell!Default}, NEW target \in Shell!Targets,
         Shell!FileRedirect(operator, fd, target)
  PROVE  Shell!DevNullIsSound'
<1> DEFINE kind == Shell!Leads(operator, target)
           fds == Shell!DestinationFds(operator, fd)
           both == operator = ">&" /\ target \in {Shell!DevNull, Shell!Word} /\ fd = Shell!Default
           moved == operator \in {"<&", ">&"} /\ target \in Fd \cup {Shell!Dash}
           attached == IF moved THEN (IF target = Shell!Dash THEN "none" ELSE real[target])
                       ELSE IF target = Shell!DevNull THEN "dev-null" ELSE "file"
           Known == Shell!Originals \cup {"dev-null", "unsafe", "none"}
           Real == Shell!Originals \cup {"dev-null", "file", "text", "none"}
<1>1. /\ kinds \in [Fd -> Known] /\ real \in [Fd -> Real] /\ allDevNull \in BOOLEAN
      /\ \A d \in Fd : /\ real[d] # "file"
                       /\ kinds[d] = "dev-null" => real[d] \in {"dev-null", "text"}
  BY DEF Shell!DevNullIsSound, Shell!TypeOK
<1>2. /\ kinds' = [d \in Fd |-> IF d \in fds THEN kind ELSE kinds[d]]
      /\ allDevNull' = (allDevNull /\ kind # "unsafe")
      /\ real' = [d \in Fd |-> IF d \in (IF both THEN {1, 2} ELSE fds) THEN attached ELSE real[d]]
  BY DEF Shell!FileRedirect, Shell!Attached
<1>3. target \in Fd \/ target \in {Shell!Dash, Shell!DevNull, Shell!Word}
  BY DEF Shell!Targets, Shell!Dash, Shell!DevNull, Shell!Word
<1>4. /\ Shell!Dash \notin Fd /\ Shell!DevNull \notin Fd /\ Shell!Word \notin Fd
      /\ Shell!Dash # Shell!DevNull /\ Shell!Dash # Shell!Word /\ Shell!DevNull # Shell!Word
  BY RedirectAssumption DEF Shell!Dash, Shell!DevNull, Shell!Word
<1>5. kind \in Known
  <2>1. CASE operator = ">&"
    BY <1>1, <2>1 DEF Shell!Leads, Shell!IsSafe
  <2>2. CASE operator = "<&"
    BY <1>1, <2>2 DEF Shell!Leads
  <2>3. CASE operator \notin {">&", "<&"}
    BY <2>3 DEF Shell!Leads
  <2> QED BY <2>1, <2>2, <2>3
<1>6. attached \in Real
  BY <1>1, <1>3, <1>4
<1>7. kind # "unsafe" => /\ ~both /\ attached # "file"
                         /\ kind = "dev-null" => attached \in {"dev-null", "text"}
  <2>1. CASE operator = ">&"
    BY <1>1, <1>3, <1>4, <2>1 DEF Shell!Leads, Shell!IsSafe
  <2>2. CASE operator = "<&"
    BY <1>1, <1>3, <1>4, <2>2 DEF Shell!Leads
  <2>3. CASE operator \notin {">&", "<&"}
    BY <2>3 DEF Shell!Leads
  <2> QED BY <2>1, <2>2, <2>3
<1> HIDE DEF kind, fds, both, moved, attached
<1>8. kinds' \in [Fd -> Known] /\ real' \in [Fd -> Real] /\ allDevNull' \in BOOLEAN
  BY <1>1, <1>2, <1>5, <1>6
<1>9. allDevNull' => \A d \in Fd : /\ real'[d] # "file"
                                   /\ kinds'[d] = "dev-null" => real'[d] \in {"dev-null", "text"}
  BY <1>1, <1>2, <1>7
<1> QED BY <1>8, <1>9 DEF Shell!DevNullIsSound, Shell!TypeOK

LEMMA NextShell ==
  ASSUME Shell!DevNullIsSound, [Shell!Next]_shellVars
  PROVE  Shell!DevNullIsSound'
<1>1. CASE UNCHANGED shellVars
  BY <1>1 DEF shellVars, Shell!DevNullIsSound, Shell!TypeOK
<1>2. ASSUME allDevNull, NEW named \in BOOLEAN, Shell!HereDocument(named)
      PROVE  Shell!DevNullIsSound'
  BY <1>2 DEF Shell!HereDocument, Shell!DevNullIsSound, Shell!TypeOK
<1>3. CASE Shell!OtherRedirect
  BY <1>3 DEF Shell!OtherRedirect, Shell!DevNullIsSound, Shell!TypeOK
<1>4. CASE allDevNull /\ Shell!Inner
  BY <1>4 DEF Shell!Inner, Shell!DevNullIsSound, Shell!TypeOK, Shell!Fresh, Shell!Originals
<1>5. CASE Shell!Next
  BY <1>2, <1>3, <1>4, <1>5, RedirectStays DEF Shell!Next
<1> QED BY <1>1, <1>5

\* What is found to be /dev/null is, for any descriptors and any number of
\* redirections and statements.
THEOREM DevNullIsSoundCorrect == Shell!Spec => []DevNullIsSound
<1>1. Shell!DevNullIsSound => DevNullIsSound
  BY DEF DevNullIsSound
<1> QED BY <1>1, InitShell, NextShell, PTL DEF Shell!Spec, Shell!redirectVars, shellVars

-----------------------------------------------------------------------------
(* The helper of the sandbox.                                              *)

HelperTask == [at : {"starts", "ready", "document", "writes", "spawns", "over"},
               job : {"preflight", "command"}, written : Nat, requested : BOOLEAN,
               runtime : {"none", "supported", "unsupported"}]
HelperTyped ==
  /\ site \in Sites /\ tick \in Nat /\ policies \subseteq [by : Thread, at : Nat]
  /\ cleaned \in [Process -> Nat] /\ tasks \in [Thread -> HelperTask]
  /\ preflight \in [Process -> {"unknown", "supported", "unsupported"}]
  /\ passed \subseteq Process

PoliciesKept ==
  \A t \in Thread : tasks[t].at = "spawns" => Helper!HasPolicy(t) \/ tick - tasks[t].written > MaxAge

\* who asked for a sandbox has it, and on Linux after a preflight
GoesOnSoundly(e, hasPassed) ==
  e.requested /\ (e.at = "ready" \/ e.job = "command")
    => e.runtime = "supported" /\ (site.platform = "linux" => hasPassed)
Preflights ==
  /\ \A p \in Process : preflight[p] = "supported" => p \in passed
  /\ \A t \in Thread : GoesOnSoundly(tasks[t], Helper!ProcessOf(t) \in passed)

\* a runtime is made once
StartsOnce == \A t \in Thread : tasks[t].at = "starts" => tasks[t].job = "preflight"

HelperInv == HelperTyped /\ PoliciesKept /\ Preflights /\ StartsOnce

\* A nonempty set of numbers has a least one.
LEMMA Least ==
  ASSUME NEW T, T \subseteq Nat, T # {}
  PROVE  \E x \in T : \A y \in T : x <= y
<1> DEFINE Lower == OpToRel(<, Nat)
<1>1. IsWellFoundedOn(Lower, Nat)
  BY NatLessThanWellFounded
<1>2. \A x, y \in Nat : x < y => <<x, y>> \in Lower
  BY DEF OpToRel
<1> HIDE DEF Lower
<1>3. PICK x \in T : \A y \in T : ~ (<<y, x>> \in Lower)
  BY <1>1, WFMin
<1>4. \A y \in T : ~(y < x) /\ x \in Nat /\ y \in Nat
  BY <1>2, <1>3
<1>5. \A y \in T : x <= y
  BY <1>4
<1> QED BY <1>5

LEMMA NearestIs ==
  ASSUME NEW dirs, dirs # {}, NEW n \in Nat, \A d \in dirs : Len(d) \in 0 .. n
  PROVE  Helper!Nearest(dirs) \in dirs
<1> DEFINE T == {n - Len(d) : d \in dirs}
<1>1. T \subseteq Nat /\ T # {}
  OBVIOUS
<1>2. PICK x \in T : \A y \in T : x <= y
  BY <1>1, Least
<1>3. PICK d \in dirs : x = n - Len(d)
  OBVIOUS
<1>4. \A e \in dirs : n - Len(d) <= n - Len(e)
  BY <1>2, <1>3
<1>5. \A e \in dirs : Len(e) <= Len(d)
  BY <1>4
<1> HIDE DEF T
<1> QED BY <1>5 DEF Helper!Nearest

LEMMA AboveIs ==
  ASSUME NEW dir \in Seq(STRING), NEW d \in Helper!Above(dir)
  PROVE  Len(d) \in 0 .. Len(dir) /\ Helper!IsPrefix(d, dir)
<1>1. PICK n \in 0 .. Len(dir) : d = SubSeq(dir, 1, n)
  BY DEF Helper!Above
<1>2. Len(dir) \in Nat /\ n \in Nat
  BY LenProperties
<1>3. Len(d) = n /\ d \in Seq(STRING)
  BY <1>1, <1>2, SubSeqProperties
<1>4. SubSeq(d, 1, Len(d)) = d
  BY <1>3, SubSeqFull
<1> QED BY <1>1, <1>3, <1>4 DEF Helper!IsPrefix

\* The search for a helper: it is below the program, or not of the workspace.
LEMMA FoundOutside ==
  ASSUME HelperTyped
  PROVE  LET helper == Helper!Locate(Workdir)
         IN  helper # <<>> /\ Helper!UnderAny(helper[1].dir, {Workdir} \cup Helper!GitRoot(Workdir))
               => helper[1].by \in {"user", "path"} \/ Helper!IsPrefix(helper[1].dir, site.program)
<1> DEFINE ofProgram == Helper!Above(site.program) \cap site.helpers
           ofInterpreter ==
             {d \in (Helper!Above(site.interpreter) \ Helper!Above(site.program)) \cap site.helpers :
                ~Helper!UnderAny(d, Helper!Excluded(Workdir))}
<1>1. site.program \in Seq(STRING) /\ site.interpreter \in Seq(STRING)
  BY SitesAssumption DEF HelperTyped
<1>2. Len(site.program) \in Nat /\ Len(site.interpreter) \in Nat
  BY <1>1, LenProperties
<1>3. ofProgram # {} => Helper!Nearest(ofProgram) \in ofProgram
  BY <1>1, <1>2, AboveIs, NearestIs
<1>4. ofInterpreter # {} => Helper!Nearest(ofInterpreter) \in ofInterpreter
  BY <1>1, <1>2, AboveIs, NearestIs
<1>5. CASE site.named # <<>> \/ site.path # <<>>
  BY <1>5 DEF Helper!Locate
<1>6. CASE site.named = <<>> /\ site.path = <<>> /\ ofProgram # {}
  <2>1. Helper!Locate(Workdir) = <<[by |-> "program", dir |-> Helper!Nearest(ofProgram)]>>
    BY <1>6 DEF Helper!Locate
  <2>2. Helper!IsPrefix(Helper!Nearest(ofProgram), site.program)
    BY <1>1, <1>3, <1>6, AboveIs
  <2> QED BY <2>1, <2>2
<1>7. CASE site.named = <<>> /\ site.path = <<>> /\ ofProgram = {} /\ ofInterpreter # {}
  <2>1. Helper!Locate(Workdir) = <<[by |-> "interpreter", dir |-> Helper!Nearest(ofInterpreter)]>>
    BY <1>7 DEF Helper!Locate
  <2>2. ~Helper!UnderAny(Helper!Nearest(ofInterpreter), {Workdir} \cup Helper!GitRoot(Workdir))
    BY <1>4, <1>7 DEF Helper!Excluded
  <2> QED BY <2>1, <2>2
<1>8. CASE site.named = <<>> /\ site.path = <<>> /\ ofProgram = {} /\ ofInterpreter = {}
  BY <1>8 DEF Helper!Locate
<1> QED BY <1>5, <1>6, <1>7, <1>8

LEMMA InitHelper == Helper!Init => HelperInv
<1> SUFFICES ASSUME Helper!Init PROVE HelperInv
  OBVIOUS
<1>1. HelperTyped
  BY SitesAssumption, AgeAssumption DEF Helper!Init, HelperTyped, HelperTask
<1>2. PoliciesKept /\ Preflights /\ StartsOnce
  BY <1>1 DEF Helper!Init, PoliciesKept, Preflights, GoesOnSoundly, StartsOnce, HelperTyped
<1> QED BY <1>1, <1>2 DEF HelperInv

LEMMA ProcessIs == ASSUME HelperTyped, NEW t \in Thread PROVE Helper!ProcessOf(t) \in Process
BY SitesAssumption DEF HelperTyped, Helper!ProcessOf

\* A thread moves on.
LEMMA ThreadMoves ==
  ASSUME HelperInv, NEW t \in Thread, NEW e \in HelperTask, tasks' = [tasks EXCEPT ![t] = e],
         e.at \notin {"spawns", "starts"}, GoesOnSoundly(e, Helper!ProcessOf(t) \in passed'),
         passed \subseteq passed', passed' \subseteq Process,
         preflight' \in [Process -> {"unknown", "supported", "unsupported"}],
         \A p \in Process : preflight'[p] = "supported" => p \in passed',
         UNCHANGED <<site, tick, policies, cleaned>>
  PROVE  HelperInv'
<1>1. HelperTyped'
  BY DEF HelperInv, HelperTyped
<1>2. tasks'[t] = e /\ \A u \in Thread : u # t => tasks'[u] = tasks[u]
  BY DEF HelperInv, HelperTyped
<1>3. PoliciesKept'
  BY <1>2 DEF HelperInv, PoliciesKept, Helper!HasPolicy
<1>4. Preflights'
  <2>1. \A u \in Thread : GoesOnSoundly(tasks'[u], Helper!ProcessOf(u) \in passed')
    BY <1>2 DEF HelperInv, Preflights, GoesOnSoundly
  <2> QED BY <2>1 DEF Preflights, GoesOnSoundly, Helper!ProcessOf
<1>5. StartsOnce'
  BY <1>2 DEF HelperInv, StartsOnce
<1> QED BY <1>1, <1>3, <1>4, <1>5 DEF HelperInv

\* A runtime is made, and is there or refused.
LEMMA SaysIs ==
  ASSUME HelperInv, NEW t \in Thread, NEW requested \in BOOLEAN,
         NEW answer \in {"supported", "unsupported"}, Helper!Says(t, requested, answer),
         tasks[t].job = "preflight"
  PROVE  \E e \in HelperTask : /\ tasks' = [tasks EXCEPT ![t] = e] /\ e.at \notin {"spawns", "starts"}
                               /\ e.job = "preflight" /\ e.requested = requested
                               /\ e.at = "ready" => ~requested \/ answer = "supported"
                               /\ e.runtime = answer
<1> DEFINE e == [tasks[t] EXCEPT !.at = IF requested /\ answer = "unsupported" THEN "over" ELSE "ready",
                                 !.requested = requested, !.runtime = answer]
<1>0. tasks[t] \in HelperTask /\ tasks \in [Thread -> HelperTask]
  BY DEF HelperInv, HelperTyped
<1>1. tasks' = [tasks EXCEPT ![t] = e]
  BY <1>0 DEF Helper!Says
<1>2. /\ e \in HelperTask /\ e.at \notin {"spawns", "starts"} /\ e.job = "preflight" /\ e.requested = requested
      /\ e.at = "ready" => ~requested \/ answer = "supported"
      /\ e.runtime = answer
  BY <1>0 DEF HelperTask
<1> HIDE DEF e
<1> QED BY <1>1, <1>2

LEMMA RuntimesStay ==
  ASSUME HelperInv, NEW t \in Thread,
         \/ \E requested \in BOOLEAN : Helper!NewRuntime(t, requested)
         \/ Helper!RunCommand(t) \/ Helper!Spawn(t)
  PROVE  HelperInv'
<1>0. /\ tasks[t] \in HelperTask /\ tasks \in [Thread -> HelperTask] /\ passed \subseteq Process
      /\ preflight \in [Process -> {"unknown", "supported", "unsupported"}]
      /\ Helper!ProcessOf(t) \in Process
      /\ GoesOnSoundly(tasks[t], Helper!ProcessOf(t) \in passed)
      /\ \A p \in Process : preflight[p] = "supported" => p \in passed
      /\ tasks[t].at = "starts" => tasks[t].job = "preflight"
  BY ProcessIs DEF HelperInv, HelperTyped, Preflights, StartsOnce
<1>3. ASSUME NEW requested \in BOOLEAN, Helper!NewRuntime(t, requested)
      PROVE  HelperInv'
  <2> DEFINE answer == Helper!Answer(Helper!ProcessOf(t), requested)
  <2>1. UNCHANGED <<site, tick, policies, cleaned, preflight, passed>> /\ tasks[t].at = "starts"
    BY <1>3 DEF Helper!NewRuntime
  <2>2. /\ answer \in {"unknown", "supported", "unsupported"}
        /\ requested /\ answer = "supported" /\ site.platform = "linux" => Helper!ProcessOf(t) \in passed
    BY <1>0 DEF Helper!Answer
  <2>3. IF answer = "unknown"
        THEN tasks' = [tasks EXCEPT ![t].at = "document", ![t].requested = requested]
        ELSE Helper!Says(t, requested, answer)
    BY <1>3 DEF Helper!NewRuntime
  <2> HIDE DEF answer
  <2>4. CASE answer = "unknown"
    <3> DEFINE e == [tasks[t] EXCEPT !.at = "document", !.requested = requested]
    <3>1. tasks' = [tasks EXCEPT ![t] = e]
      BY <1>0, <2>3, <2>4
    <3>2. e \in HelperTask /\ e.at = "document" /\ e.job = "preflight"
      BY <1>0, <2>1 DEF HelperTask
    <3> HIDE DEF e
    <3>3. GoesOnSoundly(e, Helper!ProcessOf(t) \in passed')
      BY <3>2 DEF GoesOnSoundly
    <3> QED BY <1>0, <2>1, <3>1, <3>2, <3>3, ThreadMoves
  <2>5. CASE answer # "unknown"
    <3>1. PICK e \in HelperTask : /\ tasks' = [tasks EXCEPT ![t] = e] /\ e.at \notin {"spawns", "starts"}
                                  /\ e.job = "preflight" /\ e.requested = requested
                                  /\ e.at = "ready" => ~requested \/ answer = "supported"
                                  /\ e.runtime = answer
      BY <1>0, <2>1, <2>2, <2>3, <2>5, SaysIs
    <3>2. GoesOnSoundly(e, Helper!ProcessOf(t) \in passed')
      BY <2>1, <2>2, <3>1 DEF GoesOnSoundly
    <3> QED BY <1>0, <2>1, <3>1, <3>2, ThreadMoves
  <2> QED BY <2>4, <2>5
<1>4. CASE Helper!RunCommand(t)
  <2> DEFINE e == [tasks[t] EXCEPT !.at = "document", !.job = "command"]
  <2>1. tasks' = [tasks EXCEPT ![t] = e]
    BY <1>0, <1>4 DEF Helper!RunCommand
  <2>2. /\ e \in HelperTask /\ e.at = "document" /\ e.runtime = tasks[t].runtime
        /\ e.requested = tasks[t].requested
    BY <1>0 DEF HelperTask
  <2>3. UNCHANGED <<site, tick, policies, cleaned, preflight, passed>> /\ tasks[t].at = "ready"
    BY <1>4 DEF Helper!RunCommand
  <2> HIDE DEF e
  <2>4. GoesOnSoundly(e, Helper!ProcessOf(t) \in passed')
    BY <1>0, <2>2, <2>3 DEF GoesOnSoundly
  <2> QED BY <1>0, <2>1, <2>2, <2>3, <2>4, ThreadMoves
<1>5. CASE Helper!Spawn(t)
  <2>1. CASE Helper!Ran(t)
    <3> DEFINE e == [tasks[t] EXCEPT !.at = "over"]
    <3>1. tasks' = [tasks EXCEPT ![t] = e]
      BY <1>0, <2>1 DEF Helper!Ran, Helper!To
    <3>2. UNCHANGED <<site, tick, policies, cleaned, preflight, passed>>
      BY <2>1 DEF Helper!Ran
    <3>3. /\ e \in HelperTask /\ e.at = "over" /\ e.runtime = tasks[t].runtime
          /\ e.requested = tasks[t].requested /\ e.job = tasks[t].job
      BY <1>0 DEF HelperTask
    <3> HIDE DEF e
    <3>4. GoesOnSoundly(e, Helper!ProcessOf(t) \in passed')
      BY <1>0, <3>2, <3>3 DEF GoesOnSoundly
    <3> QED BY <1>0, <3>1, <3>2, <3>3, <3>4, ThreadMoves
  <2>2. ASSUME NEW ok \in BOOLEAN, Helper!Preflighted(t, ok)
        PROVE  HelperInv'
    <3> DEFINE answer == IF ok THEN "supported" ELSE "unsupported"
    <3>1. /\ Helper!Says(t, tasks[t].requested, answer) /\ UNCHANGED <<site, tick, policies, cleaned>>
          /\ preflight' = [preflight EXCEPT ![Helper!ProcessOf(t)] = answer]
          /\ passed' = IF ok THEN passed \cup {Helper!ProcessOf(t)} ELSE passed
          /\ tasks[t].job = "preflight"
      BY <2>2 DEF Helper!Preflighted
    <3>2. answer \in {"supported", "unsupported"} /\ (answer = "supported" <=> ok)
      OBVIOUS
    <3> HIDE DEF answer
    <3>a. tasks[t].requested \in BOOLEAN
      BY <1>0 DEF HelperTask
    <3>3. PICK e \in HelperTask : /\ tasks' = [tasks EXCEPT ![t] = e] /\ e.at \notin {"spawns", "starts"}
                                  /\ e.job = "preflight" /\ e.requested = tasks[t].requested
                                  /\ e.at = "ready" => ~tasks[t].requested \/ answer = "supported"
                                  /\ e.runtime = answer
      BY <3>1, <3>2, <3>a, SaysIs
    <3>4. /\ passed \subseteq passed' /\ passed' \subseteq Process
          /\ preflight' \in [Process -> {"unknown", "supported", "unsupported"}]
          /\ answer = "supported" => Helper!ProcessOf(t) \in passed'
      BY <1>0, <3>1, <3>2
    <3>5. \A p \in Process : preflight'[p] = "supported" => p \in passed'
      BY <1>0, <3>1, <3>4
    <3>6. GoesOnSoundly(e, Helper!ProcessOf(t) \in passed')
      BY <3>3, <3>4 DEF GoesOnSoundly
    <3> QED BY <3>1, <3>3, <3>4, <3>5, <3>6, ThreadMoves
  <2> QED BY <1>5, <2>1, <2>2 DEF Helper!Spawn
<1> QED BY <1>3, <1>4, <1>5

\* The directory is cleared: what is left is what was there, and what is gone was of age.
LEMMA Clears ==
  ASSUME HelperInv, NEW p \in Process, Helper!PolicyDir(p), NEW kept \in Helper!Kept(p)
  PROVE  /\ cleaned' \in [Process -> Nat] /\ kept \subseteq policies
         /\ \A f \in policies : f \in kept \/ tick - f.at > MaxAge
<1>1. tick \in Nat /\ cleaned \in [Process -> Nat]
  BY DEF HelperInv, HelperTyped
<1>2. CASE Helper!Due(p)
  <2>1. cleaned' \in [Process -> Nat]
    BY <1>1, <1>2 DEF Helper!PolicyDir
  <2>2. PICK spared \in SUBSET {f \in policies : Helper!Old(f)} :
          kept = {f \in policies : ~Helper!Old(f)} \cup spared
    BY <1>2 DEF Helper!Kept
  <2> QED BY <2>1, <2>2 DEF Helper!Old
<1>3. CASE ~Helper!Due(p)
  BY <1>1, <1>3 DEF Helper!PolicyDir, Helper!Kept
<1> QED BY <1>2, <1>3

LEMMA PoliciesStay ==
  ASSUME HelperInv, NEW t \in Thread,
         Helper!HelperDocument(t) \/ Helper!WritePolicyFile(t) \/ Helper!NoPolicyFile(t)
  PROVE  HelperInv'
<1> DEFINE p == Helper!ProcessOf(t)
           new == [by |-> t, at |-> tick]
<1>1. /\ p \in Process /\ UNCHANGED <<site, tick, preflight, passed>> /\ tick \in Nat
      /\ tasks \in [Thread -> HelperTask] /\ policies \subseteq [by : Thread, at : Nat]
      /\ cleaned \in [Process -> Nat] /\ GoesOnSoundly(tasks[t], p \in passed)
  BY ProcessIs DEF Helper!HelperDocument, Helper!WritePolicyFile, Helper!NoPolicyFile, HelperInv, HelperTyped,
     Preflights
<1>2. new \in [by : Thread, at : Nat]
  BY <1>1
<1>3. /\ cleaned' \in [Process -> Nat] /\ policies' \subseteq policies \cup {new}
      /\ \A f \in policies : f \in policies' \/ tick - f.at > MaxAge
  <2>1. CASE UNCHANGED <<policies, cleaned>>
    BY <1>1, <2>1
  <2>2. ASSUME Helper!PolicyDir(p), NEW kept \in Helper!Kept(p),
               policies' = kept \/ policies' = kept \cup {new}
        PROVE  <1>3
    BY <1>1, <2>2, Clears
  <2>3. CASE Helper!HelperDocument(t) \/ Helper!NoPolicyFile(t)
    BY <2>1, <2>2, <2>3 DEF Helper!HelperDocument, Helper!NoPolicyFile
  <2>4. CASE Helper!WritePolicyFile(t)
    <3>1. PICK kept \in Helper!Kept(p) : policies' = kept \cup {new}
      BY <2>4 DEF Helper!WritePolicyFile
    <3> QED BY <2>2, <2>4, <3>1 DEF Helper!WritePolicyFile
  <2> QED BY <2>3, <2>4
<1>4. \E e \in HelperTask : /\ tasks' = [tasks EXCEPT ![t] = e] /\ e.runtime = tasks[t].runtime
                            /\ e.requested = tasks[t].requested /\ e.job = tasks[t].job /\ e.at \notin {"ready", "starts"}
                            /\ e.at = "spawns" => e.written = tick /\ new \in policies'
  <2>1. ASSUME NEW at \in {"writes", "over"}, Helper!To(t, at)
        PROVE  <1>4
    <3> DEFINE e == [tasks[t] EXCEPT !.at = at]
    <3>1. tasks' = [tasks EXCEPT ![t] = e]
      BY <1>1, <2>1 DEF Helper!To
    <3>2. /\ e \in HelperTask /\ e.at = at /\ e.runtime = tasks[t].runtime
          /\ e.requested = tasks[t].requested /\ e.job = tasks[t].job
      BY <1>1 DEF HelperTask
    <3> HIDE DEF e
    <3> QED BY <3>1, <3>2
  <2>2. CASE Helper!HelperDocument(t) \/ Helper!NoPolicyFile(t)
    BY <2>1, <2>2 DEF Helper!HelperDocument, Helper!NoPolicyFile
  <2>3. CASE Helper!WritePolicyFile(t)
    <3> DEFINE e == [tasks[t] EXCEPT !.at = "spawns", !.written = tick]
    <3>1. tasks' = [tasks EXCEPT ![t] = e] /\ new \in policies'
      BY <1>1, <2>3 DEF Helper!WritePolicyFile
    <3>2. /\ e \in HelperTask /\ e.written = tick /\ e.runtime = tasks[t].runtime /\ e.at = "spawns"
          /\ e.requested = tasks[t].requested /\ e.job = tasks[t].job
      BY <1>1 DEF HelperTask
    <3> HIDE DEF e
    <3> QED BY <3>1, <3>2
  <2> QED BY <2>2, <2>3
<1>5. PICK e \in HelperTask : /\ tasks' = [tasks EXCEPT ![t] = e] /\ e.runtime = tasks[t].runtime
                              /\ e.requested = tasks[t].requested /\ e.job = tasks[t].job /\ e.at \notin {"ready", "starts"}
                              /\ e.at = "spawns" => e.written = tick /\ new \in policies'
  BY <1>4
<1>6. /\ tasks'[t] = e /\ \A u \in Thread : u # t => tasks'[u] = tasks[u]
      /\ tasks' \in [Thread -> HelperTask]
  BY <1>1, <1>5
<1>8. HelperTyped'
  BY <1>1, <1>2, <1>3, <1>6 DEF HelperInv, HelperTyped
<1>9. PoliciesKept'
  <2>1. tasks'[t].at = "spawns" => [by |-> t, at |-> tasks'[t].written] \in policies'
    BY <1>5, <1>6
  <2>2. \A u \in Thread : u # t /\ tasks'[u].at = "spawns" =>
          [by |-> u, at |-> tasks[u].written] \in policies \/ tick - tasks[u].written > MaxAge
    BY <1>6 DEF HelperInv, PoliciesKept, Helper!HasPolicy
  <2>3. \A u \in Thread : [by |-> u, at |-> tasks[u].written] \in policies =>
          [by |-> u, at |-> tasks[u].written] \in policies' \/ tick - tasks[u].written > MaxAge
    BY <1>3
  <2> QED BY <1>1, <1>6, <2>1, <2>2, <2>3 DEF PoliciesKept, Helper!HasPolicy
<1>10. Preflights'
  <2>1. GoesOnSoundly(e, p \in passed)
    BY <1>1, <1>5 DEF GoesOnSoundly
  <2>2. \A u \in Thread : GoesOnSoundly(tasks'[u], Helper!ProcessOf(u) \in passed)
    BY <1>6, <2>1 DEF HelperInv, Preflights
  <2> QED BY <1>1, <2>2 DEF HelperInv, Preflights, GoesOnSoundly, Helper!ProcessOf
<1>11. StartsOnce'
  BY <1>5, <1>6 DEF HelperInv, StartsOnce
<1> QED BY <1>8, <1>9, <1>10, <1>11 DEF HelperInv

LEMMA TickStays ==
  ASSUME HelperInv, Helper!Tick
  PROVE  HelperInv'
<1>1. /\ tick' = tick + 1 /\ UNCHANGED <<site, policies, cleaned, preflight, tasks, passed>>
      /\ tick \in Nat /\ tasks \in [Thread -> HelperTask]
  BY DEF Helper!Tick, HelperInv, HelperTyped
<1>2. HelperTyped' /\ Preflights' /\ StartsOnce'
  BY <1>1 DEF HelperInv, HelperTyped, Preflights, GoesOnSoundly, StartsOnce, Helper!ProcessOf
<1>3. \A t \in Thread : tasks[t].written \in Nat
  BY <1>1 DEF HelperTask
<1>4. \A t \in Thread : tick - tasks[t].written > MaxAge => tick' - tasks[t].written > MaxAge
  BY <1>1, <1>3, AgeAssumption
<1>5. PoliciesKept'
  BY <1>1, <1>4 DEF HelperInv, PoliciesKept, Helper!HasPolicy
<1> QED BY <1>2, <1>5 DEF HelperInv

LEMMA NextHelper ==
  ASSUME HelperInv, [Helper!Next]_sandboxVars
  PROVE  HelperInv'
<1>1. CASE UNCHANGED sandboxVars
  BY <1>1 DEF sandboxVars, HelperInv, HelperTyped, PoliciesKept, Preflights, GoesOnSoundly, StartsOnce,
     Helper!HasPolicy, Helper!ProcessOf
<1>2. CASE Helper!Next
  BY <1>2, RuntimesStay, PoliciesStay, TickStays DEF Helper!Next
<1> QED BY <1>1, <1>2

\* A helper that starts has its policy, who asked for a sandbox goes on only where it
\* counts as supported, on Linux only after a preflight, and the helper is of the
\* workspace only where the user, the search path or the program leads there, for any
\* number of threads and processes and whatever is installed where.
THEOREM HelperIsSoundCorrect == Helper!Spec => []HelperIsSound
<1>1. Helper!Init => HelperInv
  BY InitHelper
<1>2. HelperInv /\ [Helper!Next]_sandboxVars => HelperInv'
  BY NextHelper
<1>3. HelperInv => HelperIsSound
  BY FoundOutside DEF HelperIsSound, Helper!HelperIsSound, HelperInv, PoliciesKept, Preflights, GoesOnSoundly
<1> QED BY <1>1, <1>2, <1>3, PTL DEF Helper!Spec, Helper!sandboxVars, sandboxVars

-----------------------------------------------------------------------------
(* The documents over a store: which call follows which in what a task has *)
(* still to do, and what holds when it has come to a call.                 *)

DocNames == {"find agent", "find active", "find pending", "check agent", "check active", "count runs",
             "runs.create", "read run", "write run", "read agent", "write agent", "append", "drive",
             "find run", "runs.delete", "checkpoints.delete", "agents.delete"}
DocArgs == {"", "follow", "running", "idle", "archived"} \cup Documents!Terminal
DocCalls == [call : DocNames, arg : DocArgs]
DocTask == [todo : Seq(DocCalls), run : Documents!Run \cup {0},
            read : Documents!AgentDocs \cup Documents!RunDocs \cup {Documents!Nil}, forced : BOOLEAN]
Looks == {"find pending", "check agent"}      \* where a send looks at the agent

\* What may be behind a call a: the next ones are b and c, and there are left.
Follows(a, b, c, left) ==
  /\ a.call = "find agent" => /\ left > 0 => b.call = "find active"
                              /\ left > 1 => c.call \in Looks
  /\ a.call = "find active" /\ left > 0 => b.call \in Looks
  /\ a.call \in {"find pending", "drive", "agents.delete"} => left = 0
  /\ a.call = "check agent" /\ left > 0 => b.call = "check active"
  /\ a.call = "check active" /\ left > 0 => b.call = "count runs"
  /\ a.call = "count runs" /\ left > 0 => b.call = "runs.create"
  /\ a.call = "runs.create" => left > 1 /\ b.call = "read agent" /\ c.arg = "follow"
  /\ a.call = "read run" => left > 2 /\ b.call = "write run"
  /\ a.call = "write run" => /\ left > 1 /\ b.call = "read agent" /\ c.arg = a.arg
                             /\ a.arg \in Documents!Terminal \cup {"running"}
  /\ a.call = "read agent" => left > 0 /\ b.call = "write agent"
  /\ a.call = "write agent" =>
       /\ a.arg \in {"follow", "running", "idle", "archived"} \cup Documents!Terminal
       /\ a.arg = "follow" /\ left > 0 => left > 1 /\ b.call = "read run" /\ c.arg = "running"
       /\ a.arg \in {"idle", "archived"} => left = 0
       /\ a.arg \in Documents!Terminal \cup {"running"} /\ left > 0 => b.call = "append"
  /\ a.call = "append" /\ left > 0 =>
       /\ b.call \in {"append", "drive", "read run"} \cup Looks
       /\ b.call = "read run" => left > 1 /\ c.arg # "running"
  /\ a.call = "find run" /\ left > 0 => left > 1 /\ b.call = "read run" /\ c.arg # "running"
  /\ a.call = "runs.delete" => left > 1 /\ b.call = "checkpoints.delete"
  /\ a.call = "checkpoints.delete" => left > 0 /\ b.call = "agents.delete"
LooksNoMore(a) == \/ a.call \in {"check active", "count runs", "runs.create"} \cup Looks
                  \/ a.call = "write agent" /\ a.arg \in {"follow", "running"}
FitsAt(p, i) ==
  /\ Follows(p[i], p[i + 1], p[i + 2], Len(p) - i)
  /\ LooksNoMore(p[i]) => \A j \in i + 1 .. Len(p) : p[j].call \notin Looks
Fits(p) == \A i \in 1 .. Len(p) : FitsAt(p, i)
Ahead(p) == \E i \in 1 .. Len(p) : p[i].call \in Looks
Creates(p) == \E i \in 1 .. Len(p) : p[i].call = "runs.create"
Unarchives(p) == \E i \in 1 .. Len(p) : p[i] = Documents!Call("write agent", "idle")

\* q is what is behind the first k calls of p.
Behind(q, p, k) == /\ q \in Seq(DocCalls) /\ Len(q) = Len(p) - k
                   /\ \A i \in 1 .. Len(q) : q[i] = p[i + k]

LEMMA FollowsOne == \A a, b, c, d : Follows(a, b, c, 1) <=> Follows(a, b, d, 1)
BY DEF Follows
LEMMA FollowsNone == \A a, b, c, d, e : Follows(a, b, c, 0) <=> Follows(a, d, e, 0)
BY DEF Follows

LEMMA FitsShifted ==
  ASSUME NEW p, NEW q, NEW k \in Nat, Len(p) \in Nat, Len(q) = Len(p) - k, Len(q) \in Nat,
         \A i \in 1 .. Len(q) : q[i] = p[i + k], NEW i \in 1 .. Len(q), NEW m \in Nat, m = i + k
  PROVE  FitsAt(q, i) <=> FitsAt(p, m)
<1>1. ASSUME NEW j \in 0 .. 2, i + j \in 1 .. Len(q) PROVE q[i + j] = p[m + j]
  <2>1. PICK n \in 1 .. Len(q) : n = i + j
    BY <1>1
  <2>2. q[n] = p[n + k]
    OBVIOUS
  <2>3. n + k = m + j
    BY <2>1
  <2> QED BY <2>1, <2>2, <2>3
<1>2. /\ (i < Len(q) <=> m < Len(p)) /\ (i = Len(q) <=> m = Len(p))
      /\ (i + 1 < Len(q) <=> m + 1 < Len(p)) /\ (i + 2 < Len(q) <=> m + 2 < Len(p))
  OBVIOUS
<1>3. /\ q[i] = p[m] /\ (i < Len(q) => q[i + 1] = p[m + 1])
      /\ (i + 1 < Len(q) => q[i + 2] = p[m + 2])
  <2>1. i + 0 \in 1 .. Len(q) /\ i + 0 = i /\ m + 0 = m
    OBVIOUS
  <2>2. q[i] = p[m]
    BY <1>1, <2>1
  <2>3. i < Len(q) => i + 1 \in 1 .. Len(q)
    OBVIOUS
  <2>4. i + 1 < Len(q) => i + 2 \in 1 .. Len(q)
    OBVIOUS
  <2> QED BY <1>1, <2>2, <2>3, <2>4
<1>4. (\A j \in i + 1 .. Len(q) : q[j].call \notin Looks) <=> (\A j \in m + 1 .. Len(p) : p[j].call \notin Looks)
  <2>1. ASSUME \A j \in i + 1 .. Len(q) : q[j].call \notin Looks, NEW j \in m + 1 .. Len(p)
        PROVE  p[j].call \notin Looks
    <3>1. j - k \in i + 1 .. Len(q) /\ j - k \in 1 .. Len(q) /\ (j - k) + k = j
      OBVIOUS
    <3>2. q[j - k] = p[(j - k) + k]
      BY <3>1
    <3> QED BY <2>1, <3>1, <3>2
  <2>2. ASSUME \A j \in m + 1 .. Len(p) : p[j].call \notin Looks, NEW j \in i + 1 .. Len(q)
        PROVE  q[j].call \notin Looks
    <3>1. j \in 1 .. Len(q) /\ j + k \in m + 1 .. Len(p)
      OBVIOUS
    <3>2. q[j] = p[j + k]
      BY <3>1
    <3> QED BY <2>2, <3>1, <3>2
  <2> QED BY <2>1, <2>2
<1>5. Len(q) - i = Len(p) - m /\ Len(q) - i \in Nat
  OBVIOUS
<1>6. Follows(q[i], q[i + 1], q[i + 2], Len(q) - i) <=> Follows(p[m], p[m + 1], p[m + 2], Len(q) - i)
  <2>1. CASE Len(q) - i > 1
    <3>1. q[i] = p[m] /\ q[i + 1] = p[m + 1] /\ q[i + 2] = p[m + 2]
      BY <1>3, <2>1
    <3> QED BY <3>1
  <2>2. CASE Len(q) - i = 1
    <3>1. q[i] = p[m] /\ q[i + 1] = p[m + 1]
      BY <1>3, <2>2
    <3>3. Follows(q[i], q[i + 1], q[i + 2], 1) <=> Follows(q[i], q[i + 1], p[m + 2], 1)
      BY FollowsOne
    <3> QED BY <2>2, <3>1, <3>3
  <2>3. CASE Len(q) - i = 0
    <3>2. Follows(q[i], q[i + 1], q[i + 2], 0) <=> Follows(q[i], p[m + 1], p[m + 2], 0)
      BY FollowsNone
    <3>3. Follows(q[i], p[m + 1], p[m + 2], 0) <=> Follows(p[m], p[m + 1], p[m + 2], 0)
      BY <1>3
    <3> QED BY <2>3, <3>2, <3>3
  <2>4. Len(q) - i > 1 \/ Len(q) - i = 1 \/ Len(q) - i = 0
    BY <1>5
  <2> QED BY <2>1, <2>2, <2>3, <2>4
<1>7. q[i] = p[m]
  BY <1>3
<1> QED BY <1>4, <1>5, <1>6, <1>7 DEF FitsAt

\* What is behind some calls fits as it did before.
LEMMA FitsBehind ==
  ASSUME NEW p \in Seq(DocCalls), Fits(p), NEW q, NEW k \in Nat, Behind(q, p, k)
  PROVE  /\ Fits(q) /\ (Ahead(q) => Ahead(p))
         /\ (Creates(q) => Creates(p)) /\ (Unarchives(q) => Unarchives(p))
<1>1. Len(p) \in Nat /\ Len(q) \in Nat /\ Len(q) = Len(p) - k /\ \A i \in 1 .. Len(q) : q[i] = p[i + k]
  BY LenProperties DEF Behind
<1>2. \A i \in 1 .. Len(q) : i + k \in 1 .. Len(p)
  BY <1>1
<1>3. ASSUME NEW i \in 1 .. Len(q) PROVE FitsAt(q, i)
  <2>1. i + k \in 1 .. Len(p) /\ i + k \in Nat /\ FitsAt(p, i + k)
    BY <1>2 DEF Fits
  <2> QED BY <1>1, <2>1, FitsShifted
<1> QED BY <1>1, <1>2, <1>3 DEF Fits, Ahead, Creates, Unarchives

\* What is put before something that fits has to fit itself.
LEMMA FitsBefore ==
  ASSUME NEW p \in Seq(DocCalls), NEW q \in Seq(DocCalls), NEW k \in Nat, Fits(q), Behind(q, p, k),
         \A i \in 1 .. k : i <= Len(p) => FitsAt(p, i)
  PROVE  Fits(p)
<1>1. Len(p) \in Nat /\ Len(q) \in Nat /\ Len(q) = Len(p) - k /\ \A i \in 1 .. Len(q) : q[i] = p[i + k]
  BY LenProperties DEF Behind
<1>2. ASSUME NEW i \in 1 .. Len(p), i > k PROVE FitsAt(p, i)
  <2>1. i - k \in 1 .. Len(q) /\ i = (i - k) + k /\ i \in Nat
    BY <1>1, <1>2
  <2>2. FitsAt(q, i - k) <=> FitsAt(p, i)
    BY <1>1, <2>1, FitsShifted
  <2>3. FitsAt(q, i - k)
    BY <2>1 DEF Fits
  <2> QED BY <2>2, <2>3
<1>3. ASSUME NEW i \in 1 .. Len(p) PROVE FitsAt(p, i)
  <2>1. CASE i > k
    BY <1>2, <2>1
  <2>2. CASE i <= k
    <3>1. i \in 1 .. k
      BY <1>1, <2>2
    <3> QED BY <3>1
  <2> QED BY <1>1, <2>1, <2>2
<1> QED BY <1>3 DEF Fits

LEMMA TailIsBehind ==
  ASSUME NEW p \in Seq(DocCalls), p # <<>>
  PROVE  /\ Behind(Tail(p), p, 1) /\ Head(p) = p[1] /\ Len(p) \in Nat /\ Len(p) >= 1
         /\ Len(p) >= 2 => Behind(Documents!Drop(Tail(p), 1), p, 2)
         /\ Len(p) = 1 => Tail(p) = <<>> /\ Documents!Drop(Tail(p), 1) = <<>>
<1> DEFINE r == Tail(p)
<1>1. /\ r \in Seq(DocCalls) /\ Len(r) = Len(p) - 1 /\ Len(p) \in Nat /\ Len(r) \in Nat
      /\ \A i \in 1 .. Len(r) : r[i] = p[i + 1]
  BY HeadTailProperties, LenProperties
<1>2. Head(p) = p[1]
  OBVIOUS
<1> HIDE DEF r
<1>3. ASSUME Len(p) >= 2 PROVE Behind(Documents!Drop(r, 1), p, 2)
  <2> DEFINE s == SubSeq(r, 2, Len(r))
  <2>1. \A i \in 2 .. Len(r) : r[i] \in DocCalls
    BY <1>1, ElementOfSeq, 1 >= 0
  <2>2. /\ s \in Seq(DocCalls) /\ Len(s) = IF 2 <= Len(r) THEN Len(r) - 2 + 1 ELSE 0
        /\ \A i \in 1 .. Len(r) - 2 + 1 : s[i] = r[2 + i - 1]
    BY <1>1, <2>1, SubSeqProperties
  <2> HIDE DEF s
  <2>3. Len(s) = Len(p) - 2
    BY <1>1, <1>3, <2>2
  <2>4. ASSUME NEW i \in 1 .. Len(s) PROVE s[i] = p[i + 2]
    <3>1. i \in 1 .. Len(r) - 2 + 1 /\ 2 + i - 1 = i + 1 /\ i + 1 \in 1 .. Len(r) /\ (i + 1) + 1 = i + 2
      BY <1>1, <2>3
    <3>2. s[i] = r[i + 1]
      BY <2>2, <3>1
    <3>3. r[i + 1] = p[(i + 1) + 1]
      BY <1>1, <3>1
    <3> QED BY <3>1, <3>2, <3>3
  <2>5. Documents!Drop(r, 1) = s
    BY DEF Documents!Drop, s
  <2> QED BY <2>2, <2>3, <2>4, <2>5 DEF Behind
<1>4. ASSUME Len(p) = 1 PROVE r = <<>> /\ Documents!Drop(r, 1) = <<>>
  <2>1. r = <<>>
    BY <1>1, <1>4, EmptySeq
  <2>2. Len(r) = 0
    BY <2>1
  <2>3. SubSeq(r, 2, 0) = <<>>
    BY SubSeqEmpty
  <2> QED BY <2>1, <2>2, <2>3 DEF Documents!Drop
<1>5. Len(p) >= 1
  BY EmptySeq, <1>1
<1> QED BY <1>1, <1>2, <1>3, <1>4, <1>5 DEF r, Behind

(* The operations, put together call by call. *)
Put(a, q) == <<a>> \o q

LEMMA PutIs ==
  ASSUME NEW a \in DocCalls, NEW q \in Seq(DocCalls)
  PROVE  /\ Put(a, q) \in Seq(DocCalls) /\ Len(Put(a, q)) = Len(q) + 1 /\ Len(q) \in Nat
         /\ Put(a, q)[1] = a /\ \A i \in 1 .. Len(q) : Put(a, q)[i + 1] = q[i]
<1> DEFINE s == <<a>>
<1>1. s \in Seq(DocCalls) /\ Len(s) = 1 /\ s[1] = a
  OBVIOUS
<1>2. Len(q) \in Nat
  BY LenProperties
<1> HIDE DEF s
<1>3. /\ s \o q \in Seq(DocCalls) /\ Len(s \o q) = 1 + Len(q)
      /\ \A i \in 1 .. 1 + Len(q) : (s \o q)[i] = IF i <= 1 THEN s[i] ELSE q[i - 1]
  <2>1. /\ s \o q \in Seq(DocCalls) /\ Len(s \o q) = Len(s) + Len(q)
        /\ \A i \in 1 .. Len(s) + Len(q) : (s \o q)[i] = IF i <= Len(s) THEN s[i] ELSE q[i - Len(s)]
    BY <1>1, ConcatProperties
  <2>2. Len(s) = 1
    BY <1>1
  <2> QED BY <2>1, <2>2
<1>4. (s \o q)[1] = a
  <2>1. 1 \in 1 .. 1 + Len(q)
    BY <1>2
  <2> QED BY <1>1, <1>3, <2>1
<1>5. ASSUME NEW i \in 1 .. Len(q) PROVE (s \o q)[i + 1] = q[i]
  <2>1. PICK n \in 1 .. 1 + Len(q) : n = i + 1 /\ n - 1 = i /\ ~(n <= 1)
    BY <1>2
  <2>2. (s \o q)[n] = q[n - 1]
    BY <1>3, <2>1
  <2> QED BY <2>1, <2>2
<1> QED BY <1>2, <1>3, <1>4, <1>5 DEF Put, s

LEMMA PutFits ==
  ASSUME NEW a \in DocCalls, NEW q \in Seq(DocCalls), Fits(q), Follows(a, q[1], q[2], Len(q)),
         LooksNoMore(a) => ~Ahead(q)
  PROVE  /\ Fits(Put(a, q)) /\ (Ahead(Put(a, q)) <=> a.call \in Looks \/ Ahead(q))
         /\ (Creates(Put(a, q)) <=> a.call = "runs.create" \/ Creates(q))
         /\ (Unarchives(Put(a, q)) <=> a = Documents!Call("write agent", "idle") \/ Unarchives(q))
<1> DEFINE p == Put(a, q)
<1>1. /\ p \in Seq(DocCalls) /\ Len(p) = Len(q) + 1 /\ Len(q) \in Nat /\ Len(p) \in Nat
      /\ p[1] = a /\ \A i \in 1 .. Len(q) : p[i + 1] = q[i]
  BY PutIs, LenProperties
<1> HIDE DEF p
<1>2. /\ Len(q) > 0 => p[2] = q[1]
      /\ Len(q) > 1 => p[3] = q[2]
  <2>1. ASSUME Len(q) > 0 PROVE p[2] = q[1]
    <3>1. 1 \in 1 .. Len(q) /\ 1 + 1 = 2
      BY <1>1, <2>1
    <3>2. p[1 + 1] = q[1]
      BY <1>1, <3>1
    <3> QED BY <3>1, <3>2
  <2>2. ASSUME Len(q) > 1 PROVE p[3] = q[2]
    <3>1. 2 \in 1 .. Len(q) /\ 2 + 1 = 3
      BY <1>1, <2>2
    <3>2. p[2 + 1] = q[2]
      BY <1>1, <3>1
    <3> QED BY <3>1, <3>2
  <2> QED BY <2>1, <2>2
<1>3. Follows(p[1], p[2], p[3], Len(q))
  <2>1. CASE Len(q) > 1
    <3>1. p[1] = a /\ p[2] = q[1] /\ p[3] = q[2]
      BY <1>1, <1>2, <2>1
    <3> QED BY <3>1
  <2>2. CASE Len(q) = 1
    <3>2. p[1] = a /\ p[2] = q[1]
      BY <1>1, <1>2, <2>2
    <3>3. Follows(a, q[1], q[2], 1)
      BY <2>2
    <3>4. Follows(a, q[1], p[3], 1)
      BY <3>3, FollowsOne
    <3> QED BY <2>2, <3>2, <3>4
  <2>3. CASE Len(q) = 0
    <3>2. Follows(a, q[1], q[2], 0)
      BY <2>3
    <3>3. Follows(a, p[2], p[3], 0)
      BY <3>2, FollowsNone
    <3>4. p[1] = a
      BY <1>1
    <3> QED BY <2>3, <3>3, <3>4
  <2>4. Len(q) \in Nat
    BY <1>1
  <2>5. \A n \in Nat : n > 1 \/ n = 1 \/ n = 0
    OBVIOUS
  <2> QED BY <2>1, <2>2, <2>3, <2>4, <2>5
<1>4. LooksNoMore(a) => \A j \in 2 .. Len(p) : p[j].call \notin Looks
  <2> SUFFICES ASSUME LooksNoMore(a), NEW j \in 2 .. Len(p) PROVE p[j].call \notin Looks
    OBVIOUS
  <2>1. j - 1 \in 1 .. Len(q) /\ (j - 1) + 1 = j
    BY <1>1
  <2>2. p[(j - 1) + 1] = q[j - 1]
    BY <1>1, <2>1
  <2> QED BY <2>1, <2>2 DEF Ahead
<1>5. FitsAt(p, 1)
  <2>1. Follows(p[1], p[1 + 1], p[1 + 2], Len(p) - 1)
    <3>1. Len(p) - 1 = Len(q) /\ 1 + 1 = 2 /\ 1 + 2 = 3
      BY <1>1
    <3> QED BY <1>3, <3>1
  <2>2. 1 + 1 = 2
    OBVIOUS
  <2>3. LooksNoMore(p[1]) => \A j \in 1 + 1 .. Len(p) : p[j].call \notin Looks
    BY <1>1, <1>4, <2>2
  <2> QED BY <2>1, <2>3 DEF FitsAt
<1>6. Fits(p)
  <2>1. Behind(q, p, 1)
    BY <1>1 DEF Behind
  <2>2. \A i \in 1 .. 1 : i <= Len(p) => FitsAt(p, i)
    BY <1>5
  <2> QED BY <1>1, <2>1, <2>2, FitsBefore
<1>7. 1 \in 1 .. Len(p)
  BY <1>1
<1>8. \A i \in 1 .. Len(q) : i + 1 \in 1 .. Len(p)
  BY <1>1
<1>9. ASSUME NEW i \in 1 .. Len(p) PROVE p[i] = a \/ \E j \in 1 .. Len(q) : p[i] = q[j]
  <2>1. CASE i = 1
    BY <1>1, <2>1
  <2>2. CASE i # 1
    <3>1. i - 1 \in 1 .. Len(q) /\ (i - 1) + 1 = i
      BY <1>1, <2>2
    <3>2. p[(i - 1) + 1] = q[i - 1]
      BY <1>1, <3>1
    <3> QED BY <3>1, <3>2
  <2> QED BY <2>1, <2>2
<1>10. Ahead(p) <=> a.call \in Looks \/ Ahead(q)
  BY <1>1, <1>7, <1>8, <1>9 DEF Ahead
<1>11. Creates(p) <=> a.call = "runs.create" \/ Creates(q)
  BY <1>1, <1>7, <1>8, <1>9 DEF Creates
<1>12. Unarchives(p) <=> a = Documents!Call("write agent", "idle") \/ Unarchives(q)
  <2>1. ASSUME NEW i \in 1 .. Len(q), q[i] = Documents!Call("write agent", "idle") PROVE Unarchives(p)
    <3>1. i + 1 \in 1 .. Len(p) /\ p[i + 1] = q[i]
      BY <1>1, <1>8
    <3> QED BY <2>1, <3>1 DEF Unarchives
  <2>2. a = Documents!Call("write agent", "idle") => Unarchives(p)
    BY <1>1, <1>7 DEF Unarchives
  <2>3. ASSUME NEW i \in 1 .. Len(p), p[i] = Documents!Call("write agent", "idle")
        PROVE  a = Documents!Call("write agent", "idle") \/ Unarchives(q)
    BY <1>9, <2>3 DEF Unarchives
  <2> QED BY <2>1, <2>2, <2>3 DEF Unarchives
<1> QED BY <1>6, <1>10, <1>11, <1>12 DEF p

LEMMA IsPut ==
  ASSUME NEW a \in DocCalls, NEW s \in Seq(DocCalls), NEW t \in Seq(DocCalls), Len(t) = Len(s) + 1, t[1] = a,
         \A i \in 1 .. Len(s) : t[i + 1] = s[i]
  PROVE  t = Put(a, s)
<1>1. /\ Put(a, s) \in Seq(DocCalls) /\ Len(Put(a, s)) = Len(s) + 1 /\ Len(s) \in Nat
      /\ Put(a, s)[1] = a /\ \A i \in 1 .. Len(s) : Put(a, s)[i + 1] = s[i]
  BY PutIs
<1>2. ASSUME NEW i \in 1 .. Len(t) PROVE t[i] = Put(a, s)[i]
  <2>1. CASE i = 1
    BY <1>1, <2>1
  <2>2. CASE i # 1
    <3>1. i - 1 \in 1 .. Len(s) /\ (i - 1) + 1 = i
      BY <1>1, <2>2
    <3>2. t[(i - 1) + 1] = s[i - 1] /\ Put(a, s)[(i - 1) + 1] = s[i - 1]
      BY <1>1, <3>1
    <3> QED BY <3>1, <3>2
  <2> QED BY <2>1, <2>2
<1> QED BY <1>1, <1>2, SeqEqual

Then(p, q) == p \o q

LEMMA TailIs ==
  ASSUME NEW m \in Seq(DocCalls), Len(m) > 0
  PROVE  /\ Tail(m) \in Seq(DocCalls) /\ Len(Tail(m)) = Len(m) - 1 /\ m[1] \in DocCalls
         /\ \A i \in 1 .. Len(m) - 1 : Tail(m)[i] = m[i + 1]
<1>1. m # <<>>
  BY EmptySeq
<1>2. /\ Tail(m) \in Seq(DocCalls) /\ Len(Tail(m)) = Len(m) - 1
      /\ \A i \in 1 .. Len(Tail(m)) : Tail(m)[i] = m[i + 1]
  BY <1>1, HeadTailProperties
<1>3. m[1] \in DocCalls
  BY ElementOfSeq
<1> QED BY <1>2, <1>3

LEMMA HeadThen ==
  ASSUME NEW m \in Seq(DocCalls), Len(m) > 0, NEW q \in Seq(DocCalls)
  PROVE  Then(m, q) = Put(m[1], Then(Tail(m), q))
<1>1. /\ Tail(m) \in Seq(DocCalls) /\ Len(Tail(m)) = Len(m) - 1 /\ m[1] \in DocCalls
      /\ \A i \in 1 .. Len(m) - 1 : Tail(m)[i] = m[i + 1] /\ Len(m) \in Nat
  BY TailIs, LenProperties
<1>2. m = Put(m[1], Tail(m))
  <2>1. Len(m) = Len(Tail(m)) + 1
    BY <1>1
  <2> QED BY <1>1, <2>1, IsPut
<1>3. PICK a \in DocCalls, t \in Seq(DocCalls) : a = m[1] /\ t = Tail(m)
  BY <1>1
<1>4. <<a>> \in Seq(DocCalls)
  OBVIOUS
<1>5. Then(Put(a, t), q) = Put(a, Then(t, q))
  BY <1>4, ConcatAssociative DEF Put, Then
<1> QED BY <1>2, <1>3, <1>5

LEMMA OneThen ==
  ASSUME NEW m \in Seq(DocCalls), Len(m) = 1, NEW q \in Seq(DocCalls)
  PROVE  Then(m, q) = Put(m[1], q)
<1>0. Len(m) > 0 /\ Len(m) - 1 = 0
  OBVIOUS
<1>1. Tail(m) \in Seq(DocCalls) /\ Len(Tail(m)) = 0
  BY <1>0, TailIs
<1>2. Tail(m) = <<>>
  BY <1>1, EmptySeq
<1>3. Then(<<>>, q) = q
  BY ConcatEmptySeq DEF Then
<1>4. Then(m, q) = Put(m[1], Then(Tail(m), q))
  BY <1>0, HeadThen
<1> QED BY <1>2, <1>3, <1>4

LEMMA TwoThen ==
  ASSUME NEW m \in Seq(DocCalls), Len(m) = 2, NEW q \in Seq(DocCalls)
  PROVE  Then(m, q) = Put(m[1], Put(m[2], q))
<1>1. PICK t : t = Tail(m)
  OBVIOUS
<1>2. t \in Seq(DocCalls) /\ Len(t) = 1 /\ \A i \in 1 .. 1 : t[i] = m[i + 1]
  <2>1. Len(m) > 0 /\ Len(m) - 1 = 1
    OBVIOUS
  <2> QED BY <1>1, <2>1, TailIs
<1>3. t[1] = m[2]
  BY <1>2
<1>4. Then(t, q) = Put(t[1], q)
  BY <1>2, OneThen
<1>5. Then(m, q) = Put(m[1], Then(t, q))
  <2>1. Len(m) > 0
    OBVIOUS
  <2> QED BY <1>1, <2>1, HeadThen
<1> QED BY <1>3, <1>4, <1>5

LEMMA ThreeThen ==
  ASSUME NEW m \in Seq(DocCalls), Len(m) = 3, NEW q \in Seq(DocCalls)
  PROVE  Then(m, q) = Put(m[1], Put(m[2], Put(m[3], q)))
<1>1. PICK t : t = Tail(m)
  OBVIOUS
<1>2. t \in Seq(DocCalls) /\ Len(t) = 2 /\ \A i \in 1 .. 2 : t[i] = m[i + 1]
  <2>1. Len(m) > 0 /\ Len(m) - 1 = 2
    OBVIOUS
  <2> QED BY <1>1, <2>1, TailIs
<1>3. t[1] = m[2] /\ t[2] = m[3]
  BY <1>2
<1>4. Then(t, q) = Put(t[1], Put(t[2], q))
  BY <1>2, TwoThen
<1>5. Then(m, q) = Put(m[1], Then(t, q))
  <2>1. Len(m) > 0
    OBVIOUS
  <2> QED BY <1>1, <2>1, HeadThen
<1> QED BY <1>3, <1>4, <1>5

LEMMA FourThen ==
  ASSUME NEW m \in Seq(DocCalls), Len(m) = 4, NEW q \in Seq(DocCalls)
  PROVE  Then(m, q) = Put(m[1], Put(m[2], Put(m[3], Put(m[4], q))))
<1>1. PICK t : t = Tail(m)
  OBVIOUS
<1>2. t \in Seq(DocCalls) /\ Len(t) = 3 /\ \A i \in 1 .. 3 : t[i] = m[i + 1]
  <2>1. Len(m) > 0 /\ Len(m) - 1 = 3
    OBVIOUS
  <2> QED BY <1>1, <2>1, TailIs
<1>3. t[1] = m[2] /\ t[2] = m[3] /\ t[3] = m[4]
  BY <1>2
<1>4. Then(t, q) = Put(t[1], Put(t[2], Put(t[3], q)))
  BY <1>2, ThreeThen
<1>5. Then(m, q) = Put(m[1], Then(t, q))
  <2>1. Len(m) > 0
    OBVIOUS
  <2> QED BY <1>1, <2>1, HeadThen
<1> QED BY <1>3, <1>4, <1>5

LEMMA FiveThen ==
  ASSUME NEW m \in Seq(DocCalls), Len(m) = 5, NEW q \in Seq(DocCalls)
  PROVE  Then(m, q) = Put(m[1], Put(m[2], Put(m[3], Put(m[4], Put(m[5], q)))))
<1>1. PICK t : t = Tail(m)
  OBVIOUS
<1>2. t \in Seq(DocCalls) /\ Len(t) = 4 /\ \A i \in 1 .. 4 : t[i] = m[i + 1]
  <2>1. Len(m) > 0 /\ Len(m) - 1 = 4
    OBVIOUS
  <2> QED BY <1>1, <2>1, TailIs
<1>3. t[1] = m[2] /\ t[2] = m[3] /\ t[3] = m[4] /\ t[4] = m[5]
  BY <1>2
<1>4. Then(t, q) = Put(t[1], Put(t[2], Put(t[3], Put(t[4], q))))
  BY <1>2, FourThen
<1>5. Then(m, q) = Put(m[1], Then(t, q))
  <2>1. Len(m) > 0
    OBVIOUS
  <2> QED BY <1>1, <2>1, HeadThen
<1> QED BY <1>3, <1>4, <1>5

LEMMA SixThen ==
  ASSUME NEW m \in Seq(DocCalls), Len(m) = 6, NEW q \in Seq(DocCalls)
  PROVE  Then(m, q) = Put(m[1], Put(m[2], Put(m[3], Put(m[4], Put(m[5], Put(m[6], q))))))
<1>1. PICK t : t = Tail(m)
  OBVIOUS
<1>2. t \in Seq(DocCalls) /\ Len(t) = 5 /\ \A i \in 1 .. 5 : t[i] = m[i + 1]
  <2>1. Len(m) > 0 /\ Len(m) - 1 = 5
    OBVIOUS
  <2> QED BY <1>1, <2>1, TailIs
<1>3. t[1] = m[2] /\ t[2] = m[3] /\ t[3] = m[4] /\ t[4] = m[5] /\ t[5] = m[6]
  BY <1>2
<1>4. Then(t, q) = Put(t[1], Put(t[2], Put(t[3], Put(t[4], Put(t[5], q)))))
  BY <1>2, FiveThen
<1>5. Then(m, q) = Put(m[1], Then(t, q))
  <2>1. Len(m) > 0
    OBVIOUS
  <2> QED BY <1>1, <2>1, HeadThen
<1> QED BY <1>3, <1>4, <1>5

\* What an operation is, when a call is put before what it goes on with.
Goes(p, a) == p \in Seq(DocCalls) /\ Fits(p) /\ Len(p) > 0 /\ p[1] = a
SameMarks(p, q) == (Ahead(p) <=> Ahead(q)) /\ (Creates(p) <=> Creates(q)) /\ (Unarchives(p) <=> Unarchives(q))
Unmarked(p) == ~Ahead(p) /\ ~Creates(p) /\ ~Unarchives(p)

LEMMA EmptyFits == <<>> \in Seq(DocCalls) /\ Fits(<<>>) /\ Unmarked(<<>>) /\ Len(<<>>) = 0
<1>1. <<>> \in Seq(DocCalls) /\ Len(<<>>) = 0
  OBVIOUS
<1>2. 1 .. 0 = {}
  OBVIOUS
<1> QED BY <1>1, <1>2 DEF Fits, Unmarked, Ahead, Creates, Unarchives

LEMMA DoIs == \A name : Documents!Do(name) = Documents!Call(name, "")
BY DEF Documents!Do

LEMMA PutCall ==
  ASSUME NEW a \in DocCalls, NEW q \in Seq(DocCalls), Fits(q),
         a.call \notin Looks, a.call # "runs.create", a.arg # "idle",
         Follows(a, q[1], q[2], Len(q)), LooksNoMore(a) => ~Ahead(q)
  PROVE  /\ Goes(Put(a, q), a) /\ SameMarks(Put(a, q), q) /\ Len(Put(a, q)) = Len(q) + 1
         /\ Len(q) \in Nat /\ (Len(q) > 0 => Put(a, q)[2] = q[1])
<1>2. /\ Put(a, q) \in Seq(DocCalls) /\ Len(Put(a, q)) = Len(q) + 1 /\ Len(q) \in Nat
      /\ Put(a, q)[1] = a /\ \A i \in 1 .. Len(q) : Put(a, q)[i + 1] = q[i]
  BY PutIs
<1>3. a # Documents!Call("write agent", "idle")
  <2>1. Documents!Call("write agent", "idle").arg = "idle"
    BY DEF Documents!Call
  <2> QED BY <2>1
<1>4. Fits(Put(a, q)) /\ SameMarks(Put(a, q), q)
  BY <1>3, PutFits DEF SameMarks
<1>5. Len(q) > 0 => Put(a, q)[2] = q[1]
  <2> SUFFICES ASSUME Len(q) > 0 PROVE Put(a, q)[2] = q[1]
    OBVIOUS
  <2>1. 1 \in 1 .. Len(q) /\ 1 + 1 = 2
    BY <1>2
  <2>2. Put(a, q)[1 + 1] = q[1]
    BY <1>2, <2>1
  <2> QED BY <2>1, <2>2
<1> QED BY <1>2, <1>4, <1>5 DEF Goes

OfTheRun == Documents!Terminal \cup {"running"}

LEMMA Lengths == \A l \in Nat : \A l1, l2 : l1 = l + 1 /\ l2 = l1 + 1 => l1 > 0 /\ l2 > 1 /\ l2 = l + 2
OBVIOUS
LEMMA LengthsTwice == \A l \in Nat : \A l2, l4 : l2 = l + 2 /\ l4 = l2 + 2 => l2 > 1 /\ l4 = l + 4
OBVIOUS
LEMMA LengthsMore == \A l \in Nat : \A m : l > 1 /\ m = l + 1 => m > 2 /\ m > 0
OBVIOUS

\* The calls of a Mark.
IsMark(a, b, c, d, s) ==
  /\ a \in DocCalls /\ a.call = "read run" /\ a.arg = "" /\ b \in DocCalls /\ b.call = "write run" /\ b.arg = s
  /\ c \in DocCalls /\ c.call = "read agent" /\ c.arg = ""
  /\ d \in DocCalls /\ d.call = "write agent" /\ d.arg = s

LEMMA AgentMarked ==
  ASSUME NEW s \in OfTheRun, NEW q \in Seq(DocCalls), Fits(q), Len(q) > 0 => q[1].call = "append",
         s = "running" => ~Ahead(q),
         NEW a, NEW b, NEW c, NEW d, IsMark(a, b, c, d, s), NEW r, r = Put(d, q), NEW p, p = Put(c, r)
  PROVE  Goes(p, c) /\ SameMarks(p, q) /\ p[2] = d /\ Len(p) = Len(q) + 2
<1>0. /\ c \in DocCalls /\ c.call = "read agent" /\ c.arg = ""
      /\ d \in DocCalls /\ d.call = "write agent" /\ d.arg = s
  BY DEF IsMark
<1>1. s # "idle" /\ s # "follow" /\ s # "archived" /\ s # ""
  BY DEF OfTheRun, Documents!Terminal
<1>2. Goes(r, d) /\ SameMarks(r, q) /\ Len(r) = Len(q) + 1 /\ Len(q) \in Nat
  <2>1. Follows(d, q[1], q[2], Len(q))
    BY <1>0, <1>1 DEF Follows, OfTheRun
  <2>2. LooksNoMore(d) => ~Ahead(q)
    BY <1>0, <1>1 DEF LooksNoMore, Looks
  <2>3. d.call \notin Looks /\ d.call # "runs.create" /\ d.arg # "idle"
    BY <1>0, <1>1 DEF Looks
  <2> QED BY <1>0, <2>1, <2>2, <2>3, PutCall
<1>3. Goes(p, c) /\ SameMarks(p, r) /\ Len(p) = Len(r) + 1 /\ p[2] = d
  <2>1. r \in Seq(DocCalls) /\ Fits(r) /\ Len(r) > 0 /\ r[1] = d
    BY <1>2 DEF Goes
  <2>2. Follows(c, r[1], r[2], Len(r))
    BY <1>0, <2>1 DEF Follows
  <2>3. LooksNoMore(c) => ~Ahead(r)
    BY <1>0 DEF LooksNoMore, Looks
  <2>4. c.call \notin Looks /\ c.call # "runs.create" /\ c.arg # "idle"
    BY <1>0 DEF Looks
  <2>5. Goes(p, c) /\ SameMarks(p, r) /\ Len(p) = Len(r) + 1 /\ (Len(r) > 0 => p[2] = r[1])
    BY <1>0, <2>1, <2>2, <2>3, <2>4, PutCall
  <2> QED BY <2>1, <2>5
<1>4. SameMarks(p, q)
  BY <1>2, <1>3 DEF SameMarks
<1>5. Len(p) = Len(q) + 2
  BY <1>2, <1>3, Lengths
<1> QED BY <1>3, <1>4, <1>5

LEMMA RunMarked ==
  ASSUME NEW s \in OfTheRun, NEW q \in Seq(DocCalls), Fits(q), Len(q) > 1,
         NEW a, NEW b, NEW c, NEW d, IsMark(a, b, c, d, s), q[1] = c, q[2] = d,
         NEW r, r = Put(b, q), NEW p, p = Put(a, r)
  PROVE  Goes(p, a) /\ SameMarks(p, q) /\ p[2] = b /\ Len(p) = Len(q) + 2
<1>0. /\ a \in DocCalls /\ a.call = "read run" /\ a.arg = ""
      /\ b \in DocCalls /\ b.call = "write run" /\ b.arg = s
      /\ q[1].call = "read agent" /\ q[2].arg = s
  BY DEF IsMark
<1>1. s # "idle" /\ s # "follow" /\ s # "archived" /\ s # ""
  BY DEF OfTheRun, Documents!Terminal
<1>2. Goes(r, b) /\ SameMarks(r, q) /\ Len(r) = Len(q) + 1 /\ Len(q) \in Nat
  <2>1. Follows(b, q[1], q[2], Len(q))
    BY <1>0, <1>1 DEF Follows, OfTheRun
  <2>2. LooksNoMore(b) => ~Ahead(q)
    BY <1>0 DEF LooksNoMore, Looks
  <2>3. b.call \notin Looks /\ b.call # "runs.create" /\ b.arg # "idle"
    BY <1>0, <1>1 DEF Looks
  <2> QED BY <1>0, <2>1, <2>2, <2>3, PutCall
<1>3. Goes(p, a) /\ SameMarks(p, r) /\ Len(p) = Len(r) + 1 /\ p[2] = b
  <2>1. r \in Seq(DocCalls) /\ Fits(r) /\ Len(r) > 2 /\ r[1] = b /\ Len(r) > 0
    BY <1>2, LengthsMore DEF Goes
  <2>2. Follows(a, r[1], r[2], Len(r))
    BY <1>0, <2>1 DEF Follows
  <2>3. LooksNoMore(a) => ~Ahead(r)
    BY <1>0 DEF LooksNoMore, Looks
  <2>4. a.call \notin Looks /\ a.call # "runs.create" /\ a.arg # "idle"
    BY <1>0 DEF Looks
  <2>5. Goes(p, a) /\ SameMarks(p, r) /\ Len(p) = Len(r) + 1 /\ (Len(r) > 0 => p[2] = r[1])
    BY <1>0, <2>1, <2>2, <2>3, <2>4, PutCall
  <2> QED BY <2>1, <2>5
<1>4. SameMarks(p, q)
  BY <1>2, <1>3 DEF SameMarks
<1>5. Len(p) = Len(q) + 2
  BY <1>2, <1>3, Lengths
<1> QED BY <1>3, <1>4, <1>5

LEMMA CallIs ==
  ASSUME NEW name \in DocNames, NEW arg \in DocArgs, NEW a, a = Documents!Call(name, arg)
  PROVE  a \in DocCalls /\ a.call = name /\ a.arg = arg
<1>1. a = [call |-> name, arg |-> arg]
  BY DEF Documents!Call
<1>2. a \in [call : DocNames, arg : DocArgs]
  BY <1>1
<1>3. a.call = name /\ a.arg = arg
  BY <1>1
<1> QED BY <1>2, <1>3 DEF DocCalls

LEMMA DoIsCall ==
  ASSUME NEW name \in DocNames, NEW a, a = Documents!Do(name)
  PROVE  a \in DocCalls /\ a.call = name /\ a.arg = ""
<1>1. "" \in DocArgs
  BY DEF DocArgs
<1>2. a = Documents!Call(name, "")
  BY DoIs
<1> QED BY <1>1, <1>2, CallIs

LEMMA MarkCalls ==
  ASSUME NEW s \in OfTheRun
  PROVE  \E a, b, c, d : /\ IsMark(a, b, c, d, s) /\ a = Documents!Do("read run")
                         /\ Documents!Mark(s) = <<a, b, c, d>>
<1>1. s \in DocArgs
  BY DEF OfTheRun, DocArgs
<1>2. "read run" \in DocNames /\ "write run" \in DocNames /\ "read agent" \in DocNames /\ "write agent" \in DocNames
  BY DEF DocNames
<1>3. PICK a, b, c, d : /\ a = Documents!Do("read run") /\ b = Documents!Call("write run", s)
                        /\ c = Documents!Do("read agent") /\ d = Documents!Call("write agent", s)
  OBVIOUS
<1>4. a \in DocCalls /\ a.call = "read run" /\ a.arg = ""
  BY <1>2, <1>3, DoIsCall
<1>5. b \in DocCalls /\ b.call = "write run" /\ b.arg = s
  BY <1>1, <1>2, <1>3, CallIs
<1>6. c \in DocCalls /\ c.call = "read agent" /\ c.arg = ""
  BY <1>2, <1>3, DoIsCall
<1>7. d \in DocCalls /\ d.call = "write agent" /\ d.arg = s
  BY <1>1, <1>2, <1>3, CallIs
<1>8. Documents!Mark(s) = <<a, b, c, d>>
  BY <1>3 DEF Documents!Mark
<1>9. IsMark(a, b, c, d, s)
  BY <1>4, <1>5, <1>6, <1>7 DEF IsMark
<1> QED BY <1>3, <1>8, <1>9

LEMMA FourPut ==
  ASSUME NEW a \in DocCalls, NEW b \in DocCalls, NEW c \in DocCalls, NEW d \in DocCalls, NEW q \in Seq(DocCalls)
  PROVE  Then(<<a, b, c, d>>, q) = Put(a, Put(b, Put(c, Put(d, q))))
<1>1. PICK m : m = <<a, b, c, d>>
  OBVIOUS
<1>2. m \in Seq(DocCalls)
  BY <1>1
<1>3. Len(m) = 4
  BY <1>1
<1>4. m[1] = a /\ m[2] = b /\ m[3] = c /\ m[4] = d
  BY <1>1
<1>5. Then(m, q) = Put(m[1], Put(m[2], Put(m[3], Put(m[4], q))))
  BY <1>2, <1>3, FourThen
<1>6. Then(m, q) = Put(a, Put(b, Put(c, Put(d, q))))
  BY <1>4, <1>5
<1> QED BY <1>1, <1>6

LEMMA LengthsFour == \A l \in Nat : \A m : m = l + 4 => m > 1
OBVIOUS
Long(p) == Len(p) > 1

\* A document is marked with a status before what may follow.
LEMMA MarkIs ==
  ASSUME NEW s \in OfTheRun, NEW q \in Seq(DocCalls), Fits(q), Len(q) > 0 => q[1].call = "append",
         s = "running" => ~Ahead(q), NEW p, p = Then(Documents!Mark(s), q)
  PROVE  /\ Goes(p, Documents!Do("read run")) /\ SameMarks(p, q) /\ Long(p)
         /\ p[2].call = "write run" /\ p[2].arg = s
<1>1. PICK a, b, c, d : /\ IsMark(a, b, c, d, s) /\ a = Documents!Do("read run")
                        /\ Documents!Mark(s) = <<a, b, c, d>>
  BY MarkCalls
<1>2. a \in DocCalls /\ b \in DocCalls /\ c \in DocCalls /\ d \in DocCalls /\ b.call = "write run" /\ b.arg = s
  BY <1>1 DEF IsMark
<1>3. Then(<<a, b, c, d>>, q) = Put(a, Put(b, Put(c, Put(d, q))))
  <2>1. a \in DocCalls /\ b \in DocCalls /\ c \in DocCalls /\ d \in DocCalls /\ q \in Seq(DocCalls)
    BY <1>2
  <2> HIDE <1>2
  <2> QED BY <2>1, FourPut
<1>4. PICK q1, q2, q3 : q1 = Put(d, q) /\ q2 = Put(c, q1) /\ q3 = Put(b, q2)
  OBVIOUS
<1>5. p = Put(a, q3)
  BY <1>1, <1>3, <1>4
<1>6. IsMark(a, b, c, d, s)
  BY <1>1
<1>7. Goes(q2, c) /\ SameMarks(q2, q) /\ q2[2] = d /\ Len(q2) = Len(q) + 2
  BY <1>4, <1>6, AgentMarked
<1>8. Len(q) \in Nat
  BY LenProperties
<1>10. q2 \in Seq(DocCalls) /\ Fits(q2) /\ q2[1] = c
  BY <1>7 DEF Goes
<1>11. Len(q2) > 1
  BY <1>7, <1>8, LengthsTwice
<1>12. Goes(p, a) /\ SameMarks(p, q2) /\ p[2] = b /\ Len(p) = Len(q2) + 2
  BY <1>4, <1>5, <1>6, <1>7, <1>10, <1>11, RunMarked
<1>13. SameMarks(p, q)
  BY <1>7, <1>12 DEF SameMarks
<1>14. Len(p) = Len(q) + 4
  BY <1>7, <1>8, <1>12, LengthsTwice
<1>15. Goes(p, Documents!Do("read run")) /\ p[2].call = "write run" /\ p[2].arg = s
  BY <1>1, <1>2, <1>12
<1>16. Len(p) > 1
  BY <1>8, <1>14, LengthsFour
<1> QED BY <1>13, <1>15, <1>16 DEF Long

LEMMA MarkInSeq ==
  ASSUME NEW s \in OfTheRun, NEW m, m = Documents!Mark(s)
  PROVE  m \in Seq(DocCalls)
<1>1. PICK a, b, c, d : IsMark(a, b, c, d, s) /\ m = <<a, b, c, d>>
  BY MarkCalls
<1>2. a \in DocCalls /\ b \in DocCalls /\ c \in DocCalls /\ d \in DocCalls
  BY <1>1 DEF IsMark
<1> QED BY <1>1, <1>2

LEMMA OneCall ==
  ASSUME NEW a \in DocCalls, NEW m, m = <<a>>
  PROVE  m \in Seq(DocCalls) /\ Len(m) = 1 /\ m[1] = a
OBVIOUS
LEMMA TwoCalls ==
  ASSUME NEW a \in DocCalls, NEW b \in DocCalls, NEW m, m = <<a, b>>
  PROVE  m \in Seq(DocCalls) /\ Len(m) = 2 /\ m[1] = a /\ m[2] = b
<1>1. m \in Seq(DocCalls)
  OBVIOUS
<1>2. Len(m) = 2
  OBVIOUS
<1>3. m[1] = a /\ m[2] = b
  OBVIOUS
<1> QED BY <1>1, <1>2, <1>3
LEMMA ThreeCalls ==
  ASSUME NEW a \in DocCalls, NEW b \in DocCalls, NEW c \in DocCalls, NEW m, m = <<a, b, c>>
  PROVE  m \in Seq(DocCalls) /\ Len(m) = 3 /\ m[1] = a /\ m[2] = b /\ m[3] = c
<1>1. m \in Seq(DocCalls)
  OBVIOUS
<1>2. Len(m) = 3
  OBVIOUS
<1>3. m[1] = a /\ m[2] = b /\ m[3] = c
  OBVIOUS
<1> QED BY <1>1, <1>2, <1>3

\* An event is appended before what may follow it.
LEMMA AppendIs ==
  ASSUME NEW q \in Seq(DocCalls), Fits(q), NEW a, a = Documents!Do("append"),
         Len(q) > 0 => \/ q[1].call \in {"append", "drive"} \cup Looks
                       \/ q[1].call = "read run" /\ Len(q) > 1 /\ q[2].arg # "running"
  PROVE  /\ Goes(Put(a, q), a) /\ SameMarks(Put(a, q), q) /\ Len(Put(a, q)) = Len(q) + 1 /\ Len(q) \in Nat
         /\ a \in DocCalls /\ a.call = "append" /\ (Len(q) > 0 => Put(a, q)[2] = q[1])
<1>1. "append" \in DocNames /\ "" \in DocArgs
  BY DEF DocNames, DocArgs
<1>2. a \in DocCalls /\ a.call = "append" /\ a.arg = ""
  BY <1>1, CallIs, DoIs
<1>3. Follows(a, q[1], q[2], Len(q))
  BY <1>2 DEF Follows, Looks
<1>4. LooksNoMore(a) => ~Ahead(q)
  BY <1>2 DEF LooksNoMore, Looks
<1>5. a.call \notin Looks /\ a.call # "runs.create" /\ a.arg # "idle"
  BY <1>2 DEF Looks
<1> QED BY <1>2, <1>3, <1>4, <1>5, PutCall

-----------------------------------------------------------------------------
(* Documents: the call that a task has come to, what it is for, and where  *)
(* it goes on.                                                             *)
Now(p) == IF p = <<>> THEN "rest" ELSE p[1].call
For(p) == IF p = <<>> THEN ""
          ELSE IF p[1].call \in {"read run", "read agent"} THEN p[2].arg ELSE p[1].arg

AfterAgent(f, m, g) ==
  /\ f \in OfTheRun \cup {"follow", "idle", "archived"}
  /\ f = "follow" => m = "rest" \/ (m = "read run" /\ g = "running")
  /\ f \in {"idle", "archived"} => m = "rest"
  /\ f \in OfTheRun => m \in {"rest", "append"}
\* A call n for f, and the next one, m for g.
Onto(n, f, m, g) ==
  /\ n = "find agent" => m \in {"rest", "find active"}
  /\ n = "find active" => m \in {"rest"} \cup Looks
  /\ n \in {"find pending", "drive", "agents.delete"} => m = "rest"
  /\ n = "check agent" => m \in {"rest", "check active"}
  /\ n = "check active" => m \in {"rest", "count runs"}
  /\ n = "count runs" => m \in {"rest", "runs.create"}
  /\ n = "runs.create" => m = "read agent" /\ g = "follow"
  /\ n = "read run" => m = "write run" /\ g = f
  /\ n = "write run" => m = "read agent" /\ g = f /\ f \in OfTheRun
  /\ n = "read agent" => m = "write agent" /\ g = f
  /\ n = "write agent" => AfterAgent(f, m, g)
  /\ n = "append" => /\ m \in {"rest", "append", "drive", "read run"} \cup Looks
                     /\ m = "read run" => g # "running"
  /\ n = "find run" => m \in {"rest", "read run"} /\ (m = "read run" => g # "running")
  /\ n = "runs.delete" => m = "checkpoints.delete"
  /\ n = "checkpoints.delete" => m = "agents.delete"
\* The same when the next call is left out, m for g being the one behind it.
Over(n, f, m, g) ==
  /\ n = "find agent" => m \in {"rest"} \cup Looks
  /\ n = "read run" => m = "read agent" /\ g = f /\ f \in OfTheRun
  /\ n = "read agent" => AfterAgent(f, m, g)

LEMMA Firsts ==
  ASSUME NEW p \in Seq(DocCalls), Fits(p), NEW i \in Nat, i > 0, i <= Len(p)
  PROVE  /\ Follows(p[i], p[i + 1], p[i + 2], Len(p) - i)
         /\ LooksNoMore(p[i]) => \A j \in i + 1 .. Len(p) : p[j].call \notin Looks
<1>1. i \in 1 .. Len(p)
  BY LenProperties
<1> QED BY <1>1 DEF Fits, FitsAt

LEMMA NowBehind ==
  ASSUME NEW p \in Seq(DocCalls), NEW q, NEW k \in Nat, Behind(q, p, k), Len(q) \in Nat, Len(p) \in Nat,
         NEW m, m = k + 1, NEW n, n = k + 2
  PROVE  /\ Len(p) = k => q = <<>>
         /\ Len(p) > k => q # <<>> /\ q[1] = p[m]
         /\ Len(p) > m => q[2] = p[n]
<1>1. q \in Seq(DocCalls) /\ Len(q) = Len(p) - k /\ \A i \in 1 .. Len(q) : q[i] = p[i + k]
  BY DEF Behind
<1>2. ASSUME Len(p) = k PROVE q = <<>>
  <2>1. Len(q) = 0
    BY <1>1, <1>2
  <2> QED BY <1>1, <2>1, EmptySeq
<1>3. ASSUME Len(p) > k PROVE q # <<>> /\ q[1] = p[m]
  <2>1. Len(q) > 0 /\ 1 \in 1 .. Len(q) /\ 1 + k = m
    BY <1>1, <1>3
  <2>2. q # <<>>
    BY <2>1
  <2>3. q[1] = p[1 + k]
    BY <1>1, <2>1
  <2> QED BY <2>1, <2>2, <2>3
<1>4. ASSUME Len(p) > m PROVE q[2] = p[n]
  <2>1. 2 \in 1 .. Len(q) /\ 2 + k = n
    BY <1>1, <1>4
  <2>2. q[2] = p[2 + k]
    BY <1>1, <2>1
  <2> QED BY <2>1, <2>2
<1> QED BY <1>2, <1>3, <1>4

LEMMA NowNext ==
  ASSUME NEW p \in Seq(DocCalls), NEW q, Behind(q, p, 1), Len(q) \in Nat, Len(p) \in Nat
  PROVE  /\ Len(p) = 1 => q = <<>>
         /\ Len(p) > 1 => q # <<>> /\ q[1] = p[2]
         /\ Len(p) > 2 => q[2] = p[3]
<1>1. PICK k \in Nat, m \in Nat, n \in Nat : k = 1 /\ m = 2 /\ n = 3
  OBVIOUS
<1>2. m = k + 1 /\ n = k + 2 /\ Behind(q, p, k)
  BY <1>1
<1>3. /\ Len(p) = k => q = <<>>
      /\ Len(p) > k => q # <<>> /\ q[1] = p[m]
      /\ Len(p) > m => q[2] = p[n]
  BY <1>2, NowBehind
<1> QED BY <1>1, <1>3

\* The calls at hand, and what is behind the first and the second.
LEMMA Places ==
  ASSUME NEW p \in Seq(DocCalls), p # <<>>, NEW q, q = Tail(p), NEW r, r = Documents!Drop(q, 1)
  PROVE  /\ Len(p) \in Nat /\ Len(p) > 0
         /\ Len(p) = 1 => q = <<>> /\ r = <<>>
         /\ Len(p) > 1 => q # <<>> /\ q[1] = p[2]
         /\ Len(p) > 2 => q[2] = p[3]
         /\ Len(p) = 2 => r = <<>>
         /\ Len(p) > 2 => r # <<>> /\ r[1] = p[3]
         /\ Len(p) > 3 => r[2] = p[4]
<1>1. Behind(q, p, 1) /\ Len(p) \in Nat /\ Len(p) >= 1 /\ (Len(p) = 1 => q = <<>> /\ r = <<>>)
  BY TailIsBehind
<1>2. Len(q) \in Nat
  BY <1>1, LenProperties DEF Behind
<1>3. /\ Len(p) = 1 => q = <<>>
      /\ Len(p) > 1 => q # <<>> /\ q[1] = p[2]
      /\ Len(p) > 2 => q[2] = p[3]
  BY <1>1, <1>2, NowNext
<1>4. ASSUME Len(p) >= 2
      PROVE  /\ Len(p) = 2 => r = <<>>
             /\ Len(p) > 2 => r # <<>> /\ r[1] = p[3]
             /\ Len(p) > 3 => r[2] = p[4]
  <2>1. PICK k \in Nat : k = 2
    OBVIOUS
  <2>2. 3 = k + 1 /\ 4 = k + 2
    BY <2>1
  <2>3. Behind(r, p, k)
    BY <1>4, <2>1, TailIsBehind
  <2>4. Len(r) \in Nat
    BY <2>3, LenProperties DEF Behind
  <2>5. /\ Len(p) = k => r = <<>>
        /\ Len(p) > k => r # <<>> /\ r[1] = p[3]
        /\ Len(p) > 3 => r[2] = p[4]
    BY <1>1, <2>2, <2>3, <2>4, NowBehind
  <2> QED BY <2>1, <2>5
<1>5. Len(p) = 2 \/ Len(p) > 2 => Len(p) >= 2
  BY <1>1
<1>6. Len(p) > 3 => Len(p) > 2
  BY <1>1
<1>7. Len(p) > 0
  BY <1>1
<1> QED BY <1>1, <1>3, <1>4, <1>5, <1>6, <1>7

LEMMA LeftOf == \A l \in Nat : /\ l > 0 => l - 1 \in Nat /\ (l - 1 > 0 <=> l > 1) /\ (l - 1 > 1 <=> l > 2)
                                           /\ (l - 1 > 2 <=> l > 3) /\ (l - 1 = 0 <=> l = 1)
                               /\ l > 1 => l - 2 \in Nat /\ (l - 2 > 0 <=> l > 2) /\ (l - 2 > 1 <=> l > 3)
                                           /\ (l - 2 = 0 <=> l = 2)
                               /\ (l > 3 => l > 2) /\ (l > 2 => l > 1)
OBVIOUS

LEMMA Onward ==
  ASSUME NEW p \in Seq(DocCalls), Fits(p), p # <<>>, NEW q, q = Tail(p)
  PROVE  Onto(Now(p), For(p), Now(q), For(q))
<1>1. PICK r : r = Documents!Drop(q, 1)
  OBVIOUS
<1>2. /\ Len(p) \in Nat /\ Len(p) > 0
      /\ Len(p) = 1 => q = <<>>
      /\ Len(p) > 1 => q # <<>> /\ q[1] = p[2]
      /\ Len(p) > 2 => q[2] = p[3]
  BY <1>1, Places
<1>3. Follows(p[1], p[2], p[3], Len(p) - 1)
  <2>1. Follows(p[1], p[1 + 1], p[1 + 2], Len(p) - 1)
    BY <1>2, Firsts
  <2> QED BY <2>1
<1>4. Len(p) > 1 => Follows(p[2], p[3], p[4], Len(p) - 2)
  <2> SUFFICES ASSUME Len(p) > 1 PROVE Follows(p[2], p[3], p[4], Len(p) - 2)
    OBVIOUS
  <2>1. Follows(p[2], p[2 + 1], p[2 + 2], Len(p) - 2)
    BY <1>2, Firsts
  <2> QED BY <2>1
<1>5. PICK l, k, j : l = Len(p) /\ k = l - 1 /\ j = l - 2
  OBVIOUS
<1>6. PICK a, b, c, d : a = p[1] /\ b = p[2] /\ c = p[3] /\ d = p[4]
  OBVIOUS
<1>7. Follows(a, b, c, k) /\ (l > 1 => Follows(b, c, d, j))
  BY <1>3, <1>4, <1>5, <1>6
<1>8. /\ l \in Nat /\ l > 0 /\ (k > 0 <=> l > 1) /\ (k > 1 <=> l > 2)
      /\ (k > 2 <=> l > 3) /\ (k = 0 <=> l = 1)
      /\ l > 1 => (j > 0 <=> l > 2) /\ (j > 1 <=> l > 3)
      /\ (l > 3 => l > 2) /\ (l > 2 => l > 1)
  BY <1>2, <1>5, LeftOf
<1>9. Now(p) = a.call /\ For(p) = IF a.call \in {"read run", "read agent"} THEN b.arg ELSE a.arg
  BY <1>6 DEF Now, For
<1>10. l = 1 => Now(q) = "rest" /\ For(q) = ""
  BY <1>2, <1>5 DEF Now, For
<1>11. l > 1 => Now(q) = b.call
  BY <1>2, <1>5, <1>6 DEF Now
<1>12. l > 1 /\ b.call \notin {"read run", "read agent"} => For(q) = b.arg
  BY <1>2, <1>5, <1>6 DEF For
<1>13. l > 2 /\ b.call \in {"read run", "read agent"} => For(q) = c.arg
  <2>1. l > 2 => l > 1
    BY <1>8
  <2> QED BY <1>2, <1>5, <1>6, <2>1 DEF For
<1>14. l = 1 \/ l > 1
  BY <1>8
<1>16. PICK n, f, m, g : n = Now(p) /\ f = For(p) /\ m = Now(q) /\ g = For(q)
  OBVIOUS
<1>17. /\ n = a.call /\ f = IF a.call \in {"read run", "read agent"} THEN b.arg ELSE a.arg
       /\ l = 1 => m = "rest" /\ g = ""
       /\ l > 1 => m = b.call
       /\ l > 1 /\ b.call \notin {"read run", "read agent"} => g = b.arg
       /\ l > 2 /\ b.call \in {"read run", "read agent"} => g = c.arg
  BY <1>9, <1>10, <1>11, <1>12, <1>13, <1>16
<1>19. a.call \in DocNames
  <2>1. a \in DocCalls
    BY <1>2, <1>6, ElementOfSeq
  <2> QED BY <2>1 DEF DocCalls
<1>18. Onto(n, f, m, g)
  <2>1. CASE a.call = "find agent"
    BY <1>7, <1>8, <1>14, <1>17, <2>1 DEF Onto, AfterAgent, Follows, Looks, OfTheRun, Documents!Terminal
  <2>2. CASE a.call = "find active"
    BY <1>7, <1>8, <1>14, <1>17, <2>2 DEF Onto, AfterAgent, Follows, Looks, OfTheRun, Documents!Terminal
  <2>3. CASE a.call = "find pending"
    BY <1>7, <1>8, <1>14, <1>17, <2>3 DEF Onto, AfterAgent, Follows, Looks, OfTheRun, Documents!Terminal
  <2>4. CASE a.call = "drive"
    BY <1>7, <1>8, <1>14, <1>17, <2>4 DEF Onto, AfterAgent, Follows, Looks, OfTheRun, Documents!Terminal
  <2>5. CASE a.call = "agents.delete"
    BY <1>7, <1>8, <1>14, <1>17, <2>5 DEF Onto, AfterAgent, Follows, Looks, OfTheRun, Documents!Terminal
  <2>6. CASE a.call = "check agent"
    BY <1>7, <1>8, <1>14, <1>17, <2>6 DEF Onto, AfterAgent, Follows, Looks, OfTheRun, Documents!Terminal
  <2>7. CASE a.call = "check active"
    BY <1>7, <1>8, <1>14, <1>17, <2>7 DEF Onto, AfterAgent, Follows, Looks, OfTheRun, Documents!Terminal
  <2>8. CASE a.call = "count runs"
    BY <1>7, <1>8, <1>14, <1>17, <2>8 DEF Onto, AfterAgent, Follows, Looks, OfTheRun, Documents!Terminal
  <2>9. CASE a.call = "runs.create"
    BY <1>7, <1>8, <1>14, <1>17, <2>9 DEF Onto, AfterAgent, Follows, Looks, OfTheRun, Documents!Terminal
  <2>10. CASE a.call = "read run"
    BY <1>7, <1>8, <1>14, <1>17, <2>10 DEF Onto, AfterAgent, Follows, Looks, OfTheRun, Documents!Terminal
  <2>11. CASE a.call = "write run"
    BY <1>7, <1>8, <1>14, <1>17, <2>11 DEF Onto, AfterAgent, Follows, Looks, OfTheRun, Documents!Terminal
  <2>12. CASE a.call = "read agent"
    BY <1>7, <1>8, <1>14, <1>17, <2>12 DEF Onto, AfterAgent, Follows, Looks, OfTheRun, Documents!Terminal
  <2>13. CASE a.call = "write agent"
    BY <1>7, <1>8, <1>14, <1>17, <2>13 DEF Onto, AfterAgent, Follows, Looks, OfTheRun, Documents!Terminal
  <2>14. CASE a.call = "append"
    BY <1>7, <1>8, <1>14, <1>17, <2>14 DEF Onto, AfterAgent, Follows, Looks, OfTheRun, Documents!Terminal
  <2>15. CASE a.call = "find run"
    BY <1>7, <1>8, <1>14, <1>17, <2>15 DEF Onto, AfterAgent, Follows, Looks, OfTheRun, Documents!Terminal
  <2>16. CASE a.call = "runs.delete"
    BY <1>7, <1>8, <1>14, <1>17, <2>16 DEF Onto, AfterAgent, Follows, Looks, OfTheRun, Documents!Terminal
  <2>17. CASE a.call = "checkpoints.delete"
    BY <1>7, <1>8, <1>14, <1>17, <2>17 DEF Onto, AfterAgent, Follows, Looks, OfTheRun, Documents!Terminal
  <2> QED BY <1>17, <1>19, <2>1, <2>2, <2>3, <2>4, <2>5, <2>6, <2>7, <2>8, <2>9, <2>10, <2>11, <2>12, <2>13,
             <2>14, <2>15, <2>16, <2>17 DEF DocNames
<1> QED BY <1>16, <1>18

LEMMA OverNext ==
  ASSUME NEW p \in Seq(DocCalls), Fits(p), p # <<>>, NEW q, q = Tail(p), NEW r, r = Documents!Drop(q, 1)
  PROVE  Over(Now(p), For(p), Now(r), For(r))
<1>2. /\ Len(p) \in Nat /\ Len(p) > 0
      /\ Len(p) = 1 => r = <<>>
      /\ Len(p) = 2 => r = <<>>
      /\ Len(p) > 2 => r # <<>> /\ r[1] = p[3]
      /\ Len(p) > 3 => r[2] = p[4]
  <2>1. PICK s : s = Documents!Drop(q, 1)
    OBVIOUS
  <2>2. Len(p) = 1 => s = <<>>
    BY <2>1, Places
  <2>4. Len(p) = 2 => s = <<>>
    BY <2>1, Places
  <2>5. Len(p) > 2 => s # <<>> /\ s[1] = p[3]
    BY <2>1, Places
  <2>7. Len(p) \in Nat /\ Len(p) > 0
    BY <2>1, Places
  <2>6. Len(p) > 3 => s[2] = p[4]
    <3> SUFFICES ASSUME Len(p) > 3 PROVE s[2] = p[4]
      OBVIOUS
    <3>1. PICK n : n = Len(p)
      OBVIOUS
    <3>2. n \in Nat /\ n > 3
      BY <2>7, <3>1
    <3>3. PICK k \in Nat : k = 2
      OBVIOUS
    <3>4. n >= 2 /\ Behind(s, p, k)
      BY <2>1, <3>1, <3>2, <3>3, TailIsBehind
    <3>5. Len(s) \in Nat /\ 3 = k + 1 /\ 4 = k + 2
      BY <3>3, <3>4, LenProperties DEF Behind
    <3> QED BY <2>7, <3>4, <3>5, NowBehind
  <2>3. s = r
    BY <2>1
  <2> QED BY <2>2, <2>3, <2>4, <2>5, <2>6, <2>7
<1>3. Follows(p[1], p[2], p[3], Len(p) - 1)
  <2>1. Follows(p[1], p[1 + 1], p[1 + 2], Len(p) - 1)
    BY <1>2, Firsts
  <2> QED BY <2>1
<1>4. Len(p) > 1 => Follows(p[2], p[3], p[4], Len(p) - 2)
  <2> SUFFICES ASSUME Len(p) > 1 PROVE Follows(p[2], p[3], p[4], Len(p) - 2)
    OBVIOUS
  <2>1. Follows(p[2], p[2 + 1], p[2 + 2], Len(p) - 2)
    BY <1>2, Firsts
  <2> QED BY <2>1
<1>5. PICK l, k, j : l = Len(p) /\ k = l - 1 /\ j = l - 2
  OBVIOUS
<1>6. PICK a, b, c, d : a = p[1] /\ b = p[2] /\ c = p[3] /\ d = p[4]
  OBVIOUS
<1>7. Follows(a, b, c, k) /\ (l > 1 => Follows(b, c, d, j))
  BY <1>3, <1>4, <1>5, <1>6
<1>8. /\ l \in Nat /\ l > 0 /\ (k > 0 <=> l > 1) /\ (k > 1 <=> l > 2)
      /\ (k > 2 <=> l > 3) /\ (k = 0 <=> l = 1)
      /\ l > 1 => (j > 0 <=> l > 2) /\ (j > 1 <=> l > 3)
      /\ (l > 3 => l > 2) /\ (l > 2 => l > 1)
  BY <1>2, <1>5, LeftOf
<1>9. Now(p) = a.call /\ For(p) = IF a.call \in {"read run", "read agent"} THEN b.arg ELSE a.arg
  BY <1>6 DEF Now, For
<1>10. l = 1 \/ l = 2 => Now(r) = "rest" /\ For(r) = ""
  BY <1>2, <1>5 DEF Now, For
<1>11. l > 2 => Now(r) = c.call
  BY <1>2, <1>5, <1>6 DEF Now
<1>12. l > 2 /\ c.call \notin {"read run", "read agent"} => For(r) = c.arg
  BY <1>2, <1>5, <1>6 DEF For
<1>13. l > 3 /\ c.call \in {"read run", "read agent"} => For(r) = d.arg
  <2>1. l > 3 => l > 2
    BY <1>8
  <2> QED BY <1>2, <1>5, <1>6, <2>1 DEF For
<1>14. l = 1 \/ l = 2 \/ l > 2
  BY <1>8
<1>16. PICK n, f, m, g : n = Now(p) /\ f = For(p) /\ m = Now(r) /\ g = For(r)
  OBVIOUS
<1>17. /\ n = a.call /\ f = IF a.call \in {"read run", "read agent"} THEN b.arg ELSE a.arg
       /\ l = 1 \/ l = 2 => m = "rest" /\ g = ""
       /\ l > 2 => m = c.call
       /\ l > 2 /\ c.call \notin {"read run", "read agent"} => g = c.arg
       /\ l > 3 /\ c.call \in {"read run", "read agent"} => g = d.arg
  BY <1>9, <1>10, <1>11, <1>12, <1>13, <1>16
<1>18. Over(n, f, m, g)
  <2>1. CASE a.call = "find agent"
    BY <1>7, <1>8, <1>14, <1>17, <2>1 DEF Over, AfterAgent, Follows, Looks, OfTheRun, Documents!Terminal
  <2>2. CASE a.call = "read run"
    <3>1. k > 2 /\ b.call = "write run"
      BY <1>7, <2>2 DEF Follows
    <3>2. l > 3 /\ l > 2 /\ l > 1
      BY <1>8, <3>1
    <3>3. c.call = "read agent" /\ d.arg = b.arg /\ b.arg \in OfTheRun
      BY <1>7, <3>1, <3>2 DEF Follows, OfTheRun
    <3>4. m = "read agent" /\ g = d.arg /\ f = b.arg
      BY <1>17, <2>2, <3>2, <3>3
    <3> QED BY <1>17, <2>2, <3>3, <3>4 DEF Over
  <2>3. CASE a.call = "read agent"
    <3>1. k > 0 /\ b.call = "write agent" /\ f = b.arg
      BY <1>7, <1>17, <2>3 DEF Follows
    <3>2. l > 1 /\ Follows(b, c, d, j)
      BY <1>7, <1>8, <3>1
    <3>3. /\ f \in OfTheRun \cup {"follow", "idle", "archived"}
          /\ f = "follow" /\ j > 0 => j > 1 /\ c.call = "read run" /\ d.arg = "running"
          /\ f \in {"idle", "archived"} => j = 0
          /\ f \in OfTheRun /\ j > 0 => c.call = "append"
      BY <3>1, <3>2 DEF Follows, OfTheRun
    <3>4. (j > 0 <=> l > 2) /\ (j > 1 <=> l > 3) /\ (j = 0 <=> l = 2) /\ (l > 2 \/ l = 2) /\ ~(l = 2 /\ l > 2)
      BY <1>2, <1>5, <3>2, LeftOf
    <3>5. CASE l = 2
      <4>1. m = "rest"
        BY <1>17, <3>5
      <4> QED BY <1>17, <2>3, <3>3, <4>1 DEF Over, AfterAgent
    <3>6. CASE l > 2
      <4>1. m = c.call
        BY <1>17, <3>6
      <4>2. f = "follow" => m = "read run" /\ g = "running"
        BY <1>17, <3>3, <3>4, <3>6, <4>1
      <4>3. f \notin {"idle", "archived"}
        BY <3>3, <3>4, <3>6
      <4>4. f \in OfTheRun => m = "append"
        BY <3>3, <3>4, <3>6, <4>1
      <4> QED BY <1>17, <2>3, <3>3, <4>2, <4>3, <4>4 DEF Over, AfterAgent
    <3> QED BY <3>4, <3>5, <3>6
  <2> QED BY <1>17, <2>1, <2>2, <2>3 DEF Over
<1> QED BY <1>16, <1>18

\* What a task has still to do: a part of what it had.
Further(p, q) == /\ q \in Seq(DocCalls) /\ Fits(q) /\ (Ahead(q) => Ahead(p))
                 /\ (Creates(q) => Creates(p)) /\ (Unarchives(q) => Unarchives(p))

LEMMA TailFurther ==
  ASSUME NEW p \in Seq(DocCalls), Fits(p), p # <<>>
  PROVE  /\ Further(p, Tail(p)) /\ Further(p, Documents!Drop(Tail(p), 1))
         /\ Tail(p) \in Seq(DocCalls) /\ Documents!Drop(Tail(p), 1) \in Seq(DocCalls)
<1>0. PICK k \in Nat, m \in Nat : k = 1 /\ m = 2
  OBVIOUS
<1>1. /\ Behind(Tail(p), p, k) /\ Len(p) \in Nat /\ Len(p) >= 1
      /\ Len(p) >= 2 => Behind(Documents!Drop(Tail(p), 1), p, m)
      /\ Len(p) = 1 => Documents!Drop(Tail(p), 1) = <<>>
  BY <1>0, TailIsBehind
<1>2. Further(p, Tail(p))
  BY <1>1, FitsBehind DEF Further, Behind
<1>3. Further(p, Documents!Drop(Tail(p), 1))
  <2>1. PICK r : r = Documents!Drop(Tail(p), 1)
    OBVIOUS
  <2>2. CASE Len(p) = 1
    BY <1>1, <2>1, <2>2, EmptyFits DEF Further, Unmarked
  <2>3. CASE Len(p) >= 2
    <3>1. Behind(r, p, m)
      BY <1>1, <2>1, <2>3
    <3>2. Fits(r) /\ (Ahead(r) => Ahead(p)) /\ (Creates(r) => Creates(p)) /\ (Unarchives(r) => Unarchives(p))
      BY <3>1, FitsBehind
    <3>3. r \in Seq(DocCalls)
      BY <3>1 DEF Behind
    <3> QED BY <2>1, <3>2, <3>3 DEF Further
  <2>4. Len(p) = 1 \/ Len(p) >= 2
    <3>1. PICK n : n = Len(p)
      OBVIOUS
    <3>2. n \in Nat /\ n >= 1
      BY <1>1, <3>1
    <3>3. n = 1 \/ n >= 2
      BY <3>2
    <3> QED BY <3>1, <3>3
  <2> QED BY <2>2, <2>3, <2>4
<1> QED BY <1>2, <1>3 DEF Further

LEMMA NoneAhead ==
  ASSUME NEW p \in Seq(DocCalls), Fits(p), NEW i \in Nat, i > 0, i <= Len(p), LooksNoMore(p[i]),
         \A j \in 1 .. i : p[j].call \notin Looks
  PROVE  ~Ahead(p)
<1>1. \A j \in i + 1 .. Len(p) : p[j].call \notin Looks
  BY Firsts
<1>2. Len(p) \in Nat
  BY LenProperties
<1>3. ASSUME NEW j \in 1 .. Len(p) PROVE p[j].call \notin Looks
  <2>1. j \in 1 .. i \/ j \in i + 1 .. Len(p)
    BY <1>2, <1>3
  <2> QED BY <1>1, <2>1
<1> QED BY <1>3 DEF Ahead

LEMMA UpToFour ==
  /\ \A j \in 1 .. 1 : j = 1
  /\ \A j \in 1 .. 2 : j = 1 \/ j = 2
  /\ \A j \in 1 .. 3 : j = 1 \/ j = 2 \/ j = 3
  /\ \A j \in 1 .. 4 : j = 1 \/ j = 2 \/ j = 3 \/ j = 4
OBVIOUS

LEMMA FollowsEach ==
  ASSUME NEW p \in Seq(DocCalls), Fits(p), p # <<>>
  PROVE  /\ Len(p) \in Nat /\ Len(p) > 0 /\ Follows(p[1], p[2], p[3], Len(p) - 1)
         /\ Len(p) > 1 => Follows(p[2], p[3], p[4], Len(p) - 2)
         /\ Len(p) > 2 => Follows(p[3], p[4], p[5], Len(p) - 3)
<1>1. PICK q, r : q = Tail(p) /\ r = Documents!Drop(q, 1)
  OBVIOUS
<1>2. Len(p) \in Nat /\ Len(p) > 0
  BY <1>1, Places
<1>3. Follows(p[1], p[2], p[3], Len(p) - 1)
  <2>1. Follows(p[1], p[1 + 1], p[1 + 2], Len(p) - 1)
    BY <1>2, Firsts
  <2> QED BY <2>1
<1>4. Len(p) > 1 => Follows(p[2], p[3], p[4], Len(p) - 2)
  <2> SUFFICES ASSUME Len(p) > 1 PROVE Follows(p[2], p[3], p[4], Len(p) - 2)
    OBVIOUS
  <2>1. Follows(p[2], p[2 + 1], p[2 + 2], Len(p) - 2)
    BY <1>2, Firsts
  <2> QED BY <2>1
<1>5. Len(p) > 2 => Follows(p[3], p[4], p[5], Len(p) - 3)
  <2> SUFFICES ASSUME Len(p) > 2 PROVE Follows(p[3], p[4], p[5], Len(p) - 3)
    OBVIOUS
  <2>1. Follows(p[3], p[3 + 1], p[3 + 2], Len(p) - 3)
    BY <1>2, Firsts
  <2> QED BY <2>1
<1> QED BY <1>2, <1>3, <1>4, <1>5

\* A send that begins a run does not look at the agent again.
Beginning(p) == /\ For(p) \in {"running", "follow"}
                /\ Now(p) \in {"read run", "write run", "read agent", "write agent"}
LEMMA BeginsAlone ==
  ASSUME NEW p \in Seq(DocCalls), Fits(p), p # <<>>, Beginning(p)
  PROVE  ~Ahead(p)
<1>2. Len(p) \in Nat /\ Len(p) > 0
  BY FollowsEach
<1>3. Follows(p[1], p[2], p[3], Len(p) - 1)
  BY FollowsEach
<1>4. Len(p) > 1 => Follows(p[2], p[3], p[4], Len(p) - 2)
  BY FollowsEach
<1>5. Len(p) > 2 => Follows(p[3], p[4], p[5], Len(p) - 3)
  BY FollowsEach
<1>15. PICK l \in Nat : l = Len(p)
  BY <1>2
<1>6. PICK a, b, c, d : a = p[1] /\ b = p[2] /\ c = p[3] /\ d = p[4]
  OBVIOUS
<1>7. /\ Follows(a, b, c, l - 1) /\ (l > 1 => Follows(b, c, d, l - 2))
      /\ l > 2 => Follows(c, d, p[5], l - 3)
  BY <1>3, <1>4, <1>5, <1>6, <1>15
<1>8. /\ Now(p) = a.call /\ For(p) = IF a.call \in {"read run", "read agent"} THEN b.arg ELSE a.arg
  BY <1>6 DEF Now, For
<1>9. PICK f : f = For(p)
  OBVIOUS
<1>10. f \in {"running", "follow"} /\ f = IF a.call \in {"read run", "read agent"} THEN b.arg ELSE a.arg
  BY <1>8, <1>9 DEF Beginning
<1>11. CASE a.call = "write agent"
  <2>1. a.arg = f
    BY <1>10, <1>11
  <2>2. LooksNoMore(a) /\ a.call \notin Looks
    BY <1>10, <1>11, <2>1 DEF LooksNoMore, Looks
  <2>3. \A j \in 1 .. 1 : p[j].call \notin Looks
    BY <1>6, <2>2, UpToFour
  <2>4. PICK i \in Nat : i = 1
    OBVIOUS
  <2>5. i > 0 /\ i <= l
    BY <1>2, <1>15, <2>4
  <2>6. LooksNoMore(p[i]) /\ \A j \in 1 .. i : p[j].call \notin Looks
    BY <1>6, <2>2, <2>3, <2>4
  <2> QED BY <1>15, <2>5, <2>6, NoneAhead
<1>12. CASE a.call = "read agent"
  <2>1. l - 1 > 0 /\ b.call = "write agent" /\ b.arg = f
    BY <1>7, <1>10, <1>12 DEF Follows
  <2>0. l - 1 > 0
    BY <2>1
  <2>2. LooksNoMore(b) /\ b.call \notin Looks /\ a.call \notin Looks
    BY <1>10, <1>12, <2>1 DEF LooksNoMore, Looks
  <2>3. \A j \in 1 .. 2 : p[j].call \notin Looks
    BY <1>6, <2>2, UpToFour
  <2>4. PICK i \in Nat : i = 2
    OBVIOUS
  <2>5. i > 0 /\ i <= l
    BY <2>0, <2>4
  <2>6. LooksNoMore(p[i]) /\ \A j \in 1 .. i : p[j].call \notin Looks
    BY <1>6, <2>2, <2>3, <2>4
  <2> QED BY <1>15, <2>5, <2>6, NoneAhead
<1>13. ASSUME a.call = "write run" PROVE ~Ahead(p)
  <2>1. l - 1 > 1 /\ b.call = "read agent" /\ c.arg = f
    BY <1>7, <1>10, <1>13 DEF Follows
  <2>0. l - 1 > 1
    BY <2>1
  <2>2. l - 2 > 0 /\ l > 1
    BY <2>0
  <2>3. c.call = "write agent"
    BY <1>7, <2>1, <2>2 DEF Follows
  <2>4. LooksNoMore(c) /\ c.call \notin Looks /\ b.call \notin Looks /\ a.call \notin Looks
    BY <1>10, <1>13, <2>1, <2>3 DEF LooksNoMore, Looks
  <2>5. \A j \in 1 .. 3 : p[j].call \notin Looks
    BY <1>6, <2>4, UpToFour
  <2>6. PICK i \in Nat : i = 3
    OBVIOUS
  <2>7. i > 0 /\ i <= l
    BY <2>0, <2>6
  <2>8. LooksNoMore(p[i]) /\ \A j \in 1 .. i : p[j].call \notin Looks
    BY <1>6, <2>4, <2>5, <2>6
  <2> QED BY <1>15, <2>7, <2>8, NoneAhead
<1>14. ASSUME a.call = "read run" PROVE ~Ahead(p)
  <2>1. l - 1 > 2 /\ b.call = "write run" /\ b.arg = f
    BY <1>7, <1>10, <1>14 DEF Follows
  <2>0. l - 1 > 2
    BY <2>1
  <2>2. l > 1 /\ l > 2 /\ l - 3 > 0
    BY <2>0
  <2>3. c.call = "read agent" /\ d.arg = f
    BY <1>7, <2>1, <2>2 DEF Follows
  <2>4. d.call = "write agent"
    BY <1>7, <2>2, <2>3 DEF Follows
  <2>5. LooksNoMore(d) /\ d.call \notin Looks /\ c.call \notin Looks /\ b.call \notin Looks /\ a.call \notin Looks
    BY <1>10, <1>14, <2>1, <2>3, <2>4 DEF LooksNoMore, Looks
  <2>6. \A j \in 1 .. 4 : p[j].call \notin Looks
    BY <1>6, <2>5, UpToFour
  <2>7. PICK i \in Nat : i = 4
    OBVIOUS
  <2>8. i > 0 /\ i <= l
    BY <2>0, <2>7
  <2>9. LooksNoMore(p[i]) /\ \A j \in 1 .. i : p[j].call \notin Looks
    BY <1>6, <2>5, <2>6, <2>7
  <2> QED BY <1>15, <2>8, <2>9, NoneAhead
<1> QED BY <1>8, <1>11, <1>12, <1>13, <1>14 DEF Beginning

\* And no other behind the looking itself.
Looking(p) == Now(p) \in {"check active", "count runs", "runs.create"} \cup Looks
LEMMA LooksOnce ==
  ASSUME NEW p \in Seq(DocCalls), Fits(p), p # <<>>, Looking(p)
  PROVE  ~Ahead(Tail(p))
<1>1. PICK q : q = Tail(p)
  OBVIOUS
<1>2. PICK k \in Nat, i \in Nat : k = 1 /\ i = 2
  OBVIOUS
<1>3. Len(p) \in Nat /\ Len(p) > 0 /\ Behind(q, p, k)
  BY <1>1, <1>2, FollowsEach, TailIsBehind
<1>4. LooksNoMore(p[k])
  BY <1>2 DEF Now, LooksNoMore, Looking
<1>5. PICK l \in Nat : l = Len(p)
  BY <1>3
<1>6. k > 0 /\ k <= l
  BY <1>2, <1>3, <1>5
<1>7. \A j \in k + 1 .. Len(p) : p[j].call \notin Looks
  BY <1>4, <1>5, <1>6, Firsts
<1>8. Len(q) = l - k /\ \A j \in 1 .. Len(q) : q[j] = p[j + k]
  BY <1>3, <1>5 DEF Behind
<1>9. ASSUME NEW j \in 1 .. Len(q) PROVE q[j].call \notin Looks
  <2>1. j + k \in k + 1 .. l
    BY <1>8
  <2>2. q[j] = p[j + k]
    BY <1>8
  <2> QED BY <1>5, <1>7, <2>1, <2>2
<1> QED BY <1>1, <1>9 DEF Ahead

-----------------------------------------------------------------------------
(* Documents: the operations as they begin.                                *)
\* An operation, from its first call on, and what it is for.
Plan(p, n, f) == p \in Seq(DocCalls) /\ Fits(p) /\ p # <<>> /\ Now(p) = n /\ For(p) = f
Events(p) == p \in Seq(DocCalls) /\ Fits(p) /\ Unmarked(p) /\ Len(p) > 0 /\ p[1].call = "append"

LEMMA PlanOf ==
  ASSUME NEW p, NEW a, Goes(p, a)
  PROVE  Plan(p, a.call, IF a.call \in {"read run", "read agent"} THEN p[2].arg ELSE a.arg)
<1>1. p # <<>>
  BY DEF Goes
<1> QED BY <1>1 DEF Goes, Plan, Now, For

LEMMA ThenNothing == \A m \in Seq(DocCalls) : Then(m, <<>>) = m
BY ConcatEmptySeq DEF Then

LEMMA EventBefore ==
  ASSUME NEW q \in Seq(DocCalls), Fits(q), Unmarked(q), Len(q) > 0 => q[1].call \in {"append", "drive"},
         NEW a, a = Documents!Do("append")
  PROVE  Events(Put(a, q))
<1>1. /\ Goes(Put(a, q), a) /\ SameMarks(Put(a, q), q) /\ a.call = "append"
  BY AppendIs
<1> QED BY <1>1 DEF Goes, SameMarks, Unmarked, Events

LEMMA OneEvent ==
  ASSUME NEW a, a = Documents!Do("append")
  PROVE  Events(<<a>>) /\ <<a>> = Put(a, <<>>) /\ a \in DocCalls
<1>1. a \in DocCalls
  BY DoIsCall DEF DocNames
<1>2. PICK m : m = <<a>>
  OBVIOUS
<1>3. m \in Seq(DocCalls) /\ Len(m) = 1 /\ m[1] = a
  BY <1>1, <1>2
<1>4. Then(m, <<>>) = Put(a, <<>>)
  BY <1>3, OneThen, EmptyFits
<1>5. m = Put(a, <<>>)
  BY <1>3, <1>4, ThenNothing
<1>6. Events(Put(a, <<>>))
  <2>1. PICK e : e = <<>>
    OBVIOUS
  <2>2. e \in Seq(DocCalls) /\ Fits(e) /\ Unmarked(e) /\ ~(Len(e) > 0)
    BY <2>1, EmptyFits
  <2> QED BY <2>1, <2>2, EventBefore
<1> QED BY <1>1, <1>2, <1>5, <1>6

LEMMA TwoEvents ==
  ASSUME NEW a, a = Documents!Do("append")
  PROVE  Events(<<a, a>>)
<1>1. a \in DocCalls /\ Events(Put(a, <<>>))
  BY OneEvent
<1>2. PICK m, q : m = <<a, a>> /\ q = Put(a, <<>>)
  OBVIOUS
<1>3. m \in Seq(DocCalls) /\ Len(m) = 2 /\ m[1] = a /\ m[2] = a
  BY <1>1, <1>2
<1>4. Then(m, <<>>) = Put(a, q)
  BY <1>2, <1>3, TwoThen, EmptyFits
<1>5. m = Put(a, q)
  BY <1>3, <1>4, ThenNothing
<1>6. Events(Put(a, q))
  BY <1>1, <1>2, EventBefore DEF Events
<1> QED BY <1>2, <1>5, <1>6

LEMMA ThreeEvents ==
  ASSUME NEW a, a = Documents!Do("append")
  PROVE  Events(<<a, a, a>>)
<1>1. a \in DocCalls /\ Events(Put(a, <<>>))
  BY OneEvent
<1>2. PICK m, q, r : m = <<a, a, a>> /\ q = Put(a, <<>>) /\ r = Put(a, q)
  OBVIOUS
<1>3. m \in Seq(DocCalls) /\ Len(m) = 3 /\ m[1] = a /\ m[2] = a /\ m[3] = a
  BY <1>1, <1>2
<1>4. Then(m, <<>>) = Put(a, r)
  BY <1>2, <1>3, ThreeThen, EmptyFits
<1>5. m = Put(a, r)
  BY <1>3, <1>4, ThenNothing
<1>6. Events(r)
  BY <1>1, <1>2, EventBefore DEF Events
<1>7. Events(Put(a, r))
  BY <1>6, EventBefore DEF Events
<1> QED BY <1>2, <1>5, <1>7

LEMMA DrivenEvents ==
  ASSUME NEW a, a = Documents!Do("append"), NEW d, d = Documents!Do("drive")
  PROVE  Events(<<a, a, a, d>>)
<1>1. a \in DocCalls
  BY OneEvent
<1>2. d \in DocCalls /\ d.call = "drive" /\ d.arg = ""
  <2>1. "drive" \in DocNames
    BY DEF DocNames
  <2> QED BY <2>1, DoIsCall
<1>14. PICK m : m = <<a, a, a, d>>
  OBVIOUS
<1>4. m \in Seq(DocCalls) /\ Len(m) = 4 /\ m[1] = a /\ m[2] = a /\ m[3] = a /\ m[4] = d
  <2>1. d \in DocCalls
    BY <1>2
  <2>2. m \in Seq(DocCalls)
    BY <1>1, <1>14, <2>1
  <2> QED BY <1>14, <2>2
<1>3. PICK q, r, s : q = Put(d, <<>>) /\ r = Put(a, q) /\ s = Put(a, r)
  OBVIOUS
<1>5. Then(m, <<>>) = Put(a, s)
  BY <1>3, <1>4, FourThen, EmptyFits
<1>6. m = Put(a, s)
  BY <1>4, <1>5, ThenNothing
<1>7. PICK e : e = <<>>
  OBVIOUS
<1>8. e \in Seq(DocCalls) /\ Fits(e) /\ Unmarked(e) /\ Len(e) = 0
  BY <1>7, EmptyFits
<1>9. Goes(q, d) /\ SameMarks(q, e)
  <2>1. Follows(d, e[1], e[2], Len(e))
    BY <1>2, <1>8 DEF Follows
  <2>2. LooksNoMore(d) => ~Ahead(e)
    BY <1>8 DEF Unmarked
  <2>3. d.call \notin Looks /\ d.call # "runs.create" /\ d.arg # "idle"
    BY <1>2 DEF Looks
  <2>4. q = Put(d, e)
    BY <1>3, <1>7
  <2> QED BY <1>2, <1>8, <2>1, <2>2, <2>3, <2>4, PutCall
<1>10. q \in Seq(DocCalls) /\ Fits(q) /\ Unmarked(q) /\ q[1].call \in {"append", "drive"}
  BY <1>2, <1>8, <1>9 DEF Goes, SameMarks, Unmarked
<1>11. Events(r)
  BY <1>3, <1>10, EventBefore
<1>12. Events(s)
  BY <1>3, <1>11, EventBefore DEF Events
<1>13. Events(Put(a, s))
  BY <1>12, EventBefore DEF Events
<1> QED BY <1>14, <1>6, <1>13

\* A document of a run and the agent's are marked, and events follow.
LEMMA MarkThen ==
  ASSUME NEW s \in OfTheRun, NEW q, Events(q), NEW p, p = Then(Documents!Mark(s), q)
  PROVE  Plan(p, "read run", s) /\ Unmarked(p) /\ Long(p) /\ p[1].call = "read run" /\ p[2].arg = s
<1>1. q \in Seq(DocCalls) /\ Fits(q) /\ Unmarked(q) /\ (Len(q) > 0 => q[1].call = "append")
  BY DEF Events
<1>3. PICK a : a = Documents!Do("read run")
  OBVIOUS
<1>4. a.call = "read run"
  <2>1. "read run" \in DocNames
    BY DEF DocNames
  <2> QED BY <1>3, <2>1, DoIsCall
<1>5. s = "running" => ~Ahead(q)
  BY <1>1 DEF Unmarked
<1>6. Goes(p, a) /\ SameMarks(p, q) /\ Long(p) /\ p[2].arg = s
  <2>1. q \in Seq(DocCalls) /\ Fits(q) /\ (Len(q) > 0 => q[1].call = "append")
    BY <1>1
  <2>2. Goes(p, Documents!Do("read run"))
    BY <1>5, <2>1, MarkIs
  <2>4. SameMarks(p, q)
    BY <1>5, <2>1, MarkIs
  <2>5. Long(p)
    BY <1>5, <2>1, MarkIs
  <2>3. p[2].arg = s
    BY <1>5, <2>1, MarkIs
  <2> QED BY <1>3, <2>2, <2>3, <2>4, <2>5
<1>7. Plan(p, "read run", s)
  BY <1>4, <1>6, PlanOf
<1> QED BY <1>1, <1>4, <1>6, <1>7 DEF Goes, SameMarks, Unmarked

\* A call is put before what may follow it.
LEMMA PutAny ==
  ASSUME NEW a \in DocCalls, NEW q \in Seq(DocCalls), Fits(q), Follows(a, q[1], q[2], Len(q)),
         LooksNoMore(a) => ~Ahead(q), NEW p, p = Put(a, q)
  PROVE  /\ Goes(p, a) /\ (Ahead(p) <=> a.call \in Looks \/ Ahead(q))
         /\ (Creates(p) <=> a.call = "runs.create" \/ Creates(q))
         /\ (Unarchives(p) <=> a = Documents!Call("write agent", "idle") \/ Unarchives(q))
         /\ (q # <<>> => p[2] = q[1] /\ Long(p))
<1>1. /\ p \in Seq(DocCalls) /\ Len(p) = Len(q) + 1 /\ Len(q) \in Nat
      /\ p[1] = a /\ \A i \in 1 .. Len(q) : p[i + 1] = q[i]
  BY PutIs
<1>2. Fits(p) /\ (Ahead(p) <=> a.call \in Looks \/ Ahead(q))
  BY PutFits
<1>3. Creates(p) <=> a.call = "runs.create" \/ Creates(q)
  BY PutFits
<1>4. Unarchives(p) <=> a = Documents!Call("write agent", "idle") \/ Unarchives(q)
  BY PutFits
<1>5. ASSUME q # <<>> PROVE p[2] = q[1] /\ Long(p)
  <2>1. PICK l \in Nat : l = Len(q)
    BY <1>1
  <2>2. l # 0
    BY <1>5, <2>1, EmptySeq
  <2>3. l > 0 /\ l + 1 > 1
    BY <2>2
  <2>4. 1 \in 1 .. l /\ 1 + 1 = 2
    BY <2>3
  <2>5. p[1 + 1] = q[1]
    BY <1>1, <2>1, <2>4
  <2>6. p[2] = q[1]
    BY <2>4, <2>5
  <2>7. Long(p)
    BY <1>1, <2>1, <2>3 DEF Long
  <2> QED BY <2>6, <2>7
<1>6. Len(p) > 0
  BY <1>1
<1> QED BY <1>1, <1>2, <1>3, <1>4, <1>5, <1>6 DEF Goes

LEMMA GoesOn == \A p, a : Goes(p, a) => p \in Seq(DocCalls) /\ Fits(p) /\ p # <<>> /\ p[1] = a
<1> SUFFICES ASSUME NEW p, NEW a, Goes(p, a) PROVE p \in Seq(DocCalls) /\ Fits(p) /\ p # <<>> /\ p[1] = a
  OBVIOUS
<1>1. p # <<>>
  BY DEF Goes
<1> QED BY <1>1 DEF Goes

LEMMA Joined ==
  ASSUME NEW m \in Seq(DocCalls), NEW n \in Seq(DocCalls), NEW q \in Seq(DocCalls)
  PROVE  (m \o n) \o q = Then(m, Then(n, q))
BY ConcatAssociative DEF Then

\* The executor's run begins: it is marked, and driven.
LEMMA BegunIs == /\ Plan(Documents!Begun, "read run", "running")
                 /\ Unmarked(Documents!Begun) /\ Long(Documents!Begun)
                 /\ Documents!Begun[1].call = "read run" /\ Documents!Begun[2].arg = "running"
<1>1. PICK a, d, q : /\ a = Documents!Do("append") /\ d = Documents!Do("drive") /\ q = <<a, a, a, d>>
  OBVIOUS
<1>2. Events(q)
  BY <1>1, DrivenEvents
<1>3. "running" \in OfTheRun
  BY DEF OfTheRun
<1>5. PICK s, p : s = "running" /\ p = Documents!Begun
  OBVIOUS
<1>4. p = Then(Documents!Mark(s), q) /\ s \in OfTheRun
  BY <1>1, <1>3, <1>5 DEF Documents!Begun, Then
<1>6. Plan(p, "read run", s)
  BY <1>2, <1>4, MarkThen
<1>7. Unmarked(p)
  BY <1>2, <1>4, MarkThen
<1>8. Long(p)
  BY <1>2, <1>4, MarkThen
<1>9. p[1].call = "read run"
  BY <1>6 DEF Plan, Now
<1>10. p[2].arg = s
  BY <1>2, <1>4, MarkThen
<1> QED BY <1>5, <1>6, <1>7, <1>8, <1>9, <1>10

\* A run of its own is created for a follow-up, and begins.
LEMMA FollowUpIs ==
  ASSUME NEW p, p = Documents!FollowUp \o Documents!Begun
  PROVE  Plan(p, "check agent", "") /\ Ahead(p) /\ Creates(p) /\ ~Unarchives(p)
<1>1. PICK f1, f2, f3, f4, f5, f6 :
        /\ f1 = Documents!Do("check agent") /\ f2 = Documents!Do("check active") /\ f3 = Documents!Do("count runs")
        /\ f4 = Documents!Do("runs.create") /\ f5 = Documents!Do("read agent")
        /\ f6 = Documents!Call("write agent", "follow")
  OBVIOUS
<1>2. f1 \in DocCalls /\ f1.call = "check agent" /\ f1.arg = ""
  <2>1. "check agent" \in DocNames
    BY DEF DocNames
  <2> QED BY <1>1, <2>1, DoIsCall
<1>3. f2 \in DocCalls /\ f2.call = "check active" /\ f2.arg = ""
  <2>1. "check active" \in DocNames
    BY DEF DocNames
  <2> QED BY <1>1, <2>1, DoIsCall
<1>4. f3 \in DocCalls /\ f3.call = "count runs" /\ f3.arg = ""
  <2>1. "count runs" \in DocNames
    BY DEF DocNames
  <2> QED BY <1>1, <2>1, DoIsCall
<1>5. f4 \in DocCalls /\ f4.call = "runs.create" /\ f4.arg = ""
  <2>1. "runs.create" \in DocNames
    BY DEF DocNames
  <2> QED BY <1>1, <2>1, DoIsCall
<1>6. f5 \in DocCalls /\ f5.call = "read agent" /\ f5.arg = ""
  <2>1. "read agent" \in DocNames
    BY DEF DocNames
  <2> QED BY <1>1, <2>1, DoIsCall
<1>7. f6 \in DocCalls /\ f6.call = "write agent" /\ f6.arg = "follow"
  <2>1. "write agent" \in DocNames /\ "follow" \in DocArgs
    BY DEF DocNames, DocArgs
  <2> QED BY <1>1, <2>1, CallIs
<1>8. PICK q, q1, q2, q3, q4, q5, q6 :
        /\ q = Documents!Begun /\ q6 = Put(f6, q) /\ q5 = Put(f5, q6) /\ q4 = Put(f4, q5)
        /\ q3 = Put(f3, q4) /\ q2 = Put(f2, q3) /\ q1 = Put(f1, q2)
  OBVIOUS
<1>9. /\ q \in Seq(DocCalls) /\ Fits(q) /\ q # <<>> /\ Unmarked(q) /\ Long(q)
      /\ q[1].call = "read run" /\ q[2].arg = "running"
  BY <1>8, BegunIs DEF Plan
<1>10. PICK m : m = <<f1, f2, f3, f4, f5, f6>>
  OBVIOUS
<1>11. m = Documents!FollowUp
  BY <1>1, <1>10 DEF Documents!FollowUp
<1>12. p = q1
  <2>1. f1 \in DocCalls /\ f2 \in DocCalls /\ f3 \in DocCalls /\ f4 \in DocCalls /\ f5 \in DocCalls /\ f6 \in DocCalls
    BY <1>2, <1>3, <1>4, <1>5, <1>6, <1>7
  <2>2. m \in Seq(DocCalls)
    BY <1>10, <2>1
  <2>3. Len(m) = 6
    BY <1>10
  <2>4. m[1] = f1 /\ m[2] = f2 /\ m[3] = f3 /\ m[4] = f4 /\ m[5] = f5 /\ m[6] = f6
    BY <1>10
  <2>5. q \in Seq(DocCalls)
    BY <1>9
  <2>6. Then(m, q) = Put(m[1], Put(m[2], Put(m[3], Put(m[4], Put(m[5], Put(m[6], q))))))
    BY <2>2, <2>3, <2>5, SixThen
  <2>7. Then(m, q) = q1
    BY <1>8, <2>4, <2>6
  <2> QED BY <1>8, <1>11, <2>7 DEF Then
<1>13. Goes(q6, f6) /\ Unmarked(q6) /\ Long(q6)
  <2>1. Follows(f6, q[1], q[2], Len(q))
    BY <1>7, <1>9 DEF Follows, Long, Documents!Terminal
  <2>2. LooksNoMore(f6) => ~Ahead(q)
    BY <1>9 DEF Unmarked
  <2>3. f6 # Documents!Call("write agent", "idle") /\ f6.call \notin Looks /\ f6.call # "runs.create"
    <3>1. Documents!Call("write agent", "idle").arg = "idle"
      BY DEF Documents!Call
    <3> QED BY <1>7, <3>1 DEF Looks
  <2>4. /\ Goes(q6, f6) /\ (Ahead(q6) <=> f6.call \in Looks \/ Ahead(q))
        /\ (Creates(q6) <=> f6.call = "runs.create" \/ Creates(q))
        /\ (Unarchives(q6) <=> f6 = Documents!Call("write agent", "idle") \/ Unarchives(q))
        /\ Long(q6)
    BY <1>7, <1>8, <1>9, <2>1, <2>2, PutAny
  <2> QED BY <1>9, <2>3, <2>4 DEF Unmarked
<1>14. Goes(q5, f5) /\ Unmarked(q5) /\ Long(q5) /\ q5[2] = f6
  <2>0. q6 \in Seq(DocCalls) /\ Fits(q6) /\ q6 # <<>> /\ q6[1] = f6 /\ ~Ahead(q6)
    BY <1>13, GoesOn DEF Unmarked
  <2>1. Follows(f5, q6[1], q6[2], Len(q6))
    BY <1>6, <1>7, <1>13, <2>0 DEF Follows, Goes
  <2>3. f5 # Documents!Call("write agent", "idle") /\ f5.call \notin Looks /\ f5.call # "runs.create"
    <3>1. Documents!Call("write agent", "idle").arg = "idle"
      BY DEF Documents!Call
    <3> QED BY <1>6, <3>1 DEF Looks
  <2>4. /\ Goes(q5, f5) /\ (Ahead(q5) <=> f5.call \in Looks \/ Ahead(q6))
        /\ (Creates(q5) <=> f5.call = "runs.create" \/ Creates(q6))
        /\ (Unarchives(q5) <=> f5 = Documents!Call("write agent", "idle") \/ Unarchives(q6))
        /\ q5[2] = q6[1] /\ Long(q5)
    BY <1>6, <1>8, <2>0, <2>1, PutAny
  <2> QED BY <1>13, <2>0, <2>3, <2>4 DEF Unmarked
<1>15. Goes(q4, f4) /\ ~Ahead(q4) /\ ~Unarchives(q4) /\ Creates(q4)
  <2>0. q5 \in Seq(DocCalls) /\ Fits(q5) /\ q5 # <<>> /\ q5[1] = f5 /\ ~Ahead(q5) /\ ~Unarchives(q5)
    BY <1>14, GoesOn DEF Unmarked
  <2>1. Follows(f4, q5[1], q5[2], Len(q5))
    BY <1>5, <1>6, <1>7, <1>14, <2>0 DEF Follows, Long
  <2>3. f4 # Documents!Call("write agent", "idle") /\ f4.call \notin Looks
    <3>1. Documents!Call("write agent", "idle").arg = "idle"
      BY DEF Documents!Call
    <3> QED BY <1>5, <3>1 DEF Looks
  <2>4. /\ Goes(q4, f4) /\ (Ahead(q4) <=> f4.call \in Looks \/ Ahead(q5))
        /\ (Creates(q4) <=> f4.call = "runs.create" \/ Creates(q5))
        /\ (Unarchives(q4) <=> f4 = Documents!Call("write agent", "idle") \/ Unarchives(q5))
    BY <1>5, <1>8, <2>0, <2>1, PutAny
  <2> QED BY <1>5, <2>0, <2>3, <2>4
<1>16. Goes(q3, f3) /\ ~Ahead(q3) /\ ~Unarchives(q3) /\ Creates(q3)
  <2>0. q4 \in Seq(DocCalls) /\ Fits(q4) /\ q4 # <<>> /\ q4[1] = f4
    BY <1>15, GoesOn
  <2>1. Follows(f3, q4[1], q4[2], Len(q4))
    BY <1>4, <1>5, <2>0 DEF Follows
  <2>3. f3 # Documents!Call("write agent", "idle") /\ f3.call \notin Looks
    <3>1. Documents!Call("write agent", "idle").arg = "idle"
      BY DEF Documents!Call
    <3> QED BY <1>4, <3>1 DEF Looks
  <2>4. /\ Goes(q3, f3) /\ (Ahead(q3) <=> f3.call \in Looks \/ Ahead(q4))
        /\ (Creates(q3) <=> f3.call = "runs.create" \/ Creates(q4))
        /\ (Unarchives(q3) <=> f3 = Documents!Call("write agent", "idle") \/ Unarchives(q4))
    BY <1>4, <1>8, <1>15, <2>0, <2>1, PutAny
  <2> QED BY <1>15, <2>3, <2>4
<1>17. Goes(q2, f2) /\ ~Ahead(q2) /\ ~Unarchives(q2) /\ Creates(q2)
  <2>0. q3 \in Seq(DocCalls) /\ Fits(q3) /\ q3 # <<>> /\ q3[1] = f3
    BY <1>16, GoesOn
  <2>1. Follows(f2, q3[1], q3[2], Len(q3))
    BY <1>3, <1>4, <2>0 DEF Follows
  <2>3. f2 # Documents!Call("write agent", "idle") /\ f2.call \notin Looks
    <3>1. Documents!Call("write agent", "idle").arg = "idle"
      BY DEF Documents!Call
    <3> QED BY <1>3, <3>1 DEF Looks
  <2>4. /\ Goes(q2, f2) /\ (Ahead(q2) <=> f2.call \in Looks \/ Ahead(q3))
        /\ (Creates(q2) <=> f2.call = "runs.create" \/ Creates(q3))
        /\ (Unarchives(q2) <=> f2 = Documents!Call("write agent", "idle") \/ Unarchives(q3))
    BY <1>3, <1>8, <1>16, <2>0, <2>1, PutAny
  <2> QED BY <1>16, <2>3, <2>4
<1>18. Goes(q1, f1) /\ Ahead(q1) /\ ~Unarchives(q1) /\ Creates(q1)
  <2>0. q2 \in Seq(DocCalls) /\ Fits(q2) /\ q2 # <<>> /\ q2[1] = f2
    BY <1>17, GoesOn
  <2>1. Follows(f1, q2[1], q2[2], Len(q2))
    BY <1>2, <1>3, <2>0 DEF Follows
  <2>3. f1 # Documents!Call("write agent", "idle") /\ f1.call \in Looks
    <3>1. Documents!Call("write agent", "idle").arg = "idle"
      BY DEF Documents!Call
    <3> QED BY <1>2, <3>1 DEF Looks
  <2>4. /\ Goes(q1, f1) /\ (Ahead(q1) <=> f1.call \in Looks \/ Ahead(q2))
        /\ (Creates(q1) <=> f1.call = "runs.create" \/ Creates(q2))
        /\ (Unarchives(q1) <=> f1 = Documents!Call("write agent", "idle") \/ Unarchives(q2))
    BY <1>2, <1>8, <1>17, <2>0, <2>1, PutAny
  <2> QED BY <1>17, <2>3, <2>4
<1>19. Plan(q1, "check agent", "")
  <2>1. Plan(q1, f1.call, IF f1.call \in {"read run", "read agent"} THEN q1[2].arg ELSE f1.arg)
    BY <1>18, PlanOf
  <2> QED BY <1>2, <2>1
<1> QED BY <1>12, <1>18, <1>19

\* A call that neither looks, nor creates a run, nor sets the agent's status.
Plain(a) == a \in DocCalls /\ a.call \notin Looks /\ a.call # "runs.create" /\ a.arg # "idle" /\ ~LooksNoMore(a)

LEMMA PutPlain ==
  ASSUME NEW a, Plain(a), NEW q \in Seq(DocCalls), Fits(q), Follows(a, q[1], q[2], Len(q)), NEW p, p = Put(a, q)
  PROVE  Goes(p, a) /\ SameMarks(p, q) /\ (q # <<>> => p[2] = q[1] /\ Long(p))
<1>1. a # Documents!Call("write agent", "idle")
  <2>1. Documents!Call("write agent", "idle").arg = "idle"
    BY DEF Documents!Call
  <2> QED BY <2>1 DEF Plain
<1>2. a \in DocCalls /\ a.call \notin Looks /\ a.call # "runs.create" /\ ~LooksNoMore(a)
  BY DEF Plain
<1>3. /\ Goes(p, a) /\ (Ahead(p) <=> a.call \in Looks \/ Ahead(q))
      /\ (Creates(p) <=> a.call = "runs.create" \/ Creates(q))
      /\ (Unarchives(p) <=> a = Documents!Call("write agent", "idle") \/ Unarchives(q))
      /\ (q # <<>> => p[2] = q[1] /\ Long(p))
  BY <1>2, PutAny
<1> QED BY <1>1, <1>2, <1>3 DEF SameMarks

\* What a send does, when nothing has to be expired, by whether it has a run to use.
LEMMA PendingIs ==
  ASSUME NEW p, p = <<Documents!Do("find pending")>>
  PROVE  Plan(p, "find pending", "") /\ ~Unarchives(p) /\ ~Creates(p)
<1>1. PICK a, e : a = Documents!Do("find pending") /\ e = <<>>
  OBVIOUS
<1>2. a \in DocCalls /\ a.call = "find pending" /\ a.arg = ""
  <2>1. "find pending" \in DocNames
    BY DEF DocNames
  <2> QED BY <1>1, <2>1, DoIsCall
<1>3. e \in Seq(DocCalls) /\ Fits(e) /\ ~Ahead(e) /\ ~Creates(e) /\ ~Unarchives(e) /\ Len(e) = 0
  BY <1>1, EmptyFits DEF Unmarked
<1>4. p = Put(a, e)
  <2>0. a \in DocCalls
    BY <1>2
  <2>3. p = <<a>>
    BY <1>1
  <2>1. p \in Seq(DocCalls) /\ Len(p) = 1 /\ p[1] = a
    BY <2>0, <2>3, OneCall
  <2>2. Then(p, e) = Put(a, e)
    BY <1>3, <2>1, OneThen
  <2> QED BY <1>1, <2>1, <2>2, ThenNothing
<1>5. Follows(a, e[1], e[2], Len(e))
  BY <1>2, <1>3 DEF Follows
<1>6. a # Documents!Call("write agent", "idle")
  <2>1. Documents!Call("write agent", "idle").arg = "idle"
    BY DEF Documents!Call
  <2> QED BY <1>2, <2>1
<1>7. Goes(p, a) /\ ~Creates(p) /\ ~Unarchives(p)
  <2>1. LooksNoMore(a) => ~Ahead(e)
    BY <1>3
  <2>2. /\ Goes(p, a)
        /\ (Creates(p) <=> a.call = "runs.create" \/ Creates(e))
        /\ (Unarchives(p) <=> a = Documents!Call("write agent", "idle") \/ Unarchives(e))
    BY <1>2, <1>3, <1>4, <1>5, <2>1, PutAny
  <2> QED BY <1>2, <1>3, <1>6, <2>2
<1>8. Plan(p, a.call, IF a.call \in {"read run", "read agent"} THEN p[2].arg ELSE a.arg)
  BY <1>7, PlanOf
<1> QED BY <1>2, <1>7, <1>8

LEMMA ExpiryIs ==
  ASSUME NEW q \in Seq(DocCalls), Fits(q), q # <<>>, Now(q) \in Looks,
         NEW p, p = <<Documents!Do("find agent"), Documents!Do("find active")>> \o q
  PROVE  Plan(p, "find agent", "") /\ SameMarks(p, q)
<1>1. PICK a, b, r : a = Documents!Do("find agent") /\ b = Documents!Do("find active") /\ r = Put(b, q)
  OBVIOUS
<1>2. a \in DocCalls /\ a.call = "find agent" /\ a.arg = ""
  <2>1. "find agent" \in DocNames
    BY DEF DocNames
  <2> QED BY <1>1, <2>1, DoIsCall
<1>3. b \in DocCalls /\ b.call = "find active" /\ b.arg = ""
  <2>1. "find active" \in DocNames
    BY DEF DocNames
  <2> QED BY <1>1, <2>1, DoIsCall
<1>4. p = Put(a, r)
  <2>1. PICK m : m = <<a, b>>
    OBVIOUS
  <2>2. a \in DocCalls /\ b \in DocCalls
    BY <1>2, <1>3
  <2>3. m \in Seq(DocCalls) /\ Len(m) = 2 /\ m[1] = a /\ m[2] = b
    BY <2>1, <2>2, TwoCalls
  <2>4. Then(m, q) = Put(a, r)
    BY <1>1, <2>3, TwoThen
  <2>5. p = Then(m, q)
    BY <1>1, <2>1 DEF Then
  <2> QED BY <2>4, <2>5
<1>5. q[1].call \in Looks
  BY DEF Now
<1>6. Goes(r, b) /\ SameMarks(r, q) /\ r[2] = q[1]
  <2>1. Follows(b, q[1], q[2], Len(q))
    BY <1>3, <1>5 DEF Follows
  <2>2. Plain(b)
    BY <1>3 DEF Plain, Looks, LooksNoMore
  <2> QED BY <1>1, <2>1, <2>2, PutPlain
<1>7. r \in Seq(DocCalls) /\ Fits(r) /\ r # <<>> /\ r[1] = b
  BY <1>6, GoesOn
<1>8. Goes(p, a) /\ SameMarks(p, r)
  <2>1. Follows(a, r[1], r[2], Len(r))
    BY <1>2, <1>3, <1>5, <1>6, <1>7 DEF Follows
  <2>2. Plain(a)
    BY <1>2 DEF Plain, Looks, LooksNoMore
  <2> QED BY <1>4, <1>7, <2>1, <2>2, PutPlain
<1>9. Plan(p, a.call, IF a.call \in {"read run", "read agent"} THEN p[2].arg ELSE a.arg)
  BY <1>8, PlanOf
<1>10. SameMarks(p, q)
  BY <1>6, <1>8 DEF SameMarks
<1> QED BY <1>2, <1>9, <1>10

LEMMA SendIs ==
  ASSUME NEW forced \in BOOLEAN, NEW p, p = Documents!Send(forced)
  PROVE  /\ Plan(p, Now(p), "") /\ ~Unarchives(p) /\ (Creates(p) => firstRun = 0)
         /\ forced => Now(p) = "find agent"
         /\ ~forced => Now(p) \in Looks
<1>1. PICK q : q = IF firstRun # 0 THEN <<Documents!Do("find pending")>> ELSE Documents!FollowUp \o Documents!Begun
  OBVIOUS
<1>2. Plan(q, Now(q), "") /\ Now(q) \in Looks /\ ~Unarchives(q) /\ (Creates(q) => firstRun = 0)
  <2>1. CASE firstRun # 0
    <3>1. q = <<Documents!Do("find pending")>>
      BY <1>1, <2>1
    <3>2. Plan(q, "find pending", "") /\ ~Unarchives(q) /\ ~Creates(q)
      BY <3>1, PendingIs
    <3>3. Now(q) = "find pending"
      BY <3>2 DEF Plan
    <3> QED BY <3>2, <3>3 DEF Looks
  <2>2. CASE firstRun = 0
    <3>1. q = Documents!FollowUp \o Documents!Begun
      BY <1>1, <2>2
    <3>2. Plan(q, "check agent", "") /\ ~Unarchives(q)
      BY <3>1, FollowUpIs
    <3>3. Now(q) = "check agent"
      BY <3>2 DEF Plan
    <3> QED BY <2>2, <3>2, <3>3 DEF Looks
  <2> QED BY <2>1, <2>2
<1>3. q \in Seq(DocCalls) /\ Fits(q) /\ q # <<>>
  BY <1>2 DEF Plan
<1>4. p = (IF forced THEN <<Documents!Do("find agent"), Documents!Do("find active")>> ELSE <<>>) \o q
  BY <1>1 DEF Documents!Send, Documents!NoRun
<1>5. CASE forced
  <2>1. p = <<Documents!Do("find agent"), Documents!Do("find active")>> \o q
    BY <1>4, <1>5
  <2>2. Plan(p, "find agent", "") /\ SameMarks(p, q)
    BY <1>2, <1>3, <2>1, ExpiryIs
  <2>3. Now(p) = "find agent"
    BY <2>2 DEF Plan
  <2> QED BY <1>2, <1>5, <2>2, <2>3 DEF SameMarks
<1>6. CASE ~forced
  <2>1. p = <<>> \o q
    BY <1>4, <1>6
  <2>2. p = q
    BY <1>3, <2>1, ConcatEmptySeq
  <2> QED BY <1>2, <1>6, <2>2
<1> QED BY <1>5, <1>6

\* What an executor does at the end of its run.
LEMMA EndIs ==
  ASSUME NEW s \in OfTheRun \ {"running"}, NEW p, p = Documents!End(s)
  PROVE  Plan(p, "append", "") /\ Unmarked(p)
<1>1. PICK a, q, m : a = Documents!Do("append") /\ q = <<a, a>> /\ m = Documents!Mark(s)
  OBVIOUS
<1>2. Events(q)
  BY <1>1, TwoEvents
<1>3. PICK r : r = Then(m, q)
  OBVIOUS
<1>4. Plan(r, "read run", s) /\ Unmarked(r)
  BY <1>1, <1>2, <1>3, MarkThen
<1>5. Long(r) /\ r[2].arg = s
  BY <1>1, <1>2, <1>3, MarkThen
<1>6. r \in Seq(DocCalls) /\ Fits(r) /\ r # <<>> /\ r[1].call = "read run"
  BY <1>4 DEF Plan, Now
<1>7. a \in DocCalls /\ a.call = "append" /\ a.arg = ""
  <2>1. "append" \in DocNames
    BY DEF DocNames
  <2> QED BY <1>1, <2>1, DoIsCall
<1>8. p = Put(a, r)
  <2>1. a \in DocCalls
    BY <1>7
  <2>2. <<a>> \in Seq(DocCalls)
    BY <2>1
  <2>3. m \in Seq(DocCalls)
    BY <1>1, MarkInSeq
  <2>4. q \in Seq(DocCalls)
    BY <1>2 DEF Events
  <2>5. (<<a>> \o m) \o q = Then(<<a>>, Then(m, q))
    BY <2>2, <2>3, <2>4, Joined
  <2>6. p = (<<a>> \o m) \o q
    BY <1>1 DEF Documents!End
  <2> QED BY <1>3, <2>5, <2>6 DEF Then, Put
<1>9. Goes(p, a) /\ SameMarks(p, r)
  <2>1. Follows(a, r[1], r[2], Len(r))
    BY <1>5, <1>6, <1>7 DEF Follows, Long
  <2>2. Plain(a)
    BY <1>7 DEF Plain, Looks, LooksNoMore
  <2> QED BY <1>6, <1>8, <2>1, <2>2, PutPlain
<1>10. Plan(p, a.call, IF a.call \in {"read run", "read agent"} THEN p[2].arg ELSE a.arg)
  BY <1>9, PlanOf
<1> QED BY <1>4, <1>7, <1>9, <1>10 DEF SameMarks, Unmarked

LEMMA CancelIs ==
  ASSUME NEW p, p = Documents!Cancel
  PROVE  Plan(p, "find run", "") /\ Unmarked(p)
<1>1. PICK a, b, q, m, s : /\ b = Documents!Do("find run") /\ a = Documents!Do("append") /\ q = <<a, a, a>>
                           /\ s = "cancelled" /\ m = Documents!Mark(s)
  OBVIOUS
<1>0. s \in OfTheRun /\ s # "running"
  BY <1>1 DEF OfTheRun, Documents!Terminal
<1>2. Events(q)
  BY <1>1, ThreeEvents
<1>3. PICK r : r = Then(m, q)
  OBVIOUS
<1>4. Plan(r, "read run", s) /\ Unmarked(r)
  BY <1>0, <1>1, <1>2, <1>3, MarkThen
<1>5. Long(r) /\ r[2].arg = s
  BY <1>0, <1>1, <1>2, <1>3, MarkThen
<1>6. r \in Seq(DocCalls) /\ Fits(r) /\ r # <<>> /\ r[1].call = "read run"
  BY <1>4 DEF Plan, Now
<1>7. b \in DocCalls /\ b.call = "find run" /\ b.arg = ""
  <2>1. "find run" \in DocNames
    BY DEF DocNames
  <2> QED BY <1>1, <2>1, DoIsCall
<1>8. p = Put(b, r)
  <2>1. b \in DocCalls
    BY <1>7
  <2>2. <<b>> \in Seq(DocCalls)
    BY <2>1
  <2>3. m \in Seq(DocCalls)
    BY <1>0, <1>1, MarkInSeq
  <2>4. q \in Seq(DocCalls)
    BY <1>2 DEF Events
  <2>5. (<<b>> \o m) \o q = Then(<<b>>, Then(m, q))
    BY <2>2, <2>3, <2>4, Joined
  <2>6. p = (<<b>> \o m) \o q
    BY <1>1 DEF Documents!Cancel
  <2> QED BY <1>3, <2>5, <2>6 DEF Then, Put
<1>9. Goes(p, b) /\ SameMarks(p, r)
  <2>1. Follows(b, r[1], r[2], Len(r))
    BY <1>0, <1>5, <1>6, <1>7 DEF Follows, Long
  <2>2. Plain(b)
    BY <1>7 DEF Plain, Looks, LooksNoMore
  <2> QED BY <1>6, <1>8, <2>1, <2>2, PutPlain
<1>10. Plan(p, b.call, IF b.call \in {"read run", "read agent"} THEN p[2].arg ELSE b.arg)
  BY <1>9, PlanOf
<1> QED BY <1>4, <1>7, <1>9, <1>10 DEF SameMarks, Unmarked

LEMMA MarkedIs ==
  ASSUME NEW s \in OfTheRun, NEW q \in Seq(DocCalls), Fits(q), Len(q) > 0 => q[1].call = "append",
         s = "running" => ~Ahead(q), NEW p, p = Then(Documents!Mark(s), q)
  PROVE  Plan(p, "read run", s) /\ SameMarks(p, q)
<1>1. PICK b : b = Documents!Do("read run")
  OBVIOUS
<1>2. b.call = "read run"
  <2>1. "read run" \in DocNames
    BY DEF DocNames
  <2> QED BY <1>1, <2>1, DoIsCall
<1>3. Goes(p, Documents!Do("read run"))
  BY MarkIs
<1>4. SameMarks(p, q)
  BY MarkIs
<1>5. p[2].arg = s
  BY MarkIs
<1>6. Plan(p, b.call, IF b.call \in {"read run", "read agent"} THEN p[2].arg ELSE b.arg)
  BY <1>1, <1>3, PlanOf
<1> QED BY <1>2, <1>4, <1>5, <1>6

\* The expiry of a run that was found, before what the send goes on with.
LEMMA ExpireIs ==
  ASSUME NEW q \in Seq(DocCalls), Fits(q), Now(q) \in {"rest"} \cup Looks,
         NEW p, p = Documents!Mark("expired") \o <<Documents!Do("append")>> \o q
  PROVE  Plan(p, "read run", "expired") /\ SameMarks(p, q)
<1>1. PICK a, m, s, r : /\ a = Documents!Do("append") /\ s = "expired" /\ m = Documents!Mark(s) /\ r = Put(a, q)
  OBVIOUS
<1>0. s \in OfTheRun /\ s # "running"
  BY <1>1 DEF OfTheRun, Documents!Terminal
<1>2. Len(q) > 0 => q[1].call \in Looks
  <2> SUFFICES ASSUME Len(q) > 0 PROVE q[1].call \in Looks
    OBVIOUS
  <2>1. q # <<>>
    OBVIOUS
  <2>2. Now(q) = q[1].call /\ q[1] \in DocCalls
    BY <2>1, ElementOfSeq DEF Now
  <2>3. q[1].call # "rest"
    BY <2>2 DEF DocCalls, DocNames
  <2> QED BY <2>2, <2>3
<1>3. Goes(r, a) /\ SameMarks(r, q) /\ a \in DocCalls /\ a.call = "append"
  BY <1>1, <1>2, AppendIs
<1>4. r \in Seq(DocCalls) /\ Fits(r) /\ r # <<>> /\ r[1] = a
  BY <1>3, GoesOn
<1>5. p = Then(m, r)
  <2>1. a \in DocCalls
    BY <1>3
  <2>2. <<a>> \in Seq(DocCalls)
    BY <2>1
  <2>3. m \in Seq(DocCalls)
    BY <1>0, <1>1, MarkInSeq
  <2>4. (m \o <<a>>) \o q = Then(m, Then(<<a>>, q))
    BY <2>2, <2>3, Joined
  <2>5. p = (m \o <<a>>) \o q
    BY <1>1
  <2> QED BY <1>1, <2>4, <2>5 DEF Then, Put
<1>6. Len(r) > 0 => r[1].call = "append"
  BY <1>3, <1>4
<1>7. Plan(p, "read run", s) /\ SameMarks(p, r)
  BY <1>0, <1>1, <1>4, <1>5, <1>6, MarkedIs
<1>8. SameMarks(p, q)
  BY <1>3, <1>7 DEF SameMarks
<1> QED BY <1>1, <1>7, <1>8

LEMMA SetStatusIs ==
  ASSUME NEW s \in {"idle", "archived"}, NEW p, p = Documents!SetStatus(s)
  PROVE  Plan(p, "read agent", s) /\ ~Ahead(p) /\ ~Creates(p)
<1>1. PICK a, b, e, r : /\ a = Documents!Do("read agent") /\ b = Documents!Call("write agent", s)
                        /\ e = <<>> /\ r = Put(b, e)
  OBVIOUS
<1>2. a \in DocCalls /\ a.call = "read agent" /\ a.arg = ""
  <2>1. "read agent" \in DocNames
    BY DEF DocNames
  <2> QED BY <1>1, <2>1, DoIsCall
<1>3. b \in DocCalls /\ b.call = "write agent" /\ b.arg = s
  <2>1. PICK n : n = "write agent"
    OBVIOUS
  <2>2. n \in DocNames /\ s \in DocArgs
    BY <2>1 DEF DocNames, DocArgs
  <2>3. b = Documents!Call(n, s)
    BY <1>1, <2>1
  <2>4. b \in DocCalls /\ b.call = n /\ b.arg = s
    BY <2>2, <2>3, CallIs
  <2> QED BY <2>1, <2>4
<1>4. e \in Seq(DocCalls) /\ Fits(e) /\ ~Ahead(e) /\ ~Creates(e) /\ Len(e) = 0
  BY <1>1, EmptyFits DEF Unmarked
<1>5. p = Put(a, r)
  <2>0. p = <<a, b>>
    BY <1>1 DEF Documents!SetStatus
  <2>2. a \in DocCalls /\ b \in DocCalls
    BY <1>2, <1>3
  <2>3. p \in Seq(DocCalls) /\ Len(p) = 2 /\ p[1] = a /\ p[2] = b
    BY <2>0, <2>2, TwoCalls
  <2>5. e \in Seq(DocCalls)
    BY <1>4
  <2>6. Then(p, e) = Put(p[1], Put(p[2], e))
    BY <2>3, <2>5, TwoThen
  <2>4. Then(p, e) = Put(a, r)
    BY <1>1, <2>3, <2>6
  <2> QED BY <1>1, <2>3, <2>4, ThenNothing
<1>6. Goes(r, b) /\ ~Ahead(r) /\ ~Creates(r)
  <2>1. Follows(b, e[1], e[2], Len(e))
    BY <1>3, <1>4 DEF Follows, Documents!Terminal
  <2>2. LooksNoMore(b) => ~Ahead(e)
    BY <1>4
  <2>3. /\ Goes(r, b) /\ (Ahead(r) <=> b.call \in Looks \/ Ahead(e))
        /\ (Creates(r) <=> b.call = "runs.create" \/ Creates(e))
    BY <1>1, <1>3, <1>4, <2>1, <2>2, PutAny
  <2> QED BY <1>3, <1>4, <2>3 DEF Looks
<1>7. r \in Seq(DocCalls) /\ Fits(r) /\ r # <<>> /\ r[1] = b /\ Len(r) > 0
  BY <1>6, GoesOn DEF Goes
<1>8. Goes(p, a) /\ ~Ahead(p) /\ ~Creates(p) /\ p[2] = b
  <2>1. Follows(a, r[1], r[2], Len(r))
    BY <1>2, <1>3, <1>7 DEF Follows
  <2>2. LooksNoMore(a) => ~Ahead(r)
    BY <1>6
  <2>3. /\ Goes(p, a) /\ (Ahead(p) <=> a.call \in Looks \/ Ahead(r))
        /\ (Creates(p) <=> a.call = "runs.create" \/ Creates(r))
        /\ p[2] = r[1]
    BY <1>2, <1>5, <1>7, <2>1, <2>2, PutAny
  <2> QED BY <1>2, <1>6, <1>7, <2>3 DEF Looks
<1>9. Plan(p, a.call, IF a.call \in {"read run", "read agent"} THEN p[2].arg ELSE a.arg)
  BY <1>8, PlanOf
<1> QED BY <1>2, <1>3, <1>8, <1>9

LEMMA DeleteIs ==
  ASSUME NEW p, p = Documents!DeleteAgent
  PROVE  Plan(p, "runs.delete", "") /\ Unmarked(p)
<1>1. PICK a, b, c, e, q, r : /\ a = Documents!Do("runs.delete") /\ b = Documents!Do("checkpoints.delete")
                              /\ c = Documents!Do("agents.delete") /\ e = <<>> /\ q = Put(c, e) /\ r = Put(b, q)
  OBVIOUS
<1>2. a \in DocCalls /\ a.call = "runs.delete" /\ a.arg = ""
  <2>1. "runs.delete" \in DocNames
    BY DEF DocNames
  <2> QED BY <1>1, <2>1, DoIsCall
<1>3. b \in DocCalls /\ b.call = "checkpoints.delete" /\ b.arg = ""
  <2>1. "checkpoints.delete" \in DocNames
    BY DEF DocNames
  <2> QED BY <1>1, <2>1, DoIsCall
<1>4. c \in DocCalls /\ c.call = "agents.delete" /\ c.arg = ""
  <2>1. "agents.delete" \in DocNames
    BY DEF DocNames
  <2> QED BY <1>1, <2>1, DoIsCall
<1>5. e \in Seq(DocCalls) /\ Fits(e) /\ Unmarked(e) /\ Len(e) = 0
  BY <1>1, EmptyFits
<1>6. p = Put(a, r)
  <2>0. p = <<a, b, c>>
    BY <1>1 DEF Documents!DeleteAgent
  <2>2. a \in DocCalls /\ b \in DocCalls /\ c \in DocCalls
    BY <1>2, <1>3, <1>4
  <2>3. p \in Seq(DocCalls) /\ Len(p) = 3 /\ p[1] = a /\ p[2] = b /\ p[3] = c
    BY <2>0, <2>2, ThreeCalls
  <2>5. e \in Seq(DocCalls)
    BY <1>5
  <2>6. Then(p, e) = Put(p[1], Put(p[2], Put(p[3], e)))
    BY <2>3, <2>5, ThreeThen
  <2>4. Then(p, e) = Put(a, r)
    BY <1>1, <2>3, <2>6
  <2> QED BY <1>1, <2>3, <2>4, ThenNothing
<1>7. Goes(q, c) /\ SameMarks(q, e)
  <2>1. Follows(c, e[1], e[2], Len(e))
    BY <1>4, <1>5 DEF Follows
  <2>2. Plain(c)
    BY <1>4 DEF Plain, Looks, LooksNoMore
  <2> QED BY <1>1, <1>5, <2>1, <2>2, PutPlain
<1>8. q \in Seq(DocCalls) /\ Fits(q) /\ q # <<>> /\ q[1] = c /\ Len(q) > 0
  BY <1>7, GoesOn DEF Goes
<1>9. Goes(r, b) /\ SameMarks(r, q) /\ Long(r)
  <2>1. Follows(b, q[1], q[2], Len(q))
    BY <1>3, <1>4, <1>8 DEF Follows
  <2>2. Plain(b)
    BY <1>3 DEF Plain, Looks, LooksNoMore
  <2> QED BY <1>1, <1>8, <2>1, <2>2, PutPlain
<1>10. r \in Seq(DocCalls) /\ Fits(r) /\ r # <<>> /\ r[1] = b
  BY <1>9, GoesOn
<1>11. Goes(p, a) /\ SameMarks(p, r)
  <2>1. Follows(a, r[1], r[2], Len(r))
    BY <1>2, <1>3, <1>9, <1>10 DEF Follows, Long
  <2>2. Plain(a)
    BY <1>2 DEF Plain, Looks, LooksNoMore
  <2> QED BY <1>6, <1>10, <2>1, <2>2, PutPlain
<1>12. Plan(p, a.call, IF a.call \in {"read run", "read agent"} THEN p[2].arg ELSE a.arg)
  BY <1>11, PlanOf
<1> QED BY <1>2, <1>5, <1>7, <1>9, <1>11, <1>12 DEF SameMarks, Unmarked

-----------------------------------------------------------------------------
(* Documents: what holds of the tasks and of the documents.                *)
Marking(p, for) == Now(p) \in {"read agent", "write agent"} /\ For(p) \in for
OnRun(p) == \/ Now(p) \in {"read run", "write run", "append", "drive", "find run"}
            \/ Marking(p, OfTheRun \cup {"follow"})
\* What a task has read or found, by the call it has come to.
Known(e) == /\ OnRun(e.todo) => e.run \in Documents!Run
            /\ Now(e.todo) = "write run" => e.read \in Documents!RunDocs
            /\ Now(e.todo) = "write agent" => e.read \in Documents!AgentDocs
            /\ Now(e.todo) = "runs.create" => e.read \in Documents!RunDocs /\ e.read.status = "queued"
ShapedAt(w, e) == /\ Fits(e.todo) /\ Known(e)
                  /\ Creates(e.todo) => firstRun = 0
                  /\ Unarchives(e.todo) => w \in Task
DocsTyped == /\ agentDoc \in Documents!AgentDocs \cup {Documents!Nil}
             /\ runDoc \in [Documents!Run -> Documents!RunDocs \cup {Documents!Nil}]
             /\ log \subseteq Documents!Run /\ alive \subseteq Documents!Run
             /\ firstRun \in Documents!Run \cup {0} /\ made \in Documents!Run
             /\ firstRun # 0 => firstRun = 1 /\ made = 1
             /\ deleted => agentDoc = Documents!Nil
\* What a forced send relies on when no other task of the loop intervenes.
IsFree == agentDoc = Documents!Nil \/ ~Documents!Live(agentDoc.active)
ForcedAt(e) == e.forced =>
  /\ Now(e.todo) \in Looks => IsFree
  /\ Now(e.todo) = "append" /\ Ahead(e.todo) => IsFree
  /\ Now(e.todo) = "check active" => ~Documents!Live(e.run)
  /\ Now(e.todo) = "find active" => agentDoc # Documents!Nil /\ e.run = agentDoc.active
ReadAt(e) == Now(e.todo) = "write agent" => agentDoc # Documents!Nil /\ e.read = agentDoc
\* How the agent and its newest run belong together, but where an operation parts them.
Sound == agentDoc # Documents!Nil =>
  /\ agentDoc.active # 0 /\ runDoc[agentDoc.active] # Documents!Nil =>
       agentDoc.active = made /\ Documents!Live(made)
  /\ agentDoc.status = "running" => agentDoc.active # 0 /\ runDoc[agentDoc.active].status = "running"
Unsound(p) == Now(p) \in {"checkpoints.delete", "agents.delete"} \/ Marking(p, Documents!Terminal)
SoundAt(e) ==
  /\ Now(e.todo) = "check active" => agentDoc # Documents!Nil /\ e.run = agentDoc.active
  /\ Now(e.todo) \in {"count runs", "runs.create"} => agentDoc # Documents!Nil /\ ~Documents!Live(agentDoc.active)
  /\ \/ Marking(e.todo, {"follow"})
     \/ Now(e.todo) \in {"read run", "write run"} /\ For(e.todo) = "running"
     => e.run = made /\ runDoc[made].status = "queued"
  /\ Marking(e.todo, {"running"}) => e.run = made /\ runDoc[made].status = "running"

\* The invariant of the documents. Always: the fields have their types and the calls that a task
\* has ahead are those of its operation. Where calls do not suspend: one task at most is under
\* way, a forced send may rely on what it looked at, and the agent document that a task read is
\* the one that is stored when it writes. Where, besides, no operation is cut off: the documents
\* agree (`Sound') unless the task under way is at the call that parts them.
DocsInv ==
  /\ DocsTyped /\ task \in [Documents!Worker -> DocTask]
  /\ \A w \in Documents!Worker : ShapedAt(w, task[w])
  /\ ~suspends =>
       /\ ~refused
       /\ \A v, w \in Documents!Worker : ~Documents!AtRest(v) /\ ~Documents!AtRest(w) => v = w
       /\ \A w \in Documents!Worker : ForcedAt(task[w]) /\ ReadAt(task[w])
       /\ ~cut => /\ (\A w \in Documents!Worker : ~Unsound(task[w].todo)) => Sound
                  /\ \A w \in Documents!Worker : SoundAt(task[w])

\* What a task may be left with by a step that it makes.
Leaves(w, e) ==
  /\ e \in DocTask /\ task' = [task EXCEPT ![w] = e] /\ DocsTyped' /\ firstRun' \in {firstRun, 0}
  /\ suspends' = suspends /\ cut' = cut
  /\ Fits(e.todo) /\ Known(e) /\ (Creates(e.todo) => firstRun' = 0) /\ (Unarchives(e.todo) => w \in Task)

LEMMA RestsWell ==
  ASSUME NEW e, e.todo = <<>>
  PROVE  /\ Fits(e.todo) /\ Known(e) /\ ~Creates(e.todo) /\ ~Unarchives(e.todo) /\ ~Ahead(e.todo)
         /\ Now(e.todo) = "rest" /\ ForcedAt(e) /\ ReadAt(e) /\ SoundAt(e) /\ ~Unsound(e.todo)
<1>1. Now(e.todo) = "rest"
  BY DEF Now
<1>2. Fits(e.todo) /\ ~Creates(e.todo) /\ ~Unarchives(e.todo) /\ ~Ahead(e.todo)
  BY EmptyFits DEF Unmarked
<1>3. Known(e) /\ ReadAt(e)
  BY <1>1 DEF Known, OnRun, Marking, ReadAt
<1>4. ForcedAt(e)
  BY <1>1 DEF ForcedAt, Looks
<1>5. SoundAt(e)
  BY <1>1 DEF SoundAt, Marking
<1>6. ~Unsound(e.todo)
  BY <1>1 DEF Unsound, Marking
<1> QED BY <1>1, <1>2, <1>3, <1>4, <1>5, <1>6

\* The same of the next state, and then of all states.
LEMMA RestsWellThen ==
  ASSUME NEW e, e.todo = <<>>
  PROVE  ForcedAt(e)' /\ ReadAt(e)' /\ SoundAt(e)'
<1>1. Now(e.todo) = "rest"
  BY DEF Now
<1>3. ReadAt(e)'
  BY <1>1 DEF ReadAt
<1>4. ForcedAt(e)'
  BY <1>1 DEF ForcedAt, Looks
<1>5. SoundAt(e)'
  BY <1>1 DEF SoundAt, Marking
<1> QED BY <1>3, <1>4, <1>5

LEMMA OneMoves ==
  ASSUME DocsInv, NEW w \in Documents!Worker, NEW e, Documents!HasLoop(w), Leaves(w, e),
         ~suspends => /\ ~refused' /\ ForcedAt(e)' /\ ReadAt(e)'
                      /\ ~cut => SoundAt(e)' /\ (~Unsound(e.todo) => Sound')
  PROVE  DocsInv'
<1>1. /\ e \in DocTask /\ task' = [task EXCEPT ![w] = e] /\ task \in [Documents!Worker -> DocTask]
      /\ DocsTyped' /\ firstRun' \in {firstRun, 0} /\ suspends' = suspends /\ cut' = cut
  BY DEF Leaves, DocsInv
<1>2. task'[w] = e /\ \A v \in Documents!Worker : v # w => task'[v] = task[v]
  BY <1>1
<1>3. task' \in [Documents!Worker -> DocTask]
  BY <1>1
<1>4. ASSUME NEW v \in Documents!Worker PROVE ShapedAt(v, task[v])'
  <2>1. CASE v = w
    <3>1. Fits(e.todo) /\ Known(e) /\ (Creates(e.todo) => firstRun' = 0) /\ (Unarchives(e.todo) => w \in Task)
      BY DEF Leaves
    <3> QED BY <1>2, <2>1, <3>1 DEF ShapedAt
  <2>2. CASE v # w
    <3>1. /\ Fits(task[v].todo) /\ Known(task[v])
          /\ (Creates(task[v].todo) => firstRun = 0) /\ (Unarchives(task[v].todo) => v \in Task)
      BY DEF DocsInv, ShapedAt
    <3>2. task'[v] = task[v]
      BY <1>2, <2>2
    <3> QED BY <1>1, <3>1, <3>2 DEF ShapedAt
  <2> QED BY <2>1, <2>2
<1>5. ASSUME ~suspends, NEW v \in Documents!Worker, v # w PROVE task'[v].todo = <<>> /\ task[v].todo = <<>>
  <2>1. task[v].todo = <<>>
    BY <1>5 DEF Documents!HasLoop, Documents!AtRest
  <2> QED BY <1>2, <1>5, <2>1
<1>6. ASSUME ~suspends
      PROVE  /\ ~refused'
             /\ \A v, u \in Documents!Worker : ~Documents!AtRest(v)' /\ ~Documents!AtRest(u)' => v = u
             /\ \A v \in Documents!Worker : ForcedAt(task[v])' /\ ReadAt(task[v])'
  <2>1. ~refused' /\ ForcedAt(e)' /\ ReadAt(e)'
    BY <1>6
  <2>2. ASSUME NEW v \in Documents!Worker PROVE ForcedAt(task[v])' /\ ReadAt(task[v])'
    <3>1. CASE v = w
      <4>1. task'[v] = e
        BY <1>2, <3>1
      <4>2. ForcedAt(task[v])'
        BY <2>1, <4>1 DEF ForcedAt
      <4>3. ReadAt(task[v])'
        BY <2>1, <4>1 DEF ReadAt
      <4> QED BY <4>2, <4>3
    <3>2. CASE v # w
      <4>1. PICK d : d = task'[v]
        OBVIOUS
      <4>2. d.todo = <<>>
        BY <1>5, <1>6, <3>2, <4>1
      <4>3. ForcedAt(d)' /\ ReadAt(d)'
        BY <4>2, RestsWellThen
      <4>4. ForcedAt(task[v])'
        BY <4>1, <4>3 DEF ForcedAt
      <4>5. ReadAt(task[v])'
        BY <4>1, <4>3 DEF ReadAt
      <4> QED BY <4>4, <4>5
    <3> QED BY <3>1, <3>2
  <2>3. ASSUME NEW v \in Documents!Worker, NEW u \in Documents!Worker, ~Documents!AtRest(v)', ~Documents!AtRest(u)'
        PROVE  v = u
    BY <1>5, <1>6, <2>3 DEF Documents!AtRest
  <2> QED BY <2>1, <2>2, <2>3
<1>7. ASSUME ~suspends, ~cut
      PROVE  /\ (\A v \in Documents!Worker : ~Unsound(task'[v].todo)) => Sound'
             /\ \A v \in Documents!Worker : SoundAt(task[v])'
  <2>1. SoundAt(e)' /\ (~Unsound(e.todo) => Sound')
    BY <1>7
  <2>2. (\A v \in Documents!Worker : ~Unsound(task'[v].todo)) => Sound'
    BY <1>2, <2>1
  <2>3. ASSUME NEW v \in Documents!Worker PROVE SoundAt(task[v])'
    <3>1. CASE v = w
      <4>1. task'[v] = e
        BY <1>2, <3>1
      <4> QED BY <2>1, <4>1 DEF SoundAt
    <3>2. CASE v # w
      <4>1. PICK d : d = task'[v]
        OBVIOUS
      <4>2. d.todo = <<>>
        BY <1>5, <1>7, <3>2, <4>1
      <4>3. SoundAt(d)'
        BY <4>2, RestsWellThen
      <4> QED BY <4>1, <4>3 DEF SoundAt
    <3> QED BY <3>1, <3>2
  <2> QED BY <2>2, <2>3
<1> QED BY <1>1, <1>3, <1>4, <1>6, <1>7 DEF DocsInv

LEMMA OneRests ==
  ASSUME DocsInv, NEW w \in Documents!Worker, Documents!HasLoop(w), NEW e \in DocTask, e.todo = <<>>,
         task' = [task EXCEPT ![w] = e], DocsTyped', firstRun' \in {firstRun, 0},
         suspends' = suspends, cut' = cut,
         ~suspends => ~refused' /\ (~cut => Sound')
  PROVE  DocsInv'
<1>1. /\ Fits(e.todo) /\ Known(e) /\ ~Creates(e.todo) /\ ~Unarchives(e.todo)
      /\ ForcedAt(e)' /\ ReadAt(e)' /\ SoundAt(e)'
  BY RestsWell, RestsWellThen
<1>2. Leaves(w, e)
  BY <1>1 DEF Leaves
<1> QED BY <1>1, <1>2, OneMoves

\* The call that a task has come to, and what is known there.
At(w, p, n) ==
  /\ p = task[w].todo /\ p \in Seq(DocCalls) /\ Fits(p) /\ p # <<>> /\ Now(p) = n
  /\ Documents!HasLoop(w) /\ task[w] \in DocTask /\ Known(task[w])
  /\ (Creates(p) => firstRun = 0) /\ (Unarchives(p) => w \in Task)
Knows(w) ==
  /\ ~refused /\ ForcedAt(task[w]) /\ ReadAt(task[w])
  /\ ~cut => SoundAt(task[w]) /\ (~Unsound(task[w].todo) => Sound)
\* What is behind the call.
Next2(p, q) == /\ q = Tail(p) /\ q \in Seq(DocCalls) /\ Further(p, q)
               /\ Onto(Now(p), For(p), Now(q), For(q))
Next3(p, r) == /\ r = Documents!Drop(Tail(p), 1) /\ r \in Seq(DocCalls) /\ Further(p, r)
               /\ Over(Now(p), For(p), Now(r), For(r))

LEMMA AtCall ==
  ASSUME DocsInv, NEW w \in Documents!Worker, NEW n, Documents!Performs(w, n), NEW p, p = task[w].todo
  PROVE  At(w, p, n) /\ Next2(p, Documents!Rest(w)) /\ Next3(p, Documents!Drop(Documents!Rest(w), 1))
         /\ Documents!Arg(w) = p[1].arg /\ (~suspends => Knows(w))
<1>1. /\ p # <<>> /\ Documents!HasLoop(w) /\ Head(p).call = n
  BY DEF Documents!Performs, Documents!AtRest
<1>2. task[w] \in DocTask /\ ShapedAt(w, task[w])
  BY DEF DocsInv
<1>3. p \in Seq(DocCalls)
  BY <1>2 DEF DocTask
<1>4. Head(p) = p[1]
  BY <1>1, <1>3, TailIsBehind
<1>5. Now(p) = n
  BY <1>1, <1>4 DEF Now
<1>6. At(w, p, n)
  BY <1>1, <1>2, <1>3, <1>5 DEF At, ShapedAt
<1>7. Fits(p)
  BY <1>6 DEF At
<1>8. PICK q, r : q = Tail(p) /\ r = Documents!Drop(q, 1)
  OBVIOUS
<1>9. Documents!Rest(w) = q
  BY <1>8 DEF Documents!Rest
<1>10. Next2(p, q)
  <2>1. Onto(Now(p), For(p), Now(q), For(q))
    BY <1>1, <1>3, <1>7, <1>8, Onward
  <2>2. q \in Seq(DocCalls) /\ Further(p, q)
    BY <1>1, <1>3, <1>7, <1>8, TailFurther
  <2> QED BY <1>8, <2>1, <2>2 DEF Next2
<1>11. Next3(p, r)
  <2>1. Over(Now(p), For(p), Now(r), For(r))
    BY <1>1, <1>3, <1>7, <1>8, OverNext
  <2>2. r \in Seq(DocCalls) /\ Further(p, r)
    BY <1>1, <1>3, <1>7, <1>8, TailFurther
  <2> QED BY <1>8, <2>1, <2>2 DEF Next3
<1>12. Documents!Arg(w) = p[1].arg
  BY <1>4 DEF Documents!Arg
<1>13. ASSUME ~suspends PROVE Knows(w)
  <2>1. /\ ~refused /\ ForcedAt(task[w]) /\ ReadAt(task[w])
        /\ ~cut => /\ (\A v \in Documents!Worker : ~Unsound(task[v].todo)) => Sound
                   /\ SoundAt(task[w])
    BY <1>13 DEF DocsInv
  <2>2. ASSUME NEW v \in Documents!Worker, v # w PROVE ~Unsound(task[v].todo)
    <3>1. task[v].todo = <<>>
      BY <1>1, <1>13, <2>2 DEF Documents!HasLoop, Documents!AtRest
    <3> QED BY <3>1, RestsWell
  <2>3. ~Unsound(task[w].todo) => \A v \in Documents!Worker : ~Unsound(task[v].todo)
    BY <2>2
  <2> QED BY <2>1, <2>3 DEF Knows
<1> QED BY <1>6, <1>8, <1>9, <1>10, <1>11, <1>12, <1>13

\* An operation begins where every other one has ended, unless calls suspend.
LEMMA AtBeginning ==
  ASSUME DocsInv, NEW w \in Documents!Worker, Documents!AtRest(w), Documents!HasLoop(w), ~suspends
  PROVE  ~refused /\ (~cut => Sound)
<1>1. /\ ~refused
      /\ ~cut => ((\A v \in Documents!Worker : ~Unsound(task[v].todo)) => Sound)
  BY DEF DocsInv
<1>2. ASSUME NEW v \in Documents!Worker PROVE ~Unsound(task[v].todo)
  <2>1. task[v].todo = <<>>
    BY DEF Documents!HasLoop, Documents!AtRest
  <2> QED BY <2>1, RestsWell
<1> QED BY <1>1, <1>2

\* How the three ways to go on leave the task.
Keeps(e, t) == e.run = t.run /\ e.read = t.read /\ e.forced = t.forced
LEMMA GoesOnIs ==
  ASSUME NEW w \in Documents!Worker, task \in [Documents!Worker -> DocTask], NEW q \in Seq(DocCalls),
         Documents!GoesOn(w, q)
  PROVE  \E e \in DocTask : /\ task' = [task EXCEPT ![w] = e] /\ e.todo = q
                            /\ q # <<>> => Keeps(e, task[w])
<1>1. Documents!Idle \in DocTask /\ Documents!Idle.todo = <<>>
  BY DEF DocTask, Documents!Idle, Documents!NoRun
<1>2. task[w] \in DocTask
  OBVIOUS
<1>3. CASE q = <<>>
  BY <1>1, <1>3 DEF Documents!GoesOn
<1>4. CASE q # <<>>
  <2>1. PICK e : e = [task[w] EXCEPT !.todo = q]
    OBVIOUS
  <2>2. e \in DocTask /\ e.todo = q /\ Keeps(e, task[w])
    BY <1>2, <2>1 DEF DocTask, Keeps
  <2>3. task' = [task EXCEPT ![w] = e]
    BY <1>4, <2>1 DEF Documents!GoesOn
  <2> QED BY <2>2, <2>3
<1> QED BY <1>3, <1>4

LEMMA RaisesIs ==
  ASSUME NEW w \in Documents!Worker, Documents!Raises(w)
  PROVE  \E e \in DocTask : task' = [task EXCEPT ![w] = e] /\ e.todo = <<>>
<1>1. Documents!Idle \in DocTask /\ Documents!Idle.todo = <<>>
  BY DEF DocTask, Documents!Idle, Documents!NoRun
<1> QED BY <1>1 DEF Documents!Raises

LEMMA ReadsIs ==
  ASSUME NEW w \in Documents!Worker, task \in [Documents!Worker -> DocTask], NEW q \in Seq(DocCalls),
         NEW d \in Documents!AgentDocs \cup Documents!RunDocs \cup {Documents!Nil}, Documents!Reads(w, d, q)
  PROVE  \E e \in DocTask : /\ task' = [task EXCEPT ![w] = e] /\ e.todo = q /\ e.read = d
                            /\ e.run = task[w].run /\ e.forced = task[w].forced
<1>1. PICK e : e = [task[w] EXCEPT !.read = d, !.todo = q]
  OBVIOUS
<1>2. task[w] \in DocTask
  OBVIOUS
<1>3. e \in DocTask /\ e.todo = q /\ e.read = d /\ e.run = task[w].run /\ e.forced = task[w].forced
  BY <1>1, <1>2 DEF DocTask
<1>4. task' = [task EXCEPT ![w] = e]
  BY <1>1 DEF Documents!Reads
<1> QED BY <1>3, <1>4

Found(w, r, q) == task' = [task EXCEPT ![w].run = r, ![w].todo = q]
LEMMA FindsIs ==
  ASSUME NEW w \in Documents!Worker, task \in [Documents!Worker -> DocTask], NEW q \in Seq(DocCalls),
         NEW r \in Documents!Run \cup {0}, Found(w, r, q)
  PROVE  \E e \in DocTask : /\ task' = [task EXCEPT ![w] = e] /\ e.todo = q /\ e.run = r
                            /\ e.read = task[w].read /\ e.forced = task[w].forced
<1>1. PICK e : e = [task[w] EXCEPT !.run = r, !.todo = q]
  OBVIOUS
<1>2. task[w] \in DocTask
  OBVIOUS
<1>3. e \in DocTask /\ e.todo = q /\ e.run = r /\ e.read = task[w].read /\ e.forced = task[w].forced
  BY <1>1, <1>2 DEF DocTask
<1>4. task' = [task EXCEPT ![w] = e]
  BY <1>1 DEF Found
<1> QED BY <1>3, <1>4

\* Documents that stay as they are stay sound.
StayDocs == /\ UNCHANGED <<agentDoc, runDoc, made, deleted>> /\ firstRun' \in {firstRun, 0}
            /\ log' \subseteq Documents!Run /\ alive' \subseteq Documents!Run
LEMMA Stays ==
  ASSUME StayDocs
  PROVE  /\ DocsTyped => DocsTyped'
         /\ Sound' <=> Sound
         /\ IsFree' <=> IsFree
<1>1. /\ UNCHANGED <<agentDoc, runDoc, made, deleted>> /\ firstRun' \in {firstRun, 0}
      /\ log' \subseteq Documents!Run /\ alive' \subseteq Documents!Run
  BY DEF StayDocs
<1>2. DocsTyped => DocsTyped'
  <2> SUFFICES ASSUME DocsTyped PROVE DocsTyped'
    OBVIOUS
  <2>1. firstRun' \in Documents!Run \cup {0} /\ (firstRun' # 0 => firstRun' = 1 /\ made' = 1)
    BY <1>1 DEF DocsTyped
  <2> QED BY <1>1, <2>1 DEF DocsTyped
<1> QED BY <1>1, <1>2 DEF Sound, IsFree, Documents!Live
LEMMA StaysAt ==
  ASSUME StayDocs, NEW e
  PROVE  /\ ForcedAt(e)' <=> ForcedAt(e)
         /\ ReadAt(e)' <=> ReadAt(e)
         /\ SoundAt(e)' <=> SoundAt(e)
<1>1. IsFree' <=> IsFree
  BY Stays
<1>2. \A r : Documents!Live(r)' <=> Documents!Live(r)
  BY DEF StayDocs, Documents!Live
<1>3. agentDoc' = agentDoc /\ runDoc' = runDoc /\ made' = made
  BY DEF StayDocs
<1> QED BY <1>1, <1>2, <1>3 DEF ForcedAt, ReadAt, SoundAt, Documents!Live

\* A step goes on with a part of what there was to do.
LEMMA Steps ==
  ASSUME DocsInv, NEW w \in Documents!Worker, NEW p, NEW n, At(w, p, n), NEW e \in DocTask,
         task' = [task EXCEPT ![w] = e], Further(p, e.todo), Known(e),
         DocsTyped', firstRun' \in {firstRun, 0}, Documents!Same,
         ~suspends => /\ ~refused' /\ ForcedAt(e)' /\ ReadAt(e)'
                      /\ ~cut => SoundAt(e)' /\ (~Unsound(e.todo) => Sound')
  PROVE  DocsInv'
<1>1. Documents!HasLoop(w) /\ (Creates(p) => firstRun = 0) /\ (Unarchives(p) => w \in Task)
  BY DEF At
<1>2. Creates(e.todo) => firstRun' = 0
  BY <1>1 DEF Further
<1>3. Unarchives(e.todo) => w \in Task
  BY <1>1 DEF Further
<1>4. Fits(e.todo) /\ suspends' = suspends /\ cut' = cut
  BY DEF Further, Documents!Same
<1>5. Leaves(w, e)
  BY <1>2, <1>3, <1>4 DEF Leaves
<1> QED BY <1>1, <1>5, OneMoves

\* The same when the documents stay as they are.
LEMMA StepsOn ==
  ASSUME DocsInv, NEW w \in Documents!Worker, NEW p, NEW n, At(w, p, n), NEW e \in DocTask,
         task' = [task EXCEPT ![w] = e], Further(p, e.todo), Known(e), StayDocs, Documents!Same,
         ~suspends => Knows(w),
         ~suspends => /\ ~refused' /\ ForcedAt(e) /\ ReadAt(e)
                      /\ ~cut => SoundAt(e) /\ (Unsound(p) /\ ~Unsound(e.todo) => Sound)
  PROVE  DocsInv'
<1>1. DocsTyped' /\ firstRun' \in {firstRun, 0}
  BY Stays DEF DocsInv, StayDocs
<1>2. /\ ForcedAt(e)' <=> ForcedAt(e)
      /\ ReadAt(e)' <=> ReadAt(e)
      /\ SoundAt(e)' <=> SoundAt(e)
  BY StaysAt
<1>3. Sound' <=> Sound
  BY Stays
<1>4. ~suspends /\ ~cut => (~Unsound(p) => Sound)
  BY DEF Knows, At
<1>5. ~suspends => /\ ~refused' /\ ForcedAt(e)' /\ ReadAt(e)'
                   /\ ~cut => SoundAt(e)' /\ (~Unsound(e.todo) => Sound')
  BY <1>2, <1>3, <1>4
<1> QED BY <1>1, <1>5, Steps

\* Calls that neither use a run nor what was read.
Quiet == {"rest", "find agent", "find active", "check active", "count runs", "runs.delete",
          "checkpoints.delete", "agents.delete"} \cup Looks
LEMMA QuietIs ==
  ASSUME NEW e, Now(e.todo) \in Quiet
  PROVE  /\ Known(e) /\ ReadAt(e)
         /\ Now(e.todo) \notin {"checkpoints.delete", "agents.delete"} => ~Unsound(e.todo)
         /\ Now(e.todo) \in {"rest", "find active"} \cup Looks => SoundAt(e)
<1>1. /\ Now(e.todo) # "read agent" /\ Now(e.todo) # "write agent" /\ Now(e.todo) # "runs.create"
      /\ Now(e.todo) \notin {"read run", "write run", "append", "drive", "find run"}
  BY DEF Quiet, Looks
<1>2. \A S : ~Marking(e.todo, S)
  BY <1>1 DEF Marking
<1>3. Now(e.todo) \in {"rest", "find active"} \cup Looks => SoundAt(e)
  <2> SUFFICES ASSUME Now(e.todo) \in {"rest", "find active"} \cup Looks PROVE SoundAt(e)
    OBVIOUS
  <2>1. Now(e.todo) # "check active" /\ Now(e.todo) # "count runs"
    BY DEF Looks
  <2> QED BY <1>1, <1>2, <2>1 DEF SoundAt
<1> QED BY <1>1, <1>2, <1>3 DEF Known, OnRun, ReadAt, Unsound

\* expire_active_run: the agent.
LEMMA FindAgentStep ==
  ASSUME DocsInv, NEW w \in Documents!Worker, Documents!FindAgent(w), Documents!Same
  PROVE  DocsInv'
<1>1. PICK p, q, r : p = task[w].todo /\ q = Documents!Rest(w) /\ r = Documents!Drop(Documents!Rest(w), 1)
  OBVIOUS
<1>2. At(w, p, "find agent") /\ Next2(p, q) /\ Next3(p, r) /\ (~suspends => Knows(w))
  BY <1>1, AtCall DEF Documents!FindAgent
<1>3. StayDocs /\ refused' = refused
  BY DEF Documents!FindAgent, StayDocs, Documents!docs, DocsInv, DocsTyped
<1>4. q \in Seq(DocCalls) /\ r \in Seq(DocCalls) /\ task \in [Documents!Worker -> DocTask]
  BY <1>2 DEF Next2, Next3, DocsInv
<1>5. PICK e \in DocTask :
        /\ task' = [task EXCEPT ![w] = e]
        /\ \/ e.todo = r /\ (agentDoc = Documents!Nil \/ agentDoc.active = 0)
           \/ e.todo = q /\ agentDoc # Documents!Nil /\ e.run = agentDoc.active
  <2>1. CASE agentDoc = Documents!Nil \/ agentDoc.active = 0
    <3>1. Documents!GoesOn(w, r)
      BY <1>1, <2>1 DEF Documents!FindAgent, Documents!NoRun
    <3> QED BY <1>4, <2>1, <3>1, GoesOnIs
  <2>2. CASE ~(agentDoc = Documents!Nil \/ agentDoc.active = 0)
    <3>1. task' = [task EXCEPT ![w].run = agentDoc.active, ![w].todo = q]
      BY <1>1, <2>2 DEF Documents!FindAgent, Documents!NoRun
    <3>2. agentDoc.active \in Documents!Run \cup {0}
      BY <2>2 DEF DocsInv, DocsTyped, Documents!AgentDocs, Documents!NoRun
    <3>3. PICK c \in Documents!Run \cup {0} : c = agentDoc.active
      BY <3>2
    <3>4. Found(w, c, q)
      BY <3>1, <3>3 DEF Found
    <3>5. \E e \in DocTask : task' = [task EXCEPT ![w] = e] /\ e.todo = q /\ e.run = c
      BY <1>4, <3>4, FindsIs
    <3> QED BY <2>2, <3>3, <3>5
  <2> QED BY <2>1, <2>2
<1>6. /\ e.todo = r => Now(e.todo) \in {"rest"} \cup Looks
      /\ e.todo = q => Now(e.todo) \in {"rest", "find active"}
  BY <1>2 DEF At, Next2, Next3, Onto, Over
<1>7. Now(e.todo) \in {"rest", "find active"} \cup Looks
  BY <1>5, <1>6
<1>8. Known(e) /\ ReadAt(e) /\ SoundAt(e) /\ ~Unsound(p)
  <2>1. Known(e) /\ ReadAt(e) /\ SoundAt(e)
    BY <1>7, QuietIs DEF Quiet
  <2>2. ~Unsound(p)
    BY <1>2 DEF At, Unsound, Marking
  <2> QED BY <2>1, <2>2
<1>9. ForcedAt(e)
  <2>1. CASE e.todo = r /\ (agentDoc = Documents!Nil \/ agentDoc.active = 0)
    <3>1. IsFree
      BY <2>1 DEF IsFree, Documents!Live, Documents!NoRun
    <3> QED BY <1>6, <2>1, <3>1 DEF ForcedAt, Looks
  <2>2. CASE e.todo = q /\ agentDoc # Documents!Nil /\ e.run = agentDoc.active
    BY <1>6, <2>2 DEF ForcedAt, Looks
  <2> QED BY <1>5, <2>1, <2>2
<1>10. Further(p, e.todo)
  BY <1>2, <1>5 DEF Next2, Next3
<1>11. ~suspends => ~refused'
  BY <1>2, <1>3 DEF Knows
<1> QED BY <1>2, <1>3, <1>5, <1>8, <1>9, <1>10, <1>11, StepsOn

\* And its run, which is expired before the send goes on.
LEMMA FindActiveStep ==
  ASSUME DocsInv, NEW w \in Documents!Worker, Documents!FindActive(w), Documents!Same
  PROVE  DocsInv'
<1>1. PICK p, q, m : /\ p = task[w].todo /\ q = Documents!Rest(w)
                     /\ m = Documents!Mark("expired") \o <<Documents!Do("append")>> \o q
  OBVIOUS
<1>2. At(w, p, "find active") /\ Next2(p, q) /\ (~suspends => Knows(w))
  BY <1>1, AtCall DEF Documents!FindActive
<1>3. StayDocs /\ refused' = refused
  BY DEF Documents!FindActive, StayDocs, Documents!docs, DocsInv, DocsTyped
<1>4. q \in Seq(DocCalls) /\ Fits(q) /\ Now(q) \in {"rest"} \cup Looks /\ task \in [Documents!Worker -> DocTask]
  BY <1>2 DEF At, Next2, DocsInv, Further, Onto
<1>5. Plan(m, "read run", "expired") /\ SameMarks(m, q)
  BY <1>1, <1>4, ExpireIs
<1>6. m \in Seq(DocCalls) /\ Further(p, m) /\ Now(m) = "read run" /\ For(m) = "expired" /\ m # <<>>
  <2>1. Further(p, q)
    BY <1>2 DEF Next2
  <2> QED BY <1>5, <2>1 DEF Plan, SameMarks, Further
<1>7. ~Unsound(p)
  BY <1>2 DEF At, Unsound, Marking
<1>8. ~suspends => ~refused'
  BY <1>2, <1>3 DEF Knows
<1>9. CASE Documents!Live(task[w].run)
  <2>1. Documents!GoesOn(w, m)
    BY <1>1, <1>9 DEF Documents!FindActive
  <2>2. PICK e \in DocTask : task' = [task EXCEPT ![w] = e] /\ e.todo = m /\ Keeps(e, task[w])
    BY <1>4, <1>6, <2>1, GoesOnIs
  <2>3. e.run \in Documents!Run
    <3>1. task[w].run \in Documents!Run \cup {0} /\ task[w].run # 0
      BY <1>2, <1>9 DEF At, DocTask, Documents!Live, Documents!NoRun
    <3> QED BY <2>2, <3>1 DEF Keeps
  <2>4. Now(e.todo) = "read run" /\ For(e.todo) = "expired"
    BY <1>6, <2>2
  <2>5. Known(e) /\ ReadAt(e) /\ SoundAt(e) /\ ForcedAt(e)
    BY <2>3, <2>4 DEF Known, ReadAt, SoundAt, ForcedAt, Marking, Looks
  <2>6. Further(p, e.todo)
    BY <1>6, <2>2
  <2> QED BY <1>2, <1>3, <1>7, <1>8, <2>2, <2>5, <2>6, StepsOn
<1>10. CASE ~Documents!Live(task[w].run)
  <2>1. Documents!GoesOn(w, q)
    BY <1>1, <1>10 DEF Documents!FindActive
  <2>2. PICK e \in DocTask : task' = [task EXCEPT ![w] = e] /\ e.todo = q /\ (q # <<>> => Keeps(e, task[w]))
    BY <1>4, <2>1, GoesOnIs
  <2>3. Known(e) /\ ReadAt(e) /\ SoundAt(e)
    BY <1>4, <2>2, QuietIs DEF Quiet
  <2>4. ~suspends => ForcedAt(e)
    <3>1. CASE q = <<>>
      BY <2>2, <3>1, RestsWell
    <3>2. ASSUME q # <<>>, ~suspends PROVE ForcedAt(e)
      <4>1. e.forced => agentDoc # Documents!Nil /\ task[w].run = agentDoc.active
        BY <1>1, <1>2, <2>2, <3>2 DEF Knows, ForcedAt, At, Keeps
      <4>2. e.forced => IsFree
        BY <1>10, <4>1 DEF IsFree
      <4> QED BY <1>4, <2>2, <4>2 DEF ForcedAt, Looks
    <3> QED BY <3>1, <3>2
  <2>5. Further(p, e.todo)
    BY <1>2, <2>2 DEF Next2
  <2> QED BY <1>2, <1>3, <1>7, <1>8, <2>2, <2>3, <2>4, <2>5, StepsOn
<1> QED BY <1>9, <1>10

\* The handle's first run is used once.
LEMMA FindPendingStep ==
  ASSUME DocsInv, NEW w \in Documents!Worker, Documents!FindPending(w), Documents!Same
  PROVE  DocsInv'
<1>1. PICK p, b, f : p = task[w].todo /\ b = Documents!Begun /\ f = Documents!FollowUp \o Documents!Begun
  OBVIOUS
<1>2. At(w, p, "find pending") /\ (~suspends => Knows(w))
  BY <1>1, AtCall DEF Documents!FindPending
<1>3. StayDocs /\ refused' = refused /\ firstRun' = 0
  BY DEF Documents!FindPending, StayDocs, DocsInv, DocsTyped, Documents!NoRun
<1>4. /\ Plan(b, "read run", "running") /\ Unmarked(b)
      /\ Plan(f, "check agent", "") /\ ~Unarchives(f)
  BY <1>1, BegunIs, FollowUpIs
<1>5. /\ b \in Seq(DocCalls) /\ b # <<>> /\ Fits(b) /\ Now(b) = "read run" /\ For(b) = "running"
      /\ f \in Seq(DocCalls) /\ f # <<>> /\ Fits(f) /\ Now(f) = "check agent"
  BY <1>4 DEF Plan
<1>6. task \in [Documents!Worker -> DocTask] /\ DocsTyped
  BY DEF DocsInv
<1>7. ~suspends => ~refused'
  BY <1>2, <1>3 DEF Knows
<1>8. ~Unsound(p) /\ Documents!HasLoop(w) /\ p = task[w].todo
  BY <1>2 DEF At, Unsound, Marking
<1>9. ~suspends /\ ~cut => Sound'
  BY <1>3, <1>2, <1>8, Stays DEF Knows
<1>10. suspends' = suspends /\ cut' = cut /\ DocsTyped' /\ firstRun' \in {firstRun, 0}
  BY <1>3, <1>6, Stays DEF Documents!Same
<1>11. CASE firstRun # 0 /\ runDoc[firstRun].status = "queued"
  <2>1. task' = [task EXCEPT ![w].run = firstRun, ![w].todo = b]
    BY <1>1, <1>11 DEF Documents!FindPending, Documents!NoRun
  <2>2. firstRun \in Documents!Run /\ firstRun = made
    BY <1>6, <1>11 DEF DocsTyped
  <2>9. PICK c \in Documents!Run \cup {0} : c = firstRun
    BY <2>2
  <2>12. b \in Seq(DocCalls)
    BY <1>5
  <2>10. Found(w, c, b)
    BY <2>1, <2>9 DEF Found
  <2>11. PICK e \in DocTask : task' = [task EXCEPT ![w] = e] /\ e.todo = b /\ e.run = c
    BY <1>6, <2>10, <2>12, FindsIs
  <2>3. task' = [task EXCEPT ![w] = e] /\ e.todo = b /\ e.run = firstRun
    BY <2>9, <2>11
  <2>4. Now(e.todo) = "read run" /\ For(e.todo) = "running" /\ Fits(e.todo)
    BY <1>5, <2>3
  <2>5. Known(e) /\ ReadAt(e) /\ ForcedAt(e)
    BY <2>2, <2>3, <2>4 DEF Known, ReadAt, ForcedAt, Marking, Looks
  <2>6. SoundAt(e)
    BY <1>11, <2>2, <2>3, <2>4 DEF SoundAt, Marking
  <2>7. ForcedAt(e)' /\ ReadAt(e)' /\ SoundAt(e)'
    BY <1>3, <2>5, <2>6, StaysAt
  <2>8. Leaves(w, e)
    BY <1>4, <1>10, <2>3, <2>4, <2>5 DEF Leaves, Unmarked
  <2> QED BY <1>7, <1>8, <1>9, <2>7, <2>8, OneMoves
<1>12. CASE ~(firstRun # 0 /\ runDoc[firstRun].status = "queued")
  <2>1. Documents!GoesOn(w, f)
    BY <1>1, <1>12 DEF Documents!FindPending, Documents!NoRun
  <2>2. PICK e \in DocTask : task' = [task EXCEPT ![w] = e] /\ e.todo = f /\ Keeps(e, task[w])
    BY <1>5, <1>6, <2>1, GoesOnIs
  <2>3. Now(e.todo) = "check agent" /\ Fits(e.todo)
    BY <1>5, <2>2
  <2>4. Known(e) /\ ReadAt(e) /\ SoundAt(e)
    BY <2>3, QuietIs DEF Quiet, Looks
  <2>5. ~suspends => ForcedAt(e)
    <3> SUFFICES ASSUME ~suspends PROVE ForcedAt(e)
      OBVIOUS
    <3>1. e.forced => IsFree
      BY <1>2, <1>8, <2>2 DEF Knows, ForcedAt, At, Keeps, Looks
    <3> QED BY <2>3, <3>1 DEF ForcedAt, Looks
  <2>6. ReadAt(e)' /\ SoundAt(e)' /\ (~suspends => ForcedAt(e)')
    BY <1>3, <2>4, <2>5, StaysAt
  <2>7. Leaves(w, e)
    BY <1>3, <1>4, <1>10, <2>2, <2>3, <2>4 DEF Leaves
  <2> QED BY <1>7, <1>8, <1>9, <2>6, <2>7, OneMoves
<1> QED BY <1>11, <1>12

LEMMA CheckAgentStep ==
  ASSUME DocsInv, NEW w \in Documents!Worker, Documents!CheckAgent(w), Documents!Same
  PROVE  DocsInv'
<1>1. PICK p, q : p = task[w].todo /\ q = Documents!Rest(w)
  OBVIOUS
<1>2. At(w, p, "check agent") /\ Next2(p, q) /\ (~suspends => Knows(w))
  BY <1>1, AtCall DEF Documents!CheckAgent
<1>3. StayDocs /\ refused' = refused
  BY DEF Documents!CheckAgent, StayDocs, Documents!docs, DocsInv, DocsTyped
<1>4. q \in Seq(DocCalls) /\ Now(q) \in {"rest", "check active"} /\ task \in [Documents!Worker -> DocTask]
  BY <1>2 DEF At, Next2, DocsInv, Onto
<1>5. ~Unsound(p) /\ p = task[w].todo /\ Now(p) \in Looks
  BY <1>2 DEF At, Unsound, Marking, Looks
<1>6. ~suspends => ~refused'
  BY <1>2, <1>3 DEF Knows
<1>7. CASE agentDoc = Documents!Nil \/ agentDoc.status = "archived"
  <2>1. PICK e \in DocTask : task' = [task EXCEPT ![w] = e] /\ e.todo = <<>>
    BY <1>7, RaisesIs DEF Documents!CheckAgent
  <2>2. Known(e) /\ ForcedAt(e) /\ ReadAt(e) /\ SoundAt(e)
    BY <2>1, RestsWell
  <2>3. Further(p, e.todo)
    BY <2>1, EmptyFits DEF Further, Unmarked
  <2> QED BY <1>2, <1>3, <1>5, <1>6, <2>1, <2>2, <2>3, StepsOn
<1>8. CASE ~(agentDoc = Documents!Nil \/ agentDoc.status = "archived")
  <2>1. task' = [task EXCEPT ![w].run = agentDoc.active, ![w].todo = q]
    BY <1>1, <1>8 DEF Documents!CheckAgent
  <2>2. agentDoc.active \in Documents!Run \cup {0}
    BY <1>8 DEF DocsInv, DocsTyped, Documents!AgentDocs, Documents!NoRun
  <2>3. PICK c \in Documents!Run \cup {0} : c = agentDoc.active
    BY <2>2
  <2>4. Found(w, c, q)
    BY <2>1, <2>3 DEF Found
  <2>5. PICK e \in DocTask : /\ task' = [task EXCEPT ![w] = e] /\ e.todo = q /\ e.run = c
                             /\ e.forced = task[w].forced
    <3>1. q \in Seq(DocCalls) /\ task \in [Documents!Worker -> DocTask]
      BY <1>4
    <3> QED BY <2>4, <3>1, FindsIs
  <2>6. Now(e.todo) \in {"rest", "check active"}
    BY <1>4, <2>5
  <2>7. Known(e) /\ ReadAt(e)
    BY <2>6, QuietIs DEF Quiet
  <2>8. SoundAt(e)
    BY <1>8, <2>3, <2>5, <2>6 DEF SoundAt, Marking
  <2>9. ~suspends => ForcedAt(e)
    <3> SUFFICES ASSUME ~suspends PROVE ForcedAt(e)
      OBVIOUS
    <3>1. e.forced => IsFree
      BY <1>2, <1>5, <2>5 DEF Knows, ForcedAt
    <3>2. e.forced => ~Documents!Live(e.run)
      BY <1>8, <2>3, <2>5, <3>1 DEF IsFree
    <3> QED BY <2>6, <3>2 DEF ForcedAt, Looks
  <2>10. Further(p, e.todo)
    BY <1>2, <2>5 DEF Next2
  <2> QED BY <1>2, <1>3, <1>5, <1>6, <2>5, <2>7, <2>8, <2>9, <2>10, StepsOn
<1> QED BY <1>7, <1>8

LEMMA CheckActiveStep ==
  ASSUME DocsInv, NEW w \in Documents!Worker, Documents!CheckActive(w), Documents!Same
  PROVE  DocsInv'
<1>1. PICK p, q : p = task[w].todo /\ q = Documents!Rest(w)
  OBVIOUS
<1>2. At(w, p, "check active") /\ Next2(p, q) /\ (~suspends => Knows(w))
  BY <1>1, AtCall DEF Documents!CheckActive
<1>3. StayDocs
  BY DEF Documents!CheckActive, StayDocs, Documents!docs, DocsInv, DocsTyped
<1>4. q \in Seq(DocCalls) /\ Now(q) \in {"rest", "count runs"} /\ task \in [Documents!Worker -> DocTask]
  BY <1>2 DEF At, Next2, DocsInv, Onto
<1>5. ~Unsound(p) /\ p = task[w].todo /\ Now(p) = "check active"
  BY <1>2 DEF At, Unsound, Marking
<1>6. ~suspends => ~refused'
  <2> SUFFICES ASSUME ~suspends PROVE ~refused'
    OBVIOUS
  <2>1. ~refused /\ (task[w].forced => ~Documents!Live(task[w].run))
    BY <1>2, <1>5 DEF Knows, ForcedAt
  <2> QED BY <2>1 DEF Documents!CheckActive
<1>7. CASE Documents!Live(task[w].run)
  <2>1. PICK e \in DocTask : task' = [task EXCEPT ![w] = e] /\ e.todo = <<>>
    BY <1>7, RaisesIs DEF Documents!CheckActive
  <2>2. Known(e) /\ ForcedAt(e) /\ ReadAt(e) /\ SoundAt(e)
    BY <2>1, RestsWell
  <2>3. Further(p, e.todo)
    BY <2>1, EmptyFits DEF Further, Unmarked
  <2> QED BY <1>2, <1>3, <1>5, <1>6, <2>1, <2>2, <2>3, StepsOn
<1>8. CASE ~Documents!Live(task[w].run)
  <2>1. Documents!GoesOn(w, q)
    BY <1>1, <1>8 DEF Documents!CheckActive
  <2>2. PICK e \in DocTask : task' = [task EXCEPT ![w] = e] /\ e.todo = q
    BY <1>4, <2>1, GoesOnIs
  <2>3. Now(e.todo) \in {"rest", "count runs"}
    BY <1>4, <2>2
  <2>4. Known(e) /\ ReadAt(e)
    BY <2>3, QuietIs DEF Quiet
  <2>5. ForcedAt(e)
    BY <2>3 DEF ForcedAt, Looks
  <2>6. ~suspends /\ ~cut => SoundAt(e)
    <3> SUFFICES ASSUME ~suspends, ~cut PROVE SoundAt(e)
      OBVIOUS
    <3>1. agentDoc # Documents!Nil /\ task[w].run = agentDoc.active
      BY <1>2, <1>5 DEF Knows, SoundAt
    <3>2. agentDoc # Documents!Nil /\ ~Documents!Live(agentDoc.active)
      BY <1>8, <3>1
    <3> QED BY <2>3, <3>2 DEF SoundAt, Marking
  <2>7. Further(p, e.todo)
    BY <1>2, <2>2 DEF Next2
  <2> QED BY <1>2, <1>3, <1>5, <1>6, <2>2, <2>4, <2>5, <2>6, <2>7, StepsOn
<1> QED BY <1>7, <1>8

LEMMA CountRunsStep ==
  ASSUME DocsInv, NEW w \in Documents!Worker, Documents!CountRuns(w), Documents!Same
  PROVE  DocsInv'
<1>1. PICK p, q : p = task[w].todo /\ q = Documents!Rest(w)
  OBVIOUS
<1>2. At(w, p, "count runs") /\ Next2(p, q) /\ (~suspends => Knows(w))
  BY <1>1, AtCall DEF Documents!CountRuns
<1>3. StayDocs /\ refused' = refused
  BY DEF Documents!CountRuns, StayDocs, Documents!docs, DocsInv, DocsTyped
<1>4. q \in Seq(DocCalls) /\ Now(q) \in {"rest", "runs.create"} /\ task \in [Documents!Worker -> DocTask]
  BY <1>2 DEF At, Next2, DocsInv, Onto
<1>5. ~Unsound(p) /\ p = task[w].todo /\ Now(p) = "count runs"
  BY <1>2 DEF At, Unsound, Marking
<1>6. ~suspends => ~refused'
  BY <1>2, <1>3 DEF Knows
<1>7. PICK d : d = Documents!NewRun
  OBVIOUS
<1>8. d \in Documents!RunDocs /\ d.status = "queued"
  <2>1. IsFiniteSet(Documents!Run) /\ Documents!Listed \subseteq Documents!Run
    BY DocumentsAssumption, FS_Interval DEF Documents!Run, Documents!Listed
  <2>3. PICK n \in Nat : n = Cardinality(Documents!Listed)
    BY <2>1, FS_Subset, FS_CardinalityType
  <2>2. \A S : Documents!Cardinality(S) = Cardinality(S)
    BY DEF Documents!Cardinality, Cardinality
  <2>4. Documents!NextTurn = 1 + n
    BY <2>2, <2>3 DEF Documents!NextTurn
  <2>5. 1 + n \in Nat
    OBVIOUS
  <2>6. Documents!NextTurn \in Nat
    BY <2>4, <2>5
  <2> QED BY <1>7, <2>6 DEF Documents!RunDocs, Documents!NewRun
<1>9. Documents!Reads(w, d, q)
  BY <1>1, <1>7 DEF Documents!CountRuns, Documents!Reads
<1>10. PICK e \in DocTask : /\ task' = [task EXCEPT ![w] = e] /\ e.todo = q /\ e.read = d
  BY <1>4, <1>8, <1>9, ReadsIs
<1>11. Now(e.todo) \in {"rest", "runs.create"}
  BY <1>4, <1>10
<1>12. Known(e) /\ ReadAt(e) /\ ForcedAt(e)
  BY <1>8, <1>10, <1>11 DEF Known, OnRun, Marking, ReadAt, ForcedAt, Looks
<1>13. ~suspends /\ ~cut => SoundAt(e)
  <2> SUFFICES ASSUME ~suspends, ~cut PROVE SoundAt(e)
    OBVIOUS
  <2>1. agentDoc # Documents!Nil /\ ~Documents!Live(agentDoc.active)
    BY <1>2, <1>5 DEF Knows, SoundAt
  <2> QED BY <1>11, <2>1 DEF SoundAt, Marking
<1>14. Further(p, e.todo)
  BY <1>2, <1>10 DEF Next2
<1> QED BY <1>2, <1>3, <1>5, <1>6, <1>10, <1>12, <1>13, <1>14, StepsOn

LEMMA CreateRunStep ==
  ASSUME DocsInv, NEW w \in Documents!Worker, Documents!CreateRun(w), Documents!Same
  PROVE  DocsInv'
<1>1. PICK p, q, d, c : p = task[w].todo /\ q = Documents!Rest(w) /\ d = task[w].read /\ c = made + 1
  OBVIOUS
<1>2. At(w, p, "runs.create") /\ Next2(p, q) /\ (~suspends => Knows(w))
  BY <1>1, AtCall DEF Documents!CreateRun
<1>4. /\ q \in Seq(DocCalls) /\ Now(q) = "read agent" /\ For(q) = "follow" /\ task \in [Documents!Worker -> DocTask]
      /\ DocsTyped
  BY <1>2 DEF At, Next2, DocsInv, Onto
<1>5. p = task[w].todo /\ p \in Seq(DocCalls) /\ Fits(p) /\ p # <<>> /\ Now(p) = "runs.create" /\ q = Tail(p)
  BY <1>2 DEF At, Next2
<1>6. d \in Documents!RunDocs /\ d.status = "queued"
  BY <1>1, <1>2, <1>5 DEF At, Known
<1>7. c \in Documents!Run /\ made' = c /\ c # made /\ made < MaxRuns
  <2>1. made \in 1 .. MaxRuns /\ made < MaxRuns /\ made' = made + 1
    BY <1>4 DEF Documents!CreateRun, DocsTyped, Documents!Run
  <2>2. MaxRuns \in Nat
    BY DocumentsAssumption
  <2>3. made + 1 \in 1 .. MaxRuns /\ made + 1 # made
    BY <2>1, <2>2
  <2> QED BY <1>1, <2>1, <2>3 DEF Documents!Run
<1>8. /\ runDoc' = [runDoc EXCEPT ![c] = d]
      /\ UNCHANGED <<agentDoc, log, alive, firstRun, deleted, refused>>
      /\ Found(w, c, q)
  BY <1>1, <1>7 DEF Documents!CreateRun, Found
<1>9. firstRun = 0
  <2>1. 1 \in 1 .. Len(p) /\ p[1].call = "runs.create"
    <3>1. Len(p) \in Nat /\ Len(p) > 0
      BY <1>5, FollowsEach
    <3>2. p[1].call = "runs.create"
      BY <1>5 DEF Now
    <3>3. 1 \in 1 .. Len(p)
      BY <3>1
    <3> QED BY <3>2, <3>3
  <2>2. Creates(p)
    BY <2>1 DEF Creates
  <2> QED BY <1>2, <2>2 DEF At
<1>10. PICK e \in DocTask : /\ task' = [task EXCEPT ![w] = e] /\ e.todo = q /\ e.run = c
  <2>1. c \in Documents!Run \cup {0}
    BY <1>7
  <2>2. q \in Seq(DocCalls) /\ task \in [Documents!Worker -> DocTask]
    BY <1>4
  <2>3. Found(w, c, q)
    BY <1>8
  <2> QED BY <2>1, <2>2, <2>3, FindsIs
<1>11. DocsTyped'
  <2>1. runDoc' \in [Documents!Run -> Documents!RunDocs \cup {Documents!Nil}]
    BY <1>4, <1>6, <1>8 DEF DocsTyped
  <2> QED BY <1>4, <1>7, <1>8, <1>9, <2>1 DEF DocsTyped
<1>12. ~Ahead(q)
  BY <1>5, LooksOnce DEF Looking
<1>13. Known(e)
  BY <1>4, <1>7, <1>10 DEF Known, OnRun, Marking
<1>14. ForcedAt(e)' /\ ReadAt(e)'
  BY <1>4, <1>10 DEF ForcedAt, ReadAt, Looks
<1>15. runDoc'[c] = d /\ \A r \in Documents!Run : r # c => runDoc'[r] = runDoc[r]
  BY <1>4, <1>7, <1>8 DEF DocsTyped
<1>16. SoundAt(e)'
  BY <1>4, <1>6, <1>7, <1>10, <1>15 DEF SoundAt, Marking
<1>17. ~suspends /\ ~cut => Sound'
  <2> SUFFICES ASSUME ~suspends, ~cut PROVE Sound'
    OBVIOUS
  <2>1. Sound /\ agentDoc # Documents!Nil /\ ~Documents!Live(agentDoc.active)
    BY <1>2, <1>5 DEF Knows, SoundAt, Unsound, Marking
  <2>2. agentDoc.active = 0 \/ runDoc[agentDoc.active] = Documents!Nil
    BY <2>1 DEF Sound, Documents!Live
  <2>3. agentDoc.status # "running"
    BY <2>1, <2>2 DEF Sound, Documents!Nil
  <2>4. d # Documents!Nil /\ d.status \notin Documents!Terminal
    BY <1>6 DEF Documents!RunDocs, Documents!Nil, Documents!Terminal
  <2>5. agentDoc.active \in Documents!Run \cup {0}
    BY <1>4, <2>1 DEF DocsTyped, Documents!AgentDocs, Documents!NoRun
  <2>6. agentDoc.active # 0 /\ runDoc'[agentDoc.active] # Documents!Nil => agentDoc.active = c
    BY <1>15, <2>2, <2>5
  <2>7. c # 0
    <3>1. c \in 1 .. MaxRuns
      BY <1>7 DEF Documents!Run
    <3>2. MaxRuns \in Nat
      BY DocumentsAssumption
    <3> QED BY <3>1, <3>2
  <2>8. Documents!Live(c)'
    BY <1>15, <2>4, <2>7 DEF Documents!Live, Documents!NoRun
  <2>9. Documents!Live(made)'
    BY <1>7, <2>8 DEF Documents!Live
  <2> QED BY <1>7, <1>8, <2>3, <2>6, <2>9 DEF Sound
<1>18. ~suspends => ~refused'
  BY <1>2, <1>8 DEF Knows
<1>19. Further(p, e.todo) /\ firstRun' \in {firstRun, 0}
  BY <1>2, <1>8, <1>10 DEF Next2
<1> QED BY <1>2, <1>10, <1>11, <1>13, <1>14, <1>16, <1>17, <1>18, <1>19, Steps

\* A run's document is read, and then written with the new status.
LEMMA ReadRunStep ==
  ASSUME DocsInv, NEW w \in Documents!Worker, Documents!ReadRun(w), Documents!Same
  PROVE  DocsInv'
<1>1. PICK p, q, r, x, d : /\ p = task[w].todo /\ q = Documents!Rest(w) /\ r = Documents!Drop(q, 1)
                           /\ x = task[w].run /\ d = runDoc[x]
  OBVIOUS
<1>2. At(w, p, "read run") /\ Next2(p, q) /\ Next3(p, r) /\ (~suspends => Knows(w))
  BY <1>1, AtCall DEF Documents!ReadRun
<1>3. StayDocs /\ refused' = refused
  BY DEF Documents!ReadRun, StayDocs, Documents!docs, DocsInv, DocsTyped
<1>4. /\ q \in Seq(DocCalls) /\ Now(q) = "write run" /\ For(q) = For(p)
      /\ r \in Seq(DocCalls) /\ Now(r) = "read agent" /\ For(r) = For(p) /\ For(p) \in OfTheRun
      /\ task \in [Documents!Worker -> DocTask]
  BY <1>2 DEF At, Next2, Next3, DocsInv, Onto, Over
<1>5. p = task[w].todo /\ Now(p) = "read run" /\ ~Unsound(p)
  BY <1>2 DEF At, Unsound, Marking
<1>6. x \in Documents!Run /\ d \in Documents!RunDocs \cup {Documents!Nil}
  <2>1. x \in Documents!Run
    BY <1>1, <1>2, <1>5 DEF At, Known, OnRun
  <2> QED BY <1>1, <2>1 DEF DocsInv, DocsTyped
<1>7. ~suspends => ~refused'
  BY <1>2, <1>3 DEF Knows
<1>8. PICK z : z = IF d = Documents!Nil THEN r ELSE q
  OBVIOUS
<1>9. z \in Seq(DocCalls) /\ Further(p, z)
  BY <1>2, <1>4, <1>8 DEF Next2, Next3
<1>10. Documents!Reads(w, d, z)
  BY <1>1, <1>8 DEF Documents!ReadRun, Documents!Reads
<1>11. PICK e \in DocTask : task' = [task EXCEPT ![w] = e] /\ e.todo = z /\ e.read = d /\ e.run = x
  <2>1. d \in Documents!AgentDocs \cup Documents!RunDocs \cup {Documents!Nil}
    BY <1>6
  <2>2. z \in Seq(DocCalls) /\ task \in [Documents!Worker -> DocTask]
    BY <1>4, <1>9
  <2>3. \E e \in DocTask : task' = [task EXCEPT ![w] = e] /\ e.todo = z /\ e.read = d /\ e.run = task[w].run
    BY <1>10, <2>1, <2>2, ReadsIs
  <2> QED BY <1>1, <2>3
<1>12. Now(z) \in {"write run", "read agent"} /\ For(z) \in OfTheRun
  BY <1>4, <1>8
<1>13. ForcedAt(e) /\ ReadAt(e)
  BY <1>11, <1>12 DEF ForcedAt, ReadAt, Looks
<1>14. Known(e)
  <2>1. Now(z) = "write run" => d \in Documents!RunDocs
    BY <1>4, <1>6, <1>8
  <2> QED BY <1>6, <1>11, <1>12, <2>1 DEF Known
<1>15. ~suspends /\ ~cut => SoundAt(e) /\ (Unsound(p) /\ ~Unsound(e.todo) => Sound)
  <2> SUFFICES ASSUME ~suspends, ~cut PROVE SoundAt(e)
    BY <1>5
  <2>1. For(p) = "running" => x = made /\ runDoc[made].status = "queued"
    BY <1>1, <1>2, <1>5 DEF Knows, SoundAt
  <2>2. For(p) = "running" => d # Documents!Nil
    BY <1>1, <2>1 DEF Documents!Nil
  <2>3. For(p) = "running" => z = q
    BY <1>8, <2>2
  <2>4. For(z) = For(p) /\ (For(p) = "running" => Now(z) = "write run")
    BY <1>4, <1>8, <2>3
  <2>5. For(z) # "follow"
    BY <1>12 DEF OfTheRun, Documents!Terminal
  <2> QED BY <1>11, <1>12, <2>1, <2>4, <2>5 DEF SoundAt, Marking
<1>16. Further(p, e.todo)
  BY <1>9, <1>11
<1> QED BY <1>2, <1>3, <1>7, <1>11, <1>13, <1>14, <1>15, <1>16, StepsOn

LEMMA WriteRunStep ==
  ASSUME DocsInv, NEW w \in Documents!Worker, Documents!WriteRun(w), Documents!Same
  PROVE  DocsInv'
<1>1. PICK p, q, x, f : p = task[w].todo /\ q = Documents!Rest(w) /\ x = task[w].run /\ f = Documents!Arg(w)
  OBVIOUS
<1>2. At(w, p, "write run") /\ Next2(p, q) /\ (~suspends => Knows(w)) /\ f = p[1].arg
  BY <1>1, AtCall DEF Documents!WriteRun
<1>4. /\ q \in Seq(DocCalls) /\ Now(q) = "read agent" /\ For(q) = For(p) /\ For(p) \in OfTheRun
      /\ task \in [Documents!Worker -> DocTask] /\ DocsTyped
  BY <1>2 DEF At, Next2, DocsInv, Onto
<1>5. p = task[w].todo /\ p # <<>> /\ Now(p) = "write run" /\ ~Unsound(p)
  BY <1>2 DEF At, Unsound, Marking
<1>6. f = For(p)
  BY <1>2, <1>5 DEF For, Now
<1>7. x \in Documents!Run /\ task[w].read \in Documents!RunDocs
  BY <1>1, <1>2, <1>5 DEF At, Known, OnRun
<1>8. UNCHANGED <<agentDoc, log, made, alive, firstRun, deleted, refused>>
  BY DEF Documents!WriteRun
<1>9. ~suspends => ~refused'
  BY <1>2, <1>8 DEF Knows
<1>10. CASE runDoc[x] = Documents!Nil
  <2>1. StayDocs
    BY <1>1, <1>4, <1>8, <1>10 DEF Documents!WriteRun, StayDocs, DocsTyped
  <2>2. PICK e \in DocTask : task' = [task EXCEPT ![w] = e] /\ e.todo = <<>>
    BY <1>1, <1>10, RaisesIs DEF Documents!WriteRun
  <2>3. Known(e) /\ ForcedAt(e) /\ ReadAt(e) /\ SoundAt(e)
    BY <2>2, RestsWell
  <2>4. Further(p, e.todo)
    BY <2>2, EmptyFits DEF Further, Unmarked
  <2> QED BY <1>2, <1>5, <1>9, <2>1, <2>2, <2>3, <2>4, StepsOn
<1>11. CASE runDoc[x] # Documents!Nil
  <2>1. PICK d : d = [task[w].read EXCEPT !.status = f]
    OBVIOUS
  <2>2. d \in Documents!RunDocs /\ d.status = f
    <3>1. f \in Documents!Terminal \cup {"queued", "running"}
      BY <1>4, <1>6 DEF OfTheRun
    <3> QED BY <1>7, <2>1, <3>1 DEF Documents!RunDocs
  <2>3. runDoc' = [runDoc EXCEPT ![x] = d] /\ Documents!GoesOn(w, q)
    BY <1>1, <1>11, <2>1 DEF Documents!WriteRun
  <2>4. runDoc'[x] = d /\ \A y \in Documents!Run : y # x => runDoc'[y] = runDoc[y]
    BY <1>4, <1>7, <2>3 DEF DocsTyped
  <2>5. PICK e \in DocTask : task' = [task EXCEPT ![w] = e] /\ e.todo = q /\ Keeps(e, task[w])
    <3>1. q # <<>>
      BY <1>4 DEF Now
    <3>2. q \in Seq(DocCalls) /\ task \in [Documents!Worker -> DocTask]
      BY <1>4
    <3> QED BY <2>3, <3>1, <3>2, GoesOnIs
  <2>6. e.run = x
    BY <1>1, <2>5 DEF Keeps
  <2>7. DocsTyped'
    <3>1. runDoc' \in [Documents!Run -> Documents!RunDocs \cup {Documents!Nil}]
      BY <1>4, <2>2, <2>3 DEF DocsTyped
    <3> QED BY <1>4, <1>8, <3>1 DEF DocsTyped
  <2>8. Now(e.todo) = "read agent" /\ For(e.todo) = f
    BY <1>4, <1>6, <2>5
  <2>9. Known(e)
    BY <1>7, <2>6, <2>8 DEF Known, OnRun
  <2>10. ForcedAt(e)' /\ ReadAt(e)'
    BY <2>8 DEF ForcedAt, ReadAt, Looks
  <2>11. ~suspends /\ ~cut => SoundAt(e)' /\ (~Unsound(e.todo) => Sound')
    <3> SUFFICES ASSUME ~suspends, ~cut PROVE SoundAt(e)' /\ (~Unsound(e.todo) => Sound')
      OBVIOUS
    <3>1. f = "running" => x = made /\ runDoc[made].status = "queued"
      BY <1>1, <1>2, <1>5, <1>6 DEF Knows, SoundAt
    <3>2. f # "follow"
      BY <1>4, <1>6 DEF OfTheRun, Documents!Terminal
    <3>3. f = "running" => e.run = made' /\ runDoc'[made'].status = "running"
      BY <1>8, <2>2, <2>4, <2>6, <3>1
    <3>4. SoundAt(e)'
      BY <2>8, <3>2, <3>3 DEF SoundAt, Marking
    <3>5. ~Unsound(e.todo) => f = "running"
      BY <1>4, <1>6, <2>8 DEF Unsound, Marking, OfTheRun
    <3>6. ASSUME f = "running" PROVE Sound'
      <4>1. Sound
        BY <1>2, <1>5 DEF Knows
      <4>2. x = made /\ runDoc[made].status = "queued" /\ made' = made /\ agentDoc' = agentDoc
        BY <1>8, <3>1, <3>6
      <4>3. x # 0 /\ d.status \notin Documents!Terminal /\ d # Documents!Nil
        <5>1. x # 0
          <6>1. x \in 1 .. MaxRuns /\ MaxRuns \in Nat
            BY <1>7, DocumentsAssumption DEF Documents!Run
          <6> QED BY <6>1
        <5> QED BY <2>2, <3>6, <5>1 DEF Documents!Terminal, Documents!Nil
      <4>4. Documents!Live(made)'
        BY <2>4, <4>2, <4>3 DEF Documents!Live, Documents!NoRun
      <4>5. agentDoc # Documents!Nil => agentDoc.active \in Documents!Run \cup {0}
        BY <1>4 DEF DocsTyped, Documents!AgentDocs, Documents!NoRun
      <4>6. ASSUME agentDoc # Documents!Nil, agentDoc.active # 0, runDoc'[agentDoc.active] # Documents!Nil
            PROVE  agentDoc.active = made
        <5>1. CASE agentDoc.active = x
          BY <4>2, <5>1
        <5>2. CASE agentDoc.active # x
          BY <2>4, <4>1, <4>5, <4>6, <5>2 DEF Sound
        <5> QED BY <5>1, <5>2
      <4>7. ASSUME agentDoc # Documents!Nil, agentDoc.status = "running"
            PROVE  agentDoc.active # 0 /\ runDoc'[agentDoc.active].status = "running"
        <5>1. agentDoc.active # 0 /\ runDoc[agentDoc.active].status = "running"
          BY <4>1, <4>7 DEF Sound
        <5>2. CASE agentDoc.active = x
          BY <2>2, <2>4, <3>6, <5>1, <5>2
        <5>3. CASE agentDoc.active # x
          BY <2>4, <4>5, <4>7, <5>1, <5>3
        <5> QED BY <5>1, <5>2, <5>3
      <4> QED BY <4>2, <4>4, <4>6, <4>7 DEF Sound
    <3> QED BY <3>4, <3>5, <3>6
  <2>12. Further(p, e.todo) /\ firstRun' \in {firstRun, 0}
    BY <1>2, <1>8, <2>5 DEF Next2
  <2> QED BY <1>2, <1>9, <2>5, <2>7, <2>9, <2>10, <2>11, <2>12, Steps
<1> QED BY <1>10, <1>11

\* The agent's document is read, and then written with the new status.
LEMMA ReadAgentStep ==
  ASSUME DocsInv, NEW w \in Documents!Worker, Documents!ReadAgent(w), Documents!Same
  PROVE  DocsInv'
<1>1. PICK p, q, r, d, f : /\ p = task[w].todo /\ q = Documents!Rest(w) /\ r = Documents!Drop(q, 1)
                           /\ d = agentDoc /\ f = For(p)
  OBVIOUS
<1>2. At(w, p, "read agent") /\ Next2(p, q) /\ Next3(p, r) /\ (~suspends => Knows(w))
  BY <1>1, AtCall DEF Documents!ReadAgent
<1>3. StayDocs /\ refused' = refused
  BY DEF Documents!ReadAgent, StayDocs, Documents!docs, DocsInv, DocsTyped
<1>4. /\ q \in Seq(DocCalls) /\ Now(q) = "write agent" /\ For(q) = f
      /\ r \in Seq(DocCalls) /\ AfterAgent(f, Now(r), For(r))
      /\ task \in [Documents!Worker -> DocTask]
  BY <1>1, <1>2 DEF At, Next2, Next3, DocsInv, Onto, Over
<1>5. p = task[w].todo /\ Now(p) = "read agent"
  BY <1>2 DEF At
<1>6. d \in Documents!AgentDocs \cup {Documents!Nil}
  BY <1>1 DEF DocsInv, DocsTyped
<1>7. ~suspends => ~refused'
  BY <1>2, <1>3 DEF Knows
<1>8. f \in OfTheRun \cup {"follow"} => task[w].run \in Documents!Run
  BY <1>1, <1>2, <1>5 DEF At, Known, OnRun, Marking
<1>9. ~suspends /\ ~cut =>
        /\ f = "follow" => task[w].run = made /\ runDoc[made].status = "queued"
        /\ f = "running" => task[w].run = made /\ runDoc[made].status = "running"
  BY <1>1, <1>2, <1>5 DEF Knows, SoundAt, Marking
<1>10. Unsound(p) => f \in Documents!Terminal
  BY <1>1, <1>5 DEF Unsound, Marking
<1>11. CASE d = Documents!Nil /\ task[w].run = 0
  <2>1. PICK e \in DocTask : task' = [task EXCEPT ![w] = e] /\ e.todo = <<>>
    BY <1>1, <1>11, RaisesIs DEF Documents!ReadAgent, Documents!NoRun
  <2>2. Known(e) /\ ForcedAt(e) /\ ReadAt(e) /\ SoundAt(e)
    BY <2>1, RestsWell
  <2>3. Further(p, e.todo)
    BY <2>1, EmptyFits DEF Further, Unmarked
  <2>4. Sound
    BY <1>1, <1>11 DEF Sound
  <2> QED BY <1>2, <1>3, <1>7, <2>1, <2>2, <2>3, <2>4, StepsOn
<1>12. CASE d = Documents!Nil /\ task[w].run # 0
  <2>1. Documents!Reads(w, d, r)
    BY <1>1, <1>12 DEF Documents!ReadAgent, Documents!Reads, Documents!NoRun
  <2>2. PICK e \in DocTask : task' = [task EXCEPT ![w] = e] /\ e.todo = r /\ e.run = task[w].run
    <3>1. d \in Documents!AgentDocs \cup Documents!RunDocs \cup {Documents!Nil}
      BY <1>6
    <3>2. r \in Seq(DocCalls) /\ task \in [Documents!Worker -> DocTask]
      BY <1>4
    <3> QED BY <2>1, <3>1, <3>2, ReadsIs
  <2>3. /\ Now(e.todo) \in {"rest", "read run", "append"}
        /\ Now(e.todo) = "read run" => f = "follow"
        /\ Now(e.todo) = "append" => f \in OfTheRun
    BY <1>4, <2>2 DEF AfterAgent
  <2>4. Known(e)
    BY <1>8, <2>2, <2>3 DEF Known, OnRun, Marking
  <2>5. IsFree /\ Sound
    BY <1>1, <1>12 DEF IsFree, Sound
  <2>6. ForcedAt(e) /\ ReadAt(e)
    BY <2>3, <2>5 DEF ForcedAt, ReadAt
  <2>7. ~suspends /\ ~cut => SoundAt(e)
    BY <1>9, <2>2, <2>3 DEF SoundAt, Marking
  <2>8. Further(p, e.todo)
    BY <1>2, <2>2 DEF Next3
  <2> QED BY <1>2, <1>3, <1>7, <2>2, <2>4, <2>5, <2>6, <2>7, <2>8, StepsOn
<1>13. CASE d # Documents!Nil
  <2>1. Documents!Reads(w, d, q)
    BY <1>1, <1>13 DEF Documents!ReadAgent, Documents!Reads
  <2>2. PICK e \in DocTask : task' = [task EXCEPT ![w] = e] /\ e.todo = q /\ e.read = d /\ e.run = task[w].run
    <3>1. d \in Documents!AgentDocs \cup Documents!RunDocs \cup {Documents!Nil}
      BY <1>6
    <3>2. q \in Seq(DocCalls) /\ task \in [Documents!Worker -> DocTask]
      BY <1>4
    <3> QED BY <2>1, <3>1, <3>2, ReadsIs
  <2>3. Now(e.todo) = "write agent" /\ For(e.todo) = f
    BY <1>4, <2>2
  <2>4. Known(e)
    BY <1>6, <1>8, <1>13, <2>2, <2>3 DEF Known, OnRun, Marking
  <2>5. ForcedAt(e)
    BY <2>3 DEF ForcedAt, Looks
  <2>6. ReadAt(e)
    BY <1>1, <1>13, <2>2 DEF ReadAt
  <2>7. ~suspends /\ ~cut => SoundAt(e)
    BY <1>9, <2>2, <2>3 DEF SoundAt, Marking
  <2>8. Unsound(p) => Unsound(e.todo)
    BY <1>10, <2>3 DEF Unsound, Marking
  <2>9. Further(p, e.todo)
    BY <1>2, <2>2 DEF Next2
  <2> QED BY <1>2, <1>3, <1>7, <2>2, <2>4, <2>5, <2>6, <2>7, <2>8, <2>9, StepsOn
<1> QED BY <1>11, <1>12, <1>13

\* What the agent's document is written as, by what it is for.
LEMMA WrittenIs ==
  ASSUME NEW d \in Documents!AgentDocs, NEW x \in Documents!Run \cup {0}, NEW f,
         f \in OfTheRun \cup {"follow", "idle", "archived"}, NEW a, a = Documents!AgentWritten(d, x, f)
  PROVE  /\ a \in Documents!AgentDocs
         /\ f \in {"follow", "running"} => a.active = x
         /\ f \in Documents!Terminal => a.active = 0
         /\ f \in {"idle", "archived"} => a.active = d.active /\ a.status = f
         /\ a.status = "running" => f = "running"
         /\ d.status = "archived" => a.status = "archived" \/ f = "idle"
<1>1. \A s : s \in {"idle", "running"} => /\ Documents!Kept(d, s) \in {"idle", "running", "archived"}
                                          /\ Documents!Kept(d, s) = "running" => s = "running"
                                          /\ d.status = "archived" => Documents!Kept(d, s) = "archived"
  BY DEF Documents!Kept
<1>2. CASE f = "follow"
  <2>1. a = [status |-> Documents!Kept(d, "idle"), active |-> x]
    BY <1>2 DEF Documents!AgentWritten, Documents!Terminal
  <2> QED BY <1>1, <1>2, <2>1 DEF Documents!AgentDocs, Documents!Terminal, Documents!NoRun
<1>3. CASE f = "running"
  <2>1. a = [status |-> Documents!Kept(d, "running"), active |-> x]
    BY <1>3 DEF Documents!AgentWritten, Documents!Terminal
  <2> QED BY <1>1, <1>3, <2>1 DEF Documents!AgentDocs, Documents!Terminal, Documents!NoRun
<1>4. CASE f \in Documents!Terminal
  <2>1. a = [status |-> Documents!Kept(d, "idle"), active |-> 0]
    BY <1>4 DEF Documents!AgentWritten, Documents!Terminal, Documents!NoRun
  <2> QED BY <1>1, <1>4, <2>1 DEF Documents!AgentDocs, Documents!Terminal, Documents!NoRun
<1>5. CASE f \in {"idle", "archived"}
  <2>1. a = [d EXCEPT !.status = f]
    BY <1>5 DEF Documents!AgentWritten, Documents!Terminal
  <2> QED BY <1>5, <2>1 DEF Documents!AgentDocs, Documents!Terminal
<1> QED BY <1>2, <1>3, <1>4, <1>5 DEF OfTheRun

LEMMA WriteAgentStep ==
  ASSUME DocsInv, NEW w \in Documents!Worker, Documents!WriteAgent(w), Documents!Same
  PROVE  DocsInv'
<1>1. PICK p, q, x, f : p = task[w].todo /\ q = Documents!Rest(w) /\ x = task[w].run /\ f = For(p)
  OBVIOUS
<1>2. At(w, p, "write agent") /\ Next2(p, q) /\ (~suspends => Knows(w)) /\ Documents!Arg(w) = p[1].arg
  BY <1>1, AtCall DEF Documents!WriteAgent
<1>4. /\ q \in Seq(DocCalls) /\ AfterAgent(f, Now(q), For(q))
      /\ task \in [Documents!Worker -> DocTask] /\ DocsTyped
  BY <1>1, <1>2 DEF At, Next2, DocsInv, Onto
<1>5. p = task[w].todo /\ p # <<>> /\ Now(p) = "write agent" /\ p \in Seq(DocCalls) /\ Fits(p)
  BY <1>2 DEF At
<1>6. Documents!Arg(w) = f
  BY <1>1, <1>2, <1>5 DEF For, Now
<1>7. x \in Documents!Run \cup {0} /\ (f \in OfTheRun \cup {"follow"} => x \in Documents!Run)
  BY <1>1, <1>2, <1>5 DEF At, Known, OnRun, Marking, DocTask
<1>8. task[w].read \in Documents!AgentDocs
  BY <1>2, <1>5 DEF At, Known
<1>9. UNCHANGED <<runDoc, log, made, alive, firstRun, deleted, refused>>
  BY DEF Documents!WriteAgent
<1>10. ~suspends => ~refused'
  BY <1>2, <1>9 DEF Knows
<1>11. CASE agentDoc = Documents!Nil
  <2>1. StayDocs
    BY <1>4, <1>9, <1>11 DEF Documents!WriteAgent, StayDocs, DocsTyped
  <2>2. PICK e \in DocTask : task' = [task EXCEPT ![w] = e] /\ e.todo = <<>>
    BY <1>11, RaisesIs DEF Documents!WriteAgent
  <2>3. Known(e) /\ ForcedAt(e) /\ ReadAt(e) /\ SoundAt(e)
    BY <2>2, RestsWell
  <2>4. Further(p, e.todo)
    BY <2>2, EmptyFits DEF Further, Unmarked
  <2>5. Sound
    BY <1>11 DEF Sound
  <2> QED BY <1>2, <1>10, <2>1, <2>2, <2>3, <2>4, <2>5, StepsOn
<1>12. CASE agentDoc # Documents!Nil
  <2>1. PICK d, a : d = task[w].read /\ a = Documents!AgentWritten(d, x, f)
    OBVIOUS
  <2>2. agentDoc' = a /\ Documents!GoesOn(w, q)
    BY <1>1, <1>6, <1>12, <2>1 DEF Documents!WriteAgent
  <2>3. f \in OfTheRun \cup {"follow", "idle", "archived"}
    BY <1>4 DEF AfterAgent
  <2>4. /\ a \in Documents!AgentDocs
        /\ f \in {"follow", "running"} => a.active = x
        /\ f \in Documents!Terminal => a.active = 0
        /\ f \in {"idle", "archived"} => a.active = d.active /\ a.status = f
        /\ a.status = "running" => f = "running"
    BY <1>7, <1>8, <2>1, <2>3, WrittenIs
  <2>5. PICK e \in DocTask : task' = [task EXCEPT ![w] = e] /\ e.todo = q /\ (q # <<>> => Keeps(e, task[w]))
    BY <1>4, <2>2, GoesOnIs
  <2>6. DocsTyped'
    BY <1>4, <1>9, <1>12, <2>2, <2>4 DEF DocsTyped
  <2>7. /\ Now(e.todo) \in {"rest", "read run", "append"}
        /\ Now(e.todo) = "read run" => f = "follow"
        /\ Now(e.todo) = "append" => f \in OfTheRun
    BY <1>4, <2>5 DEF AfterAgent
  <2>8. Now(e.todo) # "rest" => e.run = x
    BY <1>1, <2>5 DEF Now, Keeps
  <2>9. Known(e)
    BY <1>7, <2>7, <2>8 DEF Known, OnRun, Marking
  <2>10. ReadAt(e)'
    BY <2>7 DEF ReadAt
  <2>11. ForcedAt(e)'
    <3>1. ASSUME Now(e.todo) = "append", Ahead(e.todo) PROVE IsFree'
      <4>1. Ahead(p)
        BY <1>2, <2>5, <3>1 DEF Next2, Further
      <4>2. f \notin {"running", "follow"}
        BY <1>1, <1>5, <4>1, BeginsAlone DEF Beginning
      <4>3. f \in Documents!Terminal
        BY <2>7, <3>1, <4>2 DEF OfTheRun
      <4> QED BY <2>2, <2>4, <4>3 DEF IsFree, Documents!Live, Documents!NoRun
    <3> QED BY <2>7, <3>1 DEF ForcedAt, Looks
  <2>12. ~suspends /\ ~cut => SoundAt(e)' /\ Sound'
    <3> SUFFICES ASSUME ~suspends, ~cut PROVE SoundAt(e)' /\ Sound'
      OBVIOUS
    <3>0. agentDoc' = a /\ runDoc' = runDoc /\ made' = made
      BY <1>9, <2>2
    <3>1. d = agentDoc
      BY <1>2, <1>5, <2>1 DEF Knows, ReadAt
    <3>2. f = "follow" => x = made /\ runDoc[made].status = "queued"
      BY <1>1, <1>2, <1>5 DEF Knows, SoundAt, Marking
    <3>3. f = "running" => x = made /\ runDoc[made].status = "running"
      BY <1>1, <1>2, <1>5 DEF Knows, SoundAt, Marking
    <3>4. SoundAt(e)'
      BY <1>9, <2>7, <2>8, <3>2 DEF SoundAt, Marking
    <3>5. CASE f \in {"follow", "running"}
      <4>1. a.active = made /\ runDoc[made].status \in {"queued", "running"} /\ made \in Documents!Run
        BY <1>7, <2>4, <3>2, <3>3, <3>5 DEF OfTheRun
      <4>2. made # 0
        <5>1. made \in 1 .. MaxRuns /\ MaxRuns \in Nat
          BY <4>1, DocumentsAssumption DEF Documents!Run
        <5> QED BY <5>1
      <4>3. Documents!Live(made)'
        BY <1>9, <4>1, <4>2 DEF Documents!Live, Documents!NoRun, Documents!Nil, Documents!Terminal
      <4>4. a.status = "running" => runDoc[made].status = "running"
        BY <2>4, <3>3
      <4> QED BY <3>0, <3>4, <4>1, <4>2, <4>3, <4>4 DEF Sound
    <3>6. CASE f \in Documents!Terminal
      <4>1. a.active = 0 /\ a.status # "running"
        BY <2>4, <3>6 DEF Documents!Terminal
      <4> QED BY <3>0, <3>4, <4>1 DEF Sound
    <3>7. CASE f \in {"idle", "archived"}
      <4>1. ~Unsound(p)
        BY <1>1, <1>5, <3>7 DEF Unsound, Marking, Documents!Terminal
      <4>2. Sound
        BY <1>2, <1>5, <4>1 DEF Knows
      <4>3. a.active = agentDoc.active /\ a.status # "running"
        BY <2>4, <3>1, <3>7
      <4>4. agentDoc.active # 0 /\ runDoc[agentDoc.active] # Documents!Nil =>
              agentDoc.active = made /\ Documents!Live(made)
        BY <1>12, <4>2 DEF Sound
      <4>5. Documents!Live(made) => Documents!Live(made)'
        BY <1>9 DEF Documents!Live
      <4> QED BY <3>0, <3>4, <4>3, <4>4, <4>5 DEF Sound
    <3> QED BY <2>3, <3>4, <3>5, <3>6, <3>7 DEF OfTheRun
  <2>13. Further(p, e.todo) /\ firstRun' \in {firstRun, 0}
    BY <1>2, <1>9, <2>5 DEF Next2
  <2> QED BY <1>2, <1>10, <2>5, <2>6, <2>9, <2>10, <2>11, <2>12, <2>13, Steps
<1> QED BY <1>11, <1>12

\* Events, executors, and the run that a cancellation finds.
LEMMA AppendEventStep ==
  ASSUME DocsInv, NEW w \in Documents!Worker, Documents!AppendEvent(w), Documents!Same
  PROVE  DocsInv'
<1>1. PICK p, q, x : p = task[w].todo /\ q = Documents!Rest(w) /\ x = task[w].run
  OBVIOUS
<1>2. At(w, p, "append") /\ Next2(p, q) /\ (~suspends => Knows(w))
  BY <1>1, AtCall DEF Documents!AppendEvent
<1>4. /\ q \in Seq(DocCalls) /\ Now(q) \in {"rest", "append", "drive", "read run"} \cup Looks
      /\ Now(q) = "read run" => For(q) # "running"
      /\ task \in [Documents!Worker -> DocTask] /\ DocsTyped
  BY <1>2 DEF At, Next2, DocsInv, Onto
<1>5. p = task[w].todo /\ Now(p) = "append" /\ ~Unsound(p)
  BY <1>2 DEF At, Unsound, Marking
<1>6. x \in Documents!Run
  BY <1>1, <1>2, <1>5 DEF At, Known, OnRun
<1>7. log' = log \cup {x} /\ Documents!GoesOn(w, q)
  BY <1>1 DEF Documents!AppendEvent
<1>8. StayDocs /\ refused' = refused
  BY <1>4, <1>6, <1>7 DEF Documents!AppendEvent, StayDocs, DocsTyped
<1>9. ~suspends => ~refused'
  BY <1>2, <1>8 DEF Knows
<1>10. PICK e \in DocTask : task' = [task EXCEPT ![w] = e] /\ e.todo = q /\ (q # <<>> => Keeps(e, task[w]))
  BY <1>4, <1>7, GoesOnIs
<1>11. Now(q) # "rest" => e.run = x /\ e.forced = task[w].forced
  BY <1>1, <1>10 DEF Now, Keeps
<1>12. Known(e)
  BY <1>4, <1>6, <1>10, <1>11 DEF Known, OnRun, Marking, Looks
<1>13. ReadAt(e) /\ SoundAt(e)
  BY <1>4, <1>10 DEF ReadAt, SoundAt, Marking, Looks
<1>14. Ahead(q) => Ahead(p)
  BY <1>2 DEF Next2, Further
<1>15. Now(q) \in Looks => Ahead(q)
  <2> SUFFICES ASSUME Now(q) \in Looks PROVE Ahead(q)
    OBVIOUS
  <2>1. q # <<>> /\ q[1].call \in Looks
    BY DEF Now, Looks
  <2>2. Fits(q)
    BY <1>2 DEF Next2, Further
  <2>3. Len(q) \in Nat /\ Len(q) > 0
    BY <1>4, <2>1, <2>2, FollowsEach
  <2>4. 1 \in 1 .. Len(q)
    BY <2>3
  <2> QED BY <2>1, <2>4 DEF Ahead
<1>16. ~suspends => ForcedAt(e)
  <2> SUFFICES ASSUME ~suspends PROVE ForcedAt(e)
    OBVIOUS
  <2>1. task[w].forced /\ Ahead(p) => IsFree
    BY <1>2, <1>5 DEF Knows, ForcedAt
  <2>2. e.forced /\ Now(q) # "rest" /\ Ahead(q) => IsFree
    BY <1>11, <1>14, <2>1
  <2>3. Now(q) \in Looks => Now(q) # "rest" /\ Ahead(q)
    BY <1>15 DEF Looks
  <2>4. Now(q) # "check active" /\ Now(q) # "find active"
    BY <1>4 DEF Looks
  <2>5. e.todo = q
    BY <1>10
  <2> QED BY <2>2, <2>3, <2>4, <2>5 DEF ForcedAt
<1>17. Further(p, e.todo)
  BY <1>2, <1>10 DEF Next2
<1> QED BY <1>2, <1>5, <1>8, <1>9, <1>10, <1>12, <1>13, <1>16, <1>17, StepsOn

LEMMA DriveStep ==
  ASSUME DocsInv, NEW w \in Documents!Worker, Documents!Drive(w), Documents!Same
  PROVE  DocsInv'
<1>1. PICK p, q, x : p = task[w].todo /\ q = Documents!Rest(w) /\ x = task[w].run
  OBVIOUS
<1>2. At(w, p, "drive") /\ Next2(p, q) /\ (~suspends => Knows(w))
  BY <1>1, AtCall DEF Documents!Drive
<1>4. /\ q \in Seq(DocCalls) /\ Now(q) = "rest"
      /\ task \in [Documents!Worker -> DocTask] /\ DocsTyped
  BY <1>2 DEF At, Next2, DocsInv, Onto
<1>5. p = task[w].todo /\ Now(p) = "drive" /\ ~Unsound(p)
  BY <1>2 DEF At, Unsound, Marking
<1>6. x \in Documents!Run
  BY <1>1, <1>2, <1>5 DEF At, Known, OnRun
<1>7. alive' = alive \cup {x} /\ Documents!GoesOn(w, q)
  BY <1>1 DEF Documents!Drive
<1>8. StayDocs /\ refused' = refused
  BY <1>4, <1>6, <1>7 DEF Documents!Drive, StayDocs, DocsTyped
<1>9. ~suspends => ~refused'
  BY <1>2, <1>8 DEF Knows
<1>10. PICK e \in DocTask : task' = [task EXCEPT ![w] = e] /\ e.todo = q
  BY <1>4, <1>7, GoesOnIs
<1>11. Known(e) /\ ReadAt(e) /\ SoundAt(e)
  BY <1>4, <1>10, QuietIs DEF Quiet
<1>12. ForcedAt(e)
  BY <1>4, <1>10 DEF ForcedAt, Looks
<1>13. Further(p, e.todo)
  BY <1>2, <1>10 DEF Next2
<1> QED BY <1>2, <1>5, <1>8, <1>9, <1>10, <1>11, <1>12, <1>13, StepsOn

LEMMA FindRunStep ==
  ASSUME DocsInv, NEW w \in Documents!Worker, Documents!FindRun(w), Documents!Same
  PROVE  DocsInv'
<1>1. PICK p, q, x, z : /\ p = task[w].todo /\ q = Documents!Rest(w) /\ x = task[w].run
                        /\ z = IF Documents!Live(x) THEN q ELSE <<>>
  OBVIOUS
<1>2. At(w, p, "find run") /\ Next2(p, q) /\ (~suspends => Knows(w))
  BY <1>1, AtCall DEF Documents!FindRun
<1>3. StayDocs /\ refused' = refused
  BY DEF Documents!FindRun, StayDocs, Documents!docs, DocsInv, DocsTyped
<1>4. /\ q \in Seq(DocCalls) /\ Now(q) \in {"rest", "read run"}
      /\ Now(q) = "read run" => For(q) # "running"
      /\ task \in [Documents!Worker -> DocTask]
  BY <1>2 DEF At, Next2, DocsInv, Onto
<1>5. p = task[w].todo /\ Now(p) = "find run" /\ ~Unsound(p)
  BY <1>2 DEF At, Unsound, Marking
<1>6. x \in Documents!Run
  BY <1>1, <1>2, <1>5 DEF At, Known, OnRun
<1>7. ~suspends => ~refused'
  BY <1>2, <1>3 DEF Knows
<1>8. z \in Seq(DocCalls) /\ Further(p, z)
  <2>1. Further(p, q)
    BY <1>2 DEF Next2
  <2>2. Further(p, <<>>)
    BY EmptyFits DEF Further, Unmarked
  <2>3. <<>> \in Seq(DocCalls)
    OBVIOUS
  <2> QED BY <1>1, <1>4, <2>1, <2>2, <2>3
<1>9. Now(z) \in {"rest", "read run"} /\ (Now(z) = "read run" => For(z) # "running")
  BY <1>1, <1>4 DEF Now
<1>10. Documents!GoesOn(w, z)
  BY <1>1 DEF Documents!FindRun
<1>11. PICK e \in DocTask : task' = [task EXCEPT ![w] = e] /\ e.todo = z /\ (z # <<>> => Keeps(e, task[w]))
  BY <1>4, <1>8, <1>10, GoesOnIs
<1>12. Now(z) # "rest" => e.run = x
  BY <1>1, <1>11 DEF Now, Keeps
<1>13. Known(e)
  BY <1>6, <1>9, <1>11, <1>12 DEF Known, OnRun, Marking
<1>14. ForcedAt(e) /\ ReadAt(e) /\ SoundAt(e)
  BY <1>9, <1>11 DEF ForcedAt, ReadAt, SoundAt, Marking, Looks
<1>15. Further(p, e.todo)
  BY <1>8, <1>11
<1> QED BY <1>2, <1>3, <1>5, <1>7, <1>11, <1>13, <1>14, <1>15, StepsOn

\* The deletion of an agent: its runs, its checkpoints, and then its document.
LEMMA DeleteRunsStep ==
  ASSUME DocsInv, NEW w \in Documents!Worker, Documents!DeleteRuns(w), Documents!Same
  PROVE  DocsInv'
<1>1. PICK p, q : p = task[w].todo /\ q = Documents!Rest(w)
  OBVIOUS
<1>2. At(w, p, "runs.delete") /\ Next2(p, q) /\ (~suspends => Knows(w))
  BY <1>1, AtCall DEF Documents!DeleteRuns
<1>4. /\ q \in Seq(DocCalls) /\ Now(q) = "checkpoints.delete"
      /\ task \in [Documents!Worker -> DocTask] /\ DocsTyped
  BY <1>2 DEF At, Next2, DocsInv, Onto
<1>5. UNCHANGED <<agentDoc, made, alive, firstRun, deleted, refused>>
  BY DEF Documents!DeleteRuns
<1>6. Documents!GoesOn(w, q)
  BY <1>1 DEF Documents!DeleteRuns
<1>7. DocsTyped' /\ firstRun' \in {firstRun, 0}
  <2>1. runDoc' = [r \in Documents!Run |-> Documents!Nil] /\ log' = {r \in log : runDoc[r] = Documents!Nil}
    BY DEF Documents!DeleteRuns
  <2>2. runDoc' \in [Documents!Run -> Documents!RunDocs \cup {Documents!Nil}]
    BY <2>1
  <2>3. log' \subseteq Documents!Run
    BY <1>4, <2>1 DEF DocsTyped
  <2> QED BY <1>4, <1>5, <2>2, <2>3 DEF DocsTyped
<1>8. PICK e \in DocTask : task' = [task EXCEPT ![w] = e] /\ e.todo = q
  BY <1>4, <1>6, GoesOnIs
<1>9. Known(e) /\ Unsound(e.todo)
  BY <1>4, <1>8 DEF Known, OnRun, Marking, Unsound
<1>10. ForcedAt(e)' /\ ReadAt(e)' /\ SoundAt(e)'
  BY <1>4, <1>8 DEF ForcedAt, ReadAt, SoundAt, Marking, Looks
<1>11. ~suspends => ~refused'
  BY <1>2, <1>5 DEF Knows
<1>12. Further(p, e.todo)
  BY <1>2, <1>8 DEF Next2
<1> QED BY <1>2, <1>7, <1>8, <1>9, <1>10, <1>11, <1>12, Steps

LEMMA DeleteCheckpointsStep ==
  ASSUME DocsInv, NEW w \in Documents!Worker, Documents!DeleteCheckpoints(w), Documents!Same
  PROVE  DocsInv'
<1>1. PICK p, q : p = task[w].todo /\ q = Documents!Rest(w)
  OBVIOUS
<1>2. At(w, p, "checkpoints.delete") /\ Next2(p, q) /\ (~suspends => Knows(w))
  BY <1>1, AtCall DEF Documents!DeleteCheckpoints
<1>3. StayDocs /\ refused' = refused
  BY DEF Documents!DeleteCheckpoints, StayDocs, Documents!docs, DocsInv, DocsTyped
<1>4. q \in Seq(DocCalls) /\ Now(q) = "agents.delete" /\ task \in [Documents!Worker -> DocTask]
  BY <1>2 DEF At, Next2, DocsInv, Onto
<1>6. Documents!GoesOn(w, q)
  BY <1>1 DEF Documents!DeleteCheckpoints
<1>8. PICK e \in DocTask : task' = [task EXCEPT ![w] = e] /\ e.todo = q
  BY <1>4, <1>6, GoesOnIs
<1>9. Known(e) /\ Unsound(e.todo)
  BY <1>4, <1>8 DEF Known, OnRun, Marking, Unsound
<1>10. ForcedAt(e) /\ ReadAt(e) /\ SoundAt(e)
  BY <1>4, <1>8 DEF ForcedAt, ReadAt, SoundAt, Marking, Looks
<1>11. ~suspends => ~refused'
  BY <1>2, <1>3 DEF Knows
<1>12. Further(p, e.todo)
  BY <1>2, <1>8 DEF Next2
<1> QED BY <1>2, <1>3, <1>8, <1>9, <1>10, <1>11, <1>12, StepsOn

LEMMA DeleteAgentDocStep ==
  ASSUME DocsInv, NEW w \in Documents!Worker, Documents!DeleteAgentDoc(w), Documents!Same
  PROVE  DocsInv'
<1>1. PICK p, q : p = task[w].todo /\ q = Documents!Rest(w)
  OBVIOUS
<1>2. At(w, p, "agents.delete") /\ Next2(p, q) /\ (~suspends => Knows(w))
  BY <1>1, AtCall DEF Documents!DeleteAgentDoc
<1>4. /\ q \in Seq(DocCalls) /\ Now(q) = "rest"
      /\ task \in [Documents!Worker -> DocTask] /\ DocsTyped
  BY <1>2 DEF At, Next2, DocsInv, Onto
<1>5. agentDoc' = Documents!Nil /\ UNCHANGED <<runDoc, log, made, alive, firstRun, refused>>
  BY DEF Documents!DeleteAgentDoc
<1>6. Documents!GoesOn(w, q)
  BY <1>1 DEF Documents!DeleteAgentDoc
<1>7. DocsTyped' /\ firstRun' \in {firstRun, 0}
  BY <1>4, <1>5 DEF DocsTyped
<1>8. PICK e \in DocTask : task' = [task EXCEPT ![w] = e] /\ e.todo = q
  BY <1>4, <1>6, GoesOnIs
<1>9. Known(e)
  BY <1>4, <1>8, QuietIs DEF Quiet
<1>10. ForcedAt(e)' /\ ReadAt(e)' /\ SoundAt(e)'
  BY <1>4, <1>8 DEF ForcedAt, ReadAt, SoundAt, Marking, Looks
<1>11. Sound'
  BY <1>5 DEF Sound
<1>12. ~suspends => ~refused'
  BY <1>2, <1>5 DEF Knows
<1>13. Further(p, e.todo)
  BY <1>2, <1>8 DEF Next2
<1> QED BY <1>2, <1>7, <1>8, <1>9, <1>10, <1>11, <1>12, <1>13, Steps

\* An operation begins with what it is planned to do.
Fresh(t, run, forced) == [todo |-> t, run |-> run, read |-> Documents!Nil, forced |-> forced]
LEMMA BeginsStep ==
  ASSUME DocsInv, NEW w \in Documents!Worker, Documents!AtRest(w), Documents!HasLoop(w),
         NEW p, NEW n, NEW f, Plan(p, n, f), NEW x \in Documents!Run \cup {0}, NEW forced \in BOOLEAN,
         NEW e, e = Fresh(p, x, forced), task' = [task EXCEPT ![w] = e],
         \/ n \in {"find agent", "append", "find run", "runs.delete"} \cup Looks
         \/ n = "read agent" /\ f \in {"idle", "archived"},
         n \in {"append", "find run"} => x \in Documents!Run, forced => n = "find agent",
         Creates(p) => firstRun = 0, Unarchives(p) => w \in Task,
         StayDocs, UNCHANGED <<firstRun, refused, suspends, cut>>
  PROVE  DocsInv'
<1>1. p \in Seq(DocCalls) /\ Fits(p) /\ Now(p) = n /\ For(p) = f
  BY DEF Plan
<1>2. e \in DocTask /\ e.todo = p /\ e.run = x /\ e.forced = forced
  BY <1>1 DEF Fresh, DocTask
<1>3. /\ n # "write run" /\ n # "write agent" /\ n # "runs.create" /\ n # "check active" /\ n # "count runs"
      /\ n # "read run" /\ n # "drive" /\ n # "agents.delete" /\ n # "checkpoints.delete" /\ n # "find active"
  BY DEF Looks
<1>4. f \in {"idle", "archived"} => f \notin OfTheRun \cup {"follow"} /\ f # "running"
  BY DEF OfTheRun, Documents!Terminal
<1>5. \A S : S \subseteq OfTheRun \cup {"follow"} => ~Marking(p, S)
  BY <1>1, <1>3, <1>4 DEF Marking, Looks
<1>6. Known(e)
  BY <1>1, <1>2, <1>3, <1>5 DEF Known, OnRun
<1>7. ForcedAt(e)
  BY <1>1, <1>2 DEF ForcedAt, Looks
<1>8. ReadAt(e)
  BY <1>1, <1>2, <1>3 DEF ReadAt
<1>9. SoundAt(e)
  <2>1. ~Marking(p, {"follow"}) /\ ~Marking(p, {"running"})
    BY <1>5 DEF OfTheRun
  <2> QED BY <1>1, <1>2, <1>3, <2>1 DEF SoundAt
<1>10. ForcedAt(e)' /\ ReadAt(e)' /\ SoundAt(e)'
  BY <1>7, <1>8, <1>9, StaysAt
<1>11. DocsTyped' /\ (Sound' <=> Sound)
  BY Stays DEF DocsInv
<1>12. ~suspends => ~refused /\ (~cut => Sound)
  BY AtBeginning
<1>13. Leaves(w, e)
  BY <1>1, <1>2, <1>6, <1>11 DEF Leaves
<1> QED BY <1>10, <1>11, <1>12, <1>13, OneMoves

\* The handlers begin their operations.
LEMMA BeginSendStep ==
  ASSUME DocsInv, NEW w \in Task, NEW forced \in BOOLEAN, Documents!BeginSend(w, forced)
  PROVE  DocsInv'
<1>1. PICK p, n : p = Documents!Send(forced) /\ n = Now(p)
  OBVIOUS
<1>2. /\ Plan(p, n, "") /\ ~Unarchives(p) /\ (Creates(p) => firstRun = 0)
      /\ forced => n = "find agent"
      /\ ~forced => n \in Looks
  BY <1>1, SendIs
<1>3. w \in Documents!Worker /\ 0 \in Documents!Run \cup {0}
  BY DEF Documents!Worker
<1>4. PICK e : e = Fresh(p, 0, forced)
  OBVIOUS
<1>5. Documents!AtRest(w) /\ Documents!HasLoop(w) /\ task' = [task EXCEPT ![w] = e]
  BY <1>1, <1>4 DEF Documents!BeginSend, Documents!Begin, Fresh, Documents!NoRun
<1>6. UNCHANGED <<Documents!docs, suspends, cut, deleted, refused>>
  BY DEF Documents!BeginSend, Documents!Begin
<1>7. StayDocs /\ UNCHANGED <<firstRun, refused, suspends, cut>>
  BY <1>6 DEF StayDocs, Documents!docs, DocsInv, DocsTyped
<1>8. n \in {"find agent"} \cup Looks /\ n # "append" /\ n # "find run"
  BY <1>2 DEF Looks
<1> QED BY <1>2, <1>3, <1>4, <1>5, <1>7, <1>8, BeginsStep

LEMMA BeginCancelStep ==
  ASSUME DocsInv, NEW w \in Task, NEW r \in Documents!Run, Documents!BeginCancel(w, r)
  PROVE  DocsInv'
<1>1. PICK p : p = Documents!Cancel
  OBVIOUS
<1>2. Plan(p, "find run", "") /\ Unmarked(p)
  BY <1>1, CancelIs
<1>3. w \in Documents!Worker /\ r \in Documents!Run \cup {0}
  BY DEF Documents!Worker
<1>4. PICK e : e = Fresh(p, r, FALSE)
  OBVIOUS
<1>5. Documents!AtRest(w) /\ Documents!HasLoop(w) /\ task' = [task EXCEPT ![w] = e]
  BY <1>1, <1>4 DEF Documents!BeginCancel, Documents!Begin, Fresh
<1>6. UNCHANGED <<Documents!docs, suspends, cut, deleted, refused>>
  BY DEF Documents!BeginCancel, Documents!Begin
<1>7. StayDocs /\ UNCHANGED <<firstRun, refused, suspends, cut>>
  BY <1>6 DEF StayDocs, Documents!docs, DocsInv, DocsTyped
<1>8. ~Creates(p) /\ ~Unarchives(p)
  BY <1>2 DEF Unmarked
<1> QED BY <1>2, <1>3, <1>4, <1>5, <1>7, <1>8, BeginsStep

LEMMA BeginSetStatusStep ==
  ASSUME DocsInv, NEW w \in Task, NEW s \in {"idle", "archived"}, Documents!BeginSetStatus(w, s)
  PROVE  DocsInv'
<1>1. PICK p, n, f : p = Documents!SetStatus(s) /\ n = "read agent" /\ f = FALSE
  OBVIOUS
<1>2. Plan(p, n, s) /\ ~Creates(p)
  BY <1>1, SetStatusIs
<1>3. w \in Documents!Worker /\ 0 \in Documents!Run \cup {0}
  BY DEF Documents!Worker
<1>4. PICK e : e = Fresh(p, 0, f)
  OBVIOUS
<1>5. Documents!AtRest(w) /\ Documents!HasLoop(w) /\ task' = [task EXCEPT ![w] = e]
  BY <1>1, <1>4 DEF Documents!BeginSetStatus, Documents!Begin, Fresh, Documents!NoRun
<1>6. UNCHANGED <<Documents!docs, suspends, cut, deleted, refused>>
  BY DEF Documents!BeginSetStatus, Documents!Begin
<1>7. StayDocs /\ UNCHANGED <<firstRun, refused, suspends, cut>>
  BY <1>6 DEF StayDocs, Documents!docs, DocsInv, DocsTyped
<1>8. n = "read agent" /\ n \notin {"append", "find run"} /\ f \in BOOLEAN /\ ~f
  BY <1>1
<1> QED BY <1>2, <1>3, <1>4, <1>5, <1>7, <1>8, BeginsStep

LEMMA BeginDeleteStep ==
  ASSUME DocsInv, NEW w \in Task, Documents!BeginDelete(w)
  PROVE  DocsInv'
<1>1. PICK p, n, f : p = Documents!DeleteAgent /\ n = "runs.delete" /\ f = FALSE
  OBVIOUS
<1>2. Plan(p, n, "") /\ Unmarked(p)
  BY <1>1, DeleteIs
<1>3. w \in Documents!Worker /\ 0 \in Documents!Run \cup {0}
  BY DEF Documents!Worker
<1>4. PICK e : e = Fresh(p, 0, f)
  OBVIOUS
<1>5. Documents!AtRest(w) /\ Documents!HasLoop(w) /\ task' = [task EXCEPT ![w] = e]
  BY <1>1, <1>4 DEF Documents!BeginDelete, Documents!Begin, Fresh, Documents!NoRun
<1>6. UNCHANGED <<Documents!docs, suspends, cut, deleted, refused>>
  BY DEF Documents!BeginDelete, Documents!Begin
<1>7. StayDocs /\ UNCHANGED <<firstRun, refused, suspends, cut>>
  BY <1>6 DEF StayDocs, Documents!docs, DocsInv, DocsTyped
<1>8. ~Creates(p) /\ ~Unarchives(p)
  BY <1>2 DEF Unmarked
<1>9. n \in {"runs.delete"} /\ n \notin {"append", "find run"} /\ f \in BOOLEAN /\ ~f
  BY <1>1
<1> QED BY <1>2, <1>3, <1>4, <1>5, <1>7, <1>8, <1>9, BeginsStep

LEMMA BeginEndStep ==
  ASSUME DocsInv, NEW r \in Documents!Run, NEW s \in {"finished", "error"}, Documents!BeginEnd(r, s)
  PROVE  DocsInv'
<1>1. PICK p : p = Documents!End(s)
  OBVIOUS
<1>2. Plan(p, "append", "") /\ Unmarked(p)
  <2>1. s \in OfTheRun \ {"running"}
    BY DEF OfTheRun, Documents!Terminal
  <2> QED BY <1>1, <2>1, EndIs
<1>3. r \in Documents!Worker /\ r \in Documents!Run \cup {0}
  BY DEF Documents!Worker
<1>4. PICK e : e = Fresh(p, r, FALSE)
  OBVIOUS
<1>5. Documents!AtRest(r) /\ Documents!HasLoop(r) /\ task' = [task EXCEPT ![r] = e]
  BY <1>1, <1>4 DEF Documents!BeginEnd, Fresh
<1>6. /\ UNCHANGED <<agentDoc, runDoc, log, made, firstRun, suspends, cut, deleted, refused>>
      /\ alive' = alive \ {r}
  BY DEF Documents!BeginEnd
<1>7. StayDocs /\ UNCHANGED <<firstRun, refused, suspends, cut>>
  BY <1>6 DEF StayDocs, DocsInv, DocsTyped
<1>8. ~Creates(p) /\ ~Unarchives(p)
  BY <1>2 DEF Unmarked
<1> QED BY <1>2, <1>3, <1>4, <1>5, <1>7, <1>8, BeginsStep

\* The process dies: no task has anything to do any more.
LEMMA AllRest ==
  ASSUME task' = [w \in Documents!Worker |-> Documents!Idle]
  PROVE  /\ task' \in [Documents!Worker -> DocTask]
         /\ \A w \in Documents!Worker : /\ ShapedAt(w, task[w])' /\ ForcedAt(task[w])' /\ ReadAt(task[w])'
                                        /\ SoundAt(task[w])' /\ Documents!AtRest(w)' /\ ~Unsound(task'[w].todo)
<1>1. PICK e : e = Documents!Idle
  OBVIOUS
<1>2. e \in DocTask /\ e.todo = <<>>
  BY <1>1 DEF DocTask, Documents!Idle, Documents!NoRun
<1>3. /\ Fits(e.todo) /\ Known(e) /\ ~Creates(e.todo) /\ ~Unarchives(e.todo) /\ ~Unsound(e.todo)
      /\ ForcedAt(e)' /\ ReadAt(e)' /\ SoundAt(e)'
  BY <1>2, RestsWell, RestsWellThen
<1>4. ASSUME NEW w \in Documents!Worker
      PROVE  /\ ShapedAt(w, task[w])' /\ ForcedAt(task[w])' /\ ReadAt(task[w])'
             /\ SoundAt(task[w])' /\ Documents!AtRest(w)' /\ ~Unsound(task'[w].todo)
  <2>1. task'[w] = e
    BY <1>1
  <2>2. ShapedAt(w, task[w])'
    BY <1>3, <2>1 DEF ShapedAt
  <2>3. ForcedAt(task[w])'
    BY <1>3, <2>1 DEF ForcedAt
  <2>4. ReadAt(task[w])'
    BY <1>3, <2>1 DEF ReadAt
  <2>5. SoundAt(task[w])'
    BY <1>3, <2>1 DEF SoundAt
  <2>6. Documents!AtRest(w)' /\ ~Unsound(task'[w].todo)
    BY <1>2, <1>3, <2>1 DEF Documents!AtRest
  <2> QED BY <2>2, <2>3, <2>4, <2>5, <2>6
<1>5. task' \in [Documents!Worker -> DocTask]
  BY <1>1, <1>2
<1> QED BY <1>4, <1>5

LEMMA CrashStep == DocsInv /\ Documents!Crash => DocsInv'
<1> SUFFICES ASSUME DocsInv, Documents!Crash PROVE DocsInv'
  OBVIOUS
<1>1. /\ task' = [w \in Documents!Worker |-> Documents!Idle]
      /\ alive' = {} /\ firstRun' = 0
      /\ UNCHANGED <<agentDoc, runDoc, log, made, suspends, deleted, refused>>
      /\ cut' = (cut \/ \E w \in Documents!Worker : ~Documents!AtRest(w))
  BY DEF Documents!Crash, Documents!NoRun
<1>2. /\ task' \in [Documents!Worker -> DocTask]
      /\ \A w \in Documents!Worker : /\ ShapedAt(w, task[w])' /\ ForcedAt(task[w])' /\ ReadAt(task[w])'
                                     /\ SoundAt(task[w])' /\ Documents!AtRest(w)' /\ ~Unsound(task'[w].todo)
  BY <1>1, AllRest
<1>3. StayDocs
  BY <1>1 DEF StayDocs, DocsInv, DocsTyped
<1>4. DocsTyped' /\ (Sound' <=> Sound)
  BY <1>3, Stays DEF DocsInv
<1>5. ASSUME ~suspends, ~cut' PROVE Sound
  <2>1. ASSUME NEW w \in Documents!Worker PROVE ~Unsound(task[w].todo)
    <3>1. task[w].todo = <<>>
      BY <1>1, <1>5 DEF Documents!AtRest
    <3> QED BY <3>1, RestsWell
  <2>2. ~cut
    BY <1>1, <1>5
  <2> QED BY <1>5, <2>1, <2>2 DEF DocsInv
<1>6. ~suspends => ~refused'
  BY <1>1 DEF DocsInv
<1> QED BY <1>1, <1>2, <1>4, <1>5, <1>6 DEF DocsInv

LEMMA InitDocs == Documents!Init => DocsInv
<1> SUFFICES ASSUME Documents!Init PROVE DocsInv
  OBVIOUS
<1>1. PICK e, g : e = Documents!Idle /\ g = [status |-> "queued", turn |-> 1]
  OBVIOUS
<1>2. e \in DocTask /\ e.todo = <<>>
  BY <1>1 DEF DocTask, Documents!Idle, Documents!NoRun
<1>3. PICK first \in {Documents!Nil, g} :
        /\ runDoc = [r \in Documents!Run |-> IF r = 1 THEN first ELSE Documents!Nil]
        /\ firstRun = IF first = Documents!Nil THEN 0 ELSE 1
  BY <1>1 DEF Documents!Init, Documents!NoRun
<1>4. /\ agentDoc = [status |-> "idle", active |-> 1]
      /\ log = {} /\ made = 1 /\ alive = {} /\ ~deleted /\ ~refused
      /\ task = [w \in Documents!Worker |-> e]
  BY <1>1 DEF Documents!Init
<1>5. 1 \in Documents!Run
  BY DocumentsAssumption DEF Documents!Run
<1>6. g \in Documents!RunDocs /\ g.status = "queued"
  BY <1>1 DEF Documents!RunDocs
<1>7. agentDoc \in Documents!AgentDocs /\ agentDoc.active = 1 /\ agentDoc.status = "idle"
  BY <1>4, <1>5 DEF Documents!AgentDocs
<1>8. DocsTyped
  <2>1. runDoc \in [Documents!Run -> Documents!RunDocs \cup {Documents!Nil}]
    BY <1>3, <1>6
  <2> QED BY <1>3, <1>4, <1>5, <1>7, <2>1 DEF DocsTyped
<1>9. Sound
  <2>1. runDoc[1] # Documents!Nil => Documents!Live(1)
    BY <1>3, <1>5, <1>6 DEF Documents!Live, Documents!NoRun, Documents!Terminal
  <2> QED BY <1>4, <1>7, <2>1 DEF Sound
<1>10. /\ Fits(e.todo) /\ Known(e) /\ ~Creates(e.todo) /\ ~Unarchives(e.todo)
       /\ ForcedAt(e) /\ ReadAt(e) /\ SoundAt(e)
  BY <1>2, RestsWell
<1>11. task \in [Documents!Worker -> DocTask]
  BY <1>2, <1>4
<1>12. ASSUME NEW w \in Documents!Worker
       PROVE  ShapedAt(w, task[w]) /\ ForcedAt(task[w]) /\ ReadAt(task[w]) /\ SoundAt(task[w]) /\ Documents!AtRest(w)
  <2>1. task[w] = e
    BY <1>4
  <2> QED BY <1>2, <1>10, <2>1 DEF ShapedAt, Documents!AtRest
<1> QED BY <1>4, <1>8, <1>9, <1>11, <1>12 DEF DocsInv

LEMMA DocsSettled == DocsInv /\ UNCHANGED Documents!vars => DocsInv'
<1> SUFFICES ASSUME DocsInv, UNCHANGED Documents!vars PROVE DocsInv'
  OBVIOUS
<1>1. UNCHANGED <<agentDoc, runDoc, log, made, alive, firstRun, task, suspends, cut, deleted, refused>>
  BY DEF Documents!vars, Documents!docs
<1>2. StayDocs
  BY <1>1 DEF StayDocs, DocsInv, DocsTyped
<1>3. DocsTyped' /\ (Sound' <=> Sound)
  BY <1>2, Stays DEF DocsInv
<1>4. ASSUME NEW w \in Documents!Worker
      PROVE  /\ ShapedAt(w, task[w])' <=> ShapedAt(w, task[w])
             /\ ForcedAt(task[w])' <=> ForcedAt(task[w])
             /\ ReadAt(task[w])' <=> ReadAt(task[w])
             /\ SoundAt(task[w])' <=> SoundAt(task[w])
             /\ Documents!AtRest(w)' <=> Documents!AtRest(w)
  <2>1. PICK e : e = task[w] /\ e = task'[w]
    BY <1>1
  <2>2. /\ ForcedAt(e)' <=> ForcedAt(e)
        /\ ReadAt(e)' <=> ReadAt(e)
        /\ SoundAt(e)' <=> SoundAt(e)
    BY <1>2, StaysAt
  <2>3. ShapedAt(w, task[w])' <=> ShapedAt(w, task[w])
    BY <1>1, <2>1 DEF ShapedAt
  <2>4. ForcedAt(task[w])' <=> ForcedAt(task[w])
    BY <2>1, <2>2 DEF ForcedAt
  <2>5. ReadAt(task[w])' <=> ReadAt(task[w])
    BY <2>1, <2>2 DEF ReadAt
  <2>6. SoundAt(task[w])' <=> SoundAt(task[w])
    BY <2>1, <2>2 DEF SoundAt
  <2>7. Documents!AtRest(w)' <=> Documents!AtRest(w)
    BY <1>1 DEF Documents!AtRest
  <2> QED BY <2>3, <2>4, <2>5, <2>6, <2>7
<1> QED BY <1>1, <1>3, <1>4 DEF DocsInv

LEMMA StepDocs ==
  ASSUME DocsInv, NEW w \in Documents!Worker, Documents!Step(w)
  PROVE  DocsInv'
<1>1. Documents!Same
  BY DEF Documents!Step
<1>2. \/ Documents!FindAgent(w) \/ Documents!FindActive(w) \/ Documents!FindPending(w)
      \/ Documents!CheckAgent(w) \/ Documents!CheckActive(w) \/ Documents!CountRuns(w) \/ Documents!CreateRun(w)
      \/ Documents!ReadRun(w) \/ Documents!WriteRun(w) \/ Documents!ReadAgent(w) \/ Documents!WriteAgent(w)
      \/ Documents!AppendEvent(w) \/ Documents!Drive(w) \/ Documents!FindRun(w)
      \/ Documents!DeleteRuns(w) \/ Documents!DeleteCheckpoints(w) \/ Documents!DeleteAgentDoc(w)
  BY DEF Documents!Step
<1>3. CASE Documents!FindAgent(w)
  BY <1>1, <1>3, FindAgentStep
<1>4. CASE Documents!FindActive(w)
  BY <1>1, <1>4, FindActiveStep
<1>5. CASE Documents!FindPending(w)
  BY <1>1, <1>5, FindPendingStep
<1>6. CASE Documents!CheckAgent(w)
  BY <1>1, <1>6, CheckAgentStep
<1>7. CASE Documents!CheckActive(w)
  BY <1>1, <1>7, CheckActiveStep
<1>8. CASE Documents!CountRuns(w)
  BY <1>1, <1>8, CountRunsStep
<1>9. CASE Documents!CreateRun(w)
  BY <1>1, <1>9, CreateRunStep
<1>10. CASE Documents!ReadRun(w)
  BY <1>1, <1>10, ReadRunStep
<1>11. CASE Documents!WriteRun(w)
  BY <1>1, <1>11, WriteRunStep
<1>12. CASE Documents!ReadAgent(w)
  BY <1>1, <1>12, ReadAgentStep
<1>13. CASE Documents!WriteAgent(w)
  BY <1>1, <1>13, WriteAgentStep
<1>14. CASE Documents!AppendEvent(w)
  BY <1>1, <1>14, AppendEventStep
<1>15. CASE Documents!Drive(w)
  BY <1>1, <1>15, DriveStep
<1>16. CASE Documents!FindRun(w)
  BY <1>1, <1>16, FindRunStep
<1>17. CASE Documents!DeleteRuns(w)
  BY <1>1, <1>17, DeleteRunsStep
<1>18. CASE Documents!DeleteCheckpoints(w)
  BY <1>1, <1>18, DeleteCheckpointsStep
<1>19. CASE Documents!DeleteAgentDoc(w)
  BY <1>1, <1>19, DeleteAgentDocStep
<1> QED BY <1>2, <1>3, <1>4, <1>5, <1>6, <1>7, <1>8, <1>9, <1>10, <1>11, <1>12, <1>13, <1>14, <1>15, <1>16,
           <1>17, <1>18, <1>19

LEMMA NextDocs == DocsInv /\ [Documents!Next]_Documents!vars => DocsInv'
<1> SUFFICES ASSUME DocsInv, [Documents!Next]_Documents!vars PROVE DocsInv'
  OBVIOUS
<1>1. CASE UNCHANGED Documents!vars
  BY <1>1, DocsSettled
<1>2. ASSUME NEW t \in Task, NEW forced \in BOOLEAN, Documents!BeginSend(t, forced) PROVE DocsInv'
  BY <1>2, BeginSendStep
<1>3. ASSUME NEW t \in Task, NEW r \in Documents!Run, Documents!BeginCancel(t, r) PROVE DocsInv'
  BY <1>3, BeginCancelStep
<1>4. ASSUME NEW t \in Task, NEW s \in {"idle", "archived"}, Documents!BeginSetStatus(t, s) PROVE DocsInv'
  BY <1>4, BeginSetStatusStep
<1>5. ASSUME NEW t \in Task, Documents!BeginDelete(t) PROVE DocsInv'
  BY <1>5, BeginDeleteStep
<1>6. ASSUME NEW r \in Documents!Run, NEW s \in {"finished", "error"}, Documents!BeginEnd(r, s) PROVE DocsInv'
  BY <1>6, BeginEndStep
<1>7. ASSUME NEW w \in Documents!Worker, Documents!Step(w) PROVE DocsInv'
  BY <1>7, StepDocs
<1>8. CASE Documents!Crash
  BY <1>8, CrashStep
<1> QED BY <1>1, <1>2, <1>3, <1>4, <1>5, <1>6, <1>7, <1>8 DEF Documents!Next

LEMMA DocsInvKeeps == DocsInv => Documents!TurnsKept
<1> SUFFICES ASSUME DocsInv PROVE Documents!TurnsKept
  OBVIOUS
<1>1. Documents!TypeOK
  <2>1. ASSUME NEW w \in Documents!Worker
        PROVE  /\ task[w].run \in Documents!Run \cup {Documents!NoRun}
               /\ task[w].read \in Documents!AgentDocs \cup Documents!RunDocs \cup {Documents!Nil}
    BY DEF DocsInv, DocTask, Documents!NoRun
  <2>2. DocsTyped
    BY DEF DocsInv
  <2> QED BY <2>1, <2>2 DEF DocsTyped, Documents!TypeOK, Documents!NoRun
<1>2. deleted => agentDoc = Documents!Nil
  BY DEF DocsInv, DocsTyped
<1>3. ~suspends => ~refused
  BY DEF DocsInv
<1>4. ASSUME ~suspends, ~cut, \A w \in Documents!Worker : Documents!AtRest(w) PROVE Sound
  <2>1. ASSUME NEW w \in Documents!Worker PROVE ~Unsound(task[w].todo)
    <3>1. task[w].todo = <<>>
      BY <1>4 DEF Documents!AtRest
    <3> QED BY <3>1, RestsWell
  <2> QED BY <1>4, <2>1 DEF DocsInv
<1>5. Sound /\ agentDoc # Documents!Nil =>
         /\ agentDoc.active # Documents!NoRun /\ runDoc[agentDoc.active] # Documents!Nil =>
              agentDoc.active = made /\ Documents!Live(made)
         /\ agentDoc.status = "running" =>
              agentDoc.active # Documents!NoRun /\ runDoc[agentDoc.active].status = "running"
  BY DEF Sound, Documents!NoRun
<1> QED BY <1>1, <1>2, <1>3, <1>4, <1>5 DEF Documents!TurnsKept

\* Over a store whose calls do not suspend, the operations of the protocol
\* store keep the turns: between operations the active run is the newest and
\* has not ended, unless the process died in the middle of one, and a forced
\* send is never told that the agent is busy; over any store, an agent that
\* was deleted does not come back.
THEOREM TurnsKeptCorrect == Documents!Spec => []TurnsKept
<1>1. Documents!Init => DocsInv
  BY InitDocs
<1>2. DocsInv /\ [Documents!Next]_Documents!vars => DocsInv'
  BY NextDocs
<1>3. DocsInv => TurnsKept
  BY DocsInvKeeps DEF TurnsKept
<1> QED BY <1>1, <1>2, <1>3, PTL DEF Documents!Spec

\* What may become of an archived agent.
Unarchived ==
  \/ agentDoc' = Documents!Nil \/ agentDoc'.status = "archived"
  \/ \E t \in Task : ~Documents!AtRest(t) /\ Head(task[t].todo) = Documents!Call("write agent", "idle")

LEMMA OnlyUnarchived ==
  ASSUME DocsInv, Documents!Next, agentDoc.status = "archived", ~suspends
  PROVE  Unarchived
<1>1. agentDoc' = agentDoc => Unarchived
  BY DEF Unarchived
<1>2. ASSUME NEW w \in Documents!Worker, Documents!WriteAgent(w) PROVE Unarchived
  <2>1. PICK p, x, f : p = task[w].todo /\ x = task[w].run /\ f = For(p)
    OBVIOUS
  <2>2. At(w, p, "write agent") /\ Next2(p, Documents!Rest(w)) /\ Knows(w) /\ Documents!Arg(w) = p[1].arg
    BY <1>2, <2>1, AtCall DEF Documents!WriteAgent
  <2>3. p # <<>> /\ Now(p) = "write agent" /\ p \in Seq(DocCalls) /\ Fits(p) /\ (Unarchives(p) => w \in Task)
    BY <2>2 DEF At
  <2>4. p[1].call = "write agent" /\ p[1].arg = f
    BY <2>1, <2>3 DEF Now, For
  <2>5. task[w].read = agentDoc /\ agentDoc # Documents!Nil
    BY <2>2, <2>1, <2>3 DEF Knows, ReadAt
  <2>6. agentDoc \in Documents!AgentDocs /\ x \in Documents!Run \cup {0}
    BY <2>1, <2>2, <2>5 DEF At, DocTask, DocsInv, DocsTyped
  <2>7. f \in OfTheRun \cup {"follow", "idle", "archived"}
    BY <2>1, <2>2, <2>3 DEF Next2, Onto, AfterAgent
  <2>8. agentDoc' = Documents!AgentWritten(agentDoc, x, f)
    BY <1>2, <2>1, <2>2, <2>4, <2>5 DEF Documents!WriteAgent
  <2>9. agentDoc'.status = "archived" \/ f = "idle"
    <3>1. PICK a : a = Documents!AgentWritten(agentDoc, x, f)
      OBVIOUS
    <3>2. a.status = "archived" \/ f = "idle"
      BY <2>6, <2>7, <3>1, WrittenIs
    <3> QED BY <2>8, <3>1, <3>2
  <2>10. ASSUME f = "idle" PROVE Unarchived
    <3>1. Head(p) = p[1] /\ Len(p) \in Nat /\ Len(p) >= 1
      BY <2>3, TailIsBehind
    <3>2. p[1] \in DocCalls
      <4>1. Len(p) > 0
        BY <3>1
      <4> QED BY <2>3, <4>1, TailIs
    <3>3. p[1] = Documents!Call("write agent", "idle")
      BY <2>4, <2>10, <3>2 DEF DocCalls, Documents!Call
    <3>4. 1 \in 1 .. Len(p)
      BY <3>1
    <3>5. w \in Task
      BY <2>3, <3>3, <3>4 DEF Unarchives
    <3>6. ~Documents!AtRest(w)
      BY <2>1, <2>3 DEF Documents!AtRest
    <3> QED BY <2>1, <3>1, <3>3, <3>5, <3>6 DEF Unarchived
  <2> QED BY <2>9, <2>10 DEF Unarchived
<1>3. ASSUME NEW w \in Documents!Worker, Documents!DeleteAgentDoc(w) PROVE Unarchived
  BY <1>3 DEF Documents!DeleteAgentDoc, Unarchived
<1>4. ASSUME NEW w \in Documents!Worker, Documents!Step(w), ~Documents!WriteAgent(w), ~Documents!DeleteAgentDoc(w)
      PROVE  agentDoc' = agentDoc
  BY <1>4 DEF Documents!Step, Documents!docs, Documents!FindAgent, Documents!FindActive, Documents!FindPending,
     Documents!CheckAgent, Documents!CheckActive, Documents!CountRuns, Documents!CreateRun, Documents!ReadRun,
     Documents!WriteRun, Documents!ReadAgent, Documents!AppendEvent, Documents!Drive, Documents!FindRun,
     Documents!DeleteRuns, Documents!DeleteCheckpoints
<1>5. ASSUME NEW w \in Documents!Worker, Documents!Step(w) PROVE Unarchived
  BY <1>1, <1>2, <1>3, <1>4, <1>5
<1>6. ASSUME NEW r \in Documents!Run, NEW s \in {"finished", "error"}, Documents!BeginEnd(r, s) PROVE Unarchived
  BY <1>1, <1>6 DEF Documents!BeginEnd
<1>7. CASE Documents!Crash
  BY <1>1, <1>7 DEF Documents!Crash
<1>8. ASSUME NEW t \in Task, NEW todo, NEW r, NEW forced, Documents!Begin(t, todo, r, forced) PROVE Unarchived
  BY <1>1, <1>8 DEF Documents!Begin, Documents!docs
<1>9. ASSUME NEW t \in Task, NEW forced \in BOOLEAN, Documents!BeginSend(t, forced) PROVE Unarchived
  BY <1>8, <1>9 DEF Documents!BeginSend
<1>10. ASSUME NEW t \in Task, NEW r \in Documents!Run, Documents!BeginCancel(t, r) PROVE Unarchived
  BY <1>8, <1>10 DEF Documents!BeginCancel
<1>11. ASSUME NEW t \in Task, NEW s \in {"idle", "archived"}, Documents!BeginSetStatus(t, s) PROVE Unarchived
  BY <1>8, <1>11 DEF Documents!BeginSetStatus
<1>12. ASSUME NEW t \in Task, Documents!BeginDelete(t) PROVE Unarchived
  BY <1>8, <1>12 DEF Documents!BeginDelete
<1> QED BY <1>5, <1>6, <1>7, <1>9, <1>10, <1>11, <1>12 DEF Documents!Next

\* Over a store whose calls do not suspend, an archived agent stays archived
\* until it is unarchived or deleted, whatever begins, ends or dies meanwhile.
THEOREM ArchivedStaysCorrect == Documents!Spec => ArchivedStays
<1>1. Documents!Init => DocsInv
  BY InitDocs
<1>2. DocsInv /\ [Documents!Next]_Documents!vars => DocsInv'
  BY NextDocs
<1>3. DocsInv /\ [Documents!Next]_Documents!vars =>
        [agentDoc.status = "archived" /\ ~suspends =>
           \/ agentDoc' = Documents!Nil \/ agentDoc'.status = "archived"
           \/ \E t \in Task : ~Documents!AtRest(t)
                /\ Head(task[t].todo) = Documents!Call("write agent", "idle")]_Documents!vars
  BY OnlyUnarchived DEF Unarchived
<1> QED BY <1>1, <1>2, <1>3, PTL DEF Documents!Spec, ArchivedStays, Documents!ArchivedStays

=============================================================================
