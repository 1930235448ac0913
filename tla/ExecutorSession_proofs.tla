----------------------- MODULE ExecutorSession_proofs -----------------------
(* Theorems about ExecutorSession. *)
EXTENDS ExecutorSession, SequenceTheorems, TLAPS

Waiter == [at : {"idle", "append", "future", "back"},
           future : Outcome \cup {"none"},
           timer : BOOLEAN,
           answer : Outcome \cup {"none"}]

\* What a step makes of one waiter is a waiter.
LEMMA WaiterSteps ==
  ASSUME NEW w \in Waiter
  PROVE  /\ \A o \in Outcome : Resolved(w, o) \in Waiter
         /\ \A o \in Outcome :
              [Resolved(w, o) EXCEPT !.at = "back", !.answer = "revert_to_followup"] \in Waiter
         /\ [w EXCEPT !.timer = FALSE] \in Waiter
         /\ [w EXCEPT !.at = "append", !.timer = TRUE] \in Waiter
         /\ [w EXCEPT !.at = "future"] \in Waiter
         /\ [w EXCEPT !.at = "back", !.answer = "revert_to_followup"] \in Waiter
         /\ [w EXCEPT !.at = "back", !.answer = w.future] \in Waiter
<1> USE DEF Waiter, Outcome, Resolved
<1>1. \A o \in Outcome : Resolved(w, o) \in Waiter
  OBVIOUS
<1>2. \A o \in Outcome :
        [Resolved(w, o) EXCEPT !.at = "back", !.answer = "revert_to_followup"] \in Waiter
  OBVIOUS
<1>3. /\ [w EXCEPT !.timer = FALSE] \in Waiter
      /\ [w EXCEPT !.at = "append", !.timer = TRUE] \in Waiter
      /\ [w EXCEPT !.at = "future"] \in Waiter
      /\ [w EXCEPT !.at = "back", !.answer = "revert_to_followup"] \in Waiter
  OBVIOUS
<1>4. [w EXCEPT !.at = "back", !.answer = w.future] \in Waiter
  OBVIOUS
<1> QED
  BY <1>1, <1>2, <1>3, <1>4

\* The revert of all waiters leaves none unresolved and keeps their types.
LEMMA RevertedWaiters ==
  ASSUME steers \in [Steer -> Waiter], steers' = Reverted
  PROVE  steers' \in [Steer -> Waiter] /\ \A s \in Steer : ~Unresolved(s)'
<1>1. steers' \in [Steer -> Waiter]
  BY WaiterSteps DEF Reverted, Outcome
<1>2. ASSUME NEW s \in Steer PROVE ~Unresolved(s)'
  <2>1. steers[s] \in Waiter
    OBVIOUS
  <2>2. CASE Waiting(s)
    <3>1. steers'[s] = Resolved(steers[s], "revert_to_followup")
      BY <2>2 DEF Reverted
    <3> QED
      BY <2>1, <3>1 DEF Resolved, Unresolved, Waiter
  <2>3. CASE ~Waiting(s)
    <3>1. steers'[s] = steers[s]
      BY <2>3 DEF Reverted
    <3> QED
      BY <2>3, <3>1 DEF Unresolved, Waiting
  <2> QED
    BY <2>2, <2>3
<1> QED
  BY <1>1, <1>2

\* What a step does to the waiters: they are all reverted, or one of them moves.
SteerStep(s) ==
  \/ \E state \in {"queued", "delivered", "rejected"} : Acknowledge(s, state)
  \/ SteerRun(s) \/ InjectionSent(s) \/ InjectionFails(s)
  \/ SteerTimeout(s) \/ SteerReturns(s)

\* A step of one steer keeps the waiters' types.
LEMMA SteerStepType ==
  ASSUME steers \in [Steer -> Waiter], NEW s \in Steer, SteerStep(s)
  PROVE  steers' \in [Steer -> Waiter]
<1>1. steers[s] \in Waiter
  OBVIOUS
<1>2. PICK w \in Waiter : steers' = [steers EXCEPT ![s] = w]
  BY <1>1, WaiterSteps
  DEF SteerStep, Acknowledge, SteerRun, InjectionSent, InjectionFails,
      SteerTimeout, SteerReturns, Outcome
<1> QED
  BY <1>2

\* The steps that leave the waiters alone.
OtherSteps ==
  \/ StartupDone \/ SessionReady \/ RequestArrives \/ RequestSent \/ CleanedUp
  \/ OpenSucceeds \/ OpenFails \/ Report \/ AbortSignal \/ Query \/ Replied
  \/ \E e \in Exec : Request(e)
  \/ TurnEnded \/ Aborted \/ StreamEnds \/ ReplyFails \/ Gathered
  \/ WorkNext \/ SendSeesStart \/ SendJoins

RevertingSteps ==
  \/ StartupFails \/ ReadyTimeout \/ SessionMissing \/ RequestFails
  \/ StreamReturns \/ StreamRaises
  \/ SessionClosedRaising \/ SessionClosed

\* Next, sorted by what a step does to the waiters.
LEMMA NextSplit ==
  ASSUME Next
  PROVE  OtherSteps \/ RevertingSteps \/ (\E s \in Steer : SteerStep(s)) \/ Close
BY Zenon DEF Next, RunNext, ConsumerNext, ClientNext, OtherSteps, RevertingSteps, SteerStep

-----------------------------------------------------------------------------
LogEntry == {"message"} \cup End

\* The entries that are appended to the log are entries.
LEMMA LogType ==
  ASSUME log \in Seq(LogEntry)
  PROVE  Recorded \in Seq(LogEntry) /\ \A e \in LogEntry : Append(log, e) \in Seq(LogEntry)
BY AppendProperties DEF Recorded, LogEntry, End

\* Every action keeps TypeOK.
LEMMA TypeStep == TypeOK /\ [Next]_vars => TypeOK'
<1> SUFFICES ASSUME TypeOK, [Next]_vars
             PROVE TypeOK'
  OBVIOUS
<1> USE DEF TypeOK, Waiter, RunAt, ConsumerAt, LogEntry
<1>1. CASE OtherSteps
  <2>1. CASE StartupDone \/ SessionReady \/ RequestArrives \/ RequestSent \/ CleanedUp
    BY <2>1 DEF StartupDone, SessionReady, RequestArrives, RequestSent, CleanedUp,
       server, work
  <2>6. CASE OpenSucceeds \/ OpenFails \/ Query \/ Replied \/ AbortSignal
    BY <2>6 DEF OpenSucceeds, OpenFails, Query, Replied, AbortSignal, server, work
  <2>7. CASE SendSeesStart \/ SendJoins
    BY <2>7 DEF SendSeesStart, SendJoins, server, work
  <2>2. CASE Report
    BY <2>2, LogType DEF Report, server, work
  <2>3. CASE Gathered
    BY <2>3, LogType DEF Gathered, server, work
  <2>4. CASE TurnEnded \/ Aborted \/ StreamEnds \/ ReplyFails
    BY <2>4 DEF TurnEnded, Aborted, StreamEnds, ReplyFails, Leave, work
  <2>5. CASE WorkNext \/ \E e \in Exec : Request(e)
    BY <2>5 DEF WorkNext, ExecEnds, StartJob, JobEnds, Request, server
  <2> QED
    BY <1>1, <2>1, <2>2, <2>3, <2>4, <2>5, <2>6, <2>7 DEF OtherSteps
<1>2. CASE RevertingSteps
  <2>1. steers' \in [Steer -> Waiter]
    BY <1>2, RevertedWaiters
    DEF RevertingSteps, StartupFails, ReadyTimeout, SessionMissing, RequestFails,
        StreamReturns, StreamRaises, SessionClosedRaising, SessionClosed, Fail, CleanUp
  <2>2. CASE StartupFails \/ ReadyTimeout \/ SessionMissing \/ RequestFails
             \/ StreamReturns \/ StreamRaises
    <3>1. log' \in Seq(LogEntry)
      BY <2>2, LogType DEF StartupFails, ReadyTimeout, SessionMissing, RequestFails,
         StreamReturns, StreamRaises, Fail, End
    <3> QED
      BY <2>1, <2>2, <3>1 DEF StartupFails, ReadyTimeout, SessionMissing, RequestFails,
         StreamReturns, StreamRaises, Fail, CleanUp, server, work
  <2>3. CASE SessionClosedRaising \/ SessionClosed
    <3>1. log' \in Seq(LogEntry)
      BY <2>3, LogType DEF SessionClosedRaising, SessionClosed
    <3> QED
      BY <2>1, <2>3, <3>1 DEF SessionClosedRaising, SessionClosed, server, work
  <2> QED
    BY <1>2, <2>2, <2>3 DEF RevertingSteps
<1>3. ASSUME NEW s \in Steer, SteerStep(s) PROVE TypeOK'
  <2>1. steers' \in [Steer -> Waiter]
    BY <1>3, SteerStepType
  <2>2. UNCHANGED <<server, work, run, consumer, caller, started, active, log, closed>>
    BY <1>3 DEF SteerStep, Acknowledge, SteerRun, InjectionSent, InjectionFails,
                SteerTimeout, SteerReturns
  <2> QED
    BY <2>1, <2>2 DEF server, work
<1>4. CASE Close
  <2>1. steers' \in [Steer -> Waiter]
    BY <1>4, RevertedWaiters DEF Close, CleanUp
  <2> QED
    BY <1>4, <2>1 DEF Close, CleanUp, server, work
<1>5. CASE UNCHANGED vars
  BY <1>5 DEF vars
<1> QED
  BY <1>1, <1>2, <1>3, <1>4, <1>5, NextSplit

\* The tasks, waiters and logs of an executor keep their types.
THEOREM ExecutorTypeCorrect == Spec => []TypeOK
<1>1. Init => TypeOK
  <2>1. ASSUME Init PROVE steers \in [Steer -> Waiter] /\ log \in Seq(LogEntry)
    BY <2>1 DEF Init, Waiter
  <2> QED
    BY <2>1 DEF Init, TypeOK, RunAt, ConsumerAt, Waiter, LogEntry
<1> QED
  BY <1>1, TypeStep, PTL DEF Spec

\* The consumer does not exist before run() creates it.
StartInv == run = "starting" => consumer = "none"

\* No action but StartupDone creates the consumer.
LEMMA StartInvCorrect == Spec => []StartInv
<1>1. Init => StartInv
  BY DEF Init, StartInv
<1>2. StartInv /\ [Next]_vars => StartInv'
  <2> SUFFICES ASSUME StartInv, [Next]_vars, run' = "starting"
               PROVE run = "starting" /\ consumer' = consumer
    BY DEF StartInv
  <2> USE DEF StartInv
  <2>1. CASE OtherSteps
    <3>1. CASE StartupDone \/ SessionReady \/ RequestArrives \/ RequestSent \/ CleanedUp
      BY <3>1 DEF StartupDone, SessionReady, RequestArrives, RequestSent, CleanedUp
    <3>2. CASE OpenSucceeds \/ OpenFails \/ Query \/ Replied \/ Gathered \/ Report
               \/ AbortSignal
      BY <3>2 DEF OpenSucceeds, OpenFails, Query, Replied, Gathered, Report, AbortSignal,
         Handles, Reads
    <3>3. CASE TurnEnded \/ Aborted \/ StreamEnds \/ ReplyFails
      BY <3>3 DEF TurnEnded, Aborted, StreamEnds, ReplyFails, Leave, Handles, Reads
    <3>4. CASE SendSeesStart \/ SendJoins \/ WorkNext \/ \E e \in Exec : Request(e)
      BY <3>4 DEF SendSeesStart, SendJoins, WorkNext, ExecEnds, StartJob, JobEnds, Request
    <3> QED
      BY <2>1, <3>1, <3>2, <3>3, <3>4 DEF OtherSteps
  <2>2. CASE RevertingSteps
    BY <2>2 DEF RevertingSteps, StartupFails, ReadyTimeout, SessionMissing, RequestFails,
       StreamReturns, StreamRaises, SessionClosedRaising, SessionClosed, Fail, CleanUp
  <2>3. ASSUME NEW s \in Steer, SteerStep(s) PROVE run = "starting" /\ consumer' = consumer
    BY <2>3 DEF SteerStep, Acknowledge, SteerRun, InjectionSent, InjectionFails,
       SteerTimeout, SteerReturns
  <2>4. CASE Close
    BY <2>4 DEF Close, CleanUp
  <2>5. CASE UNCHANGED vars
    BY <2>5 DEF vars
  <2> QED
    BY <2>1, <2>2, <2>3, <2>4, <2>5, NextSplit
<1> QED
  BY <1>1, <1>2, PTL DEF Spec

-----------------------------------------------------------------------------
(* Steers *)

\* A step that moves only the waiter of s: the others keep theirs, and s becomes
\* unresolved only while the turn is live, with a timer, or stays so.
LEMMA SteerStepEffect ==
  ASSUME TypeOK, NEW s \in Steer, SteerStep(s)
  PROVE  /\ UNCHANGED <<run, consumer, active>>
         /\ \A u \in Steer \ {s} : steers'[u] = steers[u]
         /\ Unresolved(s)' => \/ active /\ steers'[s].timer
                              \/ Unresolved(s) /\ (steers[s].timer => steers'[s].timer)
                              \/ Unresolved(s) /\ SessionOpen
<1> USE DEF TypeOK, Unresolved, Waiting, Resolved
<1>1. ASSUME NEW state \in {"queued", "delivered", "rejected"}, Acknowledge(s, state)
      PROVE  /\ UNCHANGED <<run, consumer, active>>
             /\ \A u \in Steer \ {s} : steers'[u] = steers[u]
             /\ Unresolved(s)' => Unresolved(s) /\ SessionOpen
  <2>1. UNCHANGED <<run, consumer, active>> /\ SessionOpen
    BY <1>1 DEF Acknowledge, Handles, Reads, SessionOpen
  <2>2. PICK w : steers' = [steers EXCEPT ![s] = w]
    BY <1>1 DEF Acknowledge
  <2>3. Waiting(s)
    BY <1>1 DEF Acknowledge
  <2>4. CASE state = "queued"
    BY <1>1, <2>1, <2>4 DEF Acknowledge
  <2>5. CASE state # "queued"
    <3>1. \E o \in Outcome : steers' = [steers EXCEPT ![s] = Resolved(steers[s], o)]
      BY <1>1, <2>5 DEF Acknowledge, Outcome
    <3> QED
      BY <2>1, <3>1 DEF Outcome
  <2> QED
    BY <2>4, <2>5
<1>2. CASE SteerRun(s)
  BY <1>2 DEF SteerRun
<1>3. CASE InjectionSent(s) \/ InjectionFails(s)
  BY <1>3 DEF InjectionSent, InjectionFails
<1>4. CASE SteerTimeout(s)
  BY <1>4 DEF SteerTimeout
<1>5. CASE SteerReturns(s)
  <2>1. steers'[s].at = "back"
    BY <1>5 DEF SteerReturns
  <2> QED
    BY <1>5, <2>1 DEF SteerReturns
<1> QED
  BY <1>1, <1>2, <1>3, <1>4, <1>5 DEF SteerStep

\* The steers' invariant: a turn is live only while run() is not yet cleaning up.
SteerInv ==
  /\ active => run \in {"ready", "request", "stream"}
  /\ NoSteerStranded
  /\ NoSteerOutlivesRun

\* Every action keeps SteerInv.
LEMMA SteerInvStep == TypeOK /\ StartInv /\ SteerInv /\ [Next]_vars => SteerInv'
<1> SUFFICES ASSUME TypeOK, StartInv, SteerInv, [Next]_vars
             PROVE SteerInv'
  OBVIOUS
<1> USE DEF SteerInv, NoSteerStranded, NoSteerOutlivesRun, SessionOpen
<1>1. steers \in [Steer -> Waiter]
  BY DEF TypeOK, Waiter
<1>2. CASE OtherSteps
  <2>1. steers' = steers
    BY <1>2 DEF OtherSteps, StartupDone, SessionReady, RequestArrives, RequestSent,
       CleanedUp, OpenSucceeds, OpenFails, Report, AbortSignal, Query, Replied, Request,
       TurnEnded, Aborted, StreamEnds, ReplyFails, Gathered, WorkNext, ExecEnds,
       StartJob, JobEnds, SendSeesStart, SendJoins, Leave
  <2>2. SessionOpen => SessionOpen'
    <3>1. CASE OpenSucceeds \/ OpenFails \/ Query \/ Replied \/ Gathered
      BY <3>1 DEF OpenSucceeds, OpenFails, Query, Replied, Gathered
    <3>2. CASE TurnEnded \/ Aborted \/ StreamEnds \/ ReplyFails
      BY <3>2 DEF TurnEnded, Aborted, StreamEnds, ReplyFails, Leave
    <3>3. CASE StartupDone
      BY <3>3 DEF StartupDone, StartInv
    <3>4. CASE SessionReady \/ RequestArrives \/ RequestSent \/ CleanedUp \/ Report
               \/ AbortSignal \/ SendSeesStart \/ SendJoins
      BY <3>4 DEF SessionReady, RequestArrives, RequestSent, CleanedUp, Report,
         AbortSignal, SendSeesStart, SendJoins
    <3>5. CASE WorkNext \/ \E e \in Exec : Request(e)
      BY <3>5 DEF WorkNext, ExecEnds, StartJob, JobEnds, Request
    <3> QED
      BY <1>2, <3>1, <3>2, <3>3, <3>4, <3>5 DEF OtherSteps
  <2>3. /\ active' => run' \in {"ready", "request", "stream"}
        /\ run' \in {"cleanup", "over"} => run \in {"cleanup", "over"}
    BY <1>2 DEF OtherSteps, StartupDone, SessionReady, RequestArrives, RequestSent,
       CleanedUp, OpenSucceeds, OpenFails, Report, AbortSignal, Query, Replied, Request,
       TurnEnded, Aborted, StreamEnds, ReplyFails, Gathered, WorkNext, ExecEnds,
       StartJob, JobEnds, SendSeesStart, SendJoins, Leave
  <2>4. \A s \in Steer : Unresolved(s)' <=> Unresolved(s)
    BY <2>1 DEF Unresolved, Waiting
  <2> QED
    BY <2>1, <2>2, <2>3, <2>4
<1>3. CASE RevertingSteps
  <2>1. steers' = Reverted
    BY <1>3 DEF RevertingSteps, StartupFails, ReadyTimeout, SessionMissing,
       RequestFails, StreamReturns, StreamRaises, SessionClosedRaising, SessionClosed,
       Fail, CleanUp
  <2>2. \A s \in Steer : ~Unresolved(s)'
    BY <1>1, <2>1, RevertedWaiters
  <2>3. active' => run' \in {"ready", "request", "stream"}
    BY <1>3 DEF RevertingSteps, StartupFails, ReadyTimeout, SessionMissing,
       RequestFails, StreamReturns, StreamRaises, SessionClosedRaising, SessionClosed,
       Fail, CleanUp
  <2> QED
    BY <2>2, <2>3
<1>4. ASSUME NEW s \in Steer, SteerStep(s) PROVE SteerInv'
  <2>1. /\ UNCHANGED <<run, consumer, active>>
        /\ \A u \in Steer \ {s} : steers'[u] = steers[u]
        /\ Unresolved(s)' => \/ active /\ steers'[s].timer
                             \/ Unresolved(s) /\ (steers[s].timer => steers'[s].timer)
                             \/ Unresolved(s) /\ SessionOpen
    BY <1>4, SteerStepEffect
  <2>2. \A u \in Steer \ {s} : Unresolved(u)' <=> Unresolved(u)
    BY <2>1 DEF Unresolved, Waiting
  <2> QED
    BY <2>1, <2>2
<1>5. CASE Close
  <2>1. CASE steers' = Reverted /\ ~active'
    <3>1. \A s \in Steer : ~Unresolved(s)'
      BY <1>1, <2>1, RevertedWaiters
    <3> QED
      BY <2>1, <3>1
  <2>2. CASE steers' = steers /\ run = "stream" /\ UNCHANGED <<run, active>>
    <3>1. \A s \in Steer : Unresolved(s)' <=> Unresolved(s)
      BY <2>2 DEF Unresolved, Waiting
    <3>2. SessionOpen => SessionOpen'
      BY <1>5, <2>2 DEF Close, CleanUp, server, work
    <3> QED
      BY <2>2, <3>1, <3>2
  <2>3. CASE /\ run = "cleanup" /\ run' = "over"
             /\ UNCHANGED <<steers, consumer, active>>
    <3>1. \A s \in Steer : Unresolved(s)' <=> Unresolved(s)
      BY <2>3 DEF Unresolved, Waiting
    <3> QED
      BY <2>3, <3>1
  <2> QED
    BY <1>5, <2>1, <2>2, <2>3 DEF Close, CleanUp, server, work
<1>6. CASE UNCHANGED vars
  BY <1>6 DEF vars, Unresolved, Waiting
<1> QED
  BY <1>2, <1>3, <1>4, <1>5, <1>6, NextSplit

\* SteerInv holds throughout.
LEMMA SteerInvCorrect == Spec => []SteerInv
<1>1. Init => SteerInv
  BY DEF Init, SteerInv, NoSteerStranded, NoSteerOutlivesRun, Unresolved, Waiting
<1> QED
  BY <1>1, SteerInvStep, StartInvCorrect, ExecutorTypeCorrect, PTL DEF Spec

\* Whatever fails or is closed, and for any number of steers, somebody is left to
\* answer each of them.
THEOREM NoSteerStrandedCorrect == Spec => []NoSteerStranded
<1>1. SteerInv => NoSteerStranded
  BY DEF SteerInv
<1> QED
  BY <1>1, SteerInvCorrect, PTL

\* No steer is left without an answer by a run that is over.
THEOREM NoSteerOutlivesRunCorrect == Spec => []NoSteerOutlivesRun
<1>1. SteerInv => NoSteerOutlivesRun
  BY DEF SteerInv
<1> QED
  BY <1>1, SteerInvCorrect, PTL

-----------------------------------------------------------------------------
(* Ends *)

\* What is appended to the log, and that an end stays in it.
LEMMA Appended ==
  ASSUME log \in Seq(LogEntry), NEW e \in LogEntry, log' = Append(log, e)
  PROVE  /\ Ended' <=> Ended \/ e \in End
         /\ (\E i \in DOMAIN log' : log'[i] = "FINISHED")
              <=> (\E i \in DOMAIN log : log[i] = "FINISHED") \/ e = "FINISHED"
<1>1. /\ DOMAIN log' = 1 .. Len(log) + 1
      /\ DOMAIN log = 1 .. Len(log)
      /\ \A i \in 1 .. Len(log) : log'[i] = log[i]
      /\ log'[Len(log) + 1] = e
      /\ Len(log) \in Nat
  OBVIOUS
<1>2. Ended' <=> Ended \/ e \in End
  BY <1>1 DEF Ended
<1> QED
  BY <1>1, <1>2

\* The steps that do not touch what the ends depend on, by what they change.
QuietSteps ==
  \/ SessionReady \/ RequestArrives \/ RequestSent \/ OpenSucceeds \/ OpenFails
  \/ AbortSignal \/ Query \/ Replied
  \/ WorkNext \/ \E e \in Exec : Request(e)
  \/ SendSeesStart \/ SendJoins \/ \E s \in Steer : SteerStep(s)

Leaving == TurnEnded \/ Aborted \/ StreamEnds \/ ReplyFails

FailSteps == StartupFails \/ ReadyTimeout \/ SessionMissing \/ RequestFails \/ StreamRaises

\* Next, sorted by what a step does to the ends.
LEMMA EndSplit ==
  ASSUME Next
  PROVE  \/ QuietSteps \/ Leaving \/ FailSteps \/ StartupDone \/ CleanedUp \/ Report
         \/ StreamReturns \/ SessionClosedRaising \/ SessionClosed \/ Gathered \/ Close
BY Zenon DEF Next, RunNext, ConsumerNext, ClientNext, QuietSteps, Leaving, FailSteps, SteerStep

\* What the quiet steps may change.
LEMMA QuietEffect ==
  ASSUME QuietSteps
  PROVE  /\ log' = log /\ closed' = closed /\ leaves' = leaves
         /\ abort => abort'
         /\ requested' = requested \/ (run = "request" /\ UNCHANGED <<run, consumer>>)
         /\ \/ run' = run
            \/ run = "ready" /\ run' = "request" /\ SessionOpen
            \/ run = "request" /\ run' = "stream"
         /\ \/ consumer' = consumer
            \/ consumer = "opening" /\ consumer' \in {"reading", "raised"}
            \/ consumer = "reading" /\ consumer' = "replying" /\ requested
            \/ consumer = "replying" /\ consumer' = "reading"
<1> USE DEF Handles, Reads, server, work, SessionOpen
<1>1. CASE SessionReady \/ RequestArrives \/ RequestSent
  BY <1>1 DEF SessionReady, RequestArrives, RequestSent
<1>2. CASE OpenSucceeds \/ OpenFails \/ AbortSignal \/ Query \/ Replied
  BY <1>2 DEF OpenSucceeds, OpenFails, AbortSignal, Query, Replied
<1>3. CASE WorkNext \/ \E e \in Exec : Request(e)
  BY <1>3 DEF WorkNext, ExecEnds, StartJob, JobEnds, Request
<1>4. CASE SendSeesStart \/ SendJoins
  BY <1>4 DEF SendSeesStart, SendJoins
<1>5. ASSUME NEW s \in Steer, SteerStep(s)
      PROVE  UNCHANGED <<log, closed, leaves, abort, requested, run, consumer>>
  BY <1>5 DEF SteerStep, Acknowledge, SteerRun, InjectionSent, InjectionFails,
     SteerTimeout, SteerReturns
<1> QED
  BY <1>1, <1>2, <1>3, <1>4, <1>5 DEF QuietSteps

\* The effect of the except clause of run(), and where it is reached.
LEMMA FailEffect ==
  ASSUME FailSteps
  PROVE  /\ log' = Append(log, "ERROR")
         /\ run' = "cleanup"
         /\ UNCHANGED <<consumer, leaves, abort, requested, closed, bg, awaited>>
         /\ \/ run = "starting"
            \/ run = "ready" /\ "slow_start" \in Ops
            \/ run = "ready" /\ consumer # "opening" /\ ~SessionOpen
            \/ run = "request" /\ "request_fails" \in Ops
            \/ run = "stream" /\ consumer = "raised"
BY DEF FailSteps, StartupFails, ReadyTimeout, SessionMissing, RequestFails, StreamRaises,
       Fail, CleanUp, server, work

\* Why an end is recorded: run() relies on a consumer that has returned, and a
\* consumer that was cancelled was so by a close.
EndInv ==
  /\ EndRecorded
  /\ consumer = "returned" /\ ~abort => Ended
  /\ consumer = "cancelled" => closed
  /\ consumer = "closing" /\ leaves = "cancel" => closed

\* Every action keeps EndInv.
LEMMA EndInvStep == TypeOK /\ EndInv /\ [Next]_vars => EndInv'
<1> SUFFICES ASSUME TypeOK, EndInv, [Next]_vars
             PROVE EndInv'
  OBVIOUS
<1> USE DEF EndInv, EndRecorded
<1>t. log \in Seq(LogEntry)
  BY DEF TypeOK, LogEntry
<1>1. CASE QuietSteps
  <2>1. Ended' <=> Ended
    BY <1>1, QuietEffect DEF Ended
  <2> QED
    BY <1>1, <2>1, QuietEffect
<1>2. CASE Leaving
  BY <1>2 DEF Leaving, TurnEnded, Aborted, StreamEnds, ReplyFails, Leave, Ended
<1>3. CASE FailSteps
  <2>1. Ended'
    BY <1>3, <1>t, FailEffect, Appended DEF LogEntry, End
  <2> QED
    BY <1>3, <2>1, FailEffect
<1>4. CASE StartupDone \/ CleanedUp \/ StreamReturns
  BY <1>4 DEF StartupDone, CleanedUp, StreamReturns, CleanUp, Ended, server
<1>5. CASE Report
  <2>1. Ended' <=> Ended
    BY <1>5, <1>t, Appended DEF Report, LogEntry, End
  <2> QED
    BY <1>5, <2>1 DEF Report, server
<1>6. CASE SessionClosedRaising
  BY <1>6 DEF SessionClosedRaising, Ended, server
<1>7. CASE SessionClosed \/ Gathered
  <2>1. CASE log' = Recorded /\ abort' = abort /\ consumer' = "returned"
    <3>1. ~abort => Ended'
      <4>1. ASSUME ~abort PROVE \E e \in End : log' = Append(log, e)
        BY <2>1, <4>1 DEF Recorded, End
      <4> QED
        BY <4>1, <1>t, Appended DEF LogEntry
    <3> QED
      BY <1>7, <2>1, <3>1 DEF SessionClosed, Gathered, server
  <2>2. CASE log' = log /\ consumer' = "gathering"
    BY <1>7, <2>2 DEF SessionClosed, Gathered, Ended, server
  <2> QED
    BY <1>7, <2>1, <2>2 DEF SessionClosed, Gathered, server
<1>8. CASE Close
  BY <1>8 DEF Close, CleanUp, Ended, server, work
<1>9. CASE UNCHANGED vars
  BY <1>9 DEF vars, Ended
<1> QED
  BY <1>1, <1>2, <1>3, <1>4, <1>5, <1>6, <1>7, <1>8, <1>9, EndSplit

\* Whatever fails, a run that was neither aborted nor closed is not left without an
\* end.
THEOREM EndRecordedCorrect == Spec => []EndRecorded
<1>1. Init => EndInv
  BY DEF Init, EndInv, EndRecorded
<1>2. EndInv => EndRecorded
  BY DEF EndInv
<1> QED
  BY <1>1, <1>2, EndInvStep, ExecutorTypeCorrect, PTL DEF Spec

-----------------------------------------------------------------------------
\* Why: a recorded end means that run() is past its consumer or the consumer has
\* returned, and a consumer that has returned never moves again.
OneEndInv == StartInv /\ (Ended => run \in {"cleanup", "over"} \/ consumer = "returned")

\* Every action keeps OneEndInv.
LEMMA OneEndInvStep == TypeOK /\ OneEndInv /\ StartInv' /\ [Next]_vars => OneEndInv'
<1> SUFFICES ASSUME TypeOK, OneEndInv, StartInv', [Next]_vars
             PROVE OneEndInv'
  OBVIOUS
<1> USE DEF OneEndInv, StartInv
<1>t. log \in Seq(LogEntry)
  BY DEF TypeOK, LogEntry
<1>1. CASE QuietSteps
  <2>1. Ended' <=> Ended
    BY <1>1, QuietEffect DEF Ended
  <2> QED
    BY <1>1, <2>1, QuietEffect
<1>2. CASE Leaving
  BY <1>2 DEF Leaving, TurnEnded, Aborted, StreamEnds, ReplyFails, Leave, Ended,
     Handles, Reads
<1>3. CASE FailSteps
  BY <1>3, FailEffect
<1>4. CASE StartupDone \/ CleanedUp \/ StreamReturns
  BY <1>4 DEF StartupDone, CleanedUp, StreamReturns, CleanUp, Ended, server
<1>5. CASE Report
  <2>1. Ended' <=> Ended
    BY <1>5, <1>t, Appended DEF Report, LogEntry, End
  <2> QED
    BY <1>5, <2>1 DEF Report, server
<1>6. CASE SessionClosedRaising
  BY <1>6 DEF SessionClosedRaising, Ended, server
<1>7. CASE SessionClosed \/ Gathered
  BY <1>7 DEF SessionClosed, Gathered, Ended, server
<1>8. CASE Close
  BY <1>8 DEF Close, CleanUp, Ended, server, work
<1>9. CASE UNCHANGED vars
  BY <1>9 DEF vars, Ended
<1> QED
  BY <1>1, <1>2, <1>3, <1>4, <1>5, <1>6, <1>7, <1>8, <1>9, EndSplit

\* Whatever fails, is closed or comes late, an end that the consumer recorded is
\* followed only by what run() records of its start-up, and by what a consumer adds
\* that run() gave up on.
THEOREM OneEndCorrect == Spec => OneEnd
<1>1. Init => OneEndInv
  BY DEF Init, OneEndInv, StartInv, Ended
<1>2. TypeOK /\ OneEndInv /\ StartInv' /\ [Next]_vars => OneEndInv'
  BY OneEndInvStep
<1>3. OneEndInv /\ [Next]_vars => [Ended => run \in {"ready", "request"} \/ Abandoned]_log
  <2> SUFFICES ASSUME OneEndInv, Next, log' # log, Ended, run \notin {"ready", "request"}
               PROVE Abandoned
    BY DEF vars
  <2> USE DEF OneEndInv, StartInv
  <2>1. ~QuietSteps
    BY QuietEffect
  <2>2. ~(Leaving \/ StartupDone \/ CleanedUp \/ StreamReturns \/ SessionClosedRaising
            \/ Close)
    BY DEF Leaving, TurnEnded, Aborted, StreamEnds, ReplyFails, Leave, StartupDone,
       CleanedUp, StreamReturns, SessionClosedRaising, Close
  <2>3. ~FailSteps
    BY FailEffect
  <2>4. CASE Report \/ SessionClosed \/ Gathered
    BY <2>4 DEF Report, Handles, Reads, SessionClosed, Gathered, Abandoned
  <2> QED
    BY <2>1, <2>2, <2>3, <2>4, EndSplit
<1> QED
  BY <1>1, <1>2, <1>3, StartInvCorrect, ExecutorTypeCorrect, PTL DEF Spec, OneEnd

-----------------------------------------------------------------------------
\* The run_request gets through in time, and nothing is cancelled.
Undisturbed == Ops \cap {"slow_start", "request_fails", "early_end", "close"} = {}

\* Why the end is the last entry then: run() does not give up on a consumer that is
\* at work, and a consumer that has returned has had its run_request.
LastEndInv ==
  /\ StartInv
  /\ run \in {"starting", "ready"} => ~requested
  /\ run = "ready" => consumer \in {"opening", "reading", "raised"}
  /\ run \in {"cleanup", "over"} => consumer \in {"none", "returned", "raised"}
  /\ consumer # "cancelled" /\ leaves # "cancel"
  /\ Ended => run \in {"cleanup", "over"} \/ consumer = "returned"

\* Every action of an undisturbed executor keeps LastEndInv.
LEMMA LastEndInvStep ==
  ASSUME Undisturbed PROVE TypeOK /\ LastEndInv /\ [Next]_vars => LastEndInv'
<1> SUFFICES ASSUME TypeOK, LastEndInv, [Next]_vars
             PROVE LastEndInv'
  OBVIOUS
<1> USE DEF LastEndInv, StartInv
<1>t. log \in Seq(LogEntry)
  BY DEF TypeOK, LogEntry
<1>o. "slow_start" \notin Ops /\ "request_fails" \notin Ops /\ "early_end" \notin Ops
      /\ "close" \notin Ops
  BY DEF Undisturbed
<1>1. CASE QuietSteps
  <2>1. Ended' <=> Ended
    BY <1>1, QuietEffect DEF Ended
  <2> QED
    BY <1>1, <2>1, QuietEffect
<1>2. CASE Leaving
  <2>1. Ended' <=> Ended
    BY <1>2 DEF Leaving, TurnEnded, Aborted, StreamEnds, ReplyFails, Leave, Ended
  <2>2. /\ consumer \in {"reading", "replying"} /\ consumer' = "closing"
        /\ leaves' # "cancel" /\ UNCHANGED <<run, requested>>
        /\ consumer = "replying" \/ requested \/ run = "over"
    BY <1>2, <1>o DEF Leaving, TurnEnded, Aborted, StreamEnds, ReplyFails, Leave,
       Handles, Reads
  <2> QED
    BY <2>1, <2>2
<1>3. CASE FailSteps
  BY <1>3, <1>o, FailEffect DEF SessionOpen
<1>4. CASE StartupDone \/ CleanedUp \/ StreamReturns
  BY <1>4 DEF StartupDone, CleanedUp, StreamReturns, CleanUp, Ended, server
<1>5. CASE Report
  <2>1. Ended' <=> Ended
    BY <1>5, <1>t, Appended DEF Report, LogEntry, End
  <2> QED
    BY <1>5, <2>1 DEF Report, server
<1>6. CASE SessionClosedRaising
  BY <1>6 DEF SessionClosedRaising, Ended, server
<1>7. CASE SessionClosed \/ Gathered
  BY <1>7 DEF SessionClosed, Gathered, Ended, server
<1>8. CASE Close
  BY <1>8, <1>o DEF Close
<1>9. CASE UNCHANGED vars
  BY <1>9 DEF vars, Ended
<1> QED
  BY <1>1, <1>2, <1>3, <1>4, <1>5, <1>6, <1>7, <1>8, <1>9, EndSplit

\* With any number of requests, jobs and steers, and whatever the server and the
\* stream do, a run whose run_request gets through has one end, as its last event.
THEOREM EndIsLastCorrect ==
  ASSUME Undisturbed PROVE Spec => [][~Ended]_log
<1>1. Init => LastEndInv
  BY DEF Init, LastEndInv, StartInv, Ended
<1>2. TypeOK /\ LastEndInv /\ [Next]_vars => LastEndInv'
  BY LastEndInvStep
<1>3. TypeOK /\ LastEndInv /\ [Next]_vars => [~Ended]_log
  <2> SUFFICES ASSUME TypeOK, LastEndInv, Next, log' # log
               PROVE ~Ended
    BY DEF vars
  <2> USE DEF LastEndInv, StartInv
  <2>o. "slow_start" \notin Ops /\ "request_fails" \notin Ops
    BY DEF Undisturbed
  <2>1. ~QuietSteps
    BY QuietEffect
  <2>2. ~(Leaving \/ StartupDone \/ CleanedUp \/ StreamReturns \/ SessionClosedRaising)
    BY DEF Leaving, TurnEnded, Aborted, StreamEnds, ReplyFails, Leave, StartupDone,
       CleanedUp, StreamReturns, SessionClosedRaising
  <2>3. ~Close
    BY DEF Close, Undisturbed
  <2>4. CASE FailSteps
    BY <2>4, <2>o, FailEffect DEF SessionOpen
  <2>5. CASE Report \/ SessionClosed \/ Gathered
    BY <2>5 DEF Report, Handles, Reads, SessionClosed, Gathered
  <2> QED
    BY <2>1, <2>2, <2>3, <2>4, <2>5, EndSplit
<1> QED
  BY <1>1, <1>2, <1>3, ExecutorTypeCorrect, PTL DEF Spec

-----------------------------------------------------------------------------
Finished == \E i \in DOMAIN log : log[i] = "FINISHED"

\* Why nothing is at work when a run is reported as finished: the server ends the
\* turn with no request open, nothing is started later, and jobs are gathered.
IdleInv ==
  /\ Finished => bg = {} /\ consumer = "returned"
  /\ consumer \in {"closing", "gathering"} /\ leaves = "turn_ended" => bg \cap Exec = {}
  /\ consumer = "gathering" /\ leaves = "turn_ended" => bg \subseteq awaited

\* Every action keeps IdleInv.
LEMMA IdleInvStep == TypeOK /\ StartInv /\ IdleInv /\ [Next]_vars => IdleInv'
<1> SUFFICES ASSUME TypeOK, StartInv, IdleInv, [Next]_vars
             PROVE IdleInv'
  OBVIOUS
<1> USE DEF IdleInv
<1>t. log \in Seq(LogEntry)
  BY DEF TypeOK, LogEntry
<1>1. CASE QuietSteps
  <2>1. Finished' <=> Finished
    BY <1>1, QuietEffect DEF Finished
  <2>2. CASE WorkNext
    <3>1. ASSUME NEW e \in Exec, NEW j \in Job, StartJob(e, j) PROVE IdleInv'
      BY <2>1, <3>1, ConstantsAssumption DEF StartJob, server
    <3>2. ASSUME NEW e \in Exec, ExecEnds(e) PROVE IdleInv'
      BY <2>1, <3>2 DEF ExecEnds, server
    <3>3. ASSUME NEW j \in Job, JobEnds(j) PROVE IdleInv'
      BY <2>1, <3>3 DEF JobEnds, server
    <3> QED
      BY <2>2, <3>1, <3>2, <3>3 DEF WorkNext
  <2>3. ASSUME NEW e \in Exec, Request(e) PROVE IdleInv'
    BY <2>1, <2>3 DEF Request, Handles, Reads, server
  <2>4. CASE ~WorkNext /\ ~(\E e \in Exec : Request(e))
    <3>1. UNCHANGED <<bg, awaited>>
      BY <1>1, <2>4 DEF QuietSteps, SessionReady, RequestArrives, RequestSent,
         OpenSucceeds, OpenFails, AbortSignal, Query, Replied, SendSeesStart, SendJoins,
         SteerStep, Acknowledge, SteerRun, InjectionSent, InjectionFails, SteerTimeout,
         SteerReturns, work
    <3> QED
      BY <1>1, <2>1, <3>1, QuietEffect
  <2> QED
    BY <2>2, <2>3, <2>4
<1>2. CASE Leaving
  BY <1>2 DEF Leaving, TurnEnded, Aborted, StreamEnds, ReplyFails, Leave, Handles, Reads,
     Finished, work
<1>3. CASE FailSteps
  <2>1. Finished' <=> Finished
    BY <1>3, <1>t, FailEffect, Appended DEF Finished, LogEntry, End
  <2> QED
    BY <1>3, <2>1, FailEffect
<1>4. CASE StartupDone \/ CleanedUp \/ StreamReturns
  BY <1>4 DEF StartupDone, CleanedUp, StreamReturns, CleanUp, StartInv, Finished, server,
     work
<1>5. CASE Report
  <2>1. Finished' <=> Finished
    BY <1>5, <1>t, Appended DEF Report, Finished, LogEntry
  <2> QED
    BY <1>5, <2>1 DEF Report, server, work
<1>6. CASE SessionClosedRaising
  BY <1>6 DEF SessionClosedRaising, Finished, server, work
<1>7. CASE SessionClosed \/ Gathered
  <2>1. CASE log' = Recorded /\ consumer' = "returned"
    <3>1. Finished' => leaves = "turn_ended"
      <4>1. \/ log' = log
            \/ log' = Append(log, "FINISHED") /\ leaves = "turn_ended"
            \/ log' = Append(log, "ERROR")
        BY <2>1 DEF Recorded
      <4>2. ~Finished
        BY <1>7 DEF SessionClosed, Gathered
      <4>3. log' = log => ~Finished'
        BY <4>2 DEF Finished
      <4>4. log' = Append(log, "ERROR") => ~Finished'
        BY <4>2, <1>t, Appended DEF Finished, LogEntry, End
      <4> QED
        BY <4>1, <4>3, <4>4
    <3> QED
      BY <1>7, <2>1, <3>1 DEF SessionClosed, Gathered, server, work
  <2>2. CASE log' = log /\ consumer' = "gathering"
    BY <1>7, <2>2 DEF SessionClosed, Gathered, Finished, server, work
  <2> QED
    BY <1>7, <2>1, <2>2 DEF SessionClosed, Gathered
<1>8. CASE Close
  <2>1. Finished' <=> Finished
    BY <1>8 DEF Close, Finished
  <2>2. bg' \subseteq bg /\ awaited' = awaited
    BY <1>8 DEF Close, work
  <2>3. \/ UNCHANGED <<consumer, leaves>>
        \/ consumer \in {"reading", "replying"} /\ leaves' = "cancel"
        \/ consumer' = "cancelled" /\ consumer = "gathering"
    BY <1>8 DEF Close, server
  <2> QED
    BY <2>1, <2>2, <2>3
<1>9. CASE UNCHANGED vars
  BY <1>9 DEF vars, Finished
<1> QED
  BY <1>1, <1>2, <1>3, <1>4, <1>5, <1>6, <1>7, <1>8, <1>9, EndSplit

\* Whatever fails or is closed, no tool and no subagent of a run that is reported as
\* finished is still at work.
THEOREM FinishedIsIdleCorrect == Spec => []FinishedIsIdle
<1>1. Init => IdleInv
  BY DEF Init, IdleInv, Finished
<1>2. IdleInv => FinishedIsIdle
  BY DEF IdleInv, FinishedIsIdle, Finished
<1> QED
  BY <1>1, <1>2, IdleInvStep, StartInvCorrect, ExecutorTypeCorrect, PTL DEF Spec

\* What the log says of the end of a run is there and true, whatever fails: the
\* two theorems above, of run(), its consumer and the tasks they start.
THEOREM EndIsTrueCorrect == Spec => []EndIsTrue
<1>1. EndRecorded /\ FinishedIsIdle => EndIsTrue
  BY DEF EndIsTrue
<1> QED BY <1>1, EndRecordedCorrect, FinishedIsIdleCorrect, PTL
=============================================================================
