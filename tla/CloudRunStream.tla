--------------------------- MODULE CloudRunStream ---------------------------
(***************************************************************************)
(* CloudRun: following a run of the cloud service.  The task of            *)
(* _run_stream_loop reads the server-sent events of the run, reconnects    *)
(* with Last-Event-ID when the connection drops, asks for the run itself   *)
(* in between, and polls it when too many connections have dropped, until  *)
(* the run has ended or a deadline has passed.  cancel() runs beside it.   *)
(*                                                                         *)
(* The service is external: it keeps the events of the run, of which the   *)
(* id is the index, sends those after the id it is given, and refuses to   *)
(* cancel a run that has ended.                                            *)
(***************************************************************************)
EXTENDS CloudConstants

VARIABLES
  frames,       \* the events of the run at the service
  server,       \* the status of the run at the service
  loop,         \* where the task of _run_stream_loop is
  next,         \* the next event of the open connection
  lastId,       \* _last_event_id; 0 is None
  openedWith,   \* the lastId the connection was opened with
  attempt,      \* attempt
  answer,       \* the status in the answer of get_run, on its way
  status,       \* _status
  abort,        \* _abort
  late,         \* the deadline has passed
  cancel,       \* the call of cancel()
  queue,        \* history: the events put into _queue
  skipped       \* history: the events that were not, as handling them raised

service == <<frames, server>>
session == <<next, lastId, openedWith, attempt, answer>>
output == <<queue, skipped>>
streamVars == <<frames, server, loop, next, lastId, openedWith, attempt, answer, status,
                abort, late, cancel, queue, skipped>>

Status == {"running", "finished", "cancelled", "error"}

\* Messages of the "legacy" kinds assistant, thinking and tool_call, the status
\* messages CREATING and RUNNING, interaction_update, and the result.
Frame == {"legacy", "status", "update", "result"}
IsMessage(f) == f \in {"legacy", "status"}

LoopAt == {"idle", "opening", "reading", "refetch", "backoff", "waiting", "poll", "over"}

TypeOK ==
  /\ frames \in Seq(Frame)
  /\ server \in Status
  /\ loop \in LoopAt
  /\ next \in Nat \ {0} /\ lastId \in Nat /\ openedWith \in Nat
  /\ attempt \in 0 .. MaxAttempts
  /\ answer \in Status \cup {"none"}
  /\ status \in Status
  /\ abort \in BOOLEAN /\ late \in BOOLEAN
  /\ cancel \in {"no", "sent", "accepted", "refused", "done"}
  /\ queue \in Seq(DOMAIN frames) /\ skipped \subseteq DOMAIN frames

\* A CloudRun made by send() or from a listing, of a run that was live then.
Init ==
  /\ frames = <<>> /\ server = "running"
  /\ loop = "idle"
  /\ next = 1 /\ lastId = 0 /\ openedWith = 0 /\ attempt = 0 /\ answer = "none"
  /\ status = "running" /\ abort = FALSE /\ late = FALSE
  /\ cancel = "no"
  /\ queue = <<>> /\ skipped = {}

-----------------------------------------------------------------------------
(* The service *)

Report(f) ==
  /\ server = "running" /\ Len(frames) < MaxFrames
  /\ frames' = Append(frames, f)
  /\ UNCHANGED <<server, loop, session, status, abort, late, cancel, output>>

\* The run ends; EXPIRED is an error for the client.
Ends(s) ==
  /\ server = "running"
  /\ server' = s
  /\ frames' = Append(frames, "result")

RunEnds ==
  /\ \E s \in {"finished", "error"} : Ends(s)
  /\ UNCHANGED <<loop, session, status, abort, late, cancel, output>>

-----------------------------------------------------------------------------
(* _run_stream_loop *)

\* ensure_stream_started: a run that has ended meanwhile is not streamed.
Begin ==
  /\ loop = "idle"
  /\ loop' = IF status = "running" /\ ~abort THEN "opening" ELSE "over"
  /\ UNCHANGED <<service, session, status, abort, late, cancel, output>>

\* What follows a connection that dropped.
Dropped == loop' = IF abort THEN "over" ELSE "refetch"

\* An error that is not worth a retry, unless the run was cancelled meanwhile.
Raises ==
  /\ loop' = "over"
  /\ status' = IF ~abort /\ status = "running" THEN "error" ELSE status

\* Time passes: 72 h after the loop began.
DeadlinePasses ==
  /\ ~late /\ loop # "idle"
  /\ late' = TRUE
  /\ UNCHANGED <<service, loop, session, status, abort, cancel, output>>

-----------------------------------------------------------------------------
(* _run_one_stream_attempt *)

Opens ==
  /\ loop = "opening"
  /\ loop' = "reading"
  /\ next' = lastId + 1
  /\ openedWith' = lastId
  /\ UNCHANGED <<service, lastId, attempt, answer, status, abort, late, cancel, output>>

OpenFails ==
  /\ loop = "opening"
  /\ Dropped
  /\ UNCHANGED <<service, session, status, abort, late, cancel, output>>

\* 401, 404 and the like.
OpenDenied ==
  /\ "denied" \in Ops
  /\ loop = "opening"
  /\ Raises
  /\ UNCHANGED <<service, session, abort, late, cancel, output>>

\* [invalid_last_event_id], as the status of the response: start all over.
OpenRejectsId ==
  /\ "id_rejected" \in Ops
  /\ loop = "opening" /\ lastId # 0
  /\ Dropped
  /\ lastId' = IF abort THEN lastId ELSE 0
  /\ UNCHANGED <<service, next, openedWith, attempt, answer, status, abort, late,
                 cancel, output>>

HasNext == loop = "reading" /\ ~abort /\ next <= Len(frames)

\* Mutant: the id that is stored is that of the event to come.
IdAfterNext(k) == IF frames[k] = "legacy" THEN lastId ELSE k + 1

\* The id to resume after; that of a legacy event is not stored.
IdAfter(k) == IF frames[k] = "legacy" THEN lastId ELSE k

\* A message or an interaction_update.
ReadFrame ==
  /\ HasNext /\ frames[next] # "result"
  /\ next' = next + 1
  /\ lastId' = IdAfter(next)
  /\ queue' = IF IsMessage(frames[next]) THEN Append(queue, next) ELSE queue
  /\ status' = IF frames[next] = "status" THEN "running" ELSE status
  /\ UNCHANGED <<service, loop, openedWith, attempt, answer, abort, late, cancel, skipped>>

\* The data is not JSON, or the callback of the client raises: the connection is
\* given up, after the id has been stored.
FrameRaises ==
  /\ "bad_frame" \in Ops
  /\ HasNext /\ frames[next] # "result"
  /\ lastId' = IdAfter(next)
  /\ skipped' = skipped \cup {next}
  /\ Dropped
  /\ UNCHANGED <<service, next, openedWith, attempt, answer, status, abort, late, cancel,
                 queue>>

\* The status of the result is that of the run.
ReadResult ==
  /\ HasNext /\ frames[next] = "result"
  /\ next' = next + 1
  /\ lastId' = IdAfter(next)
  /\ status' = server
  /\ loop' = "over"
  /\ UNCHANGED <<service, openedWith, attempt, answer, abort, late, cancel, output>>

\* An error event, which the code takes as final whatever its code, unless it is
\* invalid_last_event_id on a connection that has not moved on.
ReadError ==
  /\ "denied" \in Ops
  /\ loop = "reading" /\ ~abort
  /\ Raises
  /\ UNCHANGED <<service, session, abort, late, cancel, output>>

ReadRejectsId ==
  /\ "id_rejected" \in Ops
  /\ loop = "reading" /\ ~abort /\ lastId = openedWith
  /\ Dropped
  /\ lastId' = 0
  /\ UNCHANGED <<service, next, openedWith, attempt, answer, status, abort, late,
                 cancel, output>>

\* The connection breaks or is closed; or the abort is seen at an event or heartbeat.
Drops ==
  /\ loop = "reading"
  /\ Dropped
  /\ UNCHANGED <<service, session, status, abort, late, cancel, output>>

-----------------------------------------------------------------------------
(* _refetch_and_sync, by the loop itself and while it polls *)

Refetching == loop \in {"refetch", "poll"}

\* The service answers; the answer is on its way.
RunAnswers ==
  /\ Refetching /\ answer = "none"
  /\ answer' = server
  /\ UNCHANGED <<service, loop, next, lastId, openedWith, attempt, status, abort, late,
                 cancel, output>>

\* Mutant: the answer is taken whatever happened meanwhile.
AfterAnswerAlways == IF answer = "none" THEN status ELSE answer

\* The answer counts only while the status is still running.
AfterAnswer == IF answer # "none" /\ status = "running" THEN answer ELSE status

\* Where the loop goes with the status it has then; it polls after the last attempt.
LoopGoesOn(s) ==
  IF abort \/ s # "running" \/ late THEN loop' = "over" /\ UNCHANGED attempt
  ELSE IF loop = "poll" \/ attempt >= MaxAttempts THEN loop' = "waiting" /\ UNCHANGED attempt
  ELSE loop' = "backoff" /\ attempt' = attempt + 1

\* A loop that ends at the deadline ends in error.
Settled(s) == IF s = "running" /\ ~abort /\ late THEN "error" ELSE s

\* The answer arrives, or the request fails in a way that is not minded.
Refetched ==
  /\ Refetching
  /\ answer' = "none"
  /\ LoopGoesOn(AfterAnswer)
  /\ status' = Settled(AfterAnswer)
  /\ UNCHANGED <<service, next, lastId, openedWith, abort, late, cancel, output>>

\* 401, 404 and the like.
RefetchDenied ==
  /\ "denied" \in Ops
  /\ Refetching
  /\ answer' = "none"
  /\ loop' = "over"
  /\ status' = IF status = "running" THEN "error" ELSE status
  /\ UNCHANGED <<service, next, lastId, openedWith, attempt, abort, late, cancel, output>>

\* The time to wait is over, or the run was cancelled meanwhile.
BackoffEnds ==
  /\ loop = "backoff"
  /\ loop' = IF abort THEN "over" ELSE "opening"
  /\ UNCHANGED <<service, session, status, abort, late, cancel, output>>

\* Mutant: polling has 72 h of its own after each wait.
WaitEndsAnew ==
  /\ loop = "waiting"
  /\ loop' = IF abort THEN "over" ELSE "poll"
  /\ late' = FALSE
  /\ UNCHANGED <<service, session, status, abort, cancel, output>>

\* _poll_run_until_terminal: the time to wait is over, or the run was cancelled.
WaitEnds ==
  /\ loop = "waiting"
  /\ loop' = IF abort THEN "over" ELSE "poll"
  /\ UNCHANGED <<service, session, status, abort, late, cancel, output>>

-----------------------------------------------------------------------------
(* CloudRun.cancel *)

CancelSent ==
  /\ "cancel" \in Ops
  /\ cancel = "no" /\ status # "cancelled"
  /\ cancel' = "sent"
  /\ UNCHANGED <<service, loop, session, status, abort, late, output>>

CancelArrives ==
  /\ cancel = "sent"
  /\ IF server = "running" THEN Ends("cancelled") /\ cancel' = "accepted"
                           ELSE UNCHANGED service /\ cancel' = "refused"
  /\ UNCHANGED <<loop, session, status, abort, late, output>>

\* Mutant: a refusal is taken as done.
CancelReturnsAnyway ==
  /\ cancel \in {"accepted", "refused"}
  /\ cancel' = "done"
  /\ abort' = TRUE
  /\ status' = "cancelled"
  /\ UNCHANGED <<service, loop, session, late, output>>

CancelReturns ==
  /\ cancel = "accepted"
  /\ cancel' = "done"
  /\ abort' = TRUE
  /\ status' = "cancelled"
  /\ UNCHANGED <<service, loop, session, late, output>>

\* The service refuses, or the request or its answer is lost: cancel() raises, and
\* may be called again.
CancelRaises ==
  /\ cancel \in {"sent", "accepted", "refused"}
  /\ cancel' = "no"
  /\ UNCHANGED <<service, loop, session, status, abort, late, output>>

-----------------------------------------------------------------------------
Attempt ==
  \/ Opens \/ OpenFails \/ OpenDenied \/ OpenRejectsId
  \/ ReadFrame \/ FrameRaises \/ ReadResult \/ ReadError \/ ReadRejectsId \/ Drops

Cancel == CancelSent \/ CancelArrives \/ CancelReturns \/ CancelRaises

Next ==
  \/ \E f \in Frame \ {"result"} : Report(f)
  \/ RunEnds
  \/ Begin \/ DeadlinePasses
  \/ Attempt
  \/ RunAnswers \/ Refetched \/ RefetchDenied
  \/ BackoffEnds \/ WaitEnds
  \/ Cancel

Spec == Init /\ [][Next]_streamVars

\* Someone reads the run, time passes, requests are answered or time out, and no
\* connection lasts for ever.  Nothing is assumed of the run itself.
Fairness ==
  /\ WF_streamVars(Begin) /\ WF_streamVars(DeadlinePasses)
  /\ WF_streamVars(Opens \/ OpenFails)
  /\ WF_streamVars(Drops)
  /\ WF_streamVars(Refetched)
  /\ WF_streamVars(BackoffEnds) /\ WF_streamVars(WaitEnds)

FairSpec == Spec /\ Fairness

-----------------------------------------------------------------------------
(* Properties *)

\* What the loop has come to: everything up to the id it will resume after, and
\* up to the newest message it has queued.
Reached(k) == k <= lastId \/ \E i \in DOMAIN queue : k <= queue[i]

\* However often the connection drops, and wherever, reconnecting leaves no gap:
\* every message the loop has come past was queued, or raised when it was handled.
NoGap ==
  \A k \in DOMAIN frames :
    Reached(k) /\ IsMessage(frames[k]) =>
      k \in skipped \/ \E i \in DOMAIN queue : queue[i] = k

\* The client and the service agree on how a run ended: an answer, a result and a
\* cancel that cross each other never leave the wrong verdict.
VerdictAgrees ==
  /\ status = "finished" => server = "finished"
  /\ status = "cancelled" => server = "cancelled"

\* What the client has of the run is so, over all connections: the messages without
\* a gap, and the verdict.
StreamIsTrue == NoGap /\ VerdictAgrees

\* A message is queued again only if the service was told to repeat it: no event up
\* to the id given to the service, which every event but the legacy ones advances.
RepeatsNothing == queue' # queue => queue'[Len(queue')] > lastId
NoRepeatBehindId == [][RepeatsNothing]_streamVars

\* A run that has ended for the client does not run again, nor end otherwise, except
\* that one whose stream was given up as an error can still be cancelled: not by
\* an event of the stream, nor by an answer that is out of date.
KeepsVerdict == status # "running" => \/ status' = status
                                      \/ status = "error" /\ status' = "cancelled"
StaysSettled == [][KeepsVerdict]_streamVars

\* What the client was given is not given again, and what it was told is not taken
\* back, by no step of the stream, of wait() or of a cancel.
NothingTwice == [][RepeatsNothing /\ KeepsVerdict]_streamVars

\* When the loop is over, and with it stream() and wait(), the run has a verdict.
OverIsSettled == loop = "over" => status # "running"

\* stream() and wait() return, also if the service never lets the run end.
LoopEnds == <>(loop = "over")
=============================================================================
