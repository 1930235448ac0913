-------------------------- MODULE ConnectTransport --------------------------
(***************************************************************************)
(* The connection of a run to the agent service (_connect.py).  A client,  *)
(* shared by the runs of an executor and its subagents, decides between    *)
(* HTTP/2 (one bidirectional stream) and HTTP/1 (a stream of events and a  *)
(* request for every message sent), and falls back from the first to the   *)
(* second.  A task reads the stream of a run into a queue, from which      *)
(* the consumer takes messages.                                            *)
(*                                                                         *)
(* The service sends frames 1 .. Messages and then the end-of-stream       *)
(* frame.  Bytes arrive in chunks that need not agree with frames: a frame *)
(* counts for two pieces, and a chunk is any number of pieces.             *)
(***************************************************************************)
EXTENDS Naturals, Sequences, FiniteSets, SequencesExt

CONSTANTS Run,        \* the runs opened with this client
          Prefer,     \* what the options, the settings and the environment prefer
          Messages,   \* how many messages the service sends to a run
          Sends       \* bound: how many messages a run sends

VARIABLES failed,     \* _http2_failed
          config,     \* _HTTP2_CONFIG_CACHE for the key of the client
          phase,      \* where open_run and the caller of a run are
          link,       \* the task, start and queue of each transport of a run
          next,       \* _seq of the HTTP/1 run; messages put into _out
          flying,     \* HTTP/1 requests under way
          arrived,    \* what the service received: <<seqno, message>>
          got,        \* what the consumer took from the queue
          timedOut    \* history: transports whose start timed out

vars == <<failed, config, phase, link, next, flying, arrived, got, timedOut>>

Transport == {"h1", "h2"}
End == Messages + 1                      \* the end-of-stream frame
Ended == 0                               \* None in the queue
Error == End                             \* an exception in the queue
Closing == {Ended, Error}
Other == [task |-> "none", started |-> FALSE, err |-> "none", pieces |-> 0,
          queue |-> <<>>, out |-> <<>>]

TypeOK ==
  /\ failed \in BOOLEAN /\ config \in {"unset", "none", "h1", "h2"}
  /\ phase \in [Run -> {"new", "deciding", "h1", "h2", "on h1", "on h2",
                        "closing h1", "closing h2", "closed", "raised"}]
  /\ \A r \in Run, t \in Transport :
       /\ link[r][t].task \in {"none", "connecting", "streaming", "over"}
       /\ link[r][t].err \in {"none", "fallback", "fatal"}
       /\ link[r][t].pieces \in 0 .. 2 * End
       /\ ToSet(link[r][t].queue) \subseteq 1 .. Messages \cup Closing
  /\ next \in [Run -> 0 .. Sends]
  /\ \A q \in flying : q.run \in Run /\ q.seq \in 0 .. Sends /\ q.again \in BOOLEAN

-----------------------------------------------------------------------------
\* runs before may have left a failure or a configuration behind
Init == /\ failed \in BOOLEAN /\ config \in {"unset", "none"}
        /\ phase = [r \in Run |-> "new"]
        /\ link = [r \in Run |-> [t \in Transport |-> Other]]
        /\ next = [r \in Run |-> 0] /\ flying = {}
        /\ arrived = [r \in Run |-> <<>>] /\ got = [r \in Run |-> <<>>]
        /\ timedOut = {}

On(r) == IF phase[r] = "on h1" THEN "h1" ELSE IF phase[r] = "on h2" THEN "h2" ELSE "none"
Working(r, t) == link[r][t].task \in {"connecting", "streaming"}
Selected(known) == IF known = "none" THEN Prefer ELSE known

\* the transport's object is made and its task created
Starts(r, t) == /\ phase' = [phase EXCEPT ![r] = t]
                /\ link' = [link EXCEPT ![r][t].task = "connecting"]
Streams == <<next, flying, arrived, got>>

(* open_run: decide_use_http1 looks at the failure of a run before, then   *)
(* at the configuration of the service, fetched once for a key.            *)
Decide(r) ==
  /\ phase[r] = "new"
  /\ \/ failed /\ Starts(r, "h1")
     \/ ~failed /\ config # "unset" /\ Starts(r, Selected(config))
     \/ ~failed /\ config = "unset" /\ phase' = [phase EXCEPT ![r] = "deciding"] /\ UNCHANGED link
  /\ UNCHANGED <<failed, config, Streams, timedOut>>

\* any failure to fetch counts as a service that configures nothing
ConfigAnswered(r) ==
  /\ phase[r] = "deciding"
  /\ config' \in {"none", "h1", "h2"}
  /\ Starts(r, Selected(config'))
  /\ UNCHANGED <<failed, Streams, timedOut>>

(* The task of a transport.                                                *)
Connected(r, t) ==
  /\ link[r][t].task = "connecting"
  /\ link' = [link EXCEPT ![r][t].task = "streaming", ![r][t].started = TRUE]
  /\ UNCHANGED <<failed, config, phase, Streams, timedOut>>

Breaks(r, t, err) ==
  LET l == link[r][t] IN
  link' = [link EXCEPT ![r][t] = [l EXCEPT !.task = "over", !.started = TRUE,
                                           !.err = err, !.queue = Append(@, Error)]]

\* fallback: no HTTP/2, 404, 415, 426, 505, 5xx, a broken connection;
\* fatal: what another transport cannot change
Refused(r, t, err) ==
  /\ link[r][t].task = "connecting" /\ Breaks(r, t, err)
  /\ UNCHANGED <<failed, config, phase, Streams, timedOut>>

\* the frames that are complete once a number of pieces has arrived
Complete(pieces) == pieces \div 2
\* Mutant: the frames that were taken stay in the buffer.
PoppedAll(from, to, end) == [i \in 1 .. Complete(to) |-> IF i = End THEN end ELSE i]

Popped(from, to, end) ==
  [i \in 1 .. Complete(to) - Complete(from) |->
     IF Complete(from) + i = End THEN end ELSE Complete(from) + i]

\* a chunk arrives: whole frames are taken off the buffer, and the end of
\* the stream closes it, with or without an error
Chunk(r, t, n, end) ==
  LET l == link[r][t] IN
  /\ l.task = "streaming" /\ l.pieces + n <= 2 * End
  /\ link' = [link EXCEPT ![r][t] =
       [l EXCEPT !.pieces = @ + n,
                 !.queue = @ \o Popped(l.pieces, l.pieces + n, end),
                 !.task = IF l.pieces + n = 2 * End THEN "over" ELSE @,
                 !.err = IF l.pieces + n = 2 * End /\ end = Error THEN "fatal" ELSE @]]
  /\ UNCHANGED <<failed, config, phase, Streams, timedOut>>

\* the connection breaks, or is closed without an end-of-stream frame
Broken(r, t) ==
  /\ link[r][t].task = "streaming" /\ Breaks(r, t, "fallback")
  /\ UNCHANGED <<failed, config, phase, Streams, timedOut>>
ClosedByService(r, t) ==
  /\ link[r][t].task = "streaming"
  /\ link' = [link EXCEPT ![r][t].task = "over", ![r][t].queue = Append(@, Ended)]
  /\ UNCHANGED <<failed, config, phase, Streams, timedOut>>

(* start: wait for the task, 30 seconds at most.                           *)
StartSucceeds(r, t) ==
  /\ phase[r] = t /\ link[r][t].started /\ link[r][t].err = "none"
  /\ phase' = [phase EXCEPT ![r] = IF t = "h1" THEN "on h1" ELSE "on h2"]
  /\ UNCHANGED <<failed, config, link, Streams, timedOut>>

\* start raises: open_run falls back, or raises itself
StartRaises(r, t, err) ==
  IF t = "h2" /\ err = "fallback" THEN failed' = TRUE /\ Starts(r, "h1")
  ELSE phase' = [phase EXCEPT ![r] = "raised"] /\ UNCHANGED <<failed, link>>
StartFails(r, t) ==
  /\ phase[r] = t /\ link[r][t].started /\ link[r][t].err # "none"
  /\ StartRaises(r, t, link[r][t].err)
  /\ UNCHANGED <<config, Streams, timedOut>>
\* the task is left as it is: only an error that was seen closes the run
StartTimesOut(r, t) ==
  /\ phase[r] = t /\ ~link[r][t].started
  /\ StartRaises(r, t, "fallback")
  /\ timedOut' = timedOut \cup {<<r, t>>}
  /\ UNCHANGED <<config, Streams>>

(* The consumer stops at the first item that is not a message.             *)
Over(r) == got[r] # <<>> /\ Last(got[r]) \in Closing
Read(r) ==
  /\ On(r) # "none" /\ ~Over(r)
  /\ LET q == link[r][On(r)].queue IN
     /\ q # <<>> /\ got' = [got EXCEPT ![r] = Append(@, Head(q))]
     /\ link' = [link EXCEPT ![r][On(r)].queue = Tail(q)]
  /\ UNCHANGED <<failed, config, phase, next, flying, arrived, timedOut>>

(* Sending.  The HTTP/1 run takes a number and makes a request with it; a  *)
(* request that is told the token is stale is made once more.              *)
Send(r) ==
  /\ On(r) # "none" /\ next[r] < Sends
  /\ next' = [next EXCEPT ![r] = @ + 1]
  /\ IF On(r) = "h1"
     THEN /\ flying' = flying \cup {[run |-> r, seq |-> next[r], msg |-> next'[r], again |-> FALSE]}
          /\ UNCHANGED link
     ELSE /\ link' = [link EXCEPT ![r]["h2"].out = Append(@, next'[r])]
          /\ UNCHANGED flying
  /\ UNCHANGED <<failed, config, phase, arrived, got, timedOut>>
Appended(q) ==
  /\ flying' = flying \ {q}
  /\ arrived' = [arrived EXCEPT ![q.run] = Append(@, <<q.seq, q.msg>>)]
  /\ UNCHANGED <<failed, config, phase, link, next, got, timedOut>>
AppendFails(q) ==
  /\ flying' = flying \ {q}
  /\ UNCHANGED <<failed, config, phase, link, next, arrived, got, timedOut>>
AppendStale(q) ==
  /\ ~q.again /\ flying' = (flying \ {q}) \cup {[q EXCEPT !.again = TRUE]}
  /\ UNCHANGED <<failed, config, phase, link, next, arrived, got, timedOut>>
\* the body of the HTTP/2 request
BodySent(r) ==
  /\ Working(r, "h2") /\ link[r]["h2"].out # <<>>
  /\ LET msg == Head(link[r]["h2"].out) IN
     arrived' = [arrived EXCEPT ![r] = Append(@, <<msg - 1, msg>>)]
  /\ link' = [link EXCEPT ![r]["h2"].out = Tail(@)]
  /\ UNCHANGED <<failed, config, phase, next, flying, got, timedOut>>

(* aclose: HTTP/1 cancels its task; HTTP/2 ends its body, gives the task   *)
(* two seconds and cancels it then.  A task that is cancelled ends the     *)
(* queue.                                                                  *)
Cancelled(r, t) ==
  link' = [link EXCEPT ![r][t].task = "over", ![r][t].queue = Append(@, Ended)]
Close(r) ==
  /\ On(r) # "none"
  /\ phase' = [phase EXCEPT ![r] = IF On(r) = "h1" THEN "closing h1" ELSE "closing h2"]
  /\ UNCHANGED <<failed, config, link, Streams, timedOut>>
CancelTask(r, t) ==
  /\ phase[r] = (IF t = "h1" THEN "closing h1" ELSE "closing h2")
  /\ Working(r, t) /\ Cancelled(r, t)
  /\ UNCHANGED <<failed, config, phase, Streams, timedOut>>
\* Mutant: aclose does not wait for the task.
ClosedAtOnce(r, t) ==
  /\ phase[r] = (IF t = "h1" THEN "closing h1" ELSE "closing h2")
  /\ phase' = [phase EXCEPT ![r] = "closed"]
  /\ UNCHANGED <<failed, config, link, Streams, timedOut>>

Closed(r, t) ==
  /\ phase[r] = (IF t = "h1" THEN "closing h1" ELSE "closing h2") /\ ~Working(r, t)
  /\ phase' = [phase EXCEPT ![r] = "closed"]
  /\ UNCHANGED <<failed, config, link, Streams, timedOut>>

-----------------------------------------------------------------------------
Opening(r) == \/ Decide(r) \/ ConfigAnswered(r)
              \/ \E t \in Transport : StartSucceeds(r, t) \/ StartFails(r, t) \/ StartTimesOut(r, t)
Closes(r) == \E t \in Transport : CancelTask(r, t) \/ Closed(r, t)
Service(r, t) ==
  \/ Connected(r, t)
  \/ \E err \in {"fallback", "fatal"} : Refused(r, t, err)
  \/ \E n \in 1 .. 2 * End, end \in Closing : Chunk(r, t, n, end)
  \/ Broken(r, t) \/ ClosedByService(r, t)
Next == \/ \E r \in Run : Opening(r) \/ Read(r) \/ Send(r) \/ BodySent(r) \/ Close(r) \/ Closes(r)
        \/ \E r \in Run, t \in Transport : Service(r, t)
        \/ \E q \in flying : Appended(q) \/ AppendFails(q) \/ AppendStale(q)

(* The loop runs what is ready, the wait for a start and for a task that   *)
(* is closed have time limits, and a queue that is not empty is read.  The *)
(* request for the configuration has none (the client reads without a      *)
(* limit): it may be under way for ever.                                   *)
Fairness == \A r \in Run :
  /\ WF_vars(phase[r] # "deciding" /\ Opening(r))
  /\ WF_vars(Closes(r)) /\ WF_vars(Read(r))
Spec == Init /\ [][Next]_vars
FairSpec == Spec /\ Fairness

-----------------------------------------------------------------------------
(* However the stream is cut into chunks, the consumer is given the        *)
(* messages of the service in order and none twice, and the error or the   *)
(* end that the task saw comes after every message that arrived whole.     *)
(* Whatever fails or overtakes whatever, the service never receives two    *)
(* messages under one number nor a message under the number of another.    *)
InOrder ==
  /\ TypeOK
  /\ \A r \in Run : \A i, j \in DOMAIN arrived[r] :
       /\ arrived[r][i][2] = arrived[r][i][1] + 1
       /\ i # j => arrived[r][i][1] # arrived[r][j][1]
  /\ \A r \in Run, t \in Transport :
    LET seen == IF t = On(r) THEN got[r] \o link[r][t].queue ELSE link[r][t].queue
        closings == {i \in DOMAIN seen : seen[i] \in Closing} IN
    (t = On(r) \/ phase[r] \notin {"closed", "closing h1", "closing h2"}) =>
      /\ closings \subseteq {Len(seen)}
      /\ closings = {} <=> link[r][t].task # "over"
      /\ \A i \in DOMAIN seen \ closings : seen[i] = i
      /\ Len(seen) - Cardinality(closings) =
           (IF Complete(link[r][t].pieces) = End THEN Messages ELSE Complete(link[r][t].pieces))

(* A run has one transport at work: the one given up for another, or for   *)
(* an exception, is over, except when its start took too long.             *)
OneTransport ==
  \A r \in Run, t \in Transport :
    Working(r, t) /\ <<r, t>> \notin timedOut =>
      phase[r] \in IF t = "h1" THEN {"h1", "on h1", "closing h1"} ELSE {"h2", "on h2", "closing h2"}

(* Once the transport is decided, open_run returns or raises although the  *)
(* service does not answer, and aclose returns although it does not end    *)
(* the stream.                                                             *)
AtRest == \A r \in Run : phase[r] \in {"deciding", "on h1", "on h2", "closed", "raised"}
OpensAndCloses == []<>AtRest
=============================================================================
