----------------------------- MODULE MCFollowing -----------------------------
(***************************************************************************)
(* Following a run, on small instances: one of this machine (RunEventTail, *)
(* whose constants are plain values set in the .cfg), and one in the cloud *)
(* (CloudRunStream), with the sending of messages (CloudSends) and the     *)
(* cutting of messages out of bytes (Framing).  They share no state: a     *)
(* CloudRun does not touch its agent, and knows events by their number.  A *)
(* behaviour is about one of them, which "part" tells.                     *)
(***************************************************************************)
EXTENDS RunEventTail, CloudConstants

CONSTANTS Handle, AgentOf, OwnKey, Resumed, Message, KeyOf, NoKey, MaxSends, MaxUnderWay,
          MaxItems, Ahead
VARIABLES frames, server, loop, next, lastId, openedWith, attempt, answer, status, abort, late,
          cancel, queue, skipped,
          handle, sends, agents, runs, answered,
          protocol, items, arrived, buffer, at, given, apart, split,
          part      \* what the behaviour is about

Sends == INSTANCE CloudSends
Bytes == INSTANCE Framing
Cloud == INSTANCE CloudRunStream
cloudVars == <<handle, sends, agents, runs, answered>>
framingVars == <<protocol, items, arrived, buffer, at, given, apart, split>>
streamVars == <<frames, server, loop, next, lastId, openedWith, attempt, answer, status,
                abort, late, cancel, queue, skipped>>

\* a key that a message is repeated under is of that message alone
ASSUME KeysAssumption ==
  \A m \in Message : KeyOf[m] # NoKey => /\ \A n \in Message : KeyOf[n] = KeyOf[m] => n = m
                                         /\ \A h \in Handle : OwnKey[h] # KeyOf[m]

\* two new handles with the same key in their options, and one that resumes
SmallAgents == [made |-> "a", again |-> "b", back |-> "a"]
SmallOwnKeys == [made |-> "k", again |-> "k", back |-> "none"]
SmallKeys == [m |-> "km", n |-> "none"]

\* a loop that has come to the end of a run, after its deadline
NoStream == /\ frames = <<"result">> /\ server = "finished" /\ loop = "over"
            /\ next = 2 /\ lastId = 1 /\ openedWith = 0 /\ attempt = 0 /\ answer = "none"
            /\ status = "finished" /\ abort = FALSE /\ late = TRUE /\ cancel = "no"
            /\ queue = <<>> /\ skipped = {}
\* a reader that has all of a run that has ended
NoTail == /\ log = <<"message", "FINISHED">> /\ row = "FINISHED" /\ alive = FALSE /\ todo = <<>>
          /\ pc = "ended" /\ client = [op |-> "stream", place |-> "loop"] /\ mode = "tail"
          /\ from = 0 /\ offset = 2 /\ page = <<>> /\ more = FALSE /\ saw = TRUE
          /\ got = <<1, 2>> /\ result = "none"
MCInit == /\ part \in {"stream", "sends", "bytes", "tail"} /\ Sends!Init /\ Bytes!Init
          /\ IF part = "tail" THEN Init ELSE NoTail
          /\ IF part = "stream" THEN Cloud!Init ELSE NoStream
          /\ part # "bytes" => protocol = "sse" /\ items = <<"event">>
OnTail == part = "tail" /\ Next /\ UNCHANGED <<streamVars, cloudVars, framingVars, part>>
OnStream == part = "stream" /\ Cloud!Next /\ UNCHANGED <<vars, cloudVars, framingVars, part>>
OnSends == part = "sends" /\ Sends!Next /\ UNCHANGED <<vars, streamVars, framingVars, part>>
OnBytes == part = "bytes" /\ Bytes!Next /\ UNCHANGED <<vars, streamVars, cloudVars, part>>
MCSpec == /\ MCInit
          /\ [][OnTail \/ OnStream \/ OnSends \/ OnBytes]_<<vars, streamVars, cloudVars, framingVars, part>>
          /\ Fairness /\ Cloud!Fairness

\* see CloudSends: what a send returns is what it sent
RunIsOfMessage == Sends!RunIsOfMessage
\* see Framing: what is read is what was sent
FramesAreRead == Bytes!FramesAreRead
\* see CloudRunStream: no gap, and the verdict of the service
StreamIsTrue == Cloud!StreamIsTrue
\* see CloudRunStream: what was given or told is not given again or taken back
NothingTwice == Cloud!NothingTwice
\* see CloudRunStream: stream() and wait() return
StreamEnds == Cloud!LoopEnds
==============================================================================
