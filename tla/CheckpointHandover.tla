------------------------- MODULE CheckpointHandover -------------------------
(***************************************************************************)
(* How a conversation is carried from turn to turn.  The server sends its  *)
(* state as conversation_checkpoint_update; the executor of the turn keeps *)
(* the last one, hands it to the LocalAgent when its task ends, and the    *)
(* next send() gives it to the next executor, which sends it back in its   *)
(* run_request.  The agent is free for the next send() as soon as the end  *)
(* of the turn is recorded, before the executor has closed its MCP servers *)
(* and its client.                                                         *)
(***************************************************************************)
EXTENDS Naturals, Sequences

CONSTANTS
  Eager,        \* whether a client sends once it sees the end of a turn, or
                \* waits until the task of the executor has ended as well
  MaxTurns,     \* bound: turns
  MaxUpdates    \* bound: checkpoints the server sends

ASSUME ConstantsAssumption ==
  Eager \in BOOLEAN /\ MaxTurns \in Nat /\ MaxUpdates \in Nat

VARIABLES
  held,         \* LocalAgent._checkpoint
  turns,        \* the executors in the order of their creation
  latest        \* the latest checkpoint the server has sent in any turn

vars == <<held, turns, latest>>

\* Checkpoints are numbered in the order in which the server sends them; 0 is
\* None, with which a conversation starts from nothing.
Checkpoint == Nat

\* A turn streams, has its end recorded, or has left the task of its executor.
Turn == [phase : {"streaming", "ended", "over"},
         sent : Checkpoint, checkpoint : Checkpoint]

TypeOK == held \in Checkpoint /\ latest \in Checkpoint /\ turns \in Seq(Turn)

Init == held = 0 /\ turns = <<>> /\ latest = 0

\* _send_async: the agent must not have a turn under way.
Send ==
  /\ Len(turns) < MaxTurns
  /\ \A t \in DOMAIN turns : turns[t].phase \in IF Eager THEN {"ended", "over"}
                                                         ELSE {"over"}
  /\ turns' = Append(turns, [phase |-> "streaming", sent |-> held, checkpoint |-> held])
  /\ UNCHANGED <<held, latest>>

\* conversation_checkpoint_update
Update(t) ==
  /\ turns[t].phase = "streaming" /\ latest < MaxUpdates
  /\ latest' = latest + 1
  /\ turns' = [turns EXCEPT ![t].checkpoint = latest + 1]
  /\ UNCHANGED held

\* _finish or _fail
EndTurn(t) ==
  /\ turns[t].phase = "streaming"
  /\ turns' = [turns EXCEPT ![t].phase = "ended"]
  /\ UNCHANGED <<held, latest>>

\* Mutant: the checkpoint of a turn is not kept.
ReturnsForgetting(t) ==
  /\ turns[t].phase = "ended"
  /\ turns' = [turns EXCEPT ![t].phase = "over"]
  /\ UNCHANGED <<held, latest>>

\* run() returns to _drive, which hands the checkpoint over.
Returns(t) ==
  /\ turns[t].phase = "ended"
  /\ held' = turns[t].checkpoint
  /\ turns' = [turns EXCEPT ![t].phase = "over"]
  /\ UNCHANGED latest

\* run() records the failure of its start and raises: there is nothing to keep.
Raises(t) ==
  /\ turns[t].phase = "ended" /\ turns[t].checkpoint = turns[t].sent
  /\ turns' = [turns EXCEPT ![t].phase = "over"]
  /\ UNCHANGED <<held, latest>>

Next == Send \/ \E t \in DOMAIN turns : \/ Update(t) \/ EndTurn(t)
                                        \/ Returns(t) \/ Raises(t)

Spec == Init /\ [][Next]_vars

\* Every turn continues from the latest checkpoint of the conversation.  Holds for
\* a client that waits for the task of the executor, which the SDK gives it no
\* means to do; not for one that sends when wait() has returned.
LatestCheckpointSent ==
  [][Len(turns') > Len(turns) => turns'[Len(turns')].sent = latest]_vars
=============================================================================
