----------------------------- MODULE AgentTurns -----------------------------
(***************************************************************************)
(* What a local agent promises its clients: it takes one turn at a time.   *)
(* A turn is queued when the one before it has ended, is then started, and *)
(* ends; a turn that has ended, or one that nobody will ever end, stays    *)
(* what it is.  LocalRuntime implements this in one process whose clients  *)
(* neither cancel a run nor force a send.                                  *)
(***************************************************************************)
EXTENDS Naturals, Sequences

VARIABLE turns      \* the turns taken so far: "queued", "running" or "ended"

\* Agent.create comes with the first turn.
Init == turns = <<"queued">>

\* A follow-up: refused as busy until the turn before it has ended.
QueueTurn ==
  /\ turns[Len(turns)] = "ended"
  /\ turns' = Append(turns, "queued")

StartTurn ==
  /\ turns[Len(turns)] = "queued"
  /\ turns' = [turns EXCEPT ![Len(turns)] = "running"]

EndTurn ==
  /\ turns[Len(turns)] = "running"
  /\ turns' = [turns EXCEPT ![Len(turns)] = "ended"]

Next == QueueTurn \/ StartTurn \/ EndTurn

Spec == Init /\ [][Next]_turns

=============================================================================
