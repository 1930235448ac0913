---------------------------- MODULE MCJsonlStore ----------------------------
(***************************************************************************)
(* JsonlStore by itself, with one agent and no other document: what a      *)
(* write that is cut short leaves of a file.                               *)
(***************************************************************************)
EXTENDS JsonlStore

OneAgent == [t \in Table |->
  IF t = "agents" THEN <<[owner |-> 1, id |-> 1, order |-> 1, ver |-> 0]>> ELSE <<>>]
=============================================================================
