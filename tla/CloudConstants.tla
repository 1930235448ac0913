--------------------------- MODULE CloudConstants ---------------------------
(***************************************************************************)
(* The constants of CloudRunStream, for the module that runs it beside     *)
(* others.                                                                 *)
(***************************************************************************)
EXTENDS Naturals, Sequences

CONSTANTS
  MaxAttempts,  \* dropped connections before the loop polls: 6 in the code
  Ops,          \* the optional events of service and clients
  MaxFrames     \* bound: the run reports while it has fewer events

ASSUME ConstantsAssumption ==
  /\ MaxAttempts \in Nat
  /\ Ops \subseteq {"cancel", "denied", "id_rejected", "bad_frame"}
  /\ MaxFrames \in Nat
=============================================================================
