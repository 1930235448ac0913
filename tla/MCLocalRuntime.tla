--------------------------- MODULE MCLocalRuntime ---------------------------
(* Instances of LocalRuntime for TLC: one process with two handles on the    *)
(* agent, or two processes with one handle each.                             *)
EXTENDS LocalRuntime

CONSTANTS p1, p2, h1, h2

SameProcess == [h \in Handle |-> p1]
OneEach == [h \in Handle |-> IF h = h1 THEN p1 ELSE p2]

=============================================================================
