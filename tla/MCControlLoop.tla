--------------------------- MODULE MCControlLoop ---------------------------
(***************************************************************************)
(* Instances of ControlLoop for TLC.                                       *)
(***************************************************************************)
EXTENDS ControlLoop

CONSTANT p1  \* the pool

Assigned == [n \in Names |-> p1]

AtMostOne == [p \in Pools |-> 1]

=============================================================================
