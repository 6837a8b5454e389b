---------------------------- MODULE MCScaleDown ----------------------------
(***************************************************************************)
(* Instances of ScaleDown for TLC.                                         *)
(***************************************************************************)
EXTENDS ScaleDown, TLC

CONSTANTS
  p1,        \* the pool
  Unpooled   \* the nodes of no configured pool

Labels == [n \in Nodes |-> IF n \in Unpooled THEN "control-plane" ELSE p1]

NoMinimum == [p \in Pools |-> 0]
KeepOne   == [p \in Pools |-> 1]

SameNodes ==
  {f \in Permutations(Nodes) : \A n \in Nodes : Labels[f[n]] = Labels[n]}

=============================================================================
