----------------------------- MODULE MCScaleUp -----------------------------
(***************************************************************************)
(* Instances of ScaleUp for TLC.                                           *)
(***************************************************************************)
EXTENDS ScaleUp, TLC

CONSTANT p1  \* the pool

Assigned == [n \in Names |-> p1]

AtMostOne == [p \in Pools |-> 1]
AtMostTwo == [p \in Pools |-> 2]

\* The names are interchangeable.
SameNames == Permutations(Names)

(***************************************************************************)
(* Days on which nothing goes wrong: every command is accepted, provisions *)
(* a VM that joins, and is reported in time; no entry ages and the process *)
(* never stops.                                                            *)
(***************************************************************************)
Calm ==
  \/ Tick
  \/ \E n \in Names :
       \/ OrderArrives(n) \/ PostAccepted(n) \/ CreateSucceeds(n)
       \/ Provisioned(n) \/ Joins(n)

CalmSpec == Init /\ [][Calm]_vars

=============================================================================
