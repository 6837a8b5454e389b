--------------------------- MODULE MCCmdWatcher ---------------------------
(***************************************************************************)
(* Instances of CmdWatcher for TLC.                                        *)
(***************************************************************************)
EXTENDS CmdWatcher, TLC

CONSTANTS w1, w2, w3, c1, c2

\* A command each: what createNode and terminateAndDelete ask for.
OwnCommand == [w \in Waits |-> IF w = w1 THEN c1 ELSE c2]

\* The first two waits are for the same command.
SharedCommand == [w \in Waits |-> IF w = w3 THEN c2 ELSE c1]

\* It does not matter which goroutine is which.
SameRunners == Permutations(Runners)

=============================================================================
