--------------------------- MODULE MCConsoleToken ---------------------------
(***************************************************************************)
(* Instances of ConsoleToken for TLC.                                      *)
(***************************************************************************)
EXTENDS ConsoleToken, TLC

CONSTANTS watcher, lookup

SameTokens == Permutations(Tokens)

=============================================================================
