\* Two waits for a command each: nobody is forgotten.
\* When every caller has returned, the watcher has gone and the commands have
\* ended, nothing is left to happen.

SPECIFICATION FairSpec
CONSTANTS
  w1 = w1
  w2 = w2
  w3 = w3
  c1 = c1
  c2 = c2
  Waits = {w1, w2}
  Commands = {c1, c2}
  CommandOf <- OwnCommand
  Enrich = {w1}
  Runners = {r1, r2}
  None = None
INVARIANT Unforgotten
PROPERTIES
  WaitsReturn
  RunnerGoes
CHECK_DEADLOCK FALSE
