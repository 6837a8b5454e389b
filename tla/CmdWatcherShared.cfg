\* Three waits, two of them for one command, any of them cancelled.
\* When every caller has returned, the watcher has gone and the commands have
\* ended, nothing is left to happen.

SPECIFICATION Spec
CONSTANTS
  w1 = w1
  w2 = w2
  w3 = w3
  c1 = c1
  c2 = c2
  Waits = {w1, w2, w3}
  Commands = {c1, c2}
  CommandOf <- SharedCommand
  Enrich = {w1}
  Runners = {r1, r2}
  None = None
SYMMETRY SameRunners
INVARIANTS
  TypeOK
  OneRunner
  TrackedUnanswered
  Truthful
PROPERTY WaitsAsPromised
CHECK_DEADLOCK FALSE
