\* Two nodes, two workloads, every fault: what a drain promises; and once the
\* process stops crashing, the surplus goes.
SPECIFICATION FairSpec
CONSTANTS
  p1 = p1
  Nodes = {n1, n2}
  Unpooled = {}
  Pools = {p1}
  PoolOf <- Labels
  MinNodes <- NoMinimum
  Workloads = {w1, w2}
  Protected = {w1}
  Nobody = Nobody
  Faults = {"delete", "terminate", "crash"}
INVARIANTS
  TypeOK
  OrphansKept
PROPERTIES
  TerminatedEmpty
  TerminatedAsChosen
  SurplusGoes
