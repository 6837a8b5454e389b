\* One pool of at most two nodes, more names than nodes: creations that outlive
\* their entries, orphaned VMs and restarts all fit.
SPECIFICATION Spec
CONSTANTS
  p1 = p1
  Pools = {p1}
  Names = {n1, n2, n3}
  PoolOf <- Assigned
  MaxNodes <- AtMostTwo
  MaxDemand = 3
SYMMETRY SameNames
INVARIANTS
  TypeOK
  PlanWithinLimits
  TrackerWithinMax
  EntriesHaveCreators
PROPERTY
  OverMaxOnlyOverlooked
