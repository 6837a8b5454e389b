\* A minimum of one and nothing left half done, but calls that always fail and a
\* budget that never gives way: the minimum is kept, and every tick ends.
SPECIFICATION LoopSpec
CONSTANTS
  p1 = p1
  Nodes = {n1, n2, n3}
  Unpooled = {}
  Pools = {p1}
  PoolOf <- Labels
  MinNodes <- KeepOne
  Workloads = {w1}
  Protected = {w1}
  Nobody = Nobody
  Faults = {}
PROPERTIES
  MinNodesRespected
  TickAdvances
  TickEnds
