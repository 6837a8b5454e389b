\* README.md:197 against the code: a Delete that fails takes the pool below its
\* minimum.
SPECIFICATION Spec
CONSTANTS
  p1 = p1
  Nodes = {n1, n2}
  Unpooled = {}
  Pools = {p1}
  PoolOf <- Labels
  MinNodes <- KeepOne
  Workloads = {w1}
  Protected = {}
  Nobody = Nobody
  Faults = {"delete"}
PROPERTY MinNodesRespected
