\* scale_down.go:14-16 against the code: a node whose drain failed stays cordoned.
SPECIFICATION AgingSpec
CONSTANTS
  p1 = p1
  Nodes = {n1, n2}
  Unpooled = {}
  Pools = {p1}
  PoolOf <- Labels
  MinNodes <- NoMinimum
  Workloads = {w1}
  Protected = {w1}
  Nobody = Nobody
  Faults = {}
PROPERTY DrainRetried
