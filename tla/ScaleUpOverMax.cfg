\* README.md:198 against the code: with nothing going wrong, a pool outgrows its
\* max_nodes.
SPECIFICATION CalmSpec
CONSTANTS
  p1 = p1
  Pools = {p1}
  Names = {n1, n2}
  PoolOf <- Assigned
  MaxNodes <- AtMostOne
  MaxDemand = 1
INVARIANT MaxNodesRespected
