\* The loop with both tickers, a signal at any time, and one creation that hangs
\* for ever.
SPECIFICATION LoopFairSpec
CONSTANTS
  p1 = p1
  Pools = {p1}
  Names = {n1, n2}
  PoolOf <- Assigned
  MaxNodes <- AtMostOne
  MaxDemand = 1
  Hung = {n1}
INVARIANTS
  LoopTypeOK
  OneTickAtATime
PROPERTIES
  ShutsDown
  DemandServed
