\* One goroutine that creates and terminates, with one retry, beside the
\* watcher's calls; tokens rotate, expire and are wiped under both.
SPECIFICATION RestFairSpec
CONSTANTS
  watcher = watcher
  creator = creator
  Calls = {watcher, creator}
  Ending = {watcher, creator}
  Clients = {creator}
  Tokens = {t1, t2, t3, t4}
  Empty = Empty
  Nobody = Nobody
  MaxRetries = 1
INVARIANTS
  ConsoleTypeOK
  SecondRefusalExplained
  RestTypeOK
  OrdersBounded
  SuccessIsReal
PROPERTIES
  RetryIsFresh
  CallAdvances
  OperationAdvances
  OrdersAsPromised
  CallsReturn
  OperationsReturn
