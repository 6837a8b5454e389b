\* client.go:147 against the code: a call without a deadline hangs in POST
\* /authenticate, and a call with one waits for the mutex behind it.
SPECIFICATION ConsoleFairSpec
CONSTANTS
  watcher = watcher
  lookup = lookup
  Calls = {watcher, lookup}
  Ending = {watcher}
  Tokens = {t1, t2, t3, t4}
  Empty = Empty
  Nobody = Nobody
PROPERTY CallsReturn
