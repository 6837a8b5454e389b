# TLA+ models of kamatera-autoscaler

The autoscaler grows and shrinks pools of Kamatera VMs that are nodes of a
Kubernetes cluster. It keeps almost nothing: its decisions rest on listings of
the cluster and the platform that are stale as soon as they are read, on an
in-memory tracker of what it has ordered, and on calls that may fail, hang, or
succeed without saying so. These modules say what holds all the same, and where
what the documentation promises does not.

Paths such as `scale_up.go` are under `internal/controller/` or
`internal/kamatera/`; `config.go` is under `internal/config/`,
`kubeclient.go` under `internal/kubeclient/`.

## The system

| part | code | state it keeps | operations |
| --- | --- | --- | --- |
| control loop | `controller.go` | two tickers, the `scaleDownInProgress` mutex | `Run`: one goroutine, a select over both tickers and the context |
| scale-up tick | `scale_up.go` | locals of one tick | list pending pods, list nodes, plan each pool, start creations |
| tracker | `pending.go` | name, pool and time of each creation in flight | `Add`, `Remove`, `Count`, expiry |
| creations | `scale_up.go`, `client.go` | one goroutine per new VM | `createNode`: render, POST, recovery by name, wait |
| scale-down tick | `scale_down.go`, `drain.go` | locals of one tick: the nodes, `byPool` | choose, cordon, evict in rounds, terminate, wait, delete |
| command watcher | `watcher.go` | pending waits, `running`, one channel per wait | register, cancel, a polling goroutine that comes and goes |
| REST client | `client.go`, `errors.go`, `types.go` | none | POSTs with and without retry, lookup by name |
| console client | `console_client.go` | the Bearer token and its expiry | GET with the token, refresh, one retry after a 401 |
| cluster client | `kubeclient.go` | none | six calls of the Kubernetes API |
| pool matching | `pool_match.go` | none | which pool a pod or a node belongs to |
| configuration | `config.go`, `reserved.go` | the pools, loaded once | parse, validate, find a pool by name |
| cloud-init, logging, `main` | `cloudinit.go`, `logging.go`, `main.go` | none that changes | render, print, wire up, catch signals |

**How they interact.** `Run` calls the two ticks in turn, never at once. A
scale-up tick starts one `createNode` goroutine per VM and does not wait for it.
These goroutines share the tracker (a mutex) with later ticks, and the watcher (a
mutex, a goroutine, a channel per wait) with each other and with the scale-down
tick. All console calls share one cached token. Everything else goes through the
Kubernetes API and Kamatera, where others act too.

**What is hard.**

* A tick is a sequence of calls; the cluster, the platform, the clock and the
  other goroutines move between any two of them.
* A creation has three lives: the goroutine's, the tracker entry's (which expires)
  and the VM's (which neither ends). Each may end before the others.
* A removal is some eight fallible calls, with no undo.
* The watcher releases its mutex around two HTTP calls, and decides to exit while
  callers register.
* Concurrent calls of the console share a token that any of them may wipe, and a
  mutex that one of them holds during a request.
* A request whose answer is lost may have had its effect, or may have it yet.
* A crash or a signal forgets everything but the cluster and the platform.

**What makes each part correct.**

* *Scale-up*: plans fit the maximum and the demand however old the count is; what
  is in flight stays bounded; entries go with their goroutines; pending pods are
  served although a creation hangs; the pool stays within `max_nodes` (it may not).
* *Scale-down*: a VM goes only when nothing evictable is left on it and its node is
  still what it was chosen for; pools keep their minimum (if no failure leaves its
  work half done); ticks end; surplus goes; a VM that runs on without its node is one
  that the last lookup missed, or whose termination failed.
* *Watcher*: one goroutine while anybody waits and none otherwise; at most one
  result per wait, and a true one; every wait returns.
* *Console client*: a refused token is not sent again; a second 401 has a cause
  outside the call; a call whose requests end ends (it may not, beside one whose
  requests do not).
* *REST client*: nothing is ordered twice, nothing is reported that was not
  ordered, and every operation returns: `ServerOrder`, to its callers.
* *Control loop*: one tick at a time; no tick and no backlog of ticks keeps pending
  pods from being served, nor the loop from stopping.
* *Pool matching*: the nodes counted for a pool are those built for it (they may
  not be).

## The modules

| module | models | checked by | proved in |
| --- | --- | --- | --- |
| `ScaleUp` | the scale-up tick, the tracker, the creations | `MCScaleUp` | `ScaleUpProofs` |
| `ControlLoop` | `Run`'s select, its tickers and mutex, shutdown; extends `ScaleUp` | `MCControlLoop` | `ControlLoopProofs` |
| `ScaleDown` | the scale-down tick with its drain and termination | `MCScaleDown` | `ScaleDownProofs` |
| `CmdWatcher` | the command watcher | `MCCmdWatcher` | `CmdWatcherProofs` |
| `AsyncWait` | what the watcher promises its callers (abstract) | implemented by `CmdWatcher` | `CmdWatcherProofs` |
| `ConsoleToken` | the console client's token, mutex and retry | `MCConsoleToken` | `ConsoleTokenProofs` |
| `RestClient` | create, recovery, terminate; extends `ConsoleToken` | `MCRestClient` | `RestClientProofs` |
| `ServerOrder` | what create and terminate promise their callers (abstract) | implemented by `RestClient` | `RestClientProofs` |
| `PoolMatch` | which pool pods and nodes belong to, under any valid configuration | `MCPoolMatch` | `PoolMatchProofs` |

Each is one file with constants and their assumptions, variables, `Init`, one
action per call or critical section, the environment, `Next`, `Spec`, the safety
properties, the fairness and the liveness properties. A definition introduced
with "Mutant:" is the definition that follows it with a plausible bug; no
specification uses it, and every property was confirmed to fail with one.

### ScaleUp

`entries` and `aged` are the tracker: a name is in `aged` once its age exceeds the
TTL, and `Add` and `Count` then drop it (`gcLocked`). `pc`, `wanted`, `current`,
`todo` and `toCreate` are the locals of `scaleUp`: the pods per pool
(`pendingByPool`), the nodes per pool (`nodesByPool`), the pools the `range` has
not reached, in any order, and the inner loop's remaining iterations. `create` is
where the goroutine of a name is, `server` what has become of its VM, `demand` the
resource-pending pods that select each pool.

* The listing of pods, the listing of nodes, the planning of one pool (`Count` and
  the arithmetic) and each `Add` are separate actions: between them creations
  return, entries age, VMs join. The arithmetic touches nothing shared after
  `Count`, so it is one action with it.
* `createNode` is `OrderArrives` (the platform takes the command),
  `PostAccepted`, `PostFails`, `PostLost` (the transport fails, before or after
  the platform took the command), `CreateSucceeds` and `CreateGivesUp`. Each one
  that returns also executes the deferred `Remove`.
* A POST whose transport fails, whose process stops, or which a gateway answers with
  a 5xx before the platform took it is `astray` (`Abandon`): it arrives later, or never
  (`StrayEnds`).
* The polling of `recoverByName` is abstracted to its outcomes, which may come at
  any time.
* Names are recycled once no goroutine, entry or VM bears them: `generateNodeName`
  never repeats itself in practice. `NameTaken` is its repetition of a tracked
  name, which `Add` refuses.
* A restart leaves only the cluster and the platform.

### ScaleDown

`registered`, `cordoned` and `young` are the Node objects, `at` and `phase` the
pods a drain evicts (those of DaemonSets and mirror pods, which idleness, eviction
and termination all ignore alike, are left out), `vm` the platform. `pc`, `rest`,
`byPool` and `node` are the locals of `scaleDown`; `evicting` and `late` those of
`drainNode`. One action per call: the listing, the idle check with the choice, the
cordon, each listing of a drain, each eviction, the lookup, the terminate command,
the end of the wait, the deletion.

The lookup (`FindServerByName`) is one listing of the servers, and both of its answers
are possible whenever the VM is not gone: listed, and the VM is to be terminated; not
listed, and the Node object is deleted without a terminate command. A VM that runs
and was not found is `missed` until a later lookup finds it. A second terminate command
is accepted while the first is still running.

`PassOver` may pass over any node, for its pods may fail to list. `Choose` needs
all of the guards. A failing call ends the removal of the node (`Continue`), with
`byPool` as it was. Three kinds of failure leave work half done and are switched by
the constant `Faults`: `"delete"` (the object is not deleted, or is and the reply
is lost), `"terminate"` (the command is accepted but the caller is told otherwise),
`"crash"`. A terminate command that was accepted may still fail on the platform: the
VM is then `kept`, and runs on. A pod that is bound to no node is as good as new
(`Unbind`).

### CmdWatcher

A *wait* is one `pendingCmd`. `pending` maps each command to the wait tracked for
it; `call` is where the caller is in `register`, `chan` what was sent to it;
`step`, `snap` and `done` are where each goroutine is in `run` and `tick`, its
snapshot and its completions. Goroutine names are taken from a set of two, so that
a second one, if the code ever started it, would show. The select that finds both a
result and a cancelled context may take either. A listing of the queue shows any
subset of the commands ("the recent-commands window"); a listing of servers shows
any subset of the servers.

Waits for the same command are within `register`'s contract (it refuses a second
one while the first is pending) and are the reason for the identity check on
delivery; the controller itself never makes them.

Its callers see less: `AsyncWait` has a caller ask, be answered, and return. Any
number of waits may be answered at once, each at most once, each truthfully and only
while its caller waits; a caller returns with its answer or when its own context is
done. The refinement mapping hides `pending`, the goroutines and their snapshots,
shows `chan` as the answer, and a caller that is on its way to `cancel` as waiting
still.

### ConsoleToken

`mu`, `token` and `stale` (the expiry is less than 30 s away) are the fields of
`consoleClient`; `at`, `try` and `sent` are where each call of `bearerGet` is, which
of its two requests it makes, and with which token. One action per critical section
and per answer of a request: `Ensure` locks and either finds the token good or keeps
the mutex for POST /authenticate (`Authenticated`, `AuthenticateFails`); `ReadToken`
locks again; the GET succeeds, is refused or fails; `Wipe` locks and wipes. `live` is
the set of tokens the platform accepts, and `Rotate` empties it at any time. Tokens
are recycled once no call and no cache holds them, so that a finite set never runs
out. `disturbed` is a history variable: since its own wipe, the call's token was
wiped by another call or revoked by the platform.

### RestClient

One `stage` per client goroutine, which creates and terminates one VM at a time.
`Attempts` is one for a create, `MaxRetries + 1` for a terminate. A request that
fails in transport before the platform took it is counted in `stray` and may arrive
later; one that is answered by a 5xx may have been taken, or not, or may stray as well
(`Astray`). `recoverByName` is
`grace`, then lookups with a pause (`poll`) between them; a lookup is a call of
`ConsoleToken`, started by `Look`, and its answer (`ok`, `client` for a 4xx,
`other`) decides between `Found`, `Aborted` and `NotFound`. `overdue` is the
recovery's deadline, `Cancelled` the caller's context at a sleep.

`createNode` and `terminateAndDelete` see less: `ServerOrder` has a caller ask, be in
doubt (a create only), and be told of a success or a failure. It says how often the
platform may have accepted the same thing, that a success means it has, and that after
a failure it may have, or may yet. The refinement mapping hides attempts, back-offs,
lookups and the token, and shows what was taken and what strays as they are.

### ControlLoop

`loop` is where `Run`'s goroutine is, `scaleDownInProgress` the mutex, `cancelled`
the context. A ticker's channel buffers one tick and drops the others, so a tick may
be ready whenever the select looks; no counter is needed. A scale-up tick is
`ScaleUp`'s, step by step; a scale-down tick is reduced to removing joined nodes and
taking its time. Once the context is done, calls fail: no listing succeeds and no
POST is sent. The model is of one run of the process; restarts are `ScaleUp`'s.

### PoolMatch

`cfg` is any configuration of a set that `Validate` accepts. A selector is the set of
values it allows for each of its keys, which covers `=`, `!=`, `in`, `notin`, `exists`
and `!exists`; a label set is a function. `builtBy` is which pool each node was
generated for, the fact that the two counts, by selector and by label, stand for. The
tick goes step by step as in `ScaleUp`: the listing of the pods, that of the nodes, the
plan of each pool the `range` has not reached, each `Add` with the start of its
creation. Between them entries go (`EntryGoes`, with the VM or without), kubelets join,
nodes leave (`Leaves`: by a scale-down tick or by hand), pods wait and are bound. What
becomes of a POST, and of a name that is taken, is `ScaleUp`'s; how a node is removed
is `ScaleDown`'s.

## What is assumed of the outside

* The scheduler does not bind pods to cordoned nodes. Nobody else uncordons or
  deletes nodes while their tick removes them, and VMs do not die by themselves.
* A POST whose transport fails may have reached the platform, may reach it later, or
  never. Once nobody awaits it, its fate is settled before its name is used again.
* Kamatera completes a terminate command by stopping the VM or by failing; a VM
  that is gone is no longer listed. The converse is not assumed: a VM that runs may be
  missing from a list, which may lag (`watcher.go:264-266`) or show it under another
  name (`errors.go:83-84`).
* Names that `generateNodeName` makes do not repeat, but for the tracked ones that `Add`
  refuses, and nobody else gives them to a VM. `FindServerByName` goes by the name alone
  (`client.go:267-271`), so that a name it finds is this create's VM (`Listed`) rests
  on this.
* In `ScaleUp` and `ScaleDown` a Node object carries its pool in the `pool` label, as
  the examples set it; `PoolMatch` shows what happens otherwise.
* A pod may be pending for want of resources whatever nodes there are. What message
  the scheduler gives for a pool without nodes is the scheduler's matter.
* The console issues no token that a call still holds.
* `min_nodes` and `max_nodes` are naturals (`Config.Validate`).

## The runs

| run | asks | instance | result |
| --- | --- | --- | --- |
| `ScaleUpSafe` | Do plans and the tracker stay within limits? What alone takes a pool past its maximum? | 1 pool, maximum 2, 3 names, up to 3 pods | holds: `TypeOK`, `PlanWithinLimits`, `TrackerWithinMax`, `EntriesHaveCreators`, `OverMaxOnlyOverlooked` |
| `ScaleUpOverMax` | Is `max_nodes` an upper bound, on a day without failures? | 1 pool, maximum 1, 2 names, 1 pod | **violated**: `MaxNodesRespected` |
| `ScaleDownSafe` | Is a VM terminated only drained, cordoned, old? Which run on without a node? Does a surplus go? | 2 nodes, no minimum, 2 workloads, one protected, all faults | holds: `TypeOK`, `TerminatedEmpty`, `TerminatedAsChosen`, `OrphansKept`, `SurplusGoes` |
| `ScaleDownMinimum` | Is the minimum kept when no failure is half done, though lookups may miss? Do ticks get on, and end, whatever is refused? | 3 nodes, minimum 1, 1 protected workload | holds: `MinNodesRespected`, `TickAdvances`, `TickEnds` |
| `ScaleDownBelowMin` | Is `min_nodes` a lower bound, if a `Delete` fails? | 2 nodes, minimum 1 | **violated**: `MinNodesRespected` |
| `ScaleDownStranded` | Is a failed drain retried? | 2 nodes, 1 protected workload | **violated**: `DrainRetried` |
| `CmdWatcherShared` | Is there one goroutine, one result per wait, a true one? | 3 waits, 2 commands (two waits share one), 2 goroutine names | holds: `TypeOK`, `OneRunner`, `TrackedUnanswered`, `Truthful`, `WaitsAsPromised` |
| `CmdWatcherOwn` | Is nobody forgotten, does every wait return, does the goroutine go? | 2 waits, a command each | holds: `Unforgotten`, `WaitsReturn`, `RunnerGoes` |
| `RestClientServes` | Is nothing ordered twice or reported falsely, and does everything end? | a client with one retry, one more console call, 4 tokens | holds: `ConsoleTypeOK`, `SecondRefusalExplained`, `RetryIsFresh`, `CallAdvances`, `CallsReturn`, `RestTypeOK`, `OrdersBounded`, `SuccessIsReal`, `OperationAdvances`, `OrdersAsPromised`, `OperationsReturn` |
| `ConsoleTokenHangs` | Does a call with a deadline end beside one without? | 2 calls, one without a deadline | **violated**: `CallsReturn` |
| `ControlLoopServes` | Do ticks keep apart, is a pool served, does the loop stop? | 1 pool, maximum 1, 2 names, one hung | holds: `LoopTypeOK`, `OneTickAtATime`, `ShutsDown`, `DemandServed` |
| `PoolMatchUnlabelled` | Does a tick keep to `max_nodes` by what it has before it, under every valid configuration? | 1 pool, maximum 1, with the label or without; 2 pods, 3 names | **violated**: `StartedWithinMax` |

**Why the bounds are enough.** Three names over a maximum of two leave room for a
creation that outlives its entry, an orphaned VM and a new creation at once.
Demand may exceed the maximum, equal it and fall below what is in flight. Three
nodes over a minimum of one (`ScaleDownMinimum`) let one tick remove two, the second
with a stale count; two nodes with no minimum let `ScaleDownSafe` do so under every
fault. Two workloads, one protected, give rounds in which one eviction is refused
and another is not. Three waits with two on one command give the sequence register,
cancel, register again within one tick. Two console calls are enough for one to wipe
or hold what the other needs, and four tokens for each to hold an old one, a cached
one to exist and a new one to be issued. One retry is the smallest number for which
an attempt too many shows; a stray of each attempt fits. One name of two that hangs
is the smallest instance of a pool that must be served past a hung creation. The
safety results are proved for all sizes, several pools included. Deadlock is checked
except in the watcher's runs: when every caller has returned, the goroutine has gone
and the commands have ended, nothing is left to happen; a loop that has stopped
leaves its surroundings moving. Names and nodes are declared symmetric in safety
runs only, goroutines where the abstract specification does not name them.

### The disagreements

* **`max_nodes` can be exceeded** (`ScaleUpOverMax`; README.md:198,
  `scale_up.go:81`). The entry of a creation is removed when the VM is provisioned;
  its node is listed when the kubelet joins, minutes later. A tick in between counts
  it nowhere. Nothing else leads there: `OverMaxOnlyOverlooked`, proved for all sizes,
  says that no order of lost replies, late requests, expiries and restarts takes a pool
  past its maximum, only a plan whose two counts, together, miss one of its VMs.
* **`min_nodes` can be undercut** (`ScaleDownBelowMin`; README.md:197,
  `scale_down.go:49-53`). `byPool` is decremented only when everything succeeded,
  but the VM is gone before the last call.
* **A failed drain is not retried** (`ScaleDownStranded`; `scale_down.go:14-16`,
  `drain.go:19`). The cordon stays; the pods that made the drain fail make the node
  not idle, so that no later tick drains it, and no new pod can use it.
* **A deadline does not hold behind the mutex** (`ConsoleTokenHangs`; `client.go:147`,
  `console_client.go:64`). A lookup under the process's context that hangs in POST
  /authenticate keeps the mutex; the watcher's tick, which has 30 s, waits for it, and
  with it every wait for a command.
* **A pool may outgrow `max_nodes` uncounted** (`PoolMatchUnlabelled`; README.md:191
  and 198, `scale_up.go:158`). The label that the count goes by is whatever
  `node_labels` says, and nothing requires it to name the pool. A tick then orders a
  node although the pool's only one is in its own listing. This is not the gap of
  `ScaleUpOverMax`, where the VM is in neither count: the property asks only about nodes
  that the tick listed or tracks.

Differences that were noticed and have no run:

* `controller.go:33-38` says that a scale-down tick that fires while one is running is
  silently skipped, by `TryLock`. `Run` calls `runScaleDown` in its own goroutine, so
  `TryLock` never fails: the tick waits in the ticker's channel and runs as soon as
  the long one has returned (further ones are dropped). `ControlLoop` models it.
* `scale_down.go:58-60` says that a server that is not found is already gone or never
  existed. One that runs and is missing from that one listing loses its Node object all
  the same, and no later tick looks for it: the exception in `OrphansKept`.
* `client.go:13-14` says that reads of the queue and the server list retry on 5xx and
  transport errors; `bearerGetOnce` does not retry, only a 401 is.
* `drain.go:14-15` says that the pods *on the node* are evicted. `Evict`
  (`kubeclient.go:123-129`) names the pod, not its UID: one that was recreated under
  its name elsewhere after the listing is evicted there. `ScaleDown` models it.
* `pool_match.go:36-41` compares the match with Kubernetes' own. A pool whose selector
  is `a=1` matches a pod that asks for `a=1,b=2`, and the node it gets need not have
  `b`; `PoolMatch` models it.
* `client.go:236-238` calls a second terminate harmless. It may be answered by a 4xx,
  after the first one took effect and its answer was lost: `TerminateServer` then
  reports a failure, which `ScaleDown` has as `TerminateReplyLost`.

## Fairness

* `ControlLoop` (and with it `ScaleUp`, which states none of its own). A select with
  several cases ready passes none over for ever: Go chooses at random (`SF` of
  `SelectUp` and `SelectDone`). Each step of a tick is taken, the calls that list may
  fail, but not for ever (`SF`), and a scale-down tick returns: its calls are answered
  and its drain has a deadline (`TickEnds`). Entries age. Of commands sent again and
  again the platform accepts some and provisions some. Creations that may hang
  (`Hung`: the POST has no deadline) have no fairness. `DemandServed` is asked of runs
  that nobody stops; `ShutsDown` of runs in which the finite set of names, which the
  code does not have, does not run out (`NamesLeft`).
* `ScaleDown`. `LoopFairness` is only that calls are answered, in any way, and that
  time passes: `TickEnds` needs no more. `Fairness` adds that no call fails for
  ever (`SF` of each step's success), and commands end. It does not say that nodes
  grow old, that budgets give way, nor that pods finish: `SurplusGoes` asks only about
  pools whose nodes are all old and idle. `ScaleDownStranded` adds that nodes do grow
  old and pods that are leaving go (`AgingSpec`), so that its counterexample owes
  nothing to their not doing so. Its premise is that from some point on no
  tick is cut short by a crash (`Interrupted`); a restart between ticks is harmless.
* `CmdWatcher`. A goroutine's calls end, because of the tick's own context of 30 s
  if not before, with any answer; deadlines pass; a select with a ready case takes
  one. That a tick's call ends assumes that no other call of the console client holds
  its mutex for ever, which `ConsoleTokenHangs` shows is not a matter of course.
* `ConsoleToken`, `RestClient`. The mutex is fair: `sync.Mutex` hands over to a waiter
  of more than 1 ms (`SF` of the steps that lock). The requests of the calls in
  `Ending` are answered or end with their context; POSTs end, sleeps are over and the
  deadline of a recovery passes. The list may never show the VM, lookups may always
  fail, and tokens may rotate for ever.

## The proofs

`tlapm` checks every theorem below for all values of the constants that satisfy the
named assumptions of the modules. Each follows the same line: an invariant `IInv`
that holds initially and is kept by each group of actions (one lemma per group, one
step per action), `Spec => []IInv` by temporal reasoning, and the property from
`IInv`.

* `ScaleUpProofs`: `TypeCorrect`, `PlansWithinLimits`, `TrackerBounded`,
  `NoOrphanEntries`. Neither bound is inductive alone: that the tracker stays within
  the maximum when a name is added follows from what was planned, so
  `PlanWithinLimits` is carried from the count to the last `Add`; removals and
  expiries only shrink the counts (`PoolShrinks`), an addition takes one from the
  plan and adds at most one to the count (`PoolGrows`). `QuietOutsidePlan` says that
  no plan survives its tick. `OverMaxOnlyByPlan` and, of whole behaviours,
  `MaxNodesConditional` go by the pool's *load*: its VMs, the POSTs that may still
  become one, and what the tick has yet to start. Starting a creation moves one from
  the plan to the POSTs (`StartKeepsLoad`), arrivals, losses and restarts only shrink
  it (`LoadShrinks`), and a plan made from counts that miss nothing fits
  (`PlanKeepsLoad`).
* `ScaleDownProofs`: `TypeCorrect`, `NothingLostInTermination`, `TerminationAsChosen`.
  `Chosen` carries the guards of the choice to the terminate command; `Drained` carries
  the empty listing, which is stable because the node is cordoned. `MinimumKept`, under
  `Faults = {}`, adds `Counted` (a pool has at least the nodes `byPool` says) and
  `AtWork` (a registered node other than the one being removed has its VM); a node
  leaves service by its terminate command or, if the lookup missed its VM, by the
  deletion of its object, and in both cases it is the one that was chosen
  (`OnlyRemovalEnds`). `ScaleDownBelowMin` shows why the hypothesis is needed.
  `OrphansExplained` adds `ToldToGo`: from the lookup or the command to the deletion of
  the object, its VM is gone, going, was told to go, or was not found. `TicksAdvance`
  orders what is left of a tick by the nodes still to visit, the deadline, the step, and
  the pods still to evict in the round; it needs `LateRemoving`, that a deadline which
  has passed is that of the node being removed.
* `CmdWatcherProofs`: `TypeCorrect`, `OneRunnerAlways`, `NoSecondResult`,
  `ResultsTruthful`. `RunnerInv` ties `running` to the goroutine; `DoneTrue` says that
  what a tick has found stays true while it calls the console, because deadlines stay
  passed and commands ended. `ImplementsAsyncWait` is the step simulation: each group of
  actions is a step of `AsyncWait` or none under the mapping. `NobodyForgotten` assumes
  that no two waits are for one command: otherwise `cancel`, which deletes by command id
  (`watcher.go:116-120`), may drop the wait of another caller.
* `ConsoleTokenProofs`: `ConsoleTypeCorrect`, `SecondRefusalsExplained`, `RetriesFresh`.
  Beside the types, the invariant relates, for a call past its wipe, the cached token,
  the token it was refused with and `disturbed`, at each place the call may be.
  `CallsAdvance` bounds a call by ten steps.
* `RestClientProofs`: `RestIsConsole` (`RestSpec => ConsoleSpec`, so that the theorems
  on the token hold unchanged: `TokenSafeHere`), `RestTypeCorrect`, `NoDoubleOrder`,
  `SuccessesReal`. `OrdersBounded` is strengthened by counting the current attempt: what
  was taken and what strays is less than the number of attempts made until the current
  one is sent. `OperationsAdvance` orders an operation's stages by the attempt and the
  distance to its end. `ImplementsServerOrder` is the step simulation: a move between
  stages is a success, a failure, a doubt or nothing to the caller (`MoveIsOrder`);
  `Counted` gives the guards of `Accept` and `GiveUpOn`, `Taken` that of `Succeed`.
* `ControlLoopProofs`: `TicksApart`, `LoopTypeCorrect`, and `LoopImplementsScaleUp`
  (`LoopSpec => Spec`), from which `LoopWithinMax` and `LoopOverMaxOnlyByPlan` carry
  `ScaleUp`'s theorems over to the loop.
* `PoolMatchProofs`, under `Labelled`. `CountsExact` and `OwnerFound`: the nodes counted
  for a pool are those generated for it, and `poolForNode` finds the pool a node was
  generated for, because `Validate` refuses two pools of one name.
  `StartsWithinMaxIfLabelled` (`Labelled` makes `StartedWithinMax` hold): what a plan
  has still to start fits beside the nodes listed and the names tracked (`Room`). A plan
  makes room from one count (`PlanLeavesRoom`), each start takes one place of it
  (`StartTakesRoom`), and entries that go or nodes that move take none
  (`OthersLeaveRoom`). It does not bound the nodes there are: those in neither count are
  `ScaleUp`'s subject, where `MaxNodesConditional` says what does and `ScaleUpOverMax`
  what happens.

The assumptions: `Names` and `Nodes` are finite, `PoolOf` and `CommandOf` are
functions, maxima, minima and retries are naturals, clients are among the calls,
`Nobody`, `None` and `Empty` differ from what they stand beside. `PoolMatchProofs`
assumes finite sets of pods and names and that configurations are lists of pools.

`TicksAdvance`, `CallsAdvance` and `OperationsAdvance` are the safety half of
termination: every step that is taken leads on, and what remains is well-founded (but
for the lookups of a recovery before its deadline). That a step is taken in the end is
fairness, and left to TLC.

**Model-checked only**: the liveness properties (`DemandServed`, `ShutsDown`,
`TickEnds`, `SurplusGoes`, `WaitsReturn`, `RunnerGoes`, `CallsReturn`,
`OperationsReturn`), since the prover does not handle fairness, and of course the
violations.

## Not modelled

* Parsing of the YAML file, the environment and the kubeconfig, the search for
  reserved keys, the checks of strings and sizes (`config.go`, `reserved.go`), the
  cloud-init template, logging and the wiring in `main`: sequential, no state that
  changes, and a test reaches what they do.
* The decoding of answers (`decodeCommandID`, `decodeQueueStatuses`) beyond its
  outcomes, an id or an error.
* The text of the scheduler's message that `isPendingForResources` searches: a pod is
  pending for resources or is not.
* `ScaleUp` and `ScaleDown` are not composed in full: `ControlLoop` runs the whole of the
  first against a scale-down tick that only removes nodes. The ticks never overlap
  (`TicksApart`) and share no variable of the process, and each half has the other's
  effects in its environment.
