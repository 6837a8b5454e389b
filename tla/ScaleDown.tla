------------------------------ MODULE ScaleDown ------------------------------
(***************************************************************************)
(* The scale-down half of the control loop: one tick of                    *)
(* Controller.scaleDown visits the listed nodes one by one                 *)
(* (internal/controller/scale_down.go), drains those that are idle and     *)
(* surplus (drain.go), terminates the VM and deletes the Node object.      *)
(*                                                                         *)
(* Every step is a call to another system: pods are bound, finish and      *)
(* leave, nodes join, commands fail and the process crashes between any    *)
(* two of them, while the tick works from what it listed when it began.    *)
(***************************************************************************)
EXTENDS Integers, FiniteSets

CONSTANTS
  Nodes,      \* node names; a name is recycled once nothing refers to it
  Pools,      \* names of the configured pools
  PoolOf,     \* the value of a node's "pool" label, or anything else
  MinNodes,   \* pool.MinNodes
  Workloads,  \* pods that a drain evicts
  Protected,  \* workloads whose eviction a PodDisruptionBudget may refuse
  Nobody,     \* no node
  Faults      \* failures that leave their work half done and may happen

\* "delete": the Node object is not deleted, or is but the reply is lost;
\* "terminate": the VM is terminated but the reply says otherwise or nothing;
\* "crash": the process stops and starts again.
FaultKinds == {"delete", "terminate", "crash"}

ASSUME NodesAssumption     == IsFiniteSet(Nodes) /\ Nobody \notin Nodes
ASSUME MinAssumption       == MinNodes \in [Pools -> Nat]   \* Config.Validate
ASSUME ProtectedAssumption == Protected \subseteq Workloads
ASSUME FaultsAssumption    == Faults \subseteq FaultKinds
VARIABLES
  registered,  \* cluster: the nodes with a Node object
  cordoned,    \* cluster: those marked unschedulable
  young,       \* cluster: those created less than idleThreshold ago
  at,          \* cluster: the node each pod is bound to
  phase,       \* cluster: what each bound pod is doing
  vm,          \* platform: the VM of each node
  pc,          \* where the tick is
  rest,        \* scaleDown: the listed nodes the range has not reached
  byPool,      \* scaleDown: nodes counted per pool, less those removed
  node,        \* the node being removed
  evicting,    \* drainNode: the pods of this round still to be evicted
  late         \* drainNode: the deadline has passed

cluster == <<registered, cordoned, young, at, phase>>
tick    == <<pc, rest, byPool, node, evicting, late>>
vars    == <<registered, cordoned, young, at, phase, vm,
             pc, rest, byPool, node, evicting, late>>

\* "live": pending or running, or not bound; "done": succeeded or failed; "leaving": has a
\* deletion timestamp.
Phase == {"live", "done", "leaving"}

\* "stopping": a terminate command was accepted and has not ended; "kept": it
\* ended in a failure, and the VM runs on; "missed": it runs on, and the last
\* lookup did not find it.
VMState == {"on", "missed", "stopping", "kept", "off"}
Runs    == {"on", "missed", "kept"}

Steps == {"idle", "visit", "cordon", "drain", "evict",
          "find", "terminate", "wait", "delete"}

TypeOK ==
  /\ registered \subseteq Nodes
  /\ cordoned \subseteq registered
  /\ young \subseteq registered
  /\ at \in [Workloads -> Nodes \cup {Nobody}]
  /\ phase \in [Workloads -> Phase]
  /\ vm \in [Nodes -> VMState]
  /\ pc \in Steps
  /\ rest \subseteq Nodes
  /\ byPool \in [Pools -> Nat]
  /\ node \in IF pc \in {"idle", "visit"} THEN {Nobody} ELSE Nodes
  /\ evicting \subseteq Workloads
  /\ late \in BOOLEAN

InPool(S, p) == {n \in S : PoolOf[n] = p}
Nothing      == [p \in Pools |-> 0]
On(n)        == {w \in Workloads : at[w] = n}

Init ==
  /\ registered = Nodes
  /\ cordoned = {}
  /\ young = {}
  /\ at = [w \in Workloads |-> Nobody]
  /\ phase = [w \in Workloads |-> "live"]
  /\ vm = [n \in Nodes |-> "on"]
  /\ pc = "idle"
  /\ rest = {}
  /\ byPool = Nothing
  /\ node = Nobody
  /\ evicting = {}
  /\ late = FALSE

-----------------------------------------------------------------------------
(***************************************************************************)
(* The range over the listed nodes.                                        *)
(***************************************************************************)

\* The ticker fires and ListNodes answers (when it fails nothing happens).
ListNodes ==
  /\ pc = "idle"
  /\ pc' = "visit"
  /\ rest' = registered
  /\ byPool' = [p \in Pools |-> Cardinality(InPool(registered, p))]
  /\ UNCHANGED <<cluster, vm, node, evicting, late>>

\* Mutant: a node of any age.
SurplusAnyAge(n) ==
  /\ PoolOf[n] \in Pools
  /\ byPool[PoolOf[n]] > MinNodes[PoolOf[n]]

\* Mutant: a node that is cordoned already is left alone.
SurplusUncordoned(n) ==
  /\ PoolOf[n] \in Pools
  /\ byPool[PoolOf[n]] > MinNodes[PoolOf[n]]
  /\ n \notin young \cup cordoned

\* Of a configured pool, which is above its minimum, and old enough.
Surplus(n) ==
  /\ PoolOf[n] \in Pools
  /\ byPool[PoolOf[n]] > MinNodes[PoolOf[n]]
  /\ n \notin young

\* isNodeIdle: every pod is finished or one a drain leaves alone.
Idle(n) == \A w \in On(n) : phase[w] = "done"

\* filterEvictable.
Evictable(n) == {w \in On(n) : phase[w] # "leaving"}

\* The node is not for removal: not surplus, or its pods could not be listed,
\* or some are not finished.
PassOver(n) ==
  /\ pc = "visit"
  /\ n \in rest
  /\ rest' = rest \ {n}
  /\ UNCHANGED <<cluster, vm, pc, byPool, node, evicting, late>>

\* Mutant: the node is counted out when it is chosen, and again when deleted.
ChooseCountsOut(n) ==
  /\ pc = "visit"
  /\ n \in rest
  /\ Surplus(n)
  /\ Idle(n)
  /\ rest' = rest \ {n}
  /\ node' = n
  /\ pc' = "cordon"
  /\ byPool' = [byPool EXCEPT ![PoolOf[n]] = @ - 1]
  /\ UNCHANGED <<cluster, vm, evicting, late>>

\* The node is surplus and idle: its removal begins.
Choose(n) ==
  /\ pc = "visit"
  /\ n \in rest
  /\ Surplus(n)
  /\ Idle(n)
  /\ rest' = rest \ {n}
  /\ node' = n
  /\ pc' = "cordon"
  /\ UNCHANGED <<cluster, vm, byPool, evicting, late>>

\* "continue": on to the next node; byPool keeps counting this one.
Continue ==
  /\ pc' = "visit"
  /\ node' = Nobody
  /\ evicting' = {}
  /\ late' = FALSE
  /\ UNCHANGED rest

TickDone ==
  /\ pc = "visit"
  /\ rest = {}
  /\ pc' = "idle"
  /\ byPool' = Nothing
  /\ UNCHANGED <<cluster, vm, rest, node, evicting, late>>

-----------------------------------------------------------------------------
(***************************************************************************)
(* drainNode(node).                                                        *)
(***************************************************************************)
Cordon ==
  /\ pc = "cordon"
  /\ node \in registered
  /\ cordoned' = cordoned \cup {node}
  /\ pc' = "drain"
  /\ UNCHANGED <<registered, young, at, phase, vm, rest, byPool, node, evicting, late>>

\* The deadline counts from the cordon.
DeadlinePasses ==
  /\ pc \in {"drain", "evict"}
  /\ ~late
  /\ late' = TRUE
  /\ UNCHANGED <<cluster, vm, pc, rest, byPool, node, evicting>>

\* Mutant: the deadline is not looked at.
ListPodsAtAnyTime ==
  /\ pc = "drain"
  /\ evicting' = Evictable(node)
  /\ pc' = IF evicting' = {} THEN "find" ELSE "evict"
  /\ UNCHANGED <<cluster, vm, rest, byPool, node, late>>

\* A round begins within the deadline: the pods are listed, and if none is to be
\* evicted the drain is over.
ListPodsOnNode ==
  /\ pc = "drain"
  /\ ~late
  /\ evicting' = Evictable(node)
  /\ pc' = IF evicting' = {} THEN "find" ELSE "evict"
  /\ UNCHANGED <<cluster, vm, rest, byPool, node, late>>

Unbind(w) ==
  /\ at' = [at EXCEPT ![w] = Nobody]
  /\ phase' = [phase EXCEPT ![w] = "live"]

\* Evictions name the pod, wherever it is by now.  One that is live is given
\* time to leave, one that is finished is gone at once.
Evict(w) ==
  /\ pc = "evict"
  /\ w \in evicting
  /\ evicting' = evicting \ {w}
  /\ at[w] # Nobody
  /\ IF phase[w] = "done"
       THEN Unbind(w)
       ELSE phase' = [phase EXCEPT ![w] = "leaving"] /\ UNCHANGED at
  /\ UNCHANGED <<registered, cordoned, young, vm, pc, rest, byPool, node, late>>

\* The pod is gone (404), or its budget allows no disruption now (429): it is
\* left to the next round.
EvictLater(w) ==
  /\ pc = "evict"
  /\ w \in evicting
  /\ evicting' = evicting \ {w}
  /\ at[w] = Nobody \/ (w \in Protected /\ phase[w] = "live")
  /\ UNCHANGED <<cluster, vm, pc, rest, byPool, node, late>>

\* Mutant: one round of evictions is taken for a drain.
OneRound ==
  /\ pc = "evict"
  /\ evicting = {}
  /\ pc' = "find"
  /\ UNCHANGED <<cluster, vm, rest, byPool, node, evicting, late>>

\* Mutant: the deadline counts from the round.
NextRoundAnew ==
  /\ pc = "evict"
  /\ evicting = {}
  /\ pc' = "drain"
  /\ late' = FALSE
  /\ UNCHANGED <<cluster, vm, rest, byPool, node, evicting>>

\* The backoff is over: another round.
NextRound ==
  /\ pc = "evict"
  /\ evicting = {}
  /\ pc' = "drain"
  /\ UNCHANGED <<cluster, vm, rest, byPool, node, evicting, late>>

\* The cordon, the listing or an eviction fails, or the deadline has passed.
DrainFails ==
  /\ \/ pc \in {"cordon", "drain"}
     \/ pc = "evict" /\ evicting # {}
  /\ Continue
  /\ UNCHANGED <<cluster, vm, byPool>>

-----------------------------------------------------------------------------
(***************************************************************************)
(* terminateAndDelete(node).                                               *)
(***************************************************************************)
LookedUp(s) == vm' = [vm EXCEPT ![node] = IF @ \in Runs THEN s ELSE @]

\* One listing of the servers decides: the name is there, and the VM is to be
\* terminated, or it is not, because the VM is gone, or the listing lags, or the
\* platform has given the server another name.
FindServerByName ==
  /\ pc = "find"
  /\ \/ vm[node] # "off" /\ LookedUp("on") /\ pc' = "terminate"
     \/ LookedUp("missed") /\ pc' = "delete"
  /\ UNCHANGED <<cluster, rest, byPool, node, evicting, late>>

TerminateServer ==
  /\ pc = "terminate"
  /\ vm[node] # "off"
  /\ vm' = [vm EXCEPT ![node] = "stopping"]
  /\ pc' = "wait"
  /\ UNCHANGED <<cluster, rest, byPool, node, evicting, late>>

\* The command is accepted, but its reply is lost, and the retry refused, or
\* holds no command id.
TerminateReplyLost ==
  /\ "terminate" \in Faults
  /\ pc = "terminate"
  /\ vm[node] # "off"
  /\ vm' = [vm EXCEPT ![node] = "stopping"]
  /\ Continue
  /\ UNCHANGED <<cluster, byPool>>

\* Mutant: a lookup or a command that fails is logged, like the wait, and no more.
TerminateFailsOn ==
  /\ pc \in {"find", "terminate"}
  /\ pc' = "delete"
  /\ UNCHANGED <<cluster, vm, rest, byPool, node, evicting, late>>

\* The servers cannot be listed, or the command is refused.
TerminateFails ==
  /\ pc \in {"find", "terminate"}
  /\ Continue
  /\ UNCHANGED <<cluster, vm, byPool>>

\* WaitTerminate returns.  Its error is logged and no more.
WaitTerminate ==
  /\ pc = "wait"
  /\ pc' = "delete"
  /\ UNCHANGED <<cluster, vm, rest, byPool, node, evicting, late>>

Unregister(n) ==
  /\ registered' = registered \ {n}
  /\ cordoned' = cordoned \ {n}
  /\ young' = young \ {n}
  /\ UNCHANGED <<at, phase>>

\* Mutant: the pool keeps counting the node.
DeleteUncounted ==
  /\ pc = "delete"
  /\ Unregister(node)
  /\ Continue
  /\ UNCHANGED <<vm, byPool>>

\* The Node object is deleted, and the pool counts one node less.
Delete ==
  /\ pc = "delete"
  /\ Unregister(node)
  /\ byPool' = [byPool EXCEPT ![PoolOf[node]] = @ - 1]
  /\ Continue
  /\ UNCHANGED vm

DeleteFails ==
  /\ "delete" \in Faults
  /\ pc = "delete"
  /\ Unregister(node) \/ UNCHANGED cluster
  /\ Continue
  /\ UNCHANGED <<vm, byPool>>

Tick ==
  \/ ListNodes
  \/ \E n \in Nodes : PassOver(n) \/ Choose(n)
  \/ TickDone
  \/ Cordon \/ ListPodsOnNode \/ NextRound \/ DrainFails
  \/ \E w \in Workloads : Evict(w) \/ EvictLater(w)
  \/ FindServerByName \/ TerminateServer \/ TerminateReplyLost \/ TerminateFails
  \/ WaitTerminate \/ Delete \/ DeleteFails

-----------------------------------------------------------------------------
(***************************************************************************)
(* The cluster and the platform.                                           *)
(***************************************************************************)

\* The scheduler binds a pod, of a new name or of an old one (StatefulSet).
Bind(w, n) ==
  /\ at[w] = Nobody
  /\ n \in registered \ cordoned
  /\ vm[n] \in Runs
  /\ at' = [at EXCEPT ![w] = n]
  /\ UNCHANGED <<registered, cordoned, young, phase, vm, tick>>

Finishes(w) ==
  /\ at[w] # Nobody
  /\ phase[w] = "live"
  /\ phase' = [phase EXCEPT ![w] = "done"]
  /\ UNCHANGED <<registered, cordoned, young, at, vm, tick>>

\* Somebody else deletes a live pod.
IsDeleted(w) ==
  /\ at[w] # Nobody
  /\ phase[w] = "live"
  /\ phase' = [phase EXCEPT ![w] = "leaving"]
  /\ UNCHANGED <<registered, cordoned, young, at, vm, tick>>

\* The pod has left, or is collected with its node or after its end.
Goes(w) ==
  /\ at[w] # Nobody
  /\ phase[w] # "live" \/ at[w] \notin registered \/ vm[at[w]] = "off"
  /\ Unbind(w)
  /\ UNCHANGED <<registered, cordoned, young, vm, tick>>

\* A new node joins, under a name no longer in use.
Joins(n) ==
  /\ n \notin registered \cup rest \cup {node}
  /\ vm[n] = "off"
  /\ On(n) = {}
  /\ registered' = registered \cup {n}
  /\ young' = young \cup {n}
  /\ vm' = [vm EXCEPT ![n] = "on"]
  /\ UNCHANGED <<cordoned, at, phase, tick>>

GrowsOld(n) ==
  /\ n \in young
  /\ young' = young \ {n}
  /\ UNCHANGED <<registered, cordoned, at, phase, vm, tick>>

\* A terminate command ends: the VM is gone, or the command failed.
CommandEnds(n) ==
  /\ vm[n] = "stopping"
  /\ \E s \in {"off", "kept"} : vm' = [vm EXCEPT ![n] = s]
  /\ UNCHANGED <<cluster, tick>>

Environment ==
  \/ \E w \in Workloads : \/ \E n \in Nodes : Bind(w, n)
                          \/ Finishes(w) \/ IsDeleted(w) \/ Goes(w)
  \/ \E n \in Nodes : Joins(n) \/ GrowsOld(n) \/ CommandEnds(n)

\* The process stops and starts again: the tick is forgotten.
Restart ==
  /\ "crash" \in Faults
  /\ pc # "idle"
  /\ pc' = "idle"
  /\ rest' = {}
  /\ byPool' = Nothing
  /\ node' = Nobody
  /\ evicting' = {}
  /\ late' = FALSE
  /\ UNCHANGED <<cluster, vm>>

Next == Tick \/ DeadlinePasses \/ Environment \/ Restart

Spec == Init /\ [][Next]_vars

-----------------------------------------------------------------------------
(***************************************************************************)
(* Safety.                                                                 *)
(***************************************************************************)
Terminated(n) == vm[n] \in Runs /\ vm'[n] = "stopping"

\* A VM is terminated only when nothing is left on it that a drain evicts:
\* between the last listing of its pods and the terminate command the node is
\* cordoned, and what is bound to it can only be leaving (scaleDown calls
\* terminateAndDelete only if drainNode returns nil).
TerminatedEmpty ==
  [][\A n \in Nodes : Terminated(n) => Evictable(n) = {}]_vars

\* A VM is terminated only while its node is registered, cordoned and past the
\* idle threshold, in a configured pool: the checks of one step still hold
\* several calls later.
TerminatedAsChosen ==
  [][\A n \in Nodes : Terminated(n) =>
        n \in cordoned \ young /\ PoolOf[n] \in Pools]_vars

Serving(p) == {n \in InPool(registered, p) : vm[n] \in Runs}

\* README.md:197, min_nodes: "the autoscaler will not drain below this".  A node
\* leaves service, its VM terminated or its object deleted, only in a pool with
\* more nodes at work than its minimum.
MinNodesRespected ==
  [][\A p \in Pools : \A n \in Serving(p) :
        n \notin Serving(p)' => Cardinality(Serving(p)) > MinNodes[p]]_vars

\* A VM that runs on without a Node object, which no later tick would find, is one
\* that the last lookup listed nowhere, or else one whose terminate command was
\* accepted and then failed (terminateAndDelete, which takes the first for a VM
\* already gone, logs the second and deletes the object after both).  No lookup
\* that fails, refused command, lost reply or crash leaves one behind.
OrphansKept == \A n \in Nodes \ registered : vm[n] # "on"

\* How far a step of the tick is from the next node of the range.
Stage == [idle |-> 0, visit |-> 1, delete |-> 2, wait |-> 3, terminate |-> 4,
          find |-> 5, drain |-> 6, evict |-> 7, cordon |-> 8]

Fewer(S, T) == S \subseteq T /\ S # T

\* A tick never goes back, whatever the calls answer: each of its steps reaches
\* another node, or comes closer to the next one, or evicts one pod more of a round;
\* another round begins only before the drain's deadline, which nothing extends.
TickAdvances ==
  [][pc # "idle" /\ tick' # tick =>
       \/ Fewer(rest', rest)
       \/ /\ rest' = rest
          /\ late /\ node' = node => late'
          /\ \/ ~late /\ (late' \/ pc = "drain")
             \/ Stage[pc'] < Stage[pc]
             \/ pc' = pc /\ Fewer(evicting', evicting)]_vars

-----------------------------------------------------------------------------
(***************************************************************************)
(* Liveness.                                                               *)
(***************************************************************************)

\* Every call is answered and time passes; nothing is said of the answers.
LoopFairness == WF_vars(Tick) /\ WF_vars(DeadlinePasses)

LoopSpec == Init /\ [][Next]_vars /\ LoopFairness

\* A tick ends, whatever the budgets refuse and the calls answer: no pod holds
\* the control loop for longer than the drain deadline.
TickEnds == pc # "idle" ~> pc = "idle"

\* Moreover no call fails for ever, and commands end.
Fairness ==
  /\ LoopFairness
  /\ \A n \in Nodes : SF_vars(Choose(n)) /\ WF_vars(CommandEnds(n))
  /\ SF_vars(Cordon)
  /\ SF_vars(ListPodsOnNode)
  /\ \A w \in Workloads : SF_vars(Evict(w))
  /\ SF_vars(FindServerByName)
  /\ SF_vars(TerminateServer)
  /\ SF_vars(Delete)

FairSpec == Init /\ [][Next]_vars /\ Fairness

\* Nodes grow old, and pods that are leaving go.
Aging == /\ \A n \in Nodes : WF_vars(GrowsOld(n))
         /\ \A w \in Workloads : WF_vars(Goes(w))

AgingSpec == FairSpec /\ Aging

\* A restart that cuts a tick short; one at its very end changes nothing.
Interrupted == Restart /\ ~(pc = "visit" /\ rest = {})

\* A pool does not stay above its minimum with every node old and idle: though
\* each node is removed with a fallible call per step, and after whatever a crash
\* left half done, the surplus goes unless every tick to come may be cut short.
SurplusGoes ==
  <>[][~Interrupted]_vars => \A p \in Pools :
    []<>( \/ Cardinality(InPool(registered, p)) <= MinNodes[p]
          \/ \E n \in InPool(registered, p) : n \in young \/ ~Idle(n) )

\* scale_down.go:14-16: a drain failure aborts "the operation for that node — the
\* next tick will retry".  A node left cordoned is drained again, or goes.
DrainRetried ==
  \A n \in Nodes :
    (pc = "idle" /\ n \in cordoned) ~> (n \notin cordoned \/ (pc = "drain" /\ node = n))

=============================================================================
