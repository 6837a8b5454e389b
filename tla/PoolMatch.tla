------------------------------ MODULE PoolMatch ------------------------------
(***************************************************************************)
(* Which pool a pod asks for and which pool a node belongs to              *)
(* (internal/controller/pool_match.go), and what scaleUp's ticks make of   *)
(* the two counts with a configuration that Config.Validate has accepted   *)
(* (internal/config/config.go).                                            *)
(*                                                                         *)
(* Pods are matched by pod_selector and nodes by their label "pool", which *)
(* they have only if node_labels, a third setting, puts it there.  ScaleUp *)
(* is the same tick with the matching taken as right, and with all that    *)
(* the creations and the platform do.                                      *)
(***************************************************************************)
EXTENDS Integers, Sequences, FiniteSets

CONSTANTS
  Configs,     \* the configurations that may be loaded: sequences of pools
  Pods,        \* pods
  SelectorOf,  \* spec.nodeSelector of each pod: a function from keys to values
  Names,       \* node names; a name is recycled once nothing refers to it
  Absent       \* the value of a label that is not there

VARIABLES
  cfg,      \* Controller.cfg.Pools
  waiting,  \* cluster: the pods that are pending for resources
  servers,  \* platform: the names whose VM exists, or may yet
  joined,   \* cluster: the names with a Node object
  builtBy,  \* the index of the pool each name was generated for, or 0
  tracked,  \* PendingTracker: the names in flight
  pc,       \* where the scaleUp tick is
  pending,  \* scaleUp: the pods listed
  nodes,    \* scaleUp: the nodes listed
  left,     \* scaleUp: the pools the range over pendingByPool has not reached
  pool,     \* scaleUp: the pool being filled, or 0
  toCreate  \* scaleUp: the creations still to start for it

cluster == <<waiting, servers, joined>>
tick    == <<pc, pending, nodes, left, pool, toCreate>>
vars    == <<cfg, waiting, servers, joined, builtBy, tracked,
             pc, pending, nodes, left, pool, toCreate>>

-----------------------------------------------------------------------------
(***************************************************************************)
(* Matching.                                                               *)
(***************************************************************************)
Value(labels, k) == IF k \in DOMAIN labels THEN labels[k] ELSE Absent

\* labels.Selector.Matches: a selector gives the values each of its keys may have,
\* Absent among them for "!key", "!=" and "notin".
Matches(selector, labels) == \A k \in DOMAIN selector : Value(labels, k) \in selector[k]

\* Of what Validate asks, the part that matters here; the rest is about strings.
Validate(pools) ==
  /\ pools # <<>>
  /\ \A i \in DOMAIN pools :
       /\ pools[i].name # Absent
       /\ 0 <= pools[i].min /\ pools[i].min <= pools[i].max
       /\ \A j \in DOMAIN pools : pools[j].name = pools[i].name => j = i

\* The first index of a set of them; 0 stands for nil.
First(S) == IF S = {} THEN 0 ELSE CHOOSE i \in S : \A j \in S : i <= j

PoolByName(name) == First({i \in DOMAIN cfg : cfg[i].name = name})

\* poolForPod: the first pool whose selector matches the pod's nodeSelector, which
\* must not be empty.
PoolForPod(p) ==
  IF DOMAIN SelectorOf[p] = {} THEN 0
  ELSE First({i \in DOMAIN cfg : Matches(cfg[i].selector, SelectorOf[p])})

\* The labels of a node are those its cloud-init was rendered with.
LabelsOf(n) == cfg[builtBy[n]].labels

PoolForNode(n) == PoolByName(Value(LabelsOf(n), "pool"))

\* groupPendingByPool and countNodesByPool, for one pool, of the pods or nodes given.
Pending(S, i) == Cardinality({p \in S : PoolForPod(p) = i})
Counted(S, i) == Cardinality({n \in S : Value(LabelsOf(n), "pool") = cfg[i].name})

\* What was generated for a pool, among the names given.
BuiltFor(S, i) == {n \in S : builtBy[n] = i}

\* PendingTracker.Count: it is told the pool of each entry.
InFlight(i) == Cardinality(BuiltFor(tracked, i))

Fresh(n) == n \notin servers \cup joined \cup tracked \cup nodes

Least(a, b)  == IF a < b THEN a ELSE b
AtLeastZero(a) == IF a < 0 THEN 0 ELSE a

Init ==
  /\ cfg \in {pools \in Configs : Validate(pools)}
  /\ waiting = {}
  /\ servers = {}
  /\ joined = {}
  /\ builtBy = [n \in Names |-> 0]
  /\ tracked = {}
  /\ pc = "idle"
  /\ pending = {}
  /\ nodes = {}
  /\ left = {}
  /\ pool = 0
  /\ toCreate = 0

-----------------------------------------------------------------------------
(***************************************************************************)
(* The tick.                                                               *)
(***************************************************************************)
ListPendingPods ==
  /\ pc = "idle"
  /\ pc' = "listNodes"
  /\ pending' = waiting
  /\ UNCHANGED <<cfg, cluster, builtBy, tracked, nodes, left, pool, toCreate>>

ListNodes ==
  /\ pc = "listNodes"
  /\ pc' = "plan"
  /\ nodes' = joined
  /\ left' = {i \in DOMAIN cfg : Pending(pending, i) > 0}
  /\ UNCHANGED <<cfg, cluster, builtBy, tracked, pending, pool, toCreate>>

\* The plan for one pool, from one count of what is in flight.
PlanPool(i) ==
  /\ pc = "plan"
  /\ pool = 0
  /\ i \in left
  /\ left' = left \ {i}
  /\ toCreate' = AtLeastZero(Least(cfg[i].max - (Counted(nodes, i) + InFlight(i)),
                                   Pending(pending, i) - InFlight(i)))
  /\ pool' = IF toCreate' = 0 THEN 0 ELSE i
  /\ UNCHANGED <<cfg, cluster, builtBy, tracked, pc, pending, nodes>>

\* generateNodeName, Add, and the start of createNode.
StartCreate(n) ==
  /\ pool # 0
  /\ Fresh(n)
  /\ builtBy' = [builtBy EXCEPT ![n] = pool]
  /\ tracked' = tracked \cup {n}
  /\ servers' = servers \cup {n}
  /\ toCreate' = toCreate - 1
  /\ pool' = IF toCreate' = 0 THEN 0 ELSE pool
  /\ UNCHANGED <<cfg, waiting, joined, pc, pending, nodes, left>>

\* The range is over, or the nodes could not be listed.
TickEnds ==
  /\ \/ pc = "listNodes"
     \/ pc = "plan" /\ pool = 0 /\ left = {}
  /\ pc' = "idle"
  /\ pending' = {}
  /\ nodes' = {}
  /\ UNCHANGED <<cfg, cluster, builtBy, tracked, left, pool, toCreate>>

\* A creation returns or its entry ages: the entry goes, and so does all hope of
\* the VM if the creation came to nothing.
EntryGoes(n) ==
  /\ n \in tracked
  /\ tracked' = tracked \ {n}
  /\ servers' = servers \/ (n \notin joined /\ servers' = servers \ {n})
  /\ UNCHANGED <<cfg, waiting, joined, builtBy, tick>>

-----------------------------------------------------------------------------
(***************************************************************************)
(* The cluster.                                                            *)
(***************************************************************************)

\* A kubelet registers its node, with the labels of its cloud-init.
Joins(n) ==
  /\ n \in servers \ joined
  /\ joined' = joined \cup {n}
  /\ UNCHANGED <<cfg, waiting, servers, builtBy, tracked, tick>>

\* A node is removed, by scaleDown or by hand.
Leaves(n) ==
  /\ n \in joined
  /\ joined' = joined \ {n}
  /\ servers' = servers \ {n}
  /\ UNCHANGED <<cfg, waiting, builtBy, tracked, tick>>

\* A pod finds no node that matches its nodeSelector and has room: it is pending,
\* unschedulable, for want of resources (isPendingForResources).
Waits(p) ==
  /\ p \notin waiting
  /\ waiting' = waiting \cup {p}
  /\ UNCHANGED <<cfg, servers, joined, builtBy, tracked, tick>>

\* The scheduler binds it to a node with every label it asks for.
Bind(p) ==
  /\ p \in waiting
  /\ \E n \in joined : \A k \in DOMAIN SelectorOf[p] :
       Value(LabelsOf(n), k) = SelectorOf[p][k]
  /\ waiting' = waiting \ {p}
  /\ UNCHANGED <<cfg, servers, joined, builtBy, tracked, tick>>

Next ==
  \/ ListPendingPods \/ ListNodes \/ TickEnds
  \/ \E i \in DOMAIN cfg : PlanPool(i)
  \/ \E n \in Names : StartCreate(n) \/ EntryGoes(n) \/ Joins(n) \/ Leaves(n)
  \/ \E p \in Pods : Waits(p) \/ Bind(p)

Spec == Init /\ [][Next]_vars

-----------------------------------------------------------------------------
(***************************************************************************)
(* Safety.                                                                 *)
(***************************************************************************)

\* README.md:191, name: "used as the K8s label `pool=<name>`".  Every pool of the
\* configuration gives its nodes that label.
Labelled == \A i \in DOMAIN cfg : Value(cfg[i].labels, "pool") = cfg[i].name

\* README.md:198, max_nodes: "the autoscaler will not provision above this".  No
\* creation is started that takes a pool above its maximum by what the tick has
\* before it: the nodes it listed and those in flight.  (Nodes in neither, those
\* that joined after the listing, are ScaleUp's matter.)
StartedWithinMax ==
  [][\A i \in DOMAIN cfg :
       BuiltFor(tracked, i)' \subseteq BuiltFor(tracked, i)
       \/ Cardinality(BuiltFor(nodes \cup tracked, i)') <= cfg[i].max]_vars

=============================================================================
