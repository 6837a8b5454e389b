------------------------------- MODULE ScaleUp -------------------------------
(***************************************************************************)
(* The scale-up half of the control loop: the ticks of Controller.scaleUp  *)
(* (internal/controller/scale_up.go), the PendingTracker they consult      *)
(* (pending.go) and the createNode goroutines they start, one per new VM.  *)
(*                                                                         *)
(* The loop runs one tick at a time, but a tick is not atomic: it lists    *)
(* the pending pods, lists the nodes, and only then, pool by pool, locks   *)
(* the tracker to count what is in flight and to add to it.  Creations     *)
(* that started in earlier ticks, the platform, and the cluster move       *)
(* between any two of these steps.                                         *)
(***************************************************************************)
EXTENDS Integers, FiniteSets

CONSTANTS
  Pools,      \* names of the configured pools
  Names,      \* node names; a name is recycled once nothing refers to it
  PoolOf,     \* the pool a name is generated for: generateNodeName prefixes it
  MaxNodes,   \* pool.MaxNodes
  MaxDemand   \* bound: pending pods of one pool

ASSUME NamesAssumption  == IsFiniteSet(Names)
ASSUME PoolOfAssumption == PoolOf \in [Names -> Pools]
ASSUME MaxAssumption    == MaxNodes \in [Pools -> Nat]   \* Config.Validate
ASSUME DemandAssumption == MaxDemand \in Nat

VARIABLES
  demand,    \* cluster: resource-pending pods that select each pool
  server,    \* platform and cluster: the VM of each name
  entries,   \* PendingTracker.entries: the names in flight
  aged,      \* the entries whose age exceeds the TTL
  create,    \* where the createNode goroutine of each name is
  pc,        \* where the scaleUp tick is
  wanted,    \* scaleUp: pendingByPool, as listed
  current,   \* scaleUp: nodesByPool, as listed
  todo,      \* scaleUp: the pools the range over pendingByPool has not reached
  toCreate   \* scaleUp: creations still to start, for the pool being filled

cluster == <<demand, server>>
tracker == <<entries, aged>>
tick    == <<pc, wanted, current, todo, toCreate>>
vars    == <<demand, server, entries, aged, create,
             pc, wanted, current, todo, toCreate>>

(***************************************************************************)
(* "astray": nobody awaits the reply to the POST any more, which may still *)
(* reach the platform; "ordered": the platform accepted the create         *)
(* command; "up": the server is provisioned and listed by GET /servers;    *)
(* "joined": its kubelet has registered the Node object with the pool      *)
(* label.                                                                  *)
(***************************************************************************)
ServerState == {"none", "astray", "ordered", "up", "joined"}

\* "posting": in POST /service/server, not yet seen by the platform; "posted":
\* still in it, the command accepted; "recovering": in recoverByName;
\* "waiting": in WaitProvision.
CreateState == {"idle", "posting", "posted", "recovering", "waiting"}

InPool(S, p) == {n \in S : PoolOf[n] = p}
Joined       == {n \in Names : server[n] = "joined"}
Nothing      == [p \in Pools |-> 0]
Least(a, b)  == IF a < b THEN a ELSE b

\* A name no goroutine, entry or server bears: what generateNodeName returns.
Fresh(n) == create[n] = "idle" /\ server[n] = "none" /\ n \notin entries

TypeOK ==
  /\ demand   \in [Pools -> 0 .. MaxDemand]
  /\ server   \in [Names -> ServerState]
  /\ entries  \subseteq Names
  /\ aged     \subseteq entries
  /\ create   \in [Names -> CreateState]
  /\ pc       \in {"idle", "listNodes", "plan"}
  /\ wanted   \in [Pools -> 0 .. MaxDemand]
  /\ current  \in [Pools -> Nat]
  /\ todo     \subseteq Pools
  /\ toCreate \in [Pools -> Nat]

Init ==
  /\ demand  \in [Pools -> 0 .. MaxDemand]
  /\ server  = [n \in Names |-> "none"]
  /\ entries = {}
  /\ aged    = {}
  /\ create  = [n \in Names |-> "idle"]
  /\ pc      = "idle"
  /\ wanted  = Nothing
  /\ current = Nothing
  /\ todo    = {}
  /\ toCreate = Nothing

-----------------------------------------------------------------------------
(***************************************************************************)
(* PendingTracker.  Each method is one critical section of its mutex.  Add *)
(* and Count first drop the entries older than the TTL (gcLocked).         *)
(***************************************************************************)
\* Mutant: gcLocked is never reached.
LiveKeepsAged == entries

Live == entries \ aged

Count(p) == Cardinality(InPool(Live, p))

Collect == entries' = Live /\ aged' = {}

Add(n) == entries' = Live \cup {n} /\ aged' = {}

Remove(n) == entries' = entries \ {n} /\ aged' = aged \ {n}

-----------------------------------------------------------------------------
(***************************************************************************)
(* The tick.                                                               *)
(***************************************************************************)

\* The ticker fires and ListPendingPods answers; the pods are grouped by pool.
ListPendingPods ==
  /\ pc = "idle"
  /\ pc' = "listNodes"
  /\ wanted' = demand
  /\ UNCHANGED <<cluster, tracker, create, current, todo, toCreate>>

\* ListNodes answers, later: the nodes of each pool are counted and the range
\* over pendingByPool, in no particular order, begins.
ListNodes ==
  /\ pc = "listNodes"
  /\ pc' = "plan"
  /\ current' = [p \in Pools |-> Cardinality(InPool(Joined, p))]
  /\ todo' = {p \in Pools : wanted[p] > 0}
  /\ UNCHANGED <<cluster, tracker, create, wanted, toCreate>>

EndTick ==
  /\ pc' = "idle"
  /\ wanted' = Nothing
  /\ current' = Nothing
  /\ UNCHANGED <<cluster, tracker, create, todo, toCreate>>

\* ListNodes fails (a failing ListPendingPods leaves no trace): the tick ends.
ListNodesFails == pc = "listNodes" /\ EndTick

\* Mutant: no early return for a pool at or over its maximum.
PlannedAtMax(p) ==
  LET inFlight == Count(p)
      capacity == MaxNodes[p] - (current[p] + inFlight)
      needed   == wanted[p] - inFlight
  IN  IF needed <= 0 THEN 0 ELSE Least(needed, capacity)

\* Mutant: the capacity does not count the nodes in flight.
PlannedBlind(p) ==
  LET inFlight == Count(p)
      capacity == MaxNodes[p] - current[p]
      needed   == wanted[p] - inFlight
  IN  IF capacity <= 0 \/ needed <= 0 THEN 0 ELSE Least(needed, capacity)

\* Mutant: toCreate is not cut down to the capacity.
PlannedUncapped(p) ==
  LET inFlight == Count(p)
      capacity == MaxNodes[p] - (current[p] + inFlight)
      needed   == wanted[p] - inFlight
  IN  IF capacity <= 0 \/ needed <= 0 THEN 0 ELSE needed

\* How many nodes to create in pool p, given the listed pods and nodes and the
\* entries in flight now.
Planned(p) ==
  LET inFlight == Count(p)
      capacity == MaxNodes[p] - (current[p] + inFlight)
      needed   == wanted[p] - inFlight
  IN  IF capacity <= 0 \/ needed <= 0 THEN 0 ELSE Least(needed, capacity)

\* One iteration of the range.
PlanPool(p) ==
  /\ pc = "plan"
  /\ toCreate = Nothing
  /\ p \in todo
  /\ toCreate' = [toCreate EXCEPT ![p] = Planned(p)]
  /\ todo' = todo \ {p}
  /\ Collect
  /\ UNCHANGED <<cluster, create, pc, wanted, current>>

\* One iteration of the inner loop: a new name is tracked and its goroutine
\* started.
StartCreate(p, n) ==
  /\ pc = "plan"
  /\ toCreate[p] > 0
  /\ PoolOf[n] = p
  /\ Fresh(n)
  /\ Add(n)
  /\ create' = [create EXCEPT ![n] = "posting"]
  /\ toCreate' = [toCreate EXCEPT ![p] = @ - 1]
  /\ UNCHANGED <<cluster, pc, wanted, current, todo>>

\* The generated name is already in the tracker: Add refuses it and the
\* iteration is skipped.
NameTaken(p, n) ==
  /\ pc = "plan"
  /\ toCreate[p] > 0
  /\ n \in InPool(Live, p)
  /\ Collect
  /\ toCreate' = [toCreate EXCEPT ![p] = @ - 1]
  /\ UNCHANGED <<cluster, create, pc, wanted, current, todo>>

TickDone ==
  /\ pc = "plan"
  /\ toCreate = Nothing
  /\ todo = {}
  /\ EndTick

Tick ==
  \/ ListPendingPods
  \/ ListNodes
  \/ ListNodesFails
  \/ \E p \in Pools : PlanPool(p)
  \/ \E p \in Pools, n \in Names : StartCreate(p, n) \/ NameTaken(p, n)
  \/ TickDone

-----------------------------------------------------------------------------
(***************************************************************************)
(* createNode(n).  Whatever the outcome, its deferred Remove drops the     *)
(* entry when it returns.                                                  *)
(***************************************************************************)
Return(n) ==
  /\ create' = [create EXCEPT ![n] = "idle"]
  /\ Remove(n)

\* The platform takes the command; the reply is still to come, and may take as
\* long as the VM does.
OrderArrives(n) ==
  /\ create[n] = "posting"
  /\ create' = [create EXCEPT ![n] = "posted"]
  /\ server' = [server EXCEPT ![n] = "ordered"]
  /\ UNCHANGED <<demand, tracker, tick>>

\* The reply carries a command id.
PostAccepted(n) ==
  /\ create[n] = "posted"
  /\ create' = [create EXCEPT ![n] = "waiting"]
  /\ UNCHANGED <<cluster, tracker, tick>>

\* Mutant: an early return that does not remove the entry.
PostFailsKeepsEntry(n) ==
  /\ create[n] \in {"posting", "posted"}
  /\ create' = [create EXCEPT ![n] = "idle"]
  /\ UNCHANGED <<cluster, tracker, tick>>

\* The POSTs the goroutines of the names of S await are left to themselves.
Abandon(S) ==
  server' = [n \in Names |-> IF n \in S /\ create[n] = "posting" THEN "astray" ELSE server[n]]

\* The cloud-init does not render, the API answers 4xx, or 2xx with a body from
\* which decodeCommandID extracts no id, or 5xx, the POST perhaps still on its way
\* behind a gateway.
PostFails(n) ==
  /\ create[n] \in {"posting", "posted"}
  /\ Return(n)
  /\ Abandon({n}) \/ UNCHANGED server
  /\ UNCHANGED <<demand, tick>>

\* A transport failure, after the command reached the platform or before.
PostLost(n) ==
  /\ create[n] \in {"posting", "posted"}
  /\ create' = [create EXCEPT ![n] = "recovering"]
  /\ Abandon({n})
  /\ UNCHANGED <<demand, tracker, tick>>

\* recoverByName finds the server (ErrCreateRecovered), or the watcher reports
\* it provisioned.
CreateSucceeds(n) ==
  /\ create[n] \in {"recovering", "waiting"}
  /\ server[n] \in {"up", "joined"}
  /\ Return(n)
  /\ UNCHANGED <<cluster, tick>>

\* recoverByName runs out of time or meets a 4xx; WaitProvision times out or
\* learns of a failure.  The VM may exist all the same.
CreateGivesUp(n) ==
  /\ create[n] \in {"recovering", "waiting"}
  /\ Return(n)
  /\ UNCHANGED <<cluster, tick>>

CreateNode(n) ==
  \/ OrderArrives(n)
  \/ PostAccepted(n)
  \/ PostFails(n)
  \/ PostLost(n)
  \/ CreateSucceeds(n)
  \/ CreateGivesUp(n)

-----------------------------------------------------------------------------
(***************************************************************************)
(* Time, the platform and the cluster.                                     *)
(***************************************************************************)
EntryAges(n) ==
  /\ n \in Live
  /\ aged' = aged \cup {n}
  /\ UNCHANGED <<cluster, entries, create, tick>>

\* A POST nobody waits for reaches the platform, or never will.
StrayEnds(n) ==
  /\ server[n] = "astray"
  /\ \E s \in {"ordered", "none"} : server' = [server EXCEPT ![n] = s]
  /\ UNCHANGED <<demand, tracker, create, tick>>

\* The VM is provisioned.
Provisioned(n) ==
  /\ server[n] = "ordered"
  /\ server' = [server EXCEPT ![n] = "up"]
  /\ UNCHANGED <<demand, tracker, create, tick>>

\* Its kubelet joins the cluster.
Joins(n) ==
  /\ server[n] = "up"
  /\ server' = [server EXCEPT ![n] = "joined"]
  /\ UNCHANGED <<demand, tracker, create, tick>>

\* The command fails on the platform, or the node is scaled down or removed.
Leaves(n) ==
  /\ server[n] \in {"ordered", "joined"}
  /\ server' = [server EXCEPT ![n] = "none"]
  /\ UNCHANGED <<demand, tracker, create, tick>>

PodsChange(p) ==
  /\ \E d \in 0 .. MaxDemand : demand' = [demand EXCEPT ![p] = d]
  /\ UNCHANGED <<server, tracker, create, tick>>

Environment ==
  \/ \E n \in Names : \/ EntryAges(n) \/ StrayEnds(n)
                      \/ Provisioned(n) \/ Joins(n) \/ Leaves(n)
  \/ \E p \in Pools : PodsChange(p)

\* The process stops, by a crash or a signal, and starts again: the tracker,
\* the tick and the goroutines live in memory only.
Restart ==
  /\ entries' = {}
  /\ aged' = {}
  /\ create' = [n \in Names |-> "idle"]
  /\ pc' = "idle"
  /\ wanted' = Nothing
  /\ current' = Nothing
  /\ todo' = {}
  /\ toCreate' = Nothing
  /\ Abandon(Names)
  /\ UNCHANGED demand

Running == Tick \/ (\E n \in Names : CreateNode(n)) \/ Environment

Next == Running \/ Restart

Spec == Init /\ [][Next]_vars

-----------------------------------------------------------------------------
(***************************************************************************)
(* Safety.                                                                 *)
(***************************************************************************)

\* What a tick is about to start never takes the nodes it knows of, listed or
\* in flight, over the pool's maximum, nor the creations in flight over the
\* pending pods it listed, although creations return, and entries age, between
\* the count and the last Add (scaleUp's capacity and toCreate).
PlanWithinLimits ==
  \A p \in Pools : toCreate[p] > 0 =>
    LET flying == Cardinality(InPool(entries, p)) + toCreate[p]
    IN  flying <= wanted[p] /\ current[p] + flying <= MaxNodes[p]

\* However many ticks overlap a pool's slow creations, no more than MaxNodes of
\* them are in flight at once (the capacity check of scaleUp and the tracker).
TrackerWithinMax ==
  \A p \in Pools : Cardinality(InPool(entries, p)) <= MaxNodes[p]

\* No entry outlives its goroutine: every early return of createNode runs the
\* deferred Remove, and an entry is added only with a goroutine.
EntriesHaveCreators == \A n \in entries : create[n] # "idle"

\* README.md:198, max_nodes: "the autoscaler will not provision above this".
\* The VMs of a pool that exist or are ordered stay within its maximum.
MaxNodesRespected ==
  \A p \in Pools :
    Cardinality({n \in Names : PoolOf[n] = p /\ server[n] \notin {"none", "astray"}})
      <= MaxNodes[p]

\* The VMs that exist or are ordered, and those that a POST on its way may order.
Committed == {n \in Names : server[n] # "none" \/ create[n] = "posting"}

Load(p) == Cardinality(InPool(Committed, p)) + toCreate[p]

\* The nodes listed, and the entries in flight when the pool's turn comes, are
\* fewer than its VMs: one joined in between, or is booting without an entry.
Overlooked(p) == Cardinality(InPool(Committed, p)) > current[p] + Count(p)

\* Only a plan that overlooks a VM takes a pool past its maximum.  No order of
\* creations, lost replies, late requests, expiries and restarts does, and no
\* plan that counts every VM: what the nodes listed first, and the tracker read
\* last, miss between them is all there is to MaxNodesRespected.
OverMaxOnlyOverlooked ==
  [][\A p \in Pools :
       Load(p) <= MaxNodes[p] /\ Load(p)' > MaxNodes[p] => PlanPool(p) /\ Overlooked(p)]_vars

\* The same, of a whole behaviour: if no plan overlooks a VM of its pool, max_nodes
\* is kept.
MaxNodesIfNoneOverlooked ==
  [][\A p \in Pools : PlanPool(p) => ~Overlooked(p)]_vars => []MaxNodesRespected

-----------------------------------------------------------------------------
(***************************************************************************)
(* Liveness, under the fairness of ControlLoop.                            *)
(***************************************************************************)

\* pending.go:9-11: "a crashed scale-up cannot permanently poison the tracker".
\* A pool that may have nodes and keeps pending pods gets a node again and
\* again, even though some creation never returns.
PoolsServed ==
  \A p \in Pools :
    MaxNodes[p] > 0 =>
      ( <>[](demand[p] > 0) => []<>(\E n \in Joined : PoolOf[n] = p) )

=============================================================================
