--------------------------- MODULE ScaleDownProofs ---------------------------
(***************************************************************************)
(* The safety of ScaleDown, for any nodes, pools, minima and workloads.    *)
(*                                                                         *)
(* The tick decides from what it read several calls ago.  The invariant    *)
(* carries its decisions to the terminate command: the node chosen stays   *)
(* surplus, old and, once cordoned, cordoned (Chosen); and once a listing  *)
(* has shown nothing to evict, nothing to evict appears (Drained).         *)
(***************************************************************************)
EXTENDS ScaleDown, FiniteSetTheorems, TLAPS

Removing == pc \notin {"idle", "visit"}

Chosen ==
  Removing =>
    /\ node \in Nodes \ young
    /\ PoolOf[node] \in Pools
    /\ byPool[PoolOf[node]] > MinNodes[PoolOf[node]]
    /\ pc # "cordon" => node \in cordoned

Drained == pc \in {"find", "terminate"} => Evictable(node) = {}

IInv == TypeOK /\ Chosen /\ Drained

-----------------------------------------------------------------------------
\* The nodes of a pool are counted by a natural number (countNodesByPool).
LEMMA PoolSize ==
  ASSUME NEW S \in SUBSET Nodes, NEW p
  PROVE  IsFiniteSet(InPool(S, p)) /\ Cardinality(InPool(S, p)) \in Nat
  <1>1. IsFiniteSet(S)
    BY NodesAssumption, FS_Subset
  <1>2. InPool(S, p) \subseteq S
    BY DEF InPool
  <1> QED
    BY <1>1, <1>2, FS_Subset, FS_CardinalityType

\* Before the first tick nothing is chosen.
LEMMA InitInvariant == Init => IInv
  <1> SUFFICES ASSUME Init PROVE IInv
    OBVIOUS
  <1>1. TypeOK
    <2>1. byPool \in [Pools -> Nat]
      BY DEF Init, Nothing
    <2> QED
      BY <2>1 DEF Init, TypeOK, Phase, VMState, Steps
  <1>2. Chosen /\ Drained
    BY DEF Init, Chosen, Drained, Removing
  <1> QED
    BY <1>1, <1>2 DEF IInv

\* The steps of the range over the nodes.
LEMMA RangeKeeps ==
  ASSUME IInv,
         \/ ListNodes
         \/ \E n \in Nodes : PassOver(n) \/ Choose(n)
         \/ TickDone
  PROVE  IInv'
  <1> USE DEF cluster
  <1>1. CASE ListNodes
    <2>1. \A p \in Pools : Cardinality(InPool(registered, p)) \in Nat
      BY PoolSize DEF IInv, TypeOK
    <2>2. TypeOK'
      BY <1>1, <2>1 DEF ListNodes, IInv, TypeOK, Steps
    <2> QED
      BY <1>1, <2>2 DEF ListNodes, IInv, Chosen, Drained, Removing
  <1>2. ASSUME NEW n \in Nodes, PassOver(n) PROVE IInv'
    BY <1>2 DEF PassOver, IInv, TypeOK, Chosen, Drained, Removing, Evictable, On
  <1>3. ASSUME NEW n \in Nodes, Choose(n) PROVE IInv'
    BY <1>3 DEF Choose, Surplus, IInv, TypeOK, Chosen, Drained, Removing, Steps
  <1>4. CASE TickDone
    BY <1>4 DEF TickDone, IInv, TypeOK, Chosen, Drained, Removing, Nothing, Steps
  <1> QED
    BY <1>1, <1>2, <1>3, <1>4

\* The steps that end the removal of a node, one way or another.
LEMMA ContinueKeeps ==
  ASSUME IInv, Continue, byPool' \in [Pools -> Nat], vm' \in [Nodes -> VMState],
         cluster' = cluster \/ (node \in Nodes /\ Unregister(node))
  PROVE  IInv'
  BY DEF Continue, Unregister, IInv, TypeOK, Chosen, Drained, Removing, Steps, cluster

\* The steps of drainNode.
LEMMA DrainKeeps ==
  ASSUME IInv,
         \/ Cordon \/ DeadlinePasses \/ ListPodsOnNode \/ NextRound \/ DrainFails
         \/ \E w \in Workloads : Evict(w) \/ EvictLater(w)
  PROVE  IInv'
  <1>1. CASE Cordon
    BY <1>1 DEF Cordon, IInv, TypeOK, Chosen, Drained, Removing, Steps
  <1>2. CASE DeadlinePasses
    BY <1>2 DEF DeadlinePasses, IInv, TypeOK, Chosen, Drained, Removing, Evictable,
                On, cluster
  <1>3. CASE ListPodsOnNode
    BY <1>3 DEF ListPodsOnNode, IInv, TypeOK, Chosen, Drained, Removing, Evictable,
                On, Steps, cluster
  <1>4. CASE NextRound
    BY <1>4 DEF NextRound, IInv, TypeOK, Chosen, Drained, Removing, Steps, cluster
  <1>5. CASE DrainFails
    BY <1>5, ContinueKeeps DEF DrainFails, IInv, TypeOK
  <1>6. ASSUME NEW w \in Workloads, Evict(w) PROVE IInv'
    BY <1>6 DEF Evict, Unbind, IInv, TypeOK, Chosen, Drained, Removing, Phase
  <1>7. ASSUME NEW w \in Workloads, EvictLater(w) PROVE IInv'
    BY <1>7 DEF EvictLater, IInv, TypeOK, Chosen, Drained, Removing, cluster
  <1> QED
    BY <1>1, <1>2, <1>3, <1>4, <1>5, <1>6, <1>7

\* The steps of terminateAndDelete.
LEMMA TerminateKeeps ==
  ASSUME IInv,
         \/ FindServerByName \/ TerminateServer \/ TerminateReplyLost
         \/ TerminateFails \/ WaitTerminate \/ Delete \/ DeleteFails
  PROVE  IInv'
  <1>1. CASE FindServerByName
    BY <1>1 DEF FindServerByName, LookedUp, IInv, TypeOK, Chosen, Drained, Removing,
                Evictable, On, Steps, VMState, Runs, cluster
  <1>2. CASE TerminateServer
    BY <1>2 DEF TerminateServer, IInv, TypeOK, Chosen, Drained, Removing, Steps,
                VMState, cluster
  <1>3. CASE TerminateReplyLost
    <2>1. vm' \in [Nodes -> VMState]
      BY <1>3 DEF TerminateReplyLost, IInv, TypeOK, VMState
    <2> QED
      BY <1>3, <2>1, ContinueKeeps DEF TerminateReplyLost, IInv, TypeOK
  <1>4. CASE TerminateFails
    BY <1>4, ContinueKeeps DEF TerminateFails, IInv, TypeOK
  <1>5. CASE WaitTerminate
    BY <1>5 DEF WaitTerminate, IInv, TypeOK, Chosen, Drained, Removing, Steps, cluster
  <1>6. CASE Delete
    <2>1. node \in Nodes /\ PoolOf[node] \in Pools /\ byPool[PoolOf[node]] > 0
      <3>1. /\ node \in Nodes /\ PoolOf[node] \in Pools
            /\ byPool[PoolOf[node]] > MinNodes[PoolOf[node]]
        BY <1>6 DEF Delete, IInv, Chosen, Removing
      <3>2. MinNodes[PoolOf[node]] \in Nat /\ byPool[PoolOf[node]] \in Nat
        BY <3>1, MinAssumption DEF IInv, TypeOK
      <3> QED
        BY <3>1, <3>2
    <2>2. byPool' \in [Pools -> Nat]
      BY <1>6, <2>1 DEF Delete, IInv, TypeOK
    <2> QED
      BY <1>6, <2>1, <2>2, ContinueKeeps DEF Delete, IInv, TypeOK
  <1>7. CASE DeleteFails
    <2>1. node \in Nodes
      BY <1>7 DEF DeleteFails, IInv, Chosen, Removing
    <2> QED
      BY <1>7, <2>1, ContinueKeeps DEF DeleteFails, IInv, TypeOK
  <1> QED
    BY <1>1, <1>2, <1>3, <1>4, <1>5, <1>6, <1>7

\* What the cluster and the platform do.  Binding needs a node that is not
\* cordoned, so Drained survives it.
LEMMA EnvironmentKeeps ==
  ASSUME IInv, Environment
  PROVE  IInv'
  <1> USE DEF tick
  <1>1. ASSUME NEW w \in Workloads, NEW n \in Nodes, Bind(w, n) PROVE IInv'
    <2>1. TypeOK' /\ Chosen'
      BY <1>1 DEF Bind, IInv, TypeOK, Chosen, Removing, Phase
    <2>2. Drained'
      <3> SUFFICES ASSUME pc \in {"find", "terminate"} PROVE Evictable(node)' = {}
        BY <1>1 DEF Bind, Drained
      <3>1. n # node
        BY <1>1 DEF Bind, IInv, Chosen, Removing
      <3>2. \A v \in Workloads : at'[v] = node => at[v] = node /\ phase'[v] = phase[v]
        BY <1>1, <3>1 DEF Bind, IInv, TypeOK
      <3> QED
        BY <1>1, <3>2 DEF Bind, IInv, Drained, Evictable, On
    <2> QED
      BY <2>1, <2>2 DEF IInv
  <1>2. ASSUME NEW w \in Workloads, Finishes(w) \/ IsDeleted(w) PROVE IInv'
    <2>1. TypeOK' /\ Chosen'
      BY <1>2 DEF Finishes, IsDeleted, IInv, TypeOK, Chosen, Removing, Phase
    <2>2. Drained'
      BY <1>2 DEF Finishes, IsDeleted, IInv, TypeOK, Drained, Evictable, On
    <2> QED
      BY <2>1, <2>2 DEF IInv
  <1>3. ASSUME NEW w \in Workloads, Goes(w) PROVE IInv'
    <2>1. TypeOK' /\ Chosen'
      BY <1>3 DEF Goes, Unbind, IInv, TypeOK, Chosen, Removing, Phase
    <2>2. Drained'
      <3> SUFFICES ASSUME pc \in {"find", "terminate"} PROVE Evictable(node)' = {}
        BY <1>3 DEF Goes, Drained, tick
      <3>1. node # Nobody
        BY NodesAssumption DEF IInv, Chosen, Removing
      <3>2. \A v \in Workloads : at'[v] = node => at[v] = node /\ phase'[v] = phase[v]
        BY <1>3, <3>1 DEF Goes, Unbind, IInv, TypeOK
      <3> QED
        BY <1>3, <3>2 DEF Goes, IInv, Drained, Evictable, On, tick
    <2> QED
      BY <2>1, <2>2 DEF IInv
  <1>4. ASSUME NEW n \in Nodes, Joins(n) \/ GrowsOld(n) \/ CommandEnds(n) PROVE IInv'
    <2>1. TypeOK' /\ Chosen'
      BY <1>4 DEF Joins, GrowsOld, CommandEnds, IInv, TypeOK, Chosen, Removing,
                  VMState, cluster
    <2>2. Drained'
      BY <1>4 DEF Joins, GrowsOld, CommandEnds, IInv, Drained, Evictable, On, cluster
    <2> QED
      BY <2>1, <2>2 DEF IInv
  <1> QED
    BY <1>1, <1>2, <1>3, <1>4 DEF Environment

\* A restart forgets the tick, and with it every obligation of the invariant.
LEMMA RestartKeeps ==
  ASSUME IInv, Restart
  PROVE  IInv'
  BY DEF Restart, IInv, TypeOK, Chosen, Drained, Removing, Nothing, Steps, cluster

\* Every step of the tick, the cluster and the platform keeps the invariant.
LEMMA StepKeeps == IInv /\ [Next]_vars => IInv'
  <1> SUFFICES ASSUME IInv, [Next]_vars PROVE IInv'
    OBVIOUS
  <1>1. CASE UNCHANGED vars
    BY <1>1 DEF vars, IInv, TypeOK, Chosen, Drained, Removing, Evictable, On
  <1>2. CASE Next
    BY <1>2, RangeKeeps, DrainKeeps, TerminateKeeps, EnvironmentKeeps, RestartKeeps
    DEF Next, Tick
  <1> QED
    BY <1>1, <1>2

\* The invariant of scaleDown holds in every reachable state.
LEMMA Invariance == Spec => []IInv
  BY InitInvariant, StepKeeps, PTL DEF Spec

\* Only TerminateServer, its reply lost or not, terminates a VM.
LEMMA OnlyTerminateServer ==
  ASSUME IInv, [Next]_vars, NEW n \in Nodes, Terminated(n)
  PROVE  pc = "terminate" /\ n = node
  <1>1. CASE TerminateServer \/ TerminateReplyLost
    BY <1>1 DEF TerminateServer, TerminateReplyLost, Terminated, Runs, IInv, TypeOK,
                Chosen, Removing
  <1>2. ASSUME NEW m \in Nodes, Joins(m) \/ CommandEnds(m) PROVE FALSE
    BY <1>2 DEF Joins, CommandEnds, Terminated, Runs, IInv, TypeOK
  <1>3. CASE UNCHANGED vm
    BY <1>3 DEF Terminated, Runs
  <1>4. CASE FindServerByName
    BY <1>4 DEF FindServerByName, LookedUp, Terminated, Runs, IInv, TypeOK
  <1>5. \/ TerminateServer \/ TerminateReplyLost \/ FindServerByName
        \/ \E m \in Nodes : Joins(m) \/ CommandEnds(m)
        \/ UNCHANGED vm
    BY DEF Next, Tick, ListNodes, PassOver, Choose, TickDone, Cordon, ListPodsOnNode,
           NextRound, DrainFails, Evict, EvictLater, TerminateFails,
           WaitTerminate, Delete, DeleteFails, DeadlinePasses, Environment, Bind,
           Finishes, IsDeleted, Goes, GrowsOld, Restart, vars
  <1> QED
    BY <1>1, <1>2, <1>3, <1>4, <1>5

-----------------------------------------------------------------------------
\* Every variable keeps to its type, whatever fails: in particular a tick never
\* counts a pool below zero, and it holds a node exactly while it removes one.
THEOREM TypeCorrect == Spec => []TypeOK
  BY Invariance, PTL DEF IInv

\* No VM is terminated with a pod on it that the drain should have evicted, for
\* any number of nodes and pods, any budgets, failures and restarts (drainNode
\* returns nil only after a listing without such pods, on a cordoned node).
THEOREM NothingLostInTermination == Spec => TerminatedEmpty
  <1>1. IInv /\ [Next]_vars =>
          [\A n \in Nodes : Terminated(n) => Evictable(n) = {}]_vars
    BY OnlyTerminateServer DEF IInv, Drained
  <1> QED
    BY <1>1, Invariance, PTL DEF Spec, TerminatedEmpty

\* No VM is terminated but of a node that is cordoned, old enough and of a
\* configured pool (scaleDown's guards, still true at the terminate command).
THEOREM TerminationAsChosen == Spec => TerminatedAsChosen
  <1>1. IInv /\ [Next]_vars =>
          [\A n \in Nodes : Terminated(n) =>
             n \in cordoned \ young /\ PoolOf[n] \in Pools]_vars
    BY OnlyTerminateServer DEF IInv, Chosen, Removing
  <1> QED
    BY <1>1, Invariance, PTL DEF Spec, TerminatedAsChosen

-----------------------------------------------------------------------------
(***************************************************************************)
(* Orphans, and the progress of a tick.                                    *)
(***************************************************************************)

\* A Node object is about to be deleted: its VM is gone, or was told to go, or was
\* not found.
ToldToGo == pc \in {"wait", "delete"} => vm[node] # "on"

OInv == OrphansKept /\ ToldToGo

\* Objects are deleted at "delete" alone, and VMs come with an object.
LEMMA OrphanStep ==
  ASSUME IInv, OInv, [Next]_vars
  PROVE  OInv'
  <1> USE DEF OInv, OrphansKept, ToldToGo
  <1>1. CASE UNCHANGED <<registered, vm>> /\ (pc' \notin {"wait", "delete"} \/ UNCHANGED <<pc, node>>)
    BY <1>1
  <1>2. CASE Delete \/ DeleteFails
    BY <1>2 DEF Delete, DeleteFails, Unregister, Continue, cluster, IInv, TypeOK
  <1>3. CASE WaitTerminate
    BY <1>3 DEF WaitTerminate, cluster
  <1>4. CASE TerminateServer \/ TerminateReplyLost
    BY <1>4 DEF TerminateServer, TerminateReplyLost, Continue, cluster, IInv, TypeOK
  <1>5. ASSUME NEW n \in Nodes, Joins(n) PROVE OInv'
    BY <1>5 DEF Joins, tick, IInv, TypeOK
  <1>6. ASSUME NEW n \in Nodes, CommandEnds(n) PROVE OInv'
    BY <1>6 DEF CommandEnds, tick, cluster, IInv, TypeOK, Chosen, Removing
  <1>7. \/ UNCHANGED <<registered, vm>> /\ (pc' \notin {"wait", "delete"} \/ UNCHANGED <<pc, node>>)
        \/ Delete \/ DeleteFails \/ FindServerByName \/ WaitTerminate
        \/ TerminateServer \/ TerminateReplyLost
        \/ \E n \in Nodes : Joins(n) \/ CommandEnds(n)
    BY DEF Next, Tick, ListNodes, PassOver, Choose, TickDone, Cordon, ListPodsOnNode,
           NextRound, DrainFails, Evict, EvictLater, TerminateFails, Continue,
           DeadlinePasses, Environment, Bind, Finishes, IsDeleted, Goes, GrowsOld,
           Restart, vars, cluster, tick
  <1>8. CASE FindServerByName
    <2>1. node \in registered
      BY <1>8 DEF FindServerByName, IInv, TypeOK, Chosen, Removing
    <2> QED
      BY <1>8, <2>1 DEF FindServerByName, LookedUp, Runs, cluster, IInv, TypeOK
  <1> QED
    BY <1>1, <1>2, <1>3, <1>4, <1>5, <1>6, <1>7, <1>8

\* A VM without a Node object still runs only because the last lookup did not find
\* it, or its terminate command was accepted and failed: no lookup that fails,
\* command refused, reply lost, crash or deletion by halves leaves one behind
\* otherwise (terminateAndDelete).
THEOREM OrphansExplained == Spec => []OrphansKept
  <1>1. Init => OInv
    BY DEF Init, OInv, OrphansKept, ToldToGo
  <1>2. IInv /\ OInv /\ [Next]_vars => OInv'
    BY OrphanStep
  <1> QED
    BY <1>1, <1>2, Invariance, PTL DEF Spec, OInv

\* The deadline that has passed is that of the node being removed.
LateRemoving == late => Removing

\* Every removal leaves its deadline behind (drainNode's is its own).
LEMMA LateStep ==
  ASSUME IInv, LateRemoving, [Next]_vars
  PROVE  LateRemoving'
  <1> USE DEF LateRemoving, Removing
  <1>1. CASE UNCHANGED vars \/ Environment
    BY <1>1 DEF vars, Environment, Bind, Finishes, IsDeleted, Goes, Joins, GrowsOld,
                CommandEnds, tick
  <1>2. CASE DeadlinePasses \/ Restart
    BY <1>2 DEF DeadlinePasses, Restart
  <1>3. CASE Tick
    BY <1>3 DEF Tick, ListNodes, PassOver, Choose, TickDone, Cordon, ListPodsOnNode,
                NextRound, DrainFails, Evict, EvictLater, FindServerByName,
                TerminateServer, TerminateReplyLost, TerminateFails, WaitTerminate,
                Delete, DeleteFails, Continue
  <1> QED
    BY <1>1, <1>2, <1>3 DEF Next

\* A tick comes closer to its end with every step, and repeats a round of evictions
\* only before its drain's deadline, for any number of nodes, pods and budgets
\* (scaleDown's range, drainNode's loop and terminateAndDelete).  The sets and the
\* stages it goes down are finite, so that only a call that is never answered can
\* keep it.
THEOREM TicksAdvance == Spec => TickAdvances
  <1> DEFINE Step == pc # "idle" /\ tick' # tick =>
               \/ Fewer(rest', rest)
               \/ /\ rest' = rest
                  /\ late /\ node' = node => late'
                  /\ \/ ~late /\ (late' \/ pc = "drain")
                     \/ Stage[pc'] < Stage[pc]
                     \/ pc' = pc /\ Fewer(evicting', evicting)
  <1>1. ASSUME IInv, LateRemoving, [Next]_vars, pc # "idle", tick' # tick
        PROVE  Step
    <2> USE DEF Fewer, Stage
    <2>1. CASE DeadlinePasses
      BY <2>1 DEF DeadlinePasses
    <2>2. CASE Restart
      BY <1>1, <2>2, NodesAssumption DEF Restart, IInv, TypeOK, Steps, LateRemoving, Removing
    <2>3. CASE \E n \in Nodes : PassOver(n) \/ Choose(n)
      BY <2>3 DEF PassOver, Choose
    <2>4. CASE TickDone
      BY <2>4 DEF TickDone
    <2>5. CASE Cordon \/ ListPodsOnNode \/ NextRound
      BY <2>5 DEF Cordon, ListPodsOnNode, NextRound
    <2>6. CASE \E w \in Workloads : Evict(w) \/ EvictLater(w)
      BY <2>6 DEF Evict, EvictLater
    <2>7. CASE FindServerByName \/ TerminateServer \/ WaitTerminate
      BY <2>7 DEF FindServerByName, TerminateServer, WaitTerminate
    <2>8. CASE DrainFails \/ TerminateReplyLost \/ TerminateFails \/ Delete \/ DeleteFails
      <3>1. node # Nobody
        BY <1>1, <2>8, NodesAssumption DEF IInv, Chosen, Removing, DrainFails, TerminateReplyLost,
           TerminateFails, Delete, DeleteFails
      <3>2. rest' = rest /\ pc' = "visit" /\ node' = Nobody
        BY <2>8 DEF DrainFails, TerminateReplyLost, TerminateFails, Delete, DeleteFails,
           Continue
      <3>3. pc \in {"cordon", "drain", "evict", "find", "terminate", "delete"}
        BY <2>8 DEF DrainFails, TerminateReplyLost, TerminateFails, Delete, DeleteFails
      <3>4. Stage[pc'] < Stage[pc]
        BY <3>2, <3>3
      <3> QED
        BY <3>1, <3>2, <3>4
    <2>9. CASE ListNodes
      BY <1>1, <2>9 DEF ListNodes
    <2>10. CASE Environment \/ UNCHANGED vars
      BY <1>1, <2>10 DEF vars, tick, Environment, Bind, Finishes, IsDeleted, Goes, Joins,
                         GrowsOld, CommandEnds
    <2> QED
      BY <1>1, <2>1, <2>2, <2>3, <2>4, <2>5, <2>6, <2>7, <2>8, <2>9, <2>10 DEF Next, Tick
  <1>2. IInv /\ LateRemoving /\ [Next]_vars => [Step]_vars
    BY <1>1
  <1>3. Init => LateRemoving
    BY DEF Init, LateRemoving
  <1>4. IInv /\ LateRemoving /\ [Next]_vars => LateRemoving'
    BY LateStep
  <1> QED
    BY <1>2, <1>3, <1>4, Invariance, PTL DEF Spec, TickAdvances

-----------------------------------------------------------------------------
(***************************************************************************)
(* The minimum.  Without half-done failures, a tick counts no node that is *)
(* not there, and a node that is there has its VM at work, but for the one *)
(* being removed.                                                          *)
(***************************************************************************)
Counted ==
  pc # "idle" => \A p \in Pools : byPool[p] <= Cardinality(InPool(registered, p))

AtWork ==
  \A n \in registered : vm[n] \in Runs \/ (pc \in {"wait", "delete"} /\ node = n)

MInv == IInv /\ Counted /\ AtWork

\* Removing the chosen node takes its pool's count down with the pool.
LEMMA DeleteCounted ==
  ASSUME MInv, Delete
  PROVE  Counted'
  <1>1. node \in registered /\ PoolOf[node] \in Pools
    BY DEF MInv, IInv, TypeOK, Chosen, Removing, Delete
  <1>2. registered' = registered \ {node}
    BY DEF Delete, Unregister
  <1> SUFFICES ASSUME NEW p \in Pools
               PROVE  byPool'[p] <= Cardinality(InPool(registered', p))
    BY DEF Counted, InPool
  <1>3. byPool[p] <= Cardinality(InPool(registered, p)) /\ byPool[p] \in Nat
    BY DEF MInv, IInv, TypeOK, Counted, Delete
  <1>4. IsFiniteSet(InPool(registered, p)) /\ Cardinality(InPool(registered, p)) \in Nat
    BY PoolSize DEF MInv, IInv, TypeOK
  <1>5. CASE p = PoolOf[node]
    <2>1. InPool(registered', p) = InPool(registered, p) \ {node}
      BY <1>2 DEF InPool
    <2>2. node \in InPool(registered, p)
      BY <1>1, <1>5 DEF InPool
    <2>3. Cardinality(InPool(registered, p) \ {node}) = Cardinality(InPool(registered, p)) - 1
      BY <1>4, <2>2, FS_RemoveElement
    <2>4. byPool'[p] = byPool[p] - 1
      BY <1>1, <1>5 DEF Delete, MInv, IInv, TypeOK
    <2> QED
      BY <1>3, <1>4, <2>1, <2>3, <2>4
  <1>6. CASE p # PoolOf[node]
    <2>1. InPool(registered', p) = InPool(registered, p)
      BY <1>1, <1>2, <1>6 DEF InPool
    <2>2. byPool'[p] = byPool[p]
      BY <1>1, <1>6 DEF Delete, MInv, IInv, TypeOK
    <2> QED
      BY <1>3, <2>1, <2>2
  <1> QED
    BY <1>5, <1>6

\* A node that joins is one more than the tick counted.
LEMMA JoinsCounted ==
  ASSUME MInv, NEW n \in Nodes, Joins(n)
  PROVE  Counted'
  <1> SUFFICES ASSUME pc # "idle", NEW p \in Pools
               PROVE  byPool[p] <= Cardinality(InPool(registered', p))
    BY DEF Counted, InPool, Joins, tick
  <1>1. /\ registered \subseteq Nodes /\ registered' \subseteq Nodes
        /\ registered \subseteq registered'
    BY DEF MInv, IInv, TypeOK, Joins
  <1>2. InPool(registered, p) \in SUBSET InPool(registered', p)
    BY <1>1 DEF InPool
  <1>3. /\ IsFiniteSet(InPool(registered', p))
        /\ Cardinality(InPool(registered, p)) \in Nat
        /\ Cardinality(InPool(registered', p)) \in Nat
    BY <1>1, PoolSize
  <1>4. Cardinality(InPool(registered, p)) <= Cardinality(InPool(registered', p))
    BY <1>2, <1>3, FS_Subset
  <1>5. byPool[p] <= Cardinality(InPool(registered, p)) /\ byPool[p] \in Nat
    BY DEF MInv, IInv, TypeOK, Counted
  <1> QED
    BY <1>3, <1>4, <1>5

\* With no half-done failure, every step keeps byPool at or below the number of
\* nodes at work (scaleDown).
LEMMA MStepKeeps ==
  ASSUME Faults = {}, MInv, [Next]_vars
  PROVE  MInv'
  <1>1. IInv'
    BY StepKeeps DEF MInv
  <1>2. \/ Delete
        \/ \E n \in Nodes : Joins(n) \/ CommandEnds(n)
        \/ ListNodes \/ TickDone
        \/ TerminateServer \/ FindServerByName \/ WaitTerminate
        \/ /\ UNCHANGED <<registered, vm, byPool>>
           /\ pc \notin {"idle", "wait", "delete"} \/ UNCHANGED <<pc, node>>
    BY DEF Next, Tick, PassOver, Choose, Cordon, ListPodsOnNode, NextRound, DrainFails,
           Evict, EvictLater, TerminateFails, TerminateReplyLost, DeleteFails,
           DeadlinePasses, Environment, Bind, Finishes, IsDeleted, Goes, GrowsOld,
           Restart, vars, cluster, tick
  <1>3. Counted'
    <2>1. CASE Delete
      BY <2>1, DeleteCounted
    <2>2. ASSUME NEW n \in Nodes, Joins(n) PROVE Counted'
      BY <2>2, JoinsCounted
    <2>3. ASSUME NEW n \in Nodes, CommandEnds(n) PROVE Counted'
      BY <2>3 DEF CommandEnds, MInv, Counted, InPool, cluster, tick
    <2>4. CASE ListNodes
      <3>1. \A p \in Pools :
              /\ Cardinality(InPool(registered, p)) \in Nat
              /\ byPool'[p] = Cardinality(InPool(registered, p))
        BY <2>4, PoolSize DEF ListNodes, MInv, IInv, TypeOK
      <3>2. registered' = registered
        BY <2>4 DEF ListNodes, cluster
      <3> QED
        BY <3>1, <3>2 DEF Counted, InPool
    <2>5. CASE TickDone
      BY <2>5 DEF TickDone, Counted
    <2>6. CASE TerminateServer \/ FindServerByName \/ WaitTerminate
      BY <2>6 DEF TerminateServer, FindServerByName, WaitTerminate, MInv, Counted,
                  InPool, cluster
    <2>7. CASE /\ UNCHANGED <<registered, vm, byPool>>
               /\ pc \notin {"idle", "wait", "delete"} \/ UNCHANGED <<pc, node>>
      BY <2>7 DEF MInv, Counted, InPool
    <2> QED
      BY <1>2, <2>1, <2>2, <2>3, <2>4, <2>5, <2>6, <2>7
  <1>4. AtWork'
    <2>1. CASE Delete
      BY <2>1 DEF Delete, Unregister, MInv, AtWork
    <2>2. ASSUME NEW n \in Nodes, Joins(n) \/ CommandEnds(n) PROVE AtWork'
      BY <2>2 DEF Joins, CommandEnds, MInv, IInv, TypeOK, AtWork, Runs, cluster, tick
    <2>3. CASE ListNodes \/ TickDone
      BY <2>3 DEF ListNodes, TickDone, MInv, AtWork, Runs, cluster
    <2>4. CASE TerminateServer
      BY <2>4 DEF TerminateServer, MInv, IInv, TypeOK, AtWork, Runs, cluster
    <2>5. CASE FindServerByName
      BY <2>5 DEF FindServerByName, LookedUp, MInv, IInv, TypeOK, Chosen, Removing,
                  AtWork, Runs, cluster
    <2>6. CASE WaitTerminate
      BY <2>6 DEF WaitTerminate, MInv, AtWork, Runs, cluster
    <2>7. CASE /\ UNCHANGED <<registered, vm, byPool>>
               /\ pc \notin {"idle", "wait", "delete"} \/ UNCHANGED <<pc, node>>
      BY <2>7 DEF MInv, AtWork
    <2> QED
      BY <1>2, <2>1, <2>2, <2>3, <2>4, <2>5, <2>6, <2>7
  <1> QED
    BY <1>1, <1>3, <1>4 DEF MInv

\* A node that leaves service is the one the tick is removing.
LEMMA OnlyRemovalEnds ==
  ASSUME Faults = {}, MInv, [Next]_vars, NEW p \in Pools, NEW n \in Serving(p),
         n \notin Serving(p)'
  PROVE  pc \in {"terminate", "delete"} /\ n = node
  <1>1. n \in registered /\ vm[n] \in Runs /\ PoolOf[n] = p
    BY DEF Serving, InPool
  <1>2. ~(n \in registered' /\ vm'[n] \in Runs)
    BY <1>1 DEF Serving, InPool
  <1>3. n \in Nodes
    BY <1>1 DEF MInv, IInv, TypeOK
  <1>4. CASE Delete
    BY <1>1, <1>2, <1>4 DEF Delete, Unregister
  <1>5. CASE vm'[n] \notin Runs
    <2>1. \/ TerminateServer \/ FindServerByName
          \/ \E m \in Nodes : Joins(m) \/ CommandEnds(m)
          \/ UNCHANGED vm
      BY DEF Next, Tick, ListNodes, PassOver, Choose, TickDone, Cordon, ListPodsOnNode,
             NextRound, DrainFails, Evict, EvictLater, TerminateFails, TerminateReplyLost,
             WaitTerminate, Delete, DeleteFails, DeadlinePasses, Environment, Bind,
             Finishes, IsDeleted, Goes, GrowsOld, Restart, vars
    <2>2. CASE TerminateServer
      BY <1>1, <1>5, <2>2 DEF TerminateServer, MInv, IInv, TypeOK
    <2>3. CASE FindServerByName
      BY <1>1, <1>3, <1>5, <2>3 DEF FindServerByName, LookedUp, Runs, MInv, IInv, TypeOK
    <2>4. ASSUME NEW m \in Nodes, Joins(m) \/ CommandEnds(m) PROVE FALSE
      BY <1>1, <1>5, <2>4 DEF Joins, CommandEnds, Runs, MInv, IInv, TypeOK
    <2>5. CASE UNCHANGED vm
      BY <1>1, <1>5, <2>5
    <2> QED
      BY <2>1, <2>2, <2>3, <2>4, <2>5
  <1>6. Delete \/ registered \subseteq registered'
    BY DEF Next, Tick, ListNodes, PassOver, Choose, TickDone, Cordon, ListPodsOnNode,
           NextRound, DrainFails, Evict, EvictLater, FindServerByName, TerminateServer,
           TerminateFails, TerminateReplyLost, WaitTerminate, DeleteFails, DeadlinePasses,
           Environment, Bind, Finishes, IsDeleted, Goes, Joins, GrowsOld, CommandEnds,
           Restart, cluster, vars
  <1> QED
    BY <1>1, <1>2, <1>4, <1>5, <1>6

\* As long as no failure leaves its work half done and the process does not stop,
\* no node leaves service, terminated or deleted with a VM that runs on, in a pool
\* that does not have more nodes at work than its min_nodes, whatever joins, whatever
\* a lookup misses and however the terminate commands end (byPool, its decrement and
\* its comparison with MinNodes in scaleDown).
THEOREM MinimumKept ==
  ASSUME Faults = {}
  PROVE  Spec => MinNodesRespected
  <1>1. Init => MInv
    BY InitInvariant DEF Init, MInv, Counted, AtWork, Runs
  <1>2. MInv /\ [Next]_vars => MInv'
    BY MStepKeeps
  <1>3. MInv /\ [Next]_vars =>
          [\A p \in Pools : \A n \in Serving(p) :
             n \notin Serving(p)' => Cardinality(Serving(p)) > MinNodes[p]]_vars
    <2> SUFFICES ASSUME MInv, [Next]_vars, NEW p \in Pools, NEW n \in Serving(p),
                        n \notin Serving(p)'
                 PROVE  Cardinality(Serving(p)) > MinNodes[p]
      OBVIOUS
    <2>1. pc \in {"terminate", "delete"} /\ n = node
      BY OnlyRemovalEnds
    <2>2. n \in registered /\ PoolOf[n] = p /\ vm[n] \in Runs
      BY DEF Serving, InPool
    <2>3. Serving(p) = InPool(registered, p)
      BY <2>1, <2>2 DEF Serving, InPool, MInv, AtWork
    <2>4. byPool[p] > MinNodes[p] /\ byPool[p] <= Cardinality(InPool(registered, p))
      BY <2>1, <2>2 DEF MInv, IInv, Chosen, Removing, Counted
    <2>5. /\ Cardinality(InPool(registered, p)) \in Nat
          /\ byPool[p] \in Nat /\ MinNodes[p] \in Nat
      BY PoolSize, MinAssumption DEF MInv, IInv, TypeOK
    <2> QED
      BY <2>3, <2>4, <2>5
  <1> QED
    BY <1>1, <1>2, <1>3, PTL DEF Spec, MinNodesRespected

=============================================================================
