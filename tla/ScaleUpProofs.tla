---------------------------- MODULE ScaleUpProofs ----------------------------
(***************************************************************************)
(* The safety of ScaleUp, for any pools, names, maxima and demand.         *)
(*                                                                         *)
(* A tick counts the nodes in flight once per pool and then adds to the    *)
(* tracker one name at a time, while other goroutines shrink it.  The      *)
(* invariant carries the limits of that count, PlanWithinLimits, from the  *)
(* count to the last Add; TrackerWithinMax then follows at each Add.       *)
(***************************************************************************)
EXTENDS ScaleUp, FiniteSetTheorems, TLAPS

\* Outside the range over the pools there is nothing left to create.
QuietOutsidePlan == pc # "plan" => toCreate = Nothing

IInv ==
  /\ TypeOK
  /\ QuietOutsidePlan
  /\ EntriesHaveCreators
  /\ PlanWithinLimits
  /\ TrackerWithinMax

-----------------------------------------------------------------------------
\* The names of a pool among finitely many are counted by a natural number.
LEMMA PoolSize ==
  ASSUME NEW S \in SUBSET Names, NEW p
  PROVE  IsFiniteSet(InPool(S, p)) /\ Cardinality(InPool(S, p)) \in Nat
  <1>1. IsFiniteSet(S)
    BY NamesAssumption, FS_Subset
  <1>2. InPool(S, p) \subseteq S
    BY DEF InPool
  <1> QED
    BY <1>1, <1>2, FS_Subset, FS_CardinalityType

\* Fewer entries, fewer of each pool: what gcLocked and Remove do to Count.
LEMMA PoolShrinks ==
  ASSUME NEW S \in SUBSET Names, NEW T \in SUBSET S, NEW p
  PROVE  Cardinality(InPool(T, p)) <= Cardinality(InPool(S, p))
  <1>1. InPool(T, p) \subseteq InPool(S, p)
    BY DEF InPool
  <1> QED
    BY <1>1, PoolSize, FS_Subset

\* One more entry, at most one more of its pool and none of another: what Add
\* does to Count.
LEMMA PoolGrows ==
  ASSUME NEW S \in SUBSET Names, NEW n \in Names, NEW p
  PROVE  /\ Cardinality(InPool(S \cup {n}, p)) <= Cardinality(InPool(S, p)) + 1
         /\ PoolOf[n] # p => InPool(S \cup {n}, p) = InPool(S, p)
  <1>1. CASE PoolOf[n] = p
    <2>1. InPool(S \cup {n}, p) = InPool(S, p) \cup {n}
      BY <1>1 DEF InPool
    <2>2. IsFiniteSet(InPool(S, p)) /\ Cardinality(InPool(S, p)) \in Nat
      BY PoolSize
    <2>3. Cardinality(InPool(S, p) \cup {n}) <= Cardinality(InPool(S, p)) + 1
      BY <2>2, FS_AddElement
    <2> QED
      BY <1>1, <2>1, <2>3
  <1>2. CASE PoolOf[n] # p
    <2>1. InPool(S \cup {n}, p) = InPool(S, p)
      BY <1>2 DEF InPool
    <2> QED
      BY <1>2, <2>1, PoolSize
  <1> QED
    BY <1>1, <1>2

\* What a tick plans for a pool fits under the pool's maximum and the demand,
\* with what is in flight.
LEMMA PlannedFits ==
  ASSUME TypeOK, NEW p \in Pools
  PROVE  /\ Planned(p) \in Nat
         /\ Planned(p) > 0 => /\ Count(p) + Planned(p) <= wanted[p]
                              /\ current[p] + Count(p) + Planned(p) <= MaxNodes[p]
  <1>1. Count(p) \in Nat
    BY PoolSize DEF TypeOK, Count, Live
  <1>2. wanted[p] \in Nat /\ current[p] \in Nat /\ MaxNodes[p] \in Nat
    BY MaxAssumption, DemandAssumption DEF TypeOK
  <1> QED
    BY <1>1, <1>2 DEF Planned, Least

-----------------------------------------------------------------------------
\* Nothing is in flight or planned at the start (NewPendingTracker).
LEMMA InitInvariant == Init => IInv
  <1> SUFFICES ASSUME Init PROVE IInv
    OBVIOUS
  <1> USE DEF Init
  <1>1. Nothing \in [Pools -> Nat] /\ Nothing \in [Pools -> 0 .. MaxDemand]
    BY DemandAssumption DEF Nothing
  <1>2. TypeOK
    BY <1>1 DEF TypeOK, ServerState, CreateState
  <1>3. QuietOutsidePlan /\ EntriesHaveCreators
    BY DEF QuietOutsidePlan, EntriesHaveCreators
  <1>4. PlanWithinLimits
    BY DEF PlanWithinLimits, Nothing
  <1>5. TrackerWithinMax
    <2>1. \A p : InPool(entries, p) = {}
      BY DEF InPool
    <2> QED
      BY <2>1, FS_EmptySet, MaxAssumption DEF TrackerWithinMax
  <1> QED
    BY <1>2, <1>3, <1>4, <1>5 DEF IInv

\* The numbers a tick computes with are natural.
LEMMA PlanIsNat ==
  ASSUME TypeOK, NEW q \in Pools
  PROVE  /\ toCreate[q] \in Nat /\ wanted[q] \in Nat
         /\ current[q] \in Nat /\ MaxNodes[q] \in Nat
  BY MaxAssumption, DemandAssumption DEF TypeOK

\* The steps that add no entry, and leave the tick's plan alone, keep every part
\* of the invariant that counts.
LEMMA CountsKept ==
  ASSUME IInv, entries' \subseteq entries, UNCHANGED <<toCreate, wanted, current>>
  PROVE  PlanWithinLimits' /\ TrackerWithinMax'
  <1>1. \A p \in Pools :
          /\ Cardinality(InPool(entries, p)) \in Nat
          /\ Cardinality(InPool(entries, p))' \in Nat
          /\ Cardinality(InPool(entries, p))' <= Cardinality(InPool(entries, p))
    BY PoolSize, PoolShrinks DEF IInv, TypeOK, InPool
  <1>2. \A p \in Pools : /\ toCreate[p] \in Nat /\ wanted[p] \in Nat
                         /\ current[p] \in Nat /\ MaxNodes[p] \in Nat
    BY PlanIsNat DEF IInv
  <1>3. PlanWithinLimits'
    BY <1>1, <1>2 DEF IInv, PlanWithinLimits
  <1>4. TrackerWithinMax'
    BY <1>1, <1>2 DEF IInv, TrackerWithinMax
  <1> QED
    BY <1>3, <1>4

\* So do the steps that add no entry and leave nothing to create.
LEMMA QuietCounts ==
  ASSUME IInv, entries' \subseteq entries, toCreate' = Nothing
  PROVE  PlanWithinLimits' /\ TrackerWithinMax'
  <1>1. \A p \in Pools :
          /\ Cardinality(InPool(entries, p)) \in Nat
          /\ Cardinality(InPool(entries, p))' \in Nat
          /\ Cardinality(InPool(entries, p))' <= Cardinality(InPool(entries, p))
    BY PoolSize, PoolShrinks DEF IInv, TypeOK, InPool
  <1>2. PlanWithinLimits'
    BY DEF PlanWithinLimits, Nothing
  <1>3. TrackerWithinMax'
    BY <1>1, MaxAssumption DEF IInv, TrackerWithinMax
  <1> QED
    BY <1>2, <1>3

\* The planning of a pool establishes its limits.
LEMMA PlanPoolKeeps ==
  ASSUME IInv, NEW p \in Pools, PlanPool(p)
  PROVE  IInv'
  <1> USE DEF PlanPool, Collect, Live
  <1>1. Planned(p) \in Nat
    BY PlannedFits DEF IInv
  <1>2. TypeOK'
    BY <1>1 DEF IInv, TypeOK, cluster
  <1>3. QuietOutsidePlan' /\ EntriesHaveCreators'
    BY DEF IInv, QuietOutsidePlan, EntriesHaveCreators
  <1>4. PlanWithinLimits'
    <2> SUFFICES ASSUME NEW q \in Pools, toCreate'[q] > 0
                 PROVE  LET flying == Cardinality(InPool(entries', q)) + toCreate'[q]
                        IN  flying <= wanted'[q] /\ current'[q] + flying <= MaxNodes[q]
      BY DEF PlanWithinLimits, InPool
    <2>1. q = p /\ toCreate'[q] = Planned(p)
      BY DEF IInv, TypeOK, Nothing
    <2>2. Cardinality(InPool(entries', q)) = Count(p)
      BY <2>1 DEF Count
    <2>3. Count(p) \in Nat /\ current[p] \in Nat /\ Planned(p) \in Nat
      BY <1>1, PoolSize DEF IInv, TypeOK, Count
    <2> QED
      BY <2>1, <2>2, <2>3, PlannedFits DEF IInv
  <1>5. TrackerWithinMax'
    <2>1. \A q \in Pools :
            /\ Cardinality(InPool(entries, q)) \in Nat
            /\ Cardinality(InPool(entries', q)) \in Nat
            /\ Cardinality(InPool(entries', q)) <= Cardinality(InPool(entries, q))
      BY PoolSize, PoolShrinks DEF IInv, TypeOK
    <2> SUFFICES ASSUME NEW q \in Pools
                 PROVE  Cardinality(InPool(entries', q)) <= MaxNodes[q]
      BY DEF TrackerWithinMax, InPool
    <2>2. Cardinality(InPool(entries, q)) <= MaxNodes[q] /\ MaxNodes[q] \in Nat
      BY MaxAssumption DEF IInv, TrackerWithinMax
    <2> HIDE DEF PlanPool, Collect, Live
    <2> QED
      BY <2>1, <2>2
  <1> QED
    BY <1>2, <1>3, <1>4, <1>5 DEF IInv

\* Adding a name spends one of the planned creations.
LEMMA StartCreateKeeps ==
  ASSUME IInv, NEW p \in Pools, NEW n \in Names, StartCreate(p, n)
  PROVE  IInv'
  <1> USE DEF StartCreate, Add
  <1>1. TypeOK'
    BY DEF IInv, TypeOK, CreateState, Live, cluster
  <1>2. QuietOutsidePlan' /\ EntriesHaveCreators'
    BY DEF IInv, TypeOK, QuietOutsidePlan, EntriesHaveCreators, Live
  <1>3. \A q \in Pools :
          /\ Cardinality(InPool(entries, q)) \in Nat
          /\ Cardinality(InPool(entries', q)) \in Nat
          /\ Cardinality(InPool(entries', q)) <= Cardinality(InPool(entries, q)) + 1
          /\ q # p => Cardinality(InPool(entries', q)) <= Cardinality(InPool(entries, q))
    <2> SUFFICES ASSUME NEW q \in Pools
                 PROVE  /\ Cardinality(InPool(entries, q)) \in Nat
                        /\ Cardinality(InPool(entries', q)) \in Nat
                        /\ Cardinality(InPool(entries', q)) <= Cardinality(InPool(entries, q)) + 1
                        /\ q # p => Cardinality(InPool(entries', q)) <= Cardinality(InPool(entries, q))
      OBVIOUS
    <2>1. entries \in SUBSET Names /\ Live \in SUBSET entries /\ entries' \in SUBSET Names
      BY DEF IInv, TypeOK, Live
    <2>2. /\ Cardinality(InPool(entries, q)) \in Nat
          /\ Cardinality(InPool(Live, q)) \in Nat
          /\ Cardinality(InPool(entries', q)) \in Nat
      BY <2>1, PoolSize
    <2>3. Cardinality(InPool(Live, q)) <= Cardinality(InPool(entries, q))
      BY <2>1, PoolShrinks
    <2>4. Cardinality(InPool(entries', q)) <= Cardinality(InPool(Live, q)) + 1
      BY <2>1, PoolGrows
    <2>5. q # p => InPool(entries', q) = InPool(Live, q)
      BY <2>1, PoolGrows
    <2> QED
      BY <2>2, <2>3, <2>4, <2>5
  <1>4. \A q \in Pools : /\ toCreate[q] \in Nat /\ wanted[q] \in Nat
                         /\ current[q] \in Nat /\ MaxNodes[q] \in Nat
    BY PlanIsNat DEF IInv
  <1>5. \A q \in Pools :
           toCreate'[q] = IF q = p THEN toCreate[q] - 1 ELSE toCreate[q]
    BY DEF IInv, TypeOK
  <1>6. toCreate[p] > 0 /\ wanted' = wanted /\ current' = current
    OBVIOUS
  <1> HIDE DEF StartCreate, Add
  <1>7. PlanWithinLimits'
    <2> SUFFICES ASSUME NEW q \in Pools, toCreate'[q] > 0
                 PROVE  LET flying == Cardinality(InPool(entries', q)) + toCreate'[q]
                        IN  flying <= wanted'[q] /\ current'[q] + flying <= MaxNodes[q]
      BY DEF PlanWithinLimits, InPool
    <2>1. toCreate[q] > 0
      BY <1>4, <1>5, <1>6
    <2>2. LET flying == Cardinality(InPool(entries, q)) + toCreate[q]
          IN  flying <= wanted[q] /\ current[q] + flying <= MaxNodes[q]
      BY <2>1 DEF IInv, PlanWithinLimits
    <2>3. Cardinality(InPool(entries', q)) + toCreate'[q]
            <= Cardinality(InPool(entries, q)) + toCreate[q]
      BY <1>3, <1>4, <1>5
    <2>4. toCreate'[q] \in Nat
      BY <1>1 DEF TypeOK
    <2> QED
      BY <1>3, <1>4, <1>6, <2>2, <2>3, <2>4
  <1>8. TrackerWithinMax'
    <2> SUFFICES ASSUME NEW q \in Pools
                 PROVE  Cardinality(InPool(entries', q)) <= MaxNodes[q]
      BY DEF TrackerWithinMax, InPool
    <2>1. CASE q = p
      <3>1. current[q] + (Cardinality(InPool(entries, q)) + toCreate[q]) <= MaxNodes[q]
        BY <1>6, <2>1 DEF IInv, PlanWithinLimits
      <3> QED
        BY <1>3, <1>4, <1>6, <2>1, <3>1
    <2>2. CASE q # p
      <3>1. Cardinality(InPool(entries, q)) <= MaxNodes[q]
        BY DEF IInv, TrackerWithinMax
      <3> QED
        BY <1>3, <1>4, <2>2, <3>1
    <2> QED
      BY <2>1, <2>2
  <1> QED
    BY <1>1, <1>2, <1>7, <1>8 DEF IInv

\* Skipping a name that is taken spends one of the planned creations too.
LEMMA NameTakenKeeps ==
  ASSUME IInv, NEW p \in Pools, NEW n \in Names, NameTaken(p, n)
  PROVE  IInv'
  <1> USE DEF NameTaken, Collect, Live
  <1>1. TypeOK'
    BY DEF IInv, TypeOK, cluster
  <1>2. QuietOutsidePlan' /\ EntriesHaveCreators'
    BY DEF IInv, QuietOutsidePlan, EntriesHaveCreators
  <1>3. \A q \in Pools :
          /\ Cardinality(InPool(entries, q)) \in Nat
          /\ Cardinality(InPool(entries', q)) \in Nat
          /\ Cardinality(InPool(entries', q)) <= Cardinality(InPool(entries, q))
    BY PoolSize, PoolShrinks DEF IInv, TypeOK
  <1>4. \A q \in Pools : /\ toCreate[q] \in Nat /\ wanted[q] \in Nat
                         /\ current[q] \in Nat /\ MaxNodes[q] \in Nat
    BY PlanIsNat DEF IInv
  <1>5. /\ \A q \in Pools : toCreate'[q] \in Nat /\ toCreate'[q] <= toCreate[q]
        /\ wanted' = wanted /\ current' = current
    <2>1. \A q \in Pools :
            toCreate'[q] = IF q = p THEN toCreate[q] - 1 ELSE toCreate[q]
      BY DEF IInv, TypeOK
    <2>2. \A q \in Pools : toCreate'[q] \in Nat
      BY <1>1 DEF TypeOK
    <2>3. wanted' = wanted /\ current' = current
      OBVIOUS
    <2> HIDE DEF NameTaken, Collect, Live
    <2> QED
      BY <1>4, <2>1, <2>2, <2>3
  <1> HIDE DEF NameTaken, Collect, Live
  <1>6. PlanWithinLimits'
    <2> SUFFICES ASSUME NEW q \in Pools, toCreate'[q] > 0
                 PROVE  LET flying == Cardinality(InPool(entries', q)) + toCreate'[q]
                        IN  flying <= wanted'[q] /\ current'[q] + flying <= MaxNodes[q]
      BY DEF PlanWithinLimits, InPool
    <2>1. toCreate[q] > 0
      BY <1>4, <1>5
    <2>2. LET flying == Cardinality(InPool(entries, q)) + toCreate[q]
          IN  flying <= wanted[q] /\ current[q] + flying <= MaxNodes[q]
      BY <2>1 DEF IInv, PlanWithinLimits
    <2> QED
      BY <1>3, <1>4, <1>5, <2>2
  <1>7. TrackerWithinMax'
    <2> SUFFICES ASSUME NEW q \in Pools
                 PROVE  Cardinality(InPool(entries', q)) <= MaxNodes[q]
      BY DEF TrackerWithinMax, InPool
    <2>1. Cardinality(InPool(entries, q)) <= MaxNodes[q]
      BY DEF IInv, TrackerWithinMax
    <2> QED
      BY <1>3, <1>4, <2>1
  <1> QED
    BY <1>1, <1>2, <1>6, <1>7 DEF IInv

-----------------------------------------------------------------------------
\* Every step of the tick, the goroutines and the environment, and a restart,
\* keeps the invariant.
LEMMA StepKeeps == IInv /\ [Next]_vars => IInv'
  <1> SUFFICES ASSUME IInv, [Next]_vars PROVE IInv'
    OBVIOUS
  <1> USE DEF cluster, tracker, tick
  <1>0. Nothing \in [Pools -> Nat] /\ Nothing \in [Pools -> 0 .. MaxDemand]
    BY DemandAssumption DEF Nothing
  <1>1. CASE ListPendingPods
    <2>1. TypeOK' /\ QuietOutsidePlan' /\ EntriesHaveCreators'
      BY <1>1 DEF ListPendingPods, IInv, TypeOK, QuietOutsidePlan, EntriesHaveCreators
    <2>2. entries' \subseteq entries /\ toCreate' = Nothing
      BY <1>1 DEF ListPendingPods, IInv, QuietOutsidePlan
    <2> QED
      BY <2>1, <2>2, QuietCounts DEF IInv
  <1>2. CASE ListNodes
    <2>1. \A p \in Pools : Cardinality(InPool(Joined, p)) \in Nat
      BY PoolSize DEF Joined
    <2>2. TypeOK'
      BY <1>2, <2>1 DEF ListNodes, IInv, TypeOK
    <2>3. QuietOutsidePlan' /\ EntriesHaveCreators'
      BY <1>2 DEF ListNodes, IInv, QuietOutsidePlan, EntriesHaveCreators
    <2>4. entries' \subseteq entries /\ toCreate' = Nothing
      BY <1>2 DEF ListNodes, IInv, QuietOutsidePlan
    <2> QED
      BY <2>2, <2>3, <2>4, QuietCounts DEF IInv
  <1>3. CASE ListNodesFails \/ TickDone
    <2>1. EndTick /\ toCreate = Nothing
      BY <1>3 DEF ListNodesFails, TickDone, IInv, QuietOutsidePlan
    <2>2. TypeOK' /\ QuietOutsidePlan' /\ EntriesHaveCreators'
      BY <1>0, <2>1 DEF EndTick, IInv, TypeOK, QuietOutsidePlan, EntriesHaveCreators
    <2>3. entries' \subseteq entries /\ toCreate' = Nothing
      BY <2>1 DEF EndTick
    <2> QED
      BY <2>2, <2>3, QuietCounts DEF IInv
  <1>4. ASSUME NEW p \in Pools, PlanPool(p) PROVE IInv'
    BY <1>4, PlanPoolKeeps
  <1>5. ASSUME NEW p \in Pools, NEW n \in Names, StartCreate(p, n) PROVE IInv'
    BY <1>5, StartCreateKeeps
  <1>6. ASSUME NEW p \in Pools, NEW n \in Names, NameTaken(p, n) PROVE IInv'
    BY <1>6, NameTakenKeeps
  <1>7. ASSUME NEW n \in Names, CreateNode(n) PROVE IInv'
    <2>1. TypeOK'
      BY <1>7 DEF CreateNode, OrderArrives, PostAccepted, PostFails, PostLost, Abandon,
                  CreateSucceeds, CreateGivesUp, Return, Remove,
                  IInv, TypeOK, ServerState, CreateState
    <2>2. QuietOutsidePlan'
      BY <1>7 DEF CreateNode, OrderArrives, PostAccepted, PostFails, PostLost,
                  CreateSucceeds, CreateGivesUp, Return, IInv, QuietOutsidePlan
    <2>3. EntriesHaveCreators'
      BY <1>7 DEF CreateNode, OrderArrives, PostAccepted, PostFails, PostLost,
                  CreateSucceeds, CreateGivesUp, Return, Remove,
                  IInv, TypeOK, EntriesHaveCreators
    <2>4. entries' \subseteq entries /\ UNCHANGED <<toCreate, wanted, current>>
      BY <1>7 DEF CreateNode, OrderArrives, PostAccepted, PostFails, PostLost,
                  CreateSucceeds, CreateGivesUp, Return, Remove
    <2> QED
      BY <2>1, <2>2, <2>3, <2>4, CountsKept DEF IInv
  <1>8. CASE Environment
    <2>1. TypeOK'
      BY <1>8 DEF Environment, EntryAges, StrayEnds, Provisioned, Joins, Leaves, PodsChange,
                  IInv, TypeOK, ServerState, Live
    <2>2. QuietOutsidePlan' /\ EntriesHaveCreators'
      BY <1>8 DEF Environment, EntryAges, StrayEnds, Provisioned, Joins, Leaves, PodsChange,
                  IInv, QuietOutsidePlan, EntriesHaveCreators
    <2>3. entries' \subseteq entries /\ UNCHANGED <<toCreate, wanted, current>>
      BY <1>8 DEF Environment, EntryAges, StrayEnds, Provisioned, Joins, Leaves, PodsChange
    <2> QED
      BY <2>1, <2>2, <2>3, CountsKept DEF IInv
  <1>9. CASE Restart
    <2>1. TypeOK' /\ QuietOutsidePlan' /\ EntriesHaveCreators'
      BY <1>0, <1>9 DEF Restart, Abandon, IInv, TypeOK, CreateState, ServerState,
                        QuietOutsidePlan, EntriesHaveCreators
    <2>2. entries' \subseteq entries /\ toCreate' = Nothing
      BY <1>9 DEF Restart
    <2> QED
      BY <2>1, <2>2, QuietCounts DEF IInv
  <1>10. CASE UNCHANGED vars
    <2>1. TypeOK' /\ QuietOutsidePlan' /\ EntriesHaveCreators'
      BY <1>10 DEF vars, IInv, TypeOK, QuietOutsidePlan, EntriesHaveCreators
    <2>2. entries' \subseteq entries /\ UNCHANGED <<toCreate, wanted, current>>
      BY <1>10 DEF vars
    <2> QED
      BY <2>1, <2>2, CountsKept DEF IInv
  <1> QED
    BY <1>1, <1>2, <1>3, <1>4, <1>5, <1>6, <1>7, <1>8, <1>9, <1>10
    DEF Next, Running, Tick

-----------------------------------------------------------------------------
\* The invariant of scaleUp and the tracker holds in every reachable state.
LEMMA Invariance == Spec => []IInv
  BY InitInvariant, StepKeeps, PTL DEF Spec

\* Whatever the pools, the names and the demand, every variable of a tick, of
\* the tracker and of the goroutines keeps to its type; in particular no tick
\* plans a negative number of creations, in a pool that has outgrown its
\* maximum too (scaleUp's early return on capacity <= 0).
THEOREM TypeCorrect == Spec => []TypeOK
  BY Invariance, PTL DEF IInv

\* The limits a tick computes hold from its count to its last Add, for any
\* number of concurrent creations (scaleUp's capacity and toCreate).
THEOREM PlansWithinLimits == Spec => []PlanWithinLimits
  BY Invariance, PTL DEF IInv

\* The tracker of a pool never holds more than MaxNodes names, over any sequence
\* of ticks, returns, expiries and restarts (PendingTracker and scaleUp).
THEOREM TrackerBounded == Spec => []TrackerWithinMax
  BY Invariance, PTL DEF IInv

\* No name stays in the tracker once its createNode goroutine has returned (the
\* deferred Remove).
THEOREM NoOrphanEntries == Spec => []EntriesHaveCreators
  BY Invariance, PTL DEF IInv

-----------------------------------------------------------------------------
(***************************************************************************)
(* Where max_nodes is exceeded.  The README's promise is not an invariant  *)
(* (ScaleUpOverMax shows how it breaks); what holds is that only a plan    *)
(* breaks it, and only one that overlooks a VM.  The measure is the load   *)
(* of a pool, the VMs it has or may still get and the creations still to   *)
(* start: every other step keeps it or lowers it.                          *)
(***************************************************************************)

\* The load of a pool is a sum of natural numbers.
LEMMA LoadIsNat ==
  ASSUME TypeOK, TypeOK', NEW p \in Pools
  PROVE  /\ Cardinality(InPool(Committed, p)) \in Nat
         /\ Load(p) \in Nat /\ Load(p)' \in Nat
  <1>1. Committed \in SUBSET Names /\ Committed' \in SUBSET Names
    BY DEF Committed
  <1>2. Cardinality(InPool(Committed, p)) \in Nat /\ Cardinality(InPool(Committed', p)) \in Nat
    BY <1>1, PoolSize
  <1>3. toCreate[p] \in Nat /\ toCreate'[p] \in Nat
    BY DEF TypeOK
  <1> QED
    BY <1>2, <1>3 DEF Load, InPool

\* No more VMs and no more to create: no more load.
LEMMA LoadShrinks ==
  ASSUME TypeOK, TypeOK', Committed' \subseteq Committed,
         \A q \in Pools : toCreate'[q] <= toCreate[q], NEW p \in Pools
  PROVE  Load(p)' <= Load(p)
  <1>1. Committed \in SUBSET Names /\ Committed' \in SUBSET Committed
    BY DEF Committed
  <1>2. Cardinality(InPool(Committed', p)) <= Cardinality(InPool(Committed, p))
    BY <1>1, PoolShrinks
  <1>3. Cardinality(InPool(Committed, p)) \in Nat /\ Cardinality(InPool(Committed', p)) \in Nat
    BY <1>1, PoolSize
  <1>4. toCreate[p] \in Nat /\ toCreate'[p] \in Nat /\ toCreate'[p] <= toCreate[p]
    BY DEF TypeOK
  <1> QED
    BY <1>2, <1>3, <1>4 DEF Load, InPool

\* A creation that starts is one less to start.
LEMMA StartKeepsLoad ==
  ASSUME IInv, IInv', NEW q \in Pools, NEW n \in Names, StartCreate(q, n), NEW p \in Pools
  PROVE  Load(p)' <= Load(p)
  <1>1. Committed \in SUBSET Names /\ Committed' = Committed \cup {n}
    BY DEF StartCreate, Committed, IInv, TypeOK, cluster
  <1>2. /\ Cardinality(InPool(Committed', p)) <= Cardinality(InPool(Committed, p)) + 1
        /\ PoolOf[n] # p => InPool(Committed', p) = InPool(Committed, p)
    BY <1>1, PoolGrows
  <1>3. Cardinality(InPool(Committed, p)) \in Nat /\ Cardinality(InPool(Committed', p)) \in Nat
    BY <1>1, PoolSize
  <1>4. /\ PoolOf[n] = q
        /\ toCreate'[p] = IF p = q THEN toCreate[p] - 1 ELSE toCreate[p]
    BY DEF StartCreate, IInv, TypeOK
  <1>5. toCreate[p] \in Nat
    BY PlanIsNat DEF IInv
  <1>6. Cardinality(InPool(Committed', p)) + toCreate'[p]
          <= Cardinality(InPool(Committed, p)) + toCreate[p]
    BY <1>2, <1>3, <1>4, <1>5
  <1> QED
    BY <1>6 DEF Load, InPool

\* A plan that overlooks nothing leaves its pool within the maximum, and the
\* others as they are.
LEMMA PlanKeepsLoad ==
  ASSUME IInv, IInv', NEW q \in Pools, PlanPool(q), NEW p \in Pools,
         Load(p) <= MaxNodes[p], p = q => ~Overlooked(p)
  PROVE  Load(p)' <= MaxNodes[p]
  <1>1. Committed' = Committed
    BY DEF PlanPool, Committed, cluster
  <1>2. Cardinality(InPool(Committed, p)) \in Nat /\ MaxNodes[p] \in Nat
    BY LoadIsNat, PlanIsNat DEF IInv
  <1>3. CASE p # q
    <2>1. toCreate'[p] = toCreate[p]
      BY <1>3 DEF PlanPool, IInv, TypeOK
    <2> QED
      BY <1>1, <2>1 DEF Load, InPool
  <1>4. CASE p = q
    <2>1. toCreate[p] = 0 /\ toCreate'[p] = Planned(p)
      BY <1>4 DEF PlanPool, IInv, TypeOK, Nothing
    <2>2. Load(p)' = Cardinality(InPool(Committed, p)) + Planned(p)
      BY <1>1, <2>1 DEF Load, InPool
    <2>3. CASE Planned(p) = 0
      BY <1>2, <2>1, <2>2, <2>3 DEF Load
    <2>4. CASE Planned(p) > 0
      <3>1. current[p] + Count(p) + Planned(p) <= MaxNodes[p]
        BY <2>4, PlannedFits DEF IInv
      <3>2. Cardinality(InPool(Committed, p)) <= current[p] + Count(p)
        <4>1. current[p] \in Nat /\ Count(p) \in Nat
          BY PoolSize, PlanIsNat DEF IInv, TypeOK, Count, Live
        <4> QED
          BY <1>2, <1>4, <4>1 DEF Overlooked
      <3>3. current[p] \in Nat /\ Count(p) \in Nat /\ Planned(p) \in Nat
        BY PoolSize, PlanIsNat, PlannedFits DEF IInv, TypeOK, Count, Live
      <3> QED
        BY <1>2, <2>2, <3>1, <3>2, <3>3
    <2> QED
      BY <2>3, <2>4, PlannedFits DEF IInv
  <1> QED
    BY <1>3, <1>4

\* No step but a plan raises the load of a pool.
LEMMA LoadOnlyPlanned ==
  ASSUME IInv, IInv', [Next]_vars, \A q \in Pools : ~PlanPool(q), NEW p \in Pools
  PROVE  Load(p)' <= Load(p)
  <1> USE DEF cluster, tracker, tick
  <1>1. TypeOK /\ TypeOK'
    BY DEF IInv
  <1>2. Nothing = [q \in Pools |-> 0]
    BY DEF Nothing
  <1>3. ASSUME NEW q \in Pools, NEW n \in Names, StartCreate(q, n)
        PROVE  Load(p)' <= Load(p)
    BY <1>3, StartKeepsLoad
  <1>4. ASSUME NEW q \in Pools, NEW n \in Names, NameTaken(q, n)
        PROVE  Load(p)' <= Load(p)
    <2>1. Committed' = Committed
      BY <1>4 DEF NameTaken, Committed
    <2>2. \A r \in Pools : toCreate'[r] = IF r = q THEN toCreate[r] - 1 ELSE toCreate[r]
      BY <1>1, <1>4 DEF NameTaken, TypeOK
    <2>3. \A r \in Pools : toCreate[r] \in Nat
      BY <1>1 DEF TypeOK
    <2>4. \A r \in Pools : toCreate'[r] <= toCreate[r]
      BY <2>2, <2>3
    <2> QED
      BY <1>1, <2>1, <2>4, LoadShrinks
  <1>5. CASE Restart
    <2>1. Committed' \subseteq Committed
      BY <1>1, <1>5 DEF Restart, Abandon, Committed, TypeOK
    <2>2. \A r \in Pools : toCreate[r] \in Nat /\ toCreate'[r] = 0
      BY <1>1, <1>5 DEF Restart, TypeOK, Nothing
    <2>3. \A r \in Pools : toCreate'[r] <= toCreate[r]
      BY <2>2
    <2> QED
      BY <1>1, <2>1, <2>3, LoadShrinks
  <1>6. ASSUME toCreate' = toCreate, Committed' \subseteq Committed
        PROVE  Load(p)' <= Load(p)
    <2>1. \A r \in Pools : toCreate'[r] <= toCreate[r]
      BY <1>1, <1>6 DEF TypeOK
    <2> QED
      BY <1>1, <1>6, <2>1, LoadShrinks
  <1>7. CASE ListPendingPods \/ ListNodes \/ ListNodesFails \/ TickDone \/ UNCHANGED vars
    BY <1>6, <1>7 DEF ListPendingPods, ListNodes, ListNodesFails, TickDone, EndTick,
                      vars, Committed
  <1>8. ASSUME NEW n \in Names, CreateNode(n) PROVE Load(p)' <= Load(p)
    <2>1. toCreate' = toCreate
      BY <1>8 DEF CreateNode, OrderArrives, PostAccepted, PostFails, PostLost,
                  CreateSucceeds, CreateGivesUp
    <2>2. Committed' \subseteq Committed
      BY <1>1, <1>8 DEF CreateNode, OrderArrives, PostAccepted, PostFails, PostLost,
                  Abandon, CreateSucceeds, CreateGivesUp, Return, Committed, TypeOK
    <2> QED
      BY <1>6, <2>1, <2>2
  <1>9. CASE Environment
    <2>1. toCreate' = toCreate
      BY <1>9 DEF Environment, EntryAges, StrayEnds, Provisioned, Joins, Leaves, PodsChange
    <2>2. Committed' \subseteq Committed
      BY <1>1, <1>9 DEF Environment, EntryAges, StrayEnds, Provisioned, Joins, Leaves,
                  PodsChange, Committed, TypeOK
    <2> QED
      BY <1>6, <2>1, <2>2
  <1> QED
    BY <1>3, <1>4, <1>5, <1>7, <1>8, <1>9 DEF Next, Running, Tick

\* Only a plan that overlooks a VM takes a pool past its maximum (the reads of
\* scaleUp and the tracker, against everything that creates VMs).
THEOREM OverMaxOnlyByPlan == Spec => OverMaxOnlyOverlooked
  <1>1. ASSUME IInv, IInv', [Next]_vars, NEW p \in Pools,
               Load(p) <= MaxNodes[p], Load(p)' > MaxNodes[p]
        PROVE  PlanPool(p) /\ Overlooked(p)
    <2>1. Load(p) \in Nat /\ Load(p)' \in Nat /\ MaxNodes[p] \in Nat
      <3>1. TypeOK /\ TypeOK'
        BY <1>1 DEF IInv
      <3> QED
        BY <3>1, LoadIsNat, MaxAssumption
    <2>2. PICK q \in Pools : PlanPool(q)
      BY <1>1, <2>1, LoadOnlyPlanned
    <2>3. ~(p = q => ~Overlooked(p))
      BY <1>1, <2>1, <2>2, PlanKeepsLoad
    <2> QED
      BY <2>2, <2>3
  <1>2. IInv /\ IInv' /\ [Next]_vars =>
          [\A p \in Pools :
             Load(p) <= MaxNodes[p] /\ Load(p)' > MaxNodes[p] => PlanPool(p) /\ Overlooked(p)]_vars
    BY <1>1
  <1> QED
    BY <1>2, Invariance, PTL DEF Spec, OverMaxOnlyOverlooked

\* The load of no pool exceeds its maximum.
LoadWithinMax == \A p \in Pools : Load(p) <= MaxNodes[p]

\* max_nodes is kept in every behaviour whose plans overlook no VM (README.md:198,
\* under the hypothesis it needs).
THEOREM MaxNodesConditional == Spec => MaxNodesIfNoneOverlooked
  <1> DEFINE Sees == \A p \in Pools : PlanPool(p) => ~Overlooked(p)
  <1>1. Init => LoadWithinMax
    <2> SUFFICES ASSUME Init, NEW p \in Pools PROVE Load(p) <= MaxNodes[p]
      BY DEF LoadWithinMax
    <2>1. InPool(Committed, p) = {} /\ toCreate[p] = 0
      BY DEF Init, Committed, InPool, Nothing
    <2>2. Load(p) = 0
      BY <2>1, FS_EmptySet DEF Load
    <2> QED
      BY <2>2, MaxAssumption
  <1>2. IInv /\ IInv' /\ [Next]_vars /\ [Sees]_vars /\ LoadWithinMax => LoadWithinMax'
    <2> SUFFICES ASSUME IInv, IInv', [Next]_vars, [Sees]_vars, LoadWithinMax, NEW p \in Pools
                 PROVE  Load(p)' <= MaxNodes[p]
      BY DEF LoadWithinMax
    <2>1. Load(p) \in Nat /\ Load(p)' \in Nat /\ MaxNodes[p] \in Nat
      <3>1. TypeOK /\ TypeOK'
        BY DEF IInv
      <3> QED
        BY <3>1, LoadIsNat, MaxAssumption
    <2>2. Load(p) <= MaxNodes[p]
      BY DEF LoadWithinMax
    <2>3. ASSUME NEW q \in Pools, PlanPool(q), ~Overlooked(q) PROVE Load(p)' <= MaxNodes[p]
      BY <2>2, <2>3, PlanKeepsLoad
    <2>4. ASSUME UNCHANGED vars PROVE Load(p)' = Load(p)
      BY <2>4 DEF vars, Load, Committed, InPool
    <2>5. CASE \A q \in Pools : ~PlanPool(q)
      BY <2>1, <2>2, <2>5, LoadOnlyPlanned
    <2> QED
      BY <2>1, <2>2, <2>3, <2>4, <2>5
  <1>3. IInv /\ LoadWithinMax => MaxNodesRespected
    <2> SUFFICES ASSUME IInv, LoadWithinMax, NEW p \in Pools
                 PROVE  Cardinality({n \in Names :
                          PoolOf[n] = p /\ server[n] \notin {"none", "astray"}}) <= MaxNodes[p]
      BY DEF MaxNodesRespected
    <2> DEFINE Having == {n \in Names : server[n] \notin {"none", "astray"}}
    <2>1. Committed \in SUBSET Names /\ Having \in SUBSET Committed
      BY DEF Committed
    <2>2. Cardinality(InPool(Having, p)) <= Cardinality(InPool(Committed, p))
      BY <2>1, PoolShrinks
    <2>3. /\ Cardinality(InPool(Having, p)) \in Nat
          /\ Cardinality(InPool(Committed, p)) \in Nat
      BY <2>1, PoolSize
    <2>4. toCreate[p] \in Nat /\ MaxNodes[p] \in Nat
      BY PlanIsNat DEF IInv
    <2>5. Cardinality(InPool(Having, p)) <= MaxNodes[p]
      BY <2>2, <2>3, <2>4 DEF LoadWithinMax, Load
    <2>6. InPool(Having, p) = {n \in Names : PoolOf[n] = p /\ server[n] \notin {"none", "astray"}}
      BY DEF InPool
    <2> QED
      BY <2>5, <2>6
  <1> HIDE DEF Sees
  <1>4. Spec /\ [][Sees]_vars => []MaxNodesRespected
    BY <1>1, <1>2, <1>3, Invariance, PTL DEF Spec
  <1> QED
    BY <1>4, PTL DEF MaxNodesIfNoneOverlooked, Sees

=============================================================================
