-------------------------- MODULE PoolMatchProofs --------------------------
(***************************************************************************)
(* What pool matching promises when every pool's node_labels do name the   *)
(* pool, for any such configuration and any number of pods and names.  Run *)
(* PoolMatchUnlabelled shows what becomes of it when they do not.          *)
(***************************************************************************)
EXTENDS PoolMatch, FiniteSetTheorems, TLAPS

\* What a YAML list of pools with integer bounds is.
ListsOfPools ==
  \A pools \in Configs : \A i \in DOMAIN pools :
    i \in Nat \ {0} /\ pools[i].min \in Int /\ pools[i].max \in Int

\* The configuration is the one that was loaded, and names the pools on the nodes.
Loaded == cfg \in Configs /\ Validate(cfg) /\ Labelled

\* Whatever name the platform, the cluster, the tracker or the tick holds was
\* generated for a pool.
Generated ==
  /\ servers \subseteq Names /\ joined \subseteq servers
  /\ tracked \subseteq Names /\ nodes \subseteq Names
  /\ builtBy \in [Names -> DOMAIN cfg \cup {0}]
  /\ \A n \in servers \cup tracked \cup nodes : builtBy[n] # 0

\* What is still to start has room beside the nodes listed and those in flight.
Room ==
  /\ pending \subseteq Pods /\ waiting \subseteq Pods
  /\ left \subseteq DOMAIN cfg
  /\ toCreate \in Nat
  /\ pool # 0 <=> toCreate > 0
  /\ toCreate > 0 =>
       /\ pc = "plan"
       /\ pool \in DOMAIN cfg
       /\ Cardinality(BuiltFor(nodes \cup tracked, pool)) + toCreate <= cfg[pool].max

IInv == Loaded /\ Generated /\ Room

-----------------------------------------------------------------------------
\* No two pools bear one name: those that are counted for a pool, among names that
\* were generated, are those that were generated for it.
LEMMA CountedAreBuilt ==
  ASSUME ListsOfPools, Loaded, Generated, NEW i \in DOMAIN cfg,
         NEW S \in SUBSET (servers \cup tracked \cup nodes)
  PROVE  Counted(S, i) = Cardinality(BuiltFor(S, i))
  <1>1. ASSUME NEW n \in S
        PROVE  Value(LabelsOf(n), "pool") = cfg[i].name <=> builtBy[n] = i
    <2>1. builtBy[n] \in DOMAIN cfg
      BY DEF Generated
    <2>2. Value(LabelsOf(n), "pool") = cfg[builtBy[n]].name
      BY <2>1 DEF Loaded, Labelled, LabelsOf
    <2> QED
      BY <2>1, <2>2 DEF Loaded, Validate
  <1>2. {n \in S : Value(LabelsOf(n), "pool") = cfg[i].name} = BuiltFor(S, i)
    BY <1>1 DEF BuiltFor
  <1> QED
    BY <1>2 DEF Counted

\* Nor is a node taken for one of another pool.
LEMMA OwnerIs ==
  ASSUME ListsOfPools, Loaded, Generated, NEW n \in joined
  PROVE  PoolForNode(n) = builtBy[n]
  <1> DEFINE i == builtBy[n]
  <1>1. i \in DOMAIN cfg
    BY DEF Generated
  <1>2. Value(LabelsOf(n), "pool") = cfg[i].name
    BY <1>1 DEF Loaded, Labelled, LabelsOf
  <1>3. {j \in DOMAIN cfg : cfg[j].name = cfg[i].name} = {i}
    BY <1>1 DEF Loaded, Validate
  <1>4. First({i}) = i
    <2>1. (CHOOSE k \in {i} : \A j \in {i} : k <= j) = i
      <3>1. i \in Nat
        BY <1>1 DEF Loaded, ListsOfPools
      <3> QED
        BY <3>1
    <2> QED
      BY <2>1 DEF First
  <1> QED
    BY <1>2, <1>3, <1>4 DEF PoolForNode, PoolByName

\* Names are finitely many, so that a count is a number and grows with its set.
LEMMA NamesCount ==
  ASSUME IsFiniteSet(Names), NEW S \in SUBSET Names, NEW T \in SUBSET S
  PROVE  /\ IsFiniteSet(S) /\ Cardinality(S) \in Nat
         /\ IsFiniteSet(T) /\ Cardinality(T) \in Nat
         /\ Cardinality(T) <= Cardinality(S)
  <1>1. IsFiniteSet(S) /\ IsFiniteSet(T)
    BY FS_Subset
  <1> QED
    BY <1>1, FS_Subset, FS_CardinalityType

\* Before the first tick nothing was generated.
LEMMA InitInvariant == ListsOfPools /\ Init /\ Labelled => IInv
  BY DEF Init, IInv, Loaded, Generated, Room

\* Every step keeps what was loaded, and takes no name that is in use.
LEMMA GeneratedKept ==
  ASSUME ListsOfPools, IInv, [Next]_vars
  PROVE  Loaded' /\ Generated'
  <1>1. cfg' = cfg
    BY DEF Next, ListPendingPods, ListNodes, TickEnds, PlanPool, StartCreate, EntryGoes,
           Joins, Leaves, Waits, Bind, vars
  <1>2. Loaded'
    BY <1>1 DEF IInv, Loaded, Labelled, Validate
  <1>3. ASSUME NEW n \in Names, StartCreate(n) PROVE Generated'
    BY <1>1, <1>3 DEF StartCreate, Fresh, IInv, Generated, Room
  <1>4. ASSUME NEW n \in Names, EntryGoes(n) \/ Joins(n) \/ Leaves(n) PROVE Generated'
    BY <1>1, <1>4 DEF EntryGoes, Joins, Leaves, IInv, Generated, tick
  <1>5. ASSUME ListPendingPods \/ ListNodes \/ TickEnds \/ UNCHANGED vars
        PROVE  Generated'
    <2>1. /\ UNCHANGED <<servers, joined, builtBy, tracked>>
          /\ nodes' = nodes \/ nodes' = joined \/ nodes' = {}
      BY <1>5 DEF ListPendingPods, ListNodes, TickEnds, cluster, vars
    <2> QED
      BY <1>1, <2>1 DEF IInv, Generated
  <1>6. ASSUME NEW i \in DOMAIN cfg, PlanPool(i) PROVE Generated'
    BY <1>1, <1>6 DEF PlanPool, IInv, Generated, cluster
  <1>7. ASSUME NEW p \in Pods, Waits(p) \/ Bind(p) PROVE Generated'
    BY <1>1, <1>7 DEF Waits, Bind, IInv, Generated, tick
  <1> QED
    BY <1>2, <1>3, <1>4, <1>5, <1>6, <1>7 DEF Next

\* A plan leaves room for what it orders, beside what it counted.
LEMMA PlanLeavesRoom ==
  ASSUME IsFiniteSet(Names), IsFiniteSet(Pods), ListsOfPools, IInv,
         NEW i \in DOMAIN cfg, PlanPool(i)
  PROVE  Room'
  <1> DEFINE L == BuiltFor(nodes, i)
             F == BuiltFor(tracked, i)
  <1>1. /\ cfg[i].max \in Int /\ i # 0
        /\ nodes \in SUBSET Names /\ tracked \in SUBSET Names
    BY DEF IInv, Loaded, Generated, ListsOfPools
  <1>2. Pending(pending, i) \in Nat
    BY FS_Subset, FS_CardinalityType DEF Pending, IInv, Room
  <1>3. /\ L \in SUBSET Names /\ F \in SUBSET Names
        /\ BuiltFor(nodes \cup tracked, i) = L \cup F
    BY <1>1 DEF BuiltFor
  <1>4. /\ IsFiniteSet(L) /\ IsFiniteSet(F) /\ IsFiniteSet(L \cap F)
        /\ Cardinality(L) \in Nat /\ Cardinality(F) \in Nat /\ Cardinality(L \cap F) \in Nat
    <2>1. L \cap F \in SUBSET F
      OBVIOUS
    <2> QED
      BY <1>3, <2>1, NamesCount
  <1>5. Cardinality(L \cup F) = Cardinality(L) + Cardinality(F) - Cardinality(L \cap F)
    BY <1>4, FS_Union
  <1>6. Counted(nodes, i) = Cardinality(L) /\ InFlight(i) = Cardinality(F)
    BY CountedAreBuilt DEF IInv, InFlight
  <1> HIDE DEF L, F
  <1>7. /\ toCreate' \in Nat
        /\ toCreate' > 0 => toCreate' <= cfg[i].max - (Cardinality(L) + Cardinality(F))
    BY <1>1, <1>2, <1>4, <1>6 DEF PlanPool, AtLeastZero, Least
  <1>8. toCreate' > 0 => Cardinality(L \cup F) + toCreate' <= cfg[i].max
    BY <1>1, <1>4, <1>5, <1>7
  <1>9. /\ pc = "plan" /\ UNCHANGED <<cfg, cluster, builtBy, tracked, pc, pending, nodes>>
        /\ left' \subseteq left /\ pool' = IF toCreate' = 0 THEN 0 ELSE i
    BY DEF PlanPool
  <1>10. BuiltFor(nodes \cup tracked, i)' = L \cup F
    BY <1>3, <1>9 DEF BuiltFor
  <1>11. toCreate' > 0 => pool' = i /\ pool' \in DOMAIN cfg'
    BY <1>7, <1>9
  <1>12. pool' # 0 <=> toCreate' > 0
    BY <1>1, <1>7, <1>9
  <1>13. toCreate' > 0 =>
           Cardinality(BuiltFor(nodes \cup tracked, pool)') + toCreate' <= cfg'[pool'].max
    BY <1>8, <1>9, <1>10, <1>11 DEF BuiltFor
  <1> QED
    BY <1>7, <1>9, <1>11, <1>12, <1>13 DEF IInv, Room, cluster

\* A creation takes from the room the one place it was planned.
LEMMA StartTakesRoom ==
  ASSUME IsFiniteSet(Names), ListsOfPools, IInv, NEW n \in Names, StartCreate(n),
         NEW i \in DOMAIN cfg
  PROVE  /\ Room'
         /\ IF i = pool THEN Cardinality(BuiltFor(nodes \cup tracked, i)') <= cfg[i].max
                        ELSE BuiltFor(tracked, i)' = BuiltFor(tracked, i)
  <1> DEFINE B(k) == BuiltFor(nodes \cup tracked, k)
  <1>1. /\ toCreate \in Nat /\ toCreate > 0 /\ pool \in DOMAIN cfg /\ pc = "plan"
        /\ Cardinality(B(pool)) + toCreate <= cfg[pool].max
        /\ cfg[pool].max \in Int
    BY DEF StartCreate, IInv, Room, Loaded, ListsOfPools
  <1>2. /\ cfg' = cfg /\ nodes' = nodes /\ tracked' = tracked \cup {n}
        /\ builtBy' = [builtBy EXCEPT ![n] = pool]
        /\ n \in Names /\ n \notin nodes \cup tracked
        /\ builtBy \in [Names -> DOMAIN cfg \cup {0}]
        /\ nodes \subseteq Names /\ tracked \subseteq Names
    BY DEF StartCreate, Fresh, IInv, Generated
  <1>3. {m \in nodes' \cup tracked' : builtBy'[m] = pool} = B(pool) \cup {n}
    BY <1>2 DEF BuiltFor
  <1>4. n \notin B(pool) /\ B(pool) \in SUBSET Names
    BY <1>2 DEF BuiltFor
  <1>5. Cardinality(B(pool) \cup {n}) = Cardinality(B(pool)) + 1 /\ Cardinality(B(pool)) \in Nat
    BY <1>4, NamesCount, FS_AddElement
  <1>6. /\ toCreate' = toCreate - 1 /\ pool' = (IF toCreate' = 0 THEN 0 ELSE pool)
        /\ UNCHANGED <<waiting, pc, pending, left>>
    BY DEF StartCreate
  <1> HIDE DEF B
  <1>7. Cardinality(B(pool) \cup {n}) + toCreate' <= cfg[pool].max /\ toCreate' \in Nat
    BY <1>1, <1>5, <1>6
  <1>8. Room'
    <2>1. toCreate' > 0 => pool' = pool
      BY <1>6
    <2>2. pool' # 0 <=> toCreate' > 0
      BY <1>1, <1>6, <1>7 DEF ListsOfPools, IInv, Loaded
    <2>3. toCreate' > 0 => Cardinality(BuiltFor(nodes \cup tracked, pool)') + toCreate' <= cfg'[pool'].max
      BY <1>2, <1>3, <1>7, <2>1 DEF BuiltFor
    <2> QED
      BY <1>1, <1>2, <1>6, <1>7, <2>1, <2>2, <2>3 DEF IInv, Room
  <1>9. CASE i = pool
    <2>1. BuiltFor(nodes \cup tracked, i)' = B(pool) \cup {n}
      BY <1>3, <1>9 DEF BuiltFor
    <2>2. Cardinality(B(pool) \cup {n}) <= cfg[i].max
      BY <1>1, <1>5, <1>7, <1>9
    <2> QED
      BY <1>8, <1>9, <2>1, <2>2
  <1>10. CASE i # pool
    BY <1>2, <1>8, <1>10 DEF BuiltFor
  <1> QED
    BY <1>9, <1>10

\* No other step takes any of the room.
LEMMA OthersLeaveRoom ==
  ASSUME IsFiniteSet(Names), ListsOfPools, IInv,
         \/ ListPendingPods \/ ListNodes \/ TickEnds \/ UNCHANGED vars
         \/ \E n \in Names : EntryGoes(n) \/ Joins(n) \/ Leaves(n)
         \/ \E p \in Pods : Waits(p) \/ Bind(p)
  PROVE  Room' /\ \A i \in DOMAIN cfg : BuiltFor(tracked, i)' \subseteq BuiltFor(tracked, i)
  <1>1. /\ cfg' = cfg /\ builtBy' = builtBy /\ tracked' \subseteq tracked
        /\ UNCHANGED <<pool, toCreate>>
        /\ pc = "plan" /\ pool # 0 => UNCHANGED <<pc, nodes>>
    BY DEF ListPendingPods, ListNodes, TickEnds, EntryGoes, Joins, Leaves, Waits, Bind,
           tick, vars
  <1>2. pending' \subseteq Pods /\ waiting' \subseteq Pods /\ left' \subseteq DOMAIN cfg
    BY DEF ListPendingPods, ListNodes, TickEnds, EntryGoes, Joins, Leaves, Waits, Bind,
           tick, cluster, vars, IInv, Room
  <1>3. ASSUME toCreate > 0
        PROVE  Cardinality(BuiltFor(nodes \cup tracked, pool)') + toCreate <= cfg[pool].max
    <2> DEFINE B == BuiltFor(nodes \cup tracked, pool)
               C == BuiltFor(nodes \cup tracked, pool)'
    <2>1. /\ pc = "plan" /\ pool # 0 /\ toCreate \in Nat
          /\ Cardinality(B) + toCreate <= cfg[pool].max /\ cfg[pool].max \in Int
      BY <1>3 DEF IInv, Room, Loaded, ListsOfPools
    <2>2. nodes' = nodes
      BY <1>1, <2>1
    <2>3. C \in SUBSET B /\ B \in SUBSET Names
      BY <1>1, <2>2 DEF BuiltFor, IInv, Generated
    <2>4. Cardinality(C) <= Cardinality(B) /\ Cardinality(C) \in Nat /\ Cardinality(B) \in Nat
      BY <2>3, NamesCount
    <2> QED
      BY <2>1, <2>4
  <1>4. Room'
    BY <1>1, <1>2, <1>3 DEF IInv, Room
  <1>5. \A i \in DOMAIN cfg : BuiltFor(tracked, i)' \subseteq BuiltFor(tracked, i)
    BY <1>1 DEF BuiltFor
  <1> QED
    BY <1>4, <1>5

\* What one step may do to a pool.
StartsWithin(i) ==
  \/ BuiltFor(tracked, i)' \subseteq BuiltFor(tracked, i)
  \/ Cardinality(BuiltFor(nodes \cup tracked, i)') <= cfg[i].max

\* Every step keeps the invariant, and starts nothing there is no room for.
LEMMA StepKeeps ==
  ASSUME IsFiniteSet(Names), IsFiniteSet(Pods), ListsOfPools, IInv, [Next]_vars
  PROVE  IInv' /\ \A i \in DOMAIN cfg : StartsWithin(i)
  <1>1. Loaded' /\ Generated'
    BY GeneratedKept
  <1>2. ASSUME NEW k \in DOMAIN cfg, PlanPool(k)
        PROVE  Room' /\ \A i \in DOMAIN cfg : StartsWithin(i)
    <2>1. Room'
      BY <1>2, PlanLeavesRoom
    <2>2. \A i \in DOMAIN cfg : BuiltFor(tracked, i)' \subseteq BuiltFor(tracked, i)
      BY <1>2 DEF PlanPool, BuiltFor
    <2> QED
      BY <2>1, <2>2 DEF StartsWithin
  <1>3. ASSUME NEW n \in Names, StartCreate(n)
        PROVE  Room' /\ \A i \in DOMAIN cfg : StartsWithin(i)
    <2>1. pool \in DOMAIN cfg
      BY <1>3 DEF StartCreate, IInv, Room
    <2>2. Room'
      BY <1>3, <2>1, StartTakesRoom
    <2>3. ASSUME NEW i \in DOMAIN cfg PROVE StartsWithin(i)
      BY <1>3, <2>3, StartTakesRoom DEF StartsWithin
    <2> QED
      BY <2>2, <2>3
  <1>4. ASSUME \/ ListPendingPods \/ ListNodes \/ TickEnds \/ UNCHANGED vars
               \/ \E n \in Names : EntryGoes(n) \/ Joins(n) \/ Leaves(n)
               \/ \E p \in Pods : Waits(p) \/ Bind(p)
        PROVE  Room' /\ \A i \in DOMAIN cfg : StartsWithin(i)
    BY <1>4, OthersLeaveRoom DEF StartsWithin
  <1> QED
    BY <1>1, <1>2, <1>3, <1>4 DEF Next, IInv

-----------------------------------------------------------------------------
\* With any configuration that Validate accepts and whose node_labels name their
\* pools, no tick starts a creation that takes a pool above max_nodes by the nodes
\* it listed and those in flight: the count by label misses none of them, and it
\* stays good for the whole range, whatever returns, joins or leaves meanwhile
\* (countNodesByPool, PendingTracker.Count and the creations in scaleUp).  Of nodes
\* that were in neither it says nothing: run ScaleUpOverMax does.
THEOREM StartsWithinMaxIfLabelled ==
  ASSUME IsFiniteSet(Names), IsFiniteSet(Pods), ListsOfPools
  PROVE  Spec /\ Labelled => StartedWithinMax
  <1>1. IInv /\ [Next]_vars => IInv'
    BY StepKeeps
  <1>2. IInv /\ [Next]_vars =>
          [\A i \in DOMAIN cfg :
             BuiltFor(tracked, i)' \subseteq BuiltFor(tracked, i)
             \/ Cardinality(BuiltFor(nodes \cup tracked, i)') <= cfg[i].max]_vars
    BY StepKeeps DEF StartsWithin
  <1> QED
    BY <1>1, <1>2, InitInvariant, PTL DEF Spec, StartedWithinMax

\* A node belongs, for scaleDown, to the pool it was built for (poolForNode): no
\* two pools bear one name, so the one that is found is the one.
THEOREM OwnerFound ==
  ASSUME IsFiniteSet(Names), IsFiniteSet(Pods), ListsOfPools
  PROVE  Spec /\ Labelled => [](\A n \in joined : PoolForNode(n) = builtBy[n])
  <1>1. IInv /\ [Next]_vars => IInv'
    BY StepKeeps
  <1>2. IInv => \A n \in joined : PoolForNode(n) = builtBy[n]
    BY OwnerIs DEF IInv
  <1> QED
    BY <1>1, <1>2, InitInvariant, PTL DEF Spec

\* Counting by label is then exact, for the nodes a tick of scaleUp has listed and
\* for those there are, whatever the selectors and the other labels are
\* (countNodesByPool).
THEOREM CountsExact ==
  ASSUME IsFiniteSet(Names), IsFiniteSet(Pods), ListsOfPools
  PROVE  Spec /\ Labelled =>
           [](\A i \in DOMAIN cfg : \A S \in {nodes, joined} :
                Counted(S, i) = Cardinality(BuiltFor(S, i)))
  <1>1. IInv /\ [Next]_vars => IInv'
    BY StepKeeps
  <1>2. IInv => \A i \in DOMAIN cfg : \A S \in {nodes, joined} :
                  Counted(S, i) = Cardinality(BuiltFor(S, i))
    <2> SUFFICES ASSUME IInv, NEW i \in DOMAIN cfg, NEW S \in {nodes, joined}
                 PROVE  Counted(S, i) = Cardinality(BuiltFor(S, i))
      OBVIOUS
    <2>1. S \in SUBSET (servers \cup tracked \cup nodes)
      BY DEF IInv, Generated
    <2> QED
      BY <2>1, CountedAreBuilt DEF IInv
  <1> QED
    BY <1>1, <1>2, InitInvariant, PTL DEF Spec

=============================================================================
