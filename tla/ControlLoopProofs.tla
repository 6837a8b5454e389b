------------------------- MODULE ControlLoopProofs -------------------------
(***************************************************************************)
(* The safety of ControlLoop, for any pools, names and pending pods.       *)
(*                                                                         *)
(* The loop only lets through what ScaleUp does, so that ScaleUp's         *)
(* invariants, proved in ScaleUpProofs, hold of the scale-up ticks while   *)
(* scale-down ticks, a signal and the end of Run come between.             *)
(***************************************************************************)
EXTENDS ControlLoop, ScaleUpProofs

\* The loop's own variables.
ControlTypeOK ==
  /\ loop \in Places
  /\ scaleDownInProgress \in BOOLEAN
  /\ cancelled \in BOOLEAN

LoopIInv == ControlTypeOK /\ OneTickAtATime

-----------------------------------------------------------------------------
\* Run begins with a scale-up tick and without a scale-down tick.
LEMMA LoopInitInvariant == LoopInit => LoopIInv
  BY DEF LoopInit, LoopIInv, ControlTypeOK, Places, OneTickAtATime, Init

\* What happens beside the goroutine of Run does not move it.
LEMMA BesideKeeps ==
  ASSUME LoopIInv,
         \/ \E n \in Names : DownRemoves(n) \/ Creates(n)
         \/ Surroundings
  PROVE  LoopIInv'
  <1> USE DEF Kept, control
  <1>1. UNCHANGED <<loop, scaleDownInProgress, cancelled>>
    BY DEF DownRemoves, Creates, Surroundings
  <1>2. pc' = pc
    BY DEF DownRemoves, Creates, Surroundings, Leaves, Environment,
           EntryAges, StrayEnds, Provisioned, Joins, PodsChange, CreateNode,
           OrderArrives, PostAccepted, PostFails, PostLost,
           CreateSucceeds, CreateGivesUp, tick
  <1> QED
    BY <1>1, <1>2 DEF LoopIInv, ControlTypeOK, OneTickAtATime

\* Steps of the scale-up tick are made in "up", and leave the mutex alone.
LEMMA UpKeeps ==
  ASSUME LoopIInv,
         \/ UpBegins \/ UpFails \/ UpLists \/ UpEnds
         \/ \E p \in Pools : UpPlans(p)
         \/ \E p \in Pools, n \in Names : UpCreates(p, n)
  PROVE  LoopIInv'
  <1> USE DEF LoopIInv, ControlTypeOK, OneTickAtATime, Places
  <1>1. CASE UpEnds \/ UpFails
    BY <1>1 DEF UpEnds, UpFails, Back, vars, TickDone, ListNodesFails,
                EndTick
  <1>2. CASE \/ UpBegins \/ UpLists
             \/ \E p \in Pools : UpPlans(p)
             \/ \E p \in Pools, n \in Names : UpCreates(p, n)
    <2>1. loop = "up" /\ UNCHANGED <<loop, scaleDownInProgress, cancelled>>
      BY <1>2 DEF UpBegins, UpLists, UpPlans, UpCreates, Kept, control
    <2> QED
      BY <2>1
  <1> QED
    BY <1>1, <1>2

\* Every step keeps the ticks apart.
LEMMA LoopStepKeeps == LoopIInv /\ [LoopNext]_system => LoopIInv'
  <1> SUFFICES ASSUME LoopIInv, [LoopNext]_system PROVE LoopIInv'
    OBVIOUS
  <1>1. CASE UNCHANGED system
    BY <1>1 DEF system, vars, control, LoopIInv, ControlTypeOK, OneTickAtATime
  <1>2. CASE SelectUp \/ SelectDown \/ SelectDone \/ DownEnds \/ Signal
    <2>1. pc' = pc
      BY <1>2 DEF SelectUp, SelectDown, SelectDone, DownEnds, Signal, vars
    <2>2. ControlTypeOK'
      BY <1>2
      DEF SelectUp, SelectDown, SelectDone, DownEnds, Signal, LoopIInv, ControlTypeOK,
          Places
    <2>3. OneTickAtATime'
      BY <1>2, <2>1
      DEF SelectUp, SelectDown, SelectDone, DownEnds, Signal, LoopIInv, OneTickAtATime
    <2> QED
      BY <2>2, <2>3 DEF LoopIInv
  <1> QED
    BY <1>1, <1>2, BesideKeeps, UpKeeps DEF LoopNext

\* The invariant of Run.
LEMMA LoopInvariance == LoopSpec => []LoopIInv
  BY LoopInitInvariant, LoopStepKeeps, PTL DEF LoopSpec

\* One tick at a time: the TryLock of runScaleDown never finds the mutex held.
THEOREM TicksApart == LoopSpec => []OneTickAtATime
  BY LoopInvariance, PTL DEF LoopIInv

-----------------------------------------------------------------------------
\* Run is one way for ScaleUp's ticks to be scheduled: whatever it does to the
\* tracker, the creations and the cluster is a step of ScaleUp.
THEOREM LoopImplementsScaleUp == LoopSpec => Spec
  <1>1. LoopInit => Init
    BY DEF LoopInit
  <1>2. [LoopNext]_system => [Next]_vars
    <2> SUFFICES ASSUME [LoopNext]_system PROVE Next \/ UNCHANGED vars
      OBVIOUS
    <2> USE DEF Next, Running, Tick
    <2>1. CASE \/ SelectUp \/ SelectDown \/ SelectDone \/ DownEnds \/ Signal
               \/ UpFails \/ UNCHANGED system
      BY <2>1 DEF SelectUp, SelectDown, SelectDone, DownEnds, Signal, UpFails, system, vars
    <2>2. CASE UpBegins \/ UpLists \/ UpEnds
      BY <2>2 DEF UpBegins, UpLists, UpEnds
    <2>3. CASE \E p \in Pools : UpPlans(p)
      BY <2>3 DEF UpPlans
    <2>4. CASE \E p \in Pools, n \in Names : UpCreates(p, n)
      BY <2>4 DEF UpCreates
    <2>5. CASE \E n \in Names : DownRemoves(n) \/ Creates(n)
      BY <2>5 DEF DownRemoves, Creates, Environment
    <2>6. CASE Surroundings
      BY <2>6 DEF Surroundings
    <2> QED
      BY <2>1, <2>2, <2>3, <2>4, <2>5, <2>6 DEF LoopNext
  <1> QED
    BY <1>1, <1>2, PTL DEF LoopSpec, Spec

\* What is proved of ScaleUp's ticks holds of those the loop runs: plans, entries
\* and creations stay within max_nodes (scaleUp as Run schedules it).
THEOREM LoopWithinMax ==
  LoopSpec => []PlanWithinLimits /\ []TrackerWithinMax /\ []EntriesHaveCreators
  BY LoopImplementsScaleUp, PlansWithinLimits, TrackerBounded, NoOrphanEntries, PTL

\* Under Run's schedule too, with scale-down ticks removing nodes in between, only a
\* plan that overlooks a VM takes a pool past max_nodes (scaleUp as Run schedules it).
THEOREM LoopOverMaxOnlyByPlan == LoopSpec => OverMaxOnlyOverlooked /\ MaxNodesIfNoneOverlooked
  BY LoopImplementsScaleUp, OverMaxOnlyByPlan, MaxNodesConditional, PTL

\* Every variable of the loop, and of the ticks it runs, keeps to its type.
THEOREM LoopTypeCorrect == LoopSpec => []LoopTypeOK
  <1>1. TypeOK /\ LoopIInv => LoopTypeOK
    BY DEF LoopIInv, ControlTypeOK, LoopTypeOK
  <1> QED
    BY <1>1, LoopImplementsScaleUp, TypeCorrect, LoopInvariance, PTL

=============================================================================
