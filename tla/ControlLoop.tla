----------------------------- MODULE ControlLoop -----------------------------
(***************************************************************************)
(* Controller.Run (internal/controller/controller.go): one goroutine that  *)
(* serves two tickers and a context until the context is done.  It moves   *)
(* in the steps of ScaleUp, whose tick it lets begin and sees end; the     *)
(* tick of scaleDown is, from here, something that takes its time, removes *)
(* nodes, and keeps the goroutine, and the mutex, until it returns.        *)
(*                                                                         *)
(* One run of the process, from its start to the return of Run.            *)
(***************************************************************************)
EXTENDS ScaleUp

CONSTANT Hung   \* names whose creation may hang: their POST has no deadline

VARIABLES
  loop,        \* Run: where its goroutine is
  scaleDownInProgress,  \* the mutex is held
  cancelled    \* ctx: the process was told to stop

control == <<loop, scaleDownInProgress, cancelled>>
system  == <<vars, control>>

\* "up", "down": in runScaleUp, in runScaleDown; "stopped": Run has returned.
Places == {"select", "up", "down", "stopped"}

LoopTypeOK ==
  /\ TypeOK
  /\ loop \in Places
  /\ scaleDownInProgress \in BOOLEAN
  /\ cancelled \in BOOLEAN

\* The first scale-up tick comes at once.
LoopInit ==
  /\ Init
  /\ loop = "up"
  /\ scaleDownInProgress = FALSE
  /\ cancelled = FALSE

-----------------------------------------------------------------------------
(***************************************************************************)
(* The select.  A ticker's channel holds one tick and drops the others, so *)
(* that a tick may be ready whenever the select looks: the next one as     *)
(* well, as soon as a long one returns.                                    *)
(***************************************************************************)
SelectUp ==
  /\ loop = "select"
  /\ loop' = "up"
  /\ UNCHANGED <<vars, scaleDownInProgress, cancelled>>

\* Mutant: "go c.runScaleDown(ctx)".
SelectDownGo ==
  /\ loop = "select"
  /\ ~scaleDownInProgress
  /\ scaleDownInProgress' = TRUE
  /\ UNCHANGED <<vars, loop, cancelled>>

\* runScaleDown takes the mutex.  Its TryLock never fails (OneTickAtATime), so that
\* its branch that skips a tick has no action here.
SelectDown ==
  /\ loop = "select"
  /\ ~scaleDownInProgress
  /\ scaleDownInProgress' = TRUE
  /\ loop' = "down"
  /\ UNCHANGED <<vars, cancelled>>

\* Run returns, when the select happens to see ctx.Done: a ticker's tick that is
\* ready as well may be served first.
SelectDone ==
  /\ loop = "select"
  /\ cancelled
  /\ loop' = "stopped"
  /\ UNCHANGED <<vars, scaleDownInProgress, cancelled>>

-----------------------------------------------------------------------------
(***************************************************************************)
(* The ticks.  Calls made once the context is done fail.                   *)
(***************************************************************************)
Kept == UNCHANGED control

Back ==
  /\ loop' = "select"
  /\ UNCHANGED <<scaleDownInProgress, cancelled>>

UpBegins == loop = "up" /\ ~cancelled /\ ListPendingPods /\ Kept

\* ListPendingPods fails.
UpFails == loop = "up" /\ pc = "idle" /\ Back /\ UNCHANGED vars

UpLists == loop = "up" /\ ~cancelled /\ ListNodes /\ Kept

UpPlans(p) == loop = "up" /\ PlanPool(p) /\ Kept

UpCreates(p, n) == loop = "up" /\ (StartCreate(p, n) \/ NameTaken(p, n)) /\ Kept

\* Mutant: a tick whose ListNodes fails is tried again and again.
UpEndsWhenDone == loop = "up" /\ TickDone /\ Back

UpEnds == loop = "up" /\ (TickDone \/ ListNodesFails) /\ Back

\* scaleDown terminates a VM and deletes its node.
DownRemoves(n) ==
  /\ scaleDownInProgress
  /\ server[n] = "joined"
  /\ Leaves(n)
  /\ Kept

DownEnds ==
  /\ scaleDownInProgress
  /\ scaleDownInProgress' = FALSE
  /\ loop' = "select"
  /\ UNCHANGED <<vars, cancelled>>

-----------------------------------------------------------------------------
(***************************************************************************)
(* What goes on beside the loop.                                           *)
(***************************************************************************)

\* SIGINT or SIGTERM.
Signal ==
  /\ ~cancelled
  /\ cancelled' = TRUE
  /\ UNCHANGED <<vars, loop, scaleDownInProgress>>

\* The createNode goroutines live as long as the process.  Once the context is
\* done no POST is sent: one that was under way has arrived by then, or is lost.
Creates(n) ==
  /\ loop # "stopped"
  /\ CreateNode(n)
  /\ cancelled => ~OrderArrives(n)
  /\ Kept

Surroundings == Environment /\ Kept

LoopNext ==
  \/ SelectUp \/ SelectDown \/ SelectDone
  \/ UpBegins \/ UpFails \/ UpLists \/ UpEnds
  \/ \E p \in Pools : UpPlans(p)
  \/ \E p \in Pools, n \in Names : UpCreates(p, n)
  \/ \E n \in Names : DownRemoves(n) \/ Creates(n)
  \/ DownEnds
  \/ Signal
  \/ Surroundings

LoopSpec == LoopInit /\ [][LoopNext]_system

-----------------------------------------------------------------------------
(***************************************************************************)
(* Safety.                                                                 *)
(***************************************************************************)

\* While a scale-down tick runs no scale-up tick does, and no second scale-down
\* tick can be selected: the TryLock of runScaleDown, which controller.go:33-38
\* is there for, never finds the mutex held.
OneTickAtATime ==
  /\ scaleDownInProgress => loop = "down" /\ pc = "idle"
  /\ pc # "idle" => loop = "up"

-----------------------------------------------------------------------------
(***************************************************************************)
(* Liveness.                                                               *)
(***************************************************************************)

\* Calls are answered or fail, and those to the Kubernetes API do not fail for
\* ever; a select with several cases ready does not pass one over for ever.
UpFairness ==
  /\ SF_system(SelectUp) /\ SF_system(SelectDone)
  /\ WF_system(UpBegins \/ UpFails) /\ SF_system(UpBegins)
  /\ WF_system(UpLists \/ UpEnds)   /\ SF_system(UpLists)
  /\ \A p \in Pools : /\ WF_system(UpPlans(p))
                      /\ SF_system(\E n \in Names : UpCreates(p, n))
  /\ WF_system(DownEnds)

\* Creations with a name not in Hung return; entries age; of the commands sent
\* again and again the platform accepts some, and of those it accepts it
\* provisions some; what it provisions joins.
WorldFairness ==
  /\ \A n \in Names \ Hung : WF_system(Creates(n))
  /\ \A n \in Names : WF_system(EntryAges(n) /\ Kept)
  /\ \A p \in Pools :
       /\ SF_system(\E n \in InPool(Names, p) : Creates(n) /\ OrderArrives(n))
       /\ SF_system(\E n \in InPool(Names, p) : Provisioned(n) /\ Kept)
  /\ \A n \in Names : WF_system((Joins(n) \/ StrayEnds(n)) /\ Kept)

LoopFairSpec == LoopSpec /\ UpFairness /\ WorldFairness

\* The names do not run out: the instance recycles a few, generateNodeName does
\* not.
NamesLeft == \A p \in Pools : []<>(\E n \in InPool(Names, p) : Fresh(n))

\* The loop stops when it is told to, whatever it is doing and however often its
\* tickers fire (controller.go:78: "until ctx is cancelled").
ShutsDown == NamesLeft => (cancelled ~> loop = "stopped")

\* As long as nobody stops it, the loop serves a pool with pending pods although
\* one creation hangs for ever and scale-down ticks come between, as long as they
\* like and with ticks piling up behind them.
DemandServed == [](~cancelled) => PoolsServed

=============================================================================
