-------------------------- MODULE CmdWatcherProofs --------------------------
(***************************************************************************)
(* The safety of CmdWatcher, for any waits, commands and goroutine names.  *)
(*                                                                         *)
(* Whatever a tick has found stays true while it calls the console, for    *)
(* deadlines stay passed and commands ended (DoneTrue); delivery adds that *)
(* only a wait still tracked is sent its result.                           *)
(***************************************************************************)
EXTENDS CmdWatcher, TLAPS

\* running says whether there is a goroutine, and there is at most one.
RunnerInv ==
  /\ \A r, q \in Active : r = q
  /\ running <=> Active # {}
  /\ Tracked # {} => running

\* A call that has not begun has neither an entry nor a result.
NewUntouched == \A w \in Waits : call[w] = "new" => chan[w] = None

\* The completions a tick has found are true, and stay so.
DoneTrue ==
  \A r \in Runners, w \in Waits :
    /\ done[r][w] = "timeout" => w \in expired
    /\ done[r][w] = "failed"  => status[CommandOf[w]] = "failed"
    /\ done[r][w] \in {"success", "ok", "missing"} => status[CommandOf[w]] = "complete"
    /\ done[r][w] \in {"success", "missing"} => w \in Enrich
    /\ done[r][w] = "success" => step[r] = "servers"

IInv ==
  /\ TypeOK
  /\ RunnerInv
  /\ TrackedUnanswered
  /\ NewUntouched
  /\ DoneTrue
  /\ Truthful

-----------------------------------------------------------------------------
\* Nothing is tracked, found or sent at the start (newCmdWatcher).
LEMMA InitInvariant == Init => IInv
  <1> SUFFICES ASSUME Init PROVE IInv
    OBVIOUS
  <1>1. TypeOK
    BY DEF Init, TypeOK, Steps, Found, Result, CallState, NoneFound
  <1>2. Tracked = {} /\ Active = {}
    BY CommandOfAssumption, NoneAssumption DEF Init, Tracked, Active
  <1>3. RunnerInv /\ TrackedUnanswered
    BY <1>2 DEF Init, RunnerInv, TrackedUnanswered
  <1>4. NewUntouched /\ DoneTrue /\ Truthful
    BY NoneAssumption DEF Init, NewUntouched, DoneTrue, Truthful, NoneFound
  <1> QED
    BY <1>1, <1>3, <1>4 DEF IInv

-----------------------------------------------------------------------------
(***************************************************************************)
(* The caller's steps.                                                     *)
(***************************************************************************)
LEMMA RegisterKeeps ==
  ASSUME IInv, NEW w \in Waits, Register(w)
  PROVE  IInv'
  <1> USE DEF world
  <1>1. PICK r \in Runners : step' = IF running THEN step
                                    ELSE [step EXCEPT ![r] = "snapshot"]
    <2>1. CASE running
      <3>1. Runners # {}
        BY <2>1 DEF IInv, RunnerInv, Active
      <3> QED
        BY <2>1, <3>1 DEF Register
    <2>2. CASE ~running
      BY <2>2 DEF Register
    <2> QED
      BY <2>1, <2>2
  <1>2. TypeOK'
    BY <1>1, CommandOfAssumption, NoneAssumption
    DEF Register, IInv, TypeOK, Steps, CallState
  <1>3. Tracked' = Tracked \cup {w}
    BY CommandOfAssumption, NoneAssumption DEF Register, Tracked, IInv, TypeOK
  <1>4. RunnerInv'
    <2>1. CASE running
      BY <1>1, <2>1 DEF Register, IInv, RunnerInv, Active
    <2>2. CASE ~running
      <3>1. Active = {}
        BY <2>2 DEF IInv, RunnerInv
      <3>2. Active' = {r}
        BY <1>1, <2>2, <3>1 DEF Active, IInv, TypeOK
      <3> QED
        BY <3>2 DEF Register, RunnerInv
    <2> QED
      BY <2>1, <2>2
  <1>5. TrackedUnanswered' /\ NewUntouched'
    BY <1>3 DEF Register, IInv, TypeOK, TrackedUnanswered, NewUntouched
  <1>6. DoneTrue'
    <2>1. \A q \in Runners : step[q] = "servers" => step'[q] = "servers"
      BY <1>1 DEF IInv, TypeOK, RunnerInv, Active
    <2> QED
      BY <2>1 DEF Register, IInv, DoneTrue
  <1>7. Truthful'
    BY DEF Register, IInv, Truthful
  <1> QED
    BY <1>2, <1>4, <1>5, <1>6, <1>7 DEF IInv

\* The other steps of a caller leave the goroutine alone, and track no wait anew.
LEMMA CallerKeeps ==
  ASSUME IInv, NEW w \in Waits,
         RegisterTwice(w) \/ Receive(w) \/ GiveUp(w) \/ Cancel(w)
  PROVE  IInv'
  <1> USE DEF world, watcher, runners
  <1>1. TypeOK'
    BY CommandOfAssumption, NoneAssumption
    DEF RegisterTwice, Receive, GiveUp, Cancel, IInv, TypeOK, CallState
  <1>2. Tracked' \subseteq Tracked /\ (Cancel(w) => w \notin Tracked')
    BY CommandOfAssumption, NoneAssumption
    DEF RegisterTwice, Receive, GiveUp, Cancel, Tracked, IInv, TypeOK
  <1>3. UNCHANGED <<running, step, done, chan, world>>
    BY DEF RegisterTwice, Receive, GiveUp, Cancel
  <1>4. RunnerInv'
    BY <1>2, <1>3 DEF IInv, RunnerInv, Active
  <1>5. TrackedUnanswered'
    <2> SUFFICES ASSUME NEW v \in Tracked'
                 PROVE  chan'[v] = None /\ call'[v] \in {"blocked", "leaving"}
      BY DEF TrackedUnanswered
    <2>1. v \in Tracked /\ chan[v] = None /\ call[v] \in {"blocked", "leaving"}
      BY <1>2 DEF IInv, TrackedUnanswered
    <2>2. call'[v] \in {"blocked", "leaving"}
      <3>1. CASE GiveUp(w)
        BY <2>1, <3>1 DEF GiveUp, IInv, TypeOK, Tracked
      <3>2. CASE RegisterTwice(w) \/ Receive(w) \/ Cancel(w)
        <4>1. v # w
          BY <1>2, <2>1, <3>2 DEF RegisterTwice, Receive
        <4> QED
          BY <2>1, <3>2, <4>1 DEF RegisterTwice, Receive, Cancel, IInv, TypeOK, Tracked
      <3> QED
        BY <3>1, <3>2
    <2> QED
      BY <1>3, <2>1, <2>2
  <1>6. NewUntouched'
    BY DEF RegisterTwice, Receive, GiveUp, Cancel, IInv, TypeOK, NewUntouched
  <1>7. DoneTrue' /\ Truthful'
    BY <1>3 DEF IInv, DoneTrue, Truthful
  <1> QED
    BY <1>1, <1>4, <1>5, <1>6, <1>7 DEF IInv

-----------------------------------------------------------------------------
(***************************************************************************)
(* The goroutine's steps.                                                  *)
(***************************************************************************)

\* A delivery of true results keeps the entries, the channels and the callers as
\* they should be.
LEMMA SendKeeps ==
  ASSUME IInv, NEW results \in [Waits -> Result], Send(results),
         UNCHANGED <<call, world>>,
         \A w \in Waits :
           /\ results[w] = "timeout" => w \in expired
           /\ results[w] = "failed"  => status[CommandOf[w]] = "failed"
           /\ results[w] \in {"ok", "missing"} => status[CommandOf[w]] = "complete"
           /\ results[w] = "missing" => w \in Enrich
  PROVE  /\ chan' \in [Waits -> Result]
         /\ pending' \in [Commands -> Waits \cup {None}]
         /\ \A c \in Commands : pending'[c] # None => CommandOf[pending'[c]] = c
         /\ Tracked' \subseteq Tracked
         /\ TrackedUnanswered' /\ NewUntouched' /\ Truthful'
  <1> DEFINE sent == {w \in Tracked : results[w] # None}
  <1>1. /\ chan' = [w \in Waits |-> IF w \in sent THEN results[w] ELSE chan[w]]
        /\ pending' = [c \in Commands |-> IF pending[c] \in sent THEN None ELSE pending[c]]
    BY DEF Send
  <1>2. Tracked \subseteq Waits
    BY DEF Tracked
  <1>3. chan' \in [Waits -> Result]
    BY <1>1 DEF IInv, TypeOK
  <1>4. /\ pending' \in [Commands -> Waits \cup {None}]
        /\ \A c \in Commands : pending'[c] # None => CommandOf[pending'[c]] = c
    BY <1>1 DEF IInv, TypeOK
  <1>5. Tracked' \subseteq Tracked /\ Tracked' \cap sent = {}
    BY <1>1, CommandOfAssumption, NoneAssumption DEF Tracked, IInv, TypeOK
  <1>6. TrackedUnanswered'
    <2> SUFFICES ASSUME NEW v \in Tracked'
                 PROVE  chan'[v] = None /\ call'[v] \in {"blocked", "leaving"}
      BY DEF TrackedUnanswered
    <2>1. v \in Waits /\ v \in Tracked /\ v \notin sent
      BY <1>2, <1>5
    <2> QED
      BY <1>1, <2>1 DEF IInv, TrackedUnanswered
  <1>7. NewUntouched'
    <2> SUFFICES ASSUME NEW v \in Waits, call[v] = "new"
                 PROVE  chan'[v] = None
      BY DEF NewUntouched
    <2>1. v \notin sent
      BY DEF IInv, TrackedUnanswered
    <2> QED
      BY <1>1, <2>1 DEF IInv, NewUntouched
  <1>8. Truthful'
    BY <1>1 DEF IInv, Truthful, world
  <1> QED
    BY <1>3, <1>4, <1>5, <1>6, <1>7, <1>8

\* A goroutine moving from one step to another, none of them "gone", is as alone
\* as before.
LEMMA MovesAlone ==
  ASSUME IInv, NEW r \in Runners, step[r] # "gone",
         NEW to \in Steps \ {"gone"}, step' = [step EXCEPT ![r] = to],
         UNCHANGED running, Tracked' \subseteq Tracked
  PROVE  RunnerInv'
  <1>1. Active' = Active
    BY DEF Active, IInv, TypeOK
  <1> QED
    BY <1>1 DEF IInv, RunnerInv

\* The steps of run and tick: what a goroutine finds is true, and what it sends
\* goes to waits that are tracked, and only once.
LEMMA RunnerKeeps ==
  ASSUME IInv, NEW r \in Runners, Runner(r)
  PROVE  IInv'
  <1> USE DEF world, callers, watcher
  <1>1. CASE Snapshot(r)
    <2>1. Tracked' = Tracked /\ Tracked \subseteq Waits
      BY <1>1 DEF Snapshot, Tracked
    <2>2. TypeOK'
      BY <1>1, <2>1 DEF Snapshot, IInv, TypeOK, Steps
    <2>3. RunnerInv'
      BY <1>1, <2>1, MovesAlone DEF Snapshot, Steps
    <2>4. DoneTrue'
      BY <1>1 DEF Snapshot, IInv, TypeOK, DoneTrue
    <2> QED
      BY <1>1, <2>1, <2>2, <2>3, <2>4
      DEF Snapshot, IInv, TrackedUnanswered, NewUntouched, Truthful
  <1>2. CASE ListQueueFails(r)
    <2> DEFINE results == [w \in Waits |-> IF w \in snap[r] \cap expired THEN "timeout" ELSE None]
    <2>1. /\ results \in [Waits -> Result] /\ Send(results)
          /\ UNCHANGED <<call, world>>
          /\ \A w \in Waits :
               /\ results[w] = "timeout" => w \in expired
               /\ results[w] \notin {"failed", "ok", "missing"}
      BY <1>2, NoneAssumption DEF ListQueueFails, Result
    <2> HIDE DEF results
    <2>2. /\ chan' \in [Waits -> Result]
          /\ pending' \in [Commands -> Waits \cup {None}]
          /\ \A c \in Commands : pending'[c] # None => CommandOf[pending'[c]] = c
          /\ Tracked' \subseteq Tracked
          /\ TrackedUnanswered' /\ NewUntouched' /\ Truthful'
      BY <2>1, SendKeeps
    <2>3. TypeOK'
      BY <1>2, <2>2 DEF ListQueueFails, IInv, TypeOK, Steps
    <2>4. RunnerInv'
      BY <1>2, <2>2, MovesAlone DEF ListQueueFails, Steps
    <2>5. DoneTrue'
      BY <1>2 DEF ListQueueFails, IInv, TypeOK, DoneTrue
    <2> QED
      BY <2>2, <2>3, <2>4, <2>5 DEF IInv
  <1>3. CASE ListQueue(r)
    <2>1. PICK seen \in SUBSET Commands :
            done' = [done EXCEPT ![r] =
                       [w \in Waits |-> IF w \in snap[r] THEN Verdict(w, seen) ELSE None]]
      BY <1>3 DEF ListQueue
    <2>2. \A w \in Waits :
            LET v == Verdict(w, seen)
            IN  /\ v \in Found
                /\ v = "timeout" => w \in expired
                /\ v = "failed"  => status[CommandOf[w]] = "failed"
                /\ v \in {"success", "ok"} => status[CommandOf[w]] = "complete"
                /\ v # "missing"
                /\ v = "success" => w \in Enrich
      BY NoneAssumption, CommandOfAssumption DEF Verdict, Found, IInv, TypeOK
    <2>3. /\ \A w \in Waits : done'[r][w] = IF w \in snap[r] THEN Verdict(w, seen) ELSE None
          /\ \A q \in Runners \ {r} : done'[q] = done[q]
          /\ step' = [step EXCEPT ![r] = IF \E w \in Waits : done'[r][w] = "success"
                                           THEN "servers" ELSE "deliver"]
      BY <1>3, <2>1 DEF ListQueue, IInv, TypeOK
    <2>4. TypeOK'
      <3>1. done' \in [Runners -> [Waits -> Found]]
        BY <2>1, <2>2 DEF IInv, TypeOK, Found
      <3> QED
        BY <1>3, <2>3, <3>1 DEF ListQueue, IInv, TypeOK, Steps
    <2>5. Tracked' = Tracked
      BY <1>3 DEF ListQueue, Tracked
    <2>6. RunnerInv'
      BY <1>3, <2>3, <2>5, MovesAlone DEF ListQueue, Steps
    <2>7. DoneTrue'
      <3> SUFFICES ASSUME NEW q \in Runners, NEW w \in Waits
                   PROVE  /\ done'[q][w] = "timeout" => w \in expired
                          /\ done'[q][w] = "failed"  => status[CommandOf[w]] = "failed"
                          /\ done'[q][w] \in {"success", "ok", "missing"} =>
                                status[CommandOf[w]] = "complete"
                          /\ done'[q][w] \in {"success", "missing"} => w \in Enrich
                          /\ done'[q][w] = "success" => step'[q] = "servers"
        BY <1>3 DEF ListQueue, DoneTrue
      <3>1. CASE q = r
        <4>1. done'[r][w] = "success" => step'[r] = "servers"
          BY <2>3 DEF IInv, TypeOK
        <4> QED
          BY <2>2, <2>3, <3>1, <4>1, NoneAssumption
      <3>2. CASE q # r
        <4>1. done'[q] = done[q] /\ step'[q] = step[q]
          BY <2>3, <3>2 DEF IInv, TypeOK
        <4> QED
          BY <4>1 DEF IInv, DoneTrue
      <3> QED
        BY <3>1, <3>2
    <2> QED
      BY <1>3, <2>4, <2>5, <2>6, <2>7
      DEF ListQueue, IInv, TrackedUnanswered, NewUntouched, Truthful
  <1>4. CASE ListServers(r) \/ ListServersFails(r)
    <2>1. /\ step' = [step EXCEPT ![r] = "deliver"] /\ step[r] = "servers"
          /\ UNCHANGED <<watcher, snap, callers, world>>
      BY <1>4 DEF ListServers, ListServersFails
    <2>2. /\ done' \in [Runners -> [Waits -> Found]]
          /\ \A q \in Runners \ {r} : done'[q] = done[q]
          /\ \A w \in Waits :
               \/ done'[r][w] = done[r][w] /\ done[r][w] # "success"
               \/ done'[r][w] = None
               \/ done[r][w] = "success" /\ done'[r][w] \in {"ok", "missing"}
      <3>1. CASE ListServers(r)
        <4>1. PICK listed \in SUBSET Enrich :
                done' = [done EXCEPT ![r] =
                           [w \in Waits |-> IF @[w] # "success" THEN @[w]
                                            ELSE IF w \in listed THEN "ok" ELSE "missing"]]
          BY <3>1 DEF ListServers
        <4>2. done \in [Runners -> [Waits -> Found]]
          BY DEF IInv, TypeOK
        <4>3. done' \in [Runners -> [Waits -> Found]]
          BY <4>1, <4>2 DEF Found
        <4> QED
          BY <4>1, <4>2, <4>3
      <3>2. CASE ListServersFails(r)
        <4>1. done' = [done EXCEPT ![r] =
                         [w \in Waits |-> IF @[w] = "success" THEN None ELSE @[w]]]
          BY <3>2 DEF ListServersFails
        <4>2. done \in [Runners -> [Waits -> Found]]
          BY DEF IInv, TypeOK
        <4>3. done' \in [Runners -> [Waits -> Found]]
          BY <4>1, <4>2 DEF Found
        <4> QED
          BY <4>1, <4>2, <4>3
      <3> QED
        BY <1>4, <3>1, <3>2
    <2>3. TypeOK'
      BY <2>1, <2>2 DEF IInv, TypeOK, Steps
    <2>4. Tracked' = Tracked
      BY <2>1 DEF Tracked
    <2>5. RunnerInv'
      BY <2>1, <2>4, MovesAlone DEF Steps
    <2>6. DoneTrue'
      <3> SUFFICES ASSUME NEW q \in Runners, NEW w \in Waits
                   PROVE  /\ done'[q][w] = "timeout" => w \in expired
                          /\ done'[q][w] = "failed"  => status[CommandOf[w]] = "failed"
                          /\ done'[q][w] \in {"success", "ok", "missing"} =>
                                status[CommandOf[w]] = "complete"
                          /\ done'[q][w] \in {"success", "missing"} => w \in Enrich
                          /\ done'[q][w] = "success" => step'[q] = "servers"
        BY <2>1 DEF DoneTrue
      <3>1. CASE q = r
        BY <2>2, <3>1, NoneAssumption DEF IInv, DoneTrue
      <3>2. CASE q # r
        <4>1. done'[q] = done[q] /\ step'[q] = step[q]
          BY <2>1, <2>2, <3>2 DEF IInv, TypeOK
        <4> QED
          BY <4>1 DEF IInv, DoneTrue
      <3> QED
        BY <3>1, <3>2
    <2> QED
      BY <2>1, <2>3, <2>4, <2>5, <2>6
      DEF IInv, TrackedUnanswered, NewUntouched, Truthful
  <1>5. CASE Deliver(r)
    <2>1. \A w \in Waits : done[r][w] # "success"
      BY <1>5 DEF Deliver, IInv, DoneTrue
    <2>2. done[r] \in [Waits -> Result]
      BY <2>1 DEF IInv, TypeOK, Found, Result
    <2>3. /\ Send(done[r]) /\ UNCHANGED <<call, world>>
          /\ \A w \in Waits :
               /\ done[r][w] = "timeout" => w \in expired
               /\ done[r][w] = "failed"  => status[CommandOf[w]] = "failed"
               /\ done[r][w] \in {"ok", "missing"} => status[CommandOf[w]] = "complete"
               /\ done[r][w] = "missing" => w \in Enrich
      BY <1>5 DEF Deliver, IInv, DoneTrue
    <2>4. /\ chan' \in [Waits -> Result]
          /\ pending' \in [Commands -> Waits \cup {None}]
          /\ \A c \in Commands : pending'[c] # None => CommandOf[pending'[c]] = c
          /\ Tracked' \subseteq Tracked
          /\ TrackedUnanswered' /\ NewUntouched' /\ Truthful'
      BY <2>2, <2>3, SendKeeps
    <2>5. TypeOK'
      BY <1>5, <2>4 DEF Deliver, IInv, TypeOK, Steps, NoneFound, Found
    <2>6. RunnerInv'
      BY <1>5, <2>4, MovesAlone DEF Deliver, Steps
    <2>7. DoneTrue'
      BY <1>5, NoneAssumption DEF Deliver, IInv, TypeOK, DoneTrue, NoneFound
    <2> QED
      BY <2>4, <2>5, <2>6, <2>7 DEF IInv
  <1>6. CASE Check(r)
    <2>1. Tracked' = Tracked
      BY <1>6 DEF Check, Tracked
    <2>2. TypeOK'
      BY <1>6 DEF Check, IInv, TypeOK, Steps
    <2>3. RunnerInv'
      <3>1. CASE Tracked = {}
        <4>1. r \in Active /\ Active' = Active \ {r}
          BY <1>6, <3>1 DEF Check, Active, IInv, TypeOK
        <4>2. Active' = {}
          BY <4>1 DEF IInv, RunnerInv
        <4> QED
          BY <1>6, <2>1, <3>1, <4>2 DEF Check, RunnerInv
      <3>2. CASE Tracked # {}
        BY <1>6, <2>1, <3>2, MovesAlone DEF Check, Steps
      <3> QED
        BY <3>1, <3>2
    <2>4. DoneTrue'
      BY <1>6 DEF Check, IInv, TypeOK, DoneTrue
    <2> QED
      BY <1>6, <2>1, <2>2, <2>3, <2>4
      DEF Check, IInv, TrackedUnanswered, NewUntouched, Truthful
  <1>7. CASE Wake(r)
    <2>1. Tracked' = Tracked
      BY <1>7 DEF Wake, Tracked
    <2>2. TypeOK'
      BY <1>7 DEF Wake, IInv, TypeOK, Steps
    <2>3. RunnerInv'
      BY <1>7, <2>1, MovesAlone DEF Wake, Steps
    <2>4. DoneTrue'
      BY <1>7 DEF Wake, IInv, TypeOK, DoneTrue
    <2> QED
      BY <1>7, <2>1, <2>2, <2>3, <2>4
      DEF Wake, IInv, TrackedUnanswered, NewUntouched, Truthful
  <1> QED
    BY <1>1, <1>2, <1>3, <1>4, <1>5, <1>6, <1>7 DEF Runner

-----------------------------------------------------------------------------
\* Deadlines and contexts only pass, commands only end: what was found stays true.
LEMMA WorldKeeps ==
  ASSUME IInv, World
  PROVE  IInv'
  <1> USE DEF watcher, runners, callers
  <1>1. UNCHANGED <<pending, running, step, snap, done, call, chan>>
    BY DEF World, Expires, ContextDone, CommandEnds
  <1>2. /\ expired \subseteq expired' /\ expired' \subseteq Waits
        /\ cancelled' \subseteq Waits
        /\ status' \in [Commands -> {"open", "complete", "failed"}]
        /\ \A c \in Commands : status[c] # "open" => status'[c] = status[c]
    BY DEF World, Expires, ContextDone, CommandEnds, IInv, TypeOK
  <1>3. TypeOK'
    BY <1>1, <1>2 DEF IInv, TypeOK
  <1>4. RunnerInv' /\ TrackedUnanswered' /\ NewUntouched'
    BY <1>1 DEF IInv, RunnerInv, Active, TrackedUnanswered, Tracked, NewUntouched
  <1>5. DoneTrue' /\ Truthful'
    BY <1>1, <1>2, CommandOfAssumption DEF IInv, DoneTrue, Truthful
  <1> QED
    BY <1>3, <1>4, <1>5 DEF IInv

\* Every step of callers, goroutines and the world keeps the invariant.
LEMMA StepKeeps == IInv /\ [Next]_vars => IInv'
  <1> SUFFICES ASSUME IInv, [Next]_vars PROVE IInv'
    OBVIOUS
  <1>1. CASE UNCHANGED vars
    BY <1>1 DEF vars, IInv, TypeOK, RunnerInv, Active, Tracked, TrackedUnanswered,
                NewUntouched, DoneTrue, Truthful
  <1>2. CASE Next
    BY <1>2, RegisterKeeps, CallerKeeps, RunnerKeeps, WorldKeeps DEF Next, Caller
  <1> QED
    BY <1>1, <1>2

\* The invariant of register, run and tick holds in every reachable state.
LEMMA Invariance == Spec => []IInv
  BY InitInvariant, StepKeeps, PTL DEF Spec

\* Every variable keeps to its type; in particular no unfinished result, of a
\* success whose server was not looked up, is ever sent (retainCompletions).
THEOREM TypeCorrect == Spec => []TypeOK
  BY Invariance, PTL DEF IInv

\* For any number of concurrent waits there is one watcher goroutine while a wait
\* is tracked, and never two (register and run, on the running flag).
THEOREM OneRunnerAlways == Spec => []OneRunner
  <1>1. IInv => OneRunner
    BY DEF IInv, RunnerInv, OneRunner
  <1> QED
    BY <1>1, Invariance, PTL

\* No channel is sent a second result (tick and expireDeadlines).
THEOREM NoSecondResult == Spec => []TrackedUnanswered
  BY Invariance, PTL DEF IInv

\* No caller is told of a timeout, a failure or a success that is not its own,
\* however waits for the same command follow one another (tick).
THEOREM ResultsTruthful == Spec => []Truthful
  BY Invariance, PTL DEF IInv

-----------------------------------------------------------------------------
\* With a command for each wait, a caller that blocks is tracked until it has its
\* answer: cancel, which drops by command id, then drops its own wait only.
THEOREM NobodyForgotten ==
  ASSUME \A v, w \in Waits : CommandOf[v] = CommandOf[w] => v = w
  PROVE  Spec => []Unforgotten
  <1>1. Init => Unforgotten
    BY DEF Init, Unforgotten
  <1>2. IInv /\ Unforgotten /\ [Next]_vars => Unforgotten'
    <2> SUFFICES ASSUME IInv, Unforgotten, [Next]_vars,
                        NEW w \in Waits, call'[w] = "blocked"
                 PROVE  w \in Tracked' \/ chan'[w] # None
      BY DEF Unforgotten
    <2> USE DEF watcher, runners, callers, world
    <2>1. call[w] = "blocked" => pending[CommandOf[w]] = w \/ chan[w] # None
      BY DEF Unforgotten, Tracked
    <2>2. CASE Register(w)
      BY <2>2, CommandOfAssumption DEF Register, Tracked, IInv, TypeOK
    <2>3. ASSUME NEW v \in Waits, Caller(v), v # w PROVE w \in Tracked' \/ chan'[w] # None
      <3>1. CommandOf[v] # CommandOf[w] /\ call[w] = "blocked" /\ chan' = chan
        BY <2>3 DEF Caller, RegisterTwice, Register, Receive, GiveUp, Cancel, IInv, TypeOK
      <3>2. pending'[CommandOf[w]] = pending[CommandOf[w]]
        BY <2>3, <3>1, CommandOfAssumption
        DEF Caller, RegisterTwice, Register, Receive, GiveUp, Cancel, IInv, TypeOK
      <3> QED
        BY <2>1, <3>1, <3>2 DEF Tracked
    <2>4. CASE RegisterTwice(w) \/ Receive(w) \/ GiveUp(w) \/ Cancel(w)
      BY <2>4 DEF RegisterTwice, Receive, GiveUp, Cancel, IInv, TypeOK
    <2>5. ASSUME NEW r \in Runners, NEW results, Send(results), UNCHANGED call
          PROVE  w \in Tracked' \/ chan'[w] # None
      BY <2>1, <2>5, CommandOfAssumption, NoneAssumption DEF Send, Tracked, IInv, TypeOK
    <2>6. CASE UNCHANGED <<pending, call, chan>>
      BY <2>1, <2>6 DEF Tracked
    <2>7. ASSUME NEW r \in Runners, Runner(r) PROVE w \in Tracked' \/ chan'[w] # None
      <3>1. CASE ListQueueFails(r)
        BY <2>5, <3>1 DEF ListQueueFails
      <3>2. CASE Deliver(r)
        BY <2>5, <3>2 DEF Deliver
      <3>3. CASE UNCHANGED <<pending, call, chan>>
        BY <2>6, <3>3
      <3> QED
        BY <2>7, <3>1, <3>2, <3>3
        DEF Runner, Snapshot, ListQueue, ListServers, ListServersFails, Check, Wake
    <2>8. CASE World
      BY <2>6, <2>8 DEF World, Expires, ContextDone, CommandEnds
    <2> QED
      BY <2>2, <2>3, <2>4, <2>6, <2>7, <2>8 DEF Next, Caller, vars
  <1> QED
    BY <1>1, <1>2, Invariance, PTL DEF Spec

-----------------------------------------------------------------------------
(***************************************************************************)
(* CmdWatcher implements AsyncWait.                                        *)
(***************************************************************************)

\* A caller leaves the select early only because its context is done.
LeavingCancelled == \A w \in Waits : call[w] = "leaving" => w \in cancelled

\* Only GiveUp brings a caller there, and contexts that are done stay so.
LEMMA LeavingCancelledAlways == Spec => []LeavingCancelled
  <1>1. Init => LeavingCancelled
    BY DEF Init, LeavingCancelled
  <1>2. IInv /\ LeavingCancelled /\ [Next]_vars => LeavingCancelled'
    <2> SUFFICES ASSUME IInv, LeavingCancelled, [Next]_vars,
                        NEW w \in Waits, call'[w] = "leaving"
                 PROVE  w \in cancelled'
      BY DEF LeavingCancelled
    <2> USE DEF watcher, runners, callers, world, LeavingCancelled
    <2>1. CASE UNCHANGED <<call, cancelled>>
      BY <2>1
    <2>2. ASSUME NEW v \in Waits, Caller(v) PROVE w \in cancelled'
      BY <2>2 DEF Caller, RegisterTwice, Register, Receive, GiveUp, Cancel, IInv, TypeOK
    <2>3. ASSUME NEW r \in Runners, Runner(r) PROVE UNCHANGED <<call, cancelled>>
      BY <2>3 DEF Runner, Snapshot, ListQueueFails, ListQueue, ListServers,
                  ListServersFails, Deliver, Check, Wake
    <2>4. CASE World
      BY <2>4 DEF World, Expires, ContextDone, CommandEnds
    <2> QED
      BY <2>1, <2>2, <2>3, <2>4 DEF Next, vars
  <1> QED
    BY <1>1, <1>2, Invariance, PTL DEF Spec

\* newCmdWatcher starts where the promise does.
LEMMA InitImplements == Init => AW!Init
  BY DEF Init, AW!Init, Seen

\* A caller's step is the abstract one, or moves nothing the callers see.
LEMMA CallerImplements ==
  ASSUME IInv, LeavingCancelled, NEW w \in Waits, Caller(w)
  PROVE  AW!Next \/ UNCHANGED AW!vars
  <1> USE DEF watcher, runners, callers, world
  <1>1. call \in [Waits -> CallState]
    BY DEF IInv, TypeOK
  <1>2. CASE RegisterTwice(w)
    <2>1. PICK v \in Waits : v = pending[CommandOf[w]] /\ CommandOf[v] = CommandOf[w]
      BY <1>2, CommandOfAssumption, NoneAssumption DEF RegisterTwice, IInv, TypeOK
    <2>2. v \in Tracked
      BY <2>1 DEF Tracked
    <2>3. v # w /\ Seen(v) = "waiting"
      BY <1>2, <2>2 DEF IInv, TrackedUnanswered, RegisterTwice, Seen
    <2>4. AW!Refuse(w)
      BY <1>1, <1>2, <2>1, <2>3 DEF RegisterTwice, AW!Refuse, Seen
    <2> QED
      BY <2>4 DEF AW!Next
  <1>3. CASE Register(w)
    <2>1. AW!Ask(w)
      BY <1>1, <1>3 DEF Register, AW!Ask, Seen
    <2> QED
      BY <2>1 DEF AW!Next
  <1>4. CASE Receive(w)
    <2>1. AW!Return(w)
      BY <1>1, <1>4 DEF Receive, AW!Return, Seen
    <2> QED
      BY <2>1 DEF AW!Next
  <1>5. CASE GiveUp(w)
    BY <1>1, <1>5 DEF GiveUp, AW!vars, Seen
  <1>6. CASE Cancel(w)
    <2>1. w \in cancelled
      BY <1>6 DEF LeavingCancelled, Cancel
    <2>2. AW!Return(w)
      BY <1>1, <1>6, <2>1 DEF Cancel, AW!Return, Seen
    <2> QED
      BY <2>2 DEF AW!Next
  <1> QED
    BY <1>2, <1>3, <1>4, <1>5, <1>6 DEF Caller

\* A delivery of true results is the abstract answer.
LEMMA SendImplements ==
  ASSUME IInv, NEW results \in [Waits -> Result], Send(results),
         UNCHANGED <<call, world>>,
         \A w \in Waits :
           /\ results[w] = "timeout" => w \in expired
           /\ results[w] = "failed"  => status[CommandOf[w]] = "failed"
           /\ results[w] \in {"ok", "missing"} => status[CommandOf[w]] = "complete"
           /\ results[w] = "missing" => w \in Enrich
  PROVE  AW!Next
  <1>1. chan' \in [Waits -> AW!Answers \cup {None}]
    BY DEF Send, IInv, TypeOK, Result, AW!Answers
  <1>2. ASSUME NEW w \in Waits, chan'[w] # chan[w]
        PROVE  chan[w] = None /\ Seen(w) = "waiting" /\ AW!True(w, chan'[w])
    <2>1. w \in Tracked /\ results[w] # None /\ chan'[w] = results[w]
      BY <1>2 DEF Send, IInv, TypeOK
    <2>2. chan[w] = None /\ Seen(w) = "waiting"
      BY <2>1 DEF IInv, TrackedUnanswered, Seen
    <2>3. AW!True(w, results[w])
      BY <2>1 DEF AW!True, Result
    <2> QED
      BY <2>1, <2>2, <2>3
  <1>3. UNCHANGED <<[w \in Waits |-> Seen(w)], expired, cancelled, status>>
    BY DEF Seen, world
  <1>4. AW!Answer
    BY <1>1, <1>2, <1>3 DEF AW!Answer
  <1> QED
    BY <1>4 DEF AW!Next

\* The goroutine only ever answers.
LEMMA RunnerImplements ==
  ASSUME IInv, NEW r \in Runners, Runner(r)
  PROVE  AW!Next \/ UNCHANGED AW!vars
  <1>1. CASE ListQueueFails(r)
    <2> DEFINE late == [w \in Waits |-> IF w \in snap[r] \cap expired
                                         THEN "timeout" ELSE None]
    <2>1. late \in [Waits -> Result] /\ Send(late) /\ UNCHANGED <<call, world>>
      BY <1>1 DEF ListQueueFails, Result
    <2>2. \A w \in Waits : /\ late[w] = "timeout" => w \in expired
                           /\ late[w] \notin {"failed", "ok", "missing"}
      BY NoneAssumption
    <2> HIDE DEF late
    <2> QED
      BY <2>1, <2>2, SendImplements
  <1>2. CASE Deliver(r)
    <2>1. done[r] \in [Waits -> Result] /\ Send(done[r]) /\ UNCHANGED <<call, world>>
      BY <1>2 DEF Deliver, IInv, DoneTrue, TypeOK, Found, Result
    <2>2. \A w \in Waits :
            /\ done[r][w] = "timeout" => w \in expired
            /\ done[r][w] = "failed"  => status[CommandOf[w]] = "failed"
            /\ done[r][w] \in {"ok", "missing"} => status[CommandOf[w]] = "complete"
            /\ done[r][w] = "missing" => w \in Enrich
      BY DEF IInv, DoneTrue
    <2> QED
      BY <2>1, <2>2, SendImplements
  <1>3. CASE UNCHANGED <<callers, world>>
    BY <1>3 DEF callers, world, AW!vars, Seen
  <1> QED
    BY <1>1, <1>2, <1>3
    DEF Runner, Snapshot, ListQueue, ListServers, ListServersFails, Check, Wake

\* Time, contexts and the platform are the same in both.
LEMMA WorldImplements ==
  ASSUME World
  PROVE  AW!Next
  <1> USE DEF watcher, runners, callers
  <1>1. ASSUME NEW w \in Waits, Expires(w) PROVE AW!Expires(w)
    BY <1>1 DEF Expires, AW!Expires, Seen
  <1>2. ASSUME NEW w \in Waits, ContextDone(w) PROVE AW!ContextDone(w)
    BY <1>2 DEF ContextDone, AW!ContextDone, Seen
  <1>3. ASSUME NEW c \in Commands, CommandEnds(c) PROVE AW!CommandEnds(c)
    BY <1>3 DEF CommandEnds, AW!CommandEnds, Seen
  <1> QED
    BY <1>1, <1>2, <1>3 DEF World, AW!Next

\* Every behaviour of the watcher is, to its callers, one that WaitProvision and
\* WaitTerminate promise (register, cancel, tick and expireDeadlines).
THEOREM ImplementsAsyncWait == Spec => WaitsAsPromised
  <1>1. IInv /\ LeavingCancelled /\ [Next]_vars => [AW!Next]_AW!vars
    <2> SUFFICES ASSUME IInv, LeavingCancelled, [Next]_vars
                 PROVE  AW!Next \/ UNCHANGED AW!vars
      OBVIOUS
    <2>1. CASE UNCHANGED vars
      BY <2>1 DEF vars, AW!vars, Seen
    <2>2. CASE Next
      BY <2>2, CallerImplements, RunnerImplements, WorldImplements DEF Next
    <2> QED
      BY <2>1, <2>2
  <1> QED
    BY <1>1, InitImplements, Invariance, LeavingCancelledAlways, PTL
    DEF Spec, WaitsAsPromised, AW!Spec

=============================================================================
