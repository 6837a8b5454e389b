----------------------------- MODULE CmdWatcher -----------------------------
(***************************************************************************)
(* The watcher of asynchronous Kamatera commands                           *)
(* (internal/kamatera/watcher.go).  Callers register a wait for a command  *)
(* and block; a goroutine that runs only while somebody waits lists the    *)
(* command queue every interval and hands out the results.                 *)
(*                                                                         *)
(* The mutex is held for single steps only: between the snapshot of the    *)
(* pending waits and the delivery of their results lie two calls to the    *)
(* console, during which waits are registered, time out and are cancelled. *)
(***************************************************************************)
EXTENDS Integers

CONSTANTS
  Waits,      \* calls of WaitProvision and WaitTerminate: pendingCmd objects
  Commands,   \* Kamatera command ids
  CommandOf,  \* the command each wait is for
  Enrich,     \* the waits with an enrichName, those of WaitProvision
  Runners,    \* names for the goroutines that execute run()
  None        \* neither a wait nor a result

ASSUME CommandOfAssumption == CommandOf \in [Waits -> Commands]
ASSUME EnrichAssumption    == Enrich \subseteq Waits
ASSUME NoneAssumption      ==
  None \notin Waits \cup {"timeout", "failed", "success", "ok", "missing"}

VARIABLES
  pending,    \* cmdWatcher.pending: the wait tracked for each command
  running,    \* cmdWatcher.running
  step,       \* run() and tick(): where each goroutine is
  snap,       \* tick(): the snapshot of the pending waits
  done,       \* tick(): the completions found so far
  call,       \* register(): where each caller is
  chan,       \* pendingCmd.ch: the result sent, if any
  expired,    \* the waits whose deadline has passed
  cancelled,  \* the waits whose caller's context is done
  status      \* platform: the command queue

watcher  == <<pending, running>>
runners  == <<step, snap, done>>
callers  == <<call, chan>>
world    == <<expired, cancelled, status>>
vars     == <<pending, running, step, snap, done, call, chan,
              expired, cancelled, status>>

\* "gone" is a goroutine that is not there.
Steps == {"gone", "snapshot", "queue", "servers", "deliver", "check", "sleep"}

\* "success" waits for its server to be looked up.
Found == {None, "timeout", "failed", "success", "ok", "missing"}

Result == {None, "timeout", "failed", "ok", "missing"}

\* "blocked": in the select; "leaving": it chose ctx.Done, and is to cancel.
CallState == {"new", "blocked", "leaving", "returned"}

TypeOK ==
  /\ pending \in [Commands -> Waits \cup {None}]
  /\ \A c \in Commands : pending[c] # None => CommandOf[pending[c]] = c
  /\ running \in BOOLEAN
  /\ step \in [Runners -> Steps]
  /\ snap \in [Runners -> SUBSET Waits]
  /\ done \in [Runners -> [Waits -> Found]]
  /\ call \in [Waits -> CallState]
  /\ chan \in [Waits -> Result]
  /\ expired \subseteq Waits
  /\ cancelled \subseteq Waits
  /\ status \in [Commands -> {"open", "complete", "failed"}]

NoneFound == [w \in Waits |-> None]
Tracked   == {w \in Waits : pending[CommandOf[w]] = w}

Init ==
  /\ pending = [c \in Commands |-> None]
  /\ running = FALSE
  /\ step = [r \in Runners |-> "gone"]
  /\ snap = [r \in Runners |-> {}]
  /\ done = [r \in Runners |-> NoneFound]
  /\ call = [w \in Waits |-> "new"]
  /\ chan = [w \in Waits |-> None]
  /\ expired = {}
  /\ cancelled = {}
  /\ status = [c \in Commands |-> "open"]

-----------------------------------------------------------------------------
(***************************************************************************)
(* register(w), the caller's side.                                         *)
(***************************************************************************)

\* The command is waited on already: an error, at once.
RegisterTwice(w) ==
  /\ call[w] = "new"
  /\ pending[CommandOf[w]] # None
  /\ call' = [call EXCEPT ![w] = "returned"]
  /\ UNCHANGED <<watcher, runners, chan, world>>

\* The wait is tracked, and a goroutine is started unless one is running.
Register(w) ==
  /\ call[w] = "new"
  /\ pending[CommandOf[w]] = None
  /\ pending' = [pending EXCEPT ![CommandOf[w]] = w]
  /\ call' = [call EXCEPT ![w] = "blocked"]
  /\ running' = TRUE
  /\ IF running
       THEN UNCHANGED step
       ELSE \E r \in Runners : /\ step[r] = "gone"
                               /\ step' = [step EXCEPT ![r] = "snapshot"]
  /\ UNCHANGED <<snap, done, chan, world>>

\* The select receives a result.
Receive(w) ==
  /\ call[w] = "blocked"
  /\ chan[w] # None
  /\ call' = [call EXCEPT ![w] = "returned"]
  /\ UNCHANGED <<watcher, runners, chan, world>>

\* The select sees ctx.Done, a result being there too or not.
GiveUp(w) ==
  /\ call[w] = "blocked"
  /\ w \in cancelled
  /\ call' = [call EXCEPT ![w] = "leaving"]
  /\ UNCHANGED <<watcher, runners, chan, world>>

\* cancel: whatever is pending for the command is dropped.
Cancel(w) ==
  /\ call[w] = "leaving"
  /\ pending' = [pending EXCEPT ![CommandOf[w]] = None]
  /\ call' = [call EXCEPT ![w] = "returned"]
  /\ UNCHANGED <<running, runners, chan, world>>

Caller(w) == RegisterTwice(w) \/ Register(w) \/ Receive(w) \/ GiveUp(w) \/ Cancel(w)

-----------------------------------------------------------------------------
(***************************************************************************)
(* run() and tick().                                                       *)
(***************************************************************************)
Snapshot(r) ==
  /\ step[r] = "snapshot"
  /\ snap' = [snap EXCEPT ![r] = Tracked]
  /\ step' = [step EXCEPT ![r] = IF Tracked = {} THEN "check" ELSE "queue"]
  /\ UNCHANGED <<watcher, done, callers, world>>

\* Mutant: a result goes to whatever wait is now pending for its command.
SendByCommand(results) ==
  LET found(w) == {v \in Waits : CommandOf[v] = CommandOf[w] /\ results[v] # None}
      sent     == {w \in Tracked : found(w) # {}}
  IN  /\ chan' = [w \in Waits |-> IF w \in sent
                                   THEN results[CHOOSE v \in found(w) : TRUE]
                                   ELSE chan[w]]
      /\ pending' = [c \in Commands |-> IF pending[c] \in sent THEN None ELSE pending[c]]

\* Mutant: what was sent stays pending.
SendAndKeep(results) ==
  /\ chan' = [w \in Waits |-> IF w \in Tracked /\ results[w] # None THEN results[w]
                              ELSE chan[w]]
  /\ UNCHANGED pending

\* Mutant: the map is emptied after a delivery.
SendAndClear(results) ==
  /\ chan' = [w \in Waits |-> IF w \in Tracked /\ results[w] # None THEN results[w]
                              ELSE chan[w]]
  /\ pending' = IF chan' = chan THEN pending ELSE [c \in Commands |-> None]

\* Under the lock, the results found are sent to those waits that are still the
\* pending ones of their commands, which thereby cease to be pending.
Send(results) ==
  LET sent == {w \in Tracked : results[w] # None}
  IN  /\ chan' = [w \in Waits |-> IF w \in sent THEN results[w] ELSE chan[w]]
      /\ pending' = [c \in Commands |-> IF pending[c] \in sent THEN None ELSE pending[c]]

\* ListQueue fails: expireDeadlines.
ListQueueFails(r) ==
  /\ step[r] = "queue"
  /\ Send([w \in Waits |-> IF w \in snap[r] \cap expired THEN "timeout" ELSE None])
  /\ step' = [step EXCEPT ![r] = "check"]
  /\ UNCHANGED <<running, snap, done, call, world>>

\* Mutant: the deadline counts only for a command that is listed.
VerdictIfSeen(w, seen) ==
  LET reported == IF CommandOf[w] \in seen THEN status[CommandOf[w]] ELSE "open"
  IN  CASE CommandOf[w] \notin seen -> None
        [] w \in expired         -> "timeout"
        [] reported = "failed"   -> "failed"
        [] reported = "complete" -> IF w \in Enrich THEN "success" ELSE "ok"
        [] OTHER                 -> None

\* What one listing of the queue, in which the commands seen appear, says of a
\* wait.  The deadline comes first.
Verdict(w, seen) ==
  LET reported == IF CommandOf[w] \in seen THEN status[CommandOf[w]] ELSE "open"
  IN  CASE w \in expired         -> "timeout"
        [] reported = "failed"   -> "failed"
        [] reported = "complete" -> IF w \in Enrich THEN "success" ELSE "ok"
        [] OTHER                 -> None

\* ListQueue answers with a window of recent commands.
ListQueue(r) ==
  /\ step[r] = "queue"
  /\ \E seen \in SUBSET Commands :
       done' = [done EXCEPT ![r] =
                  [w \in Waits |-> IF w \in snap[r] THEN Verdict(w, seen) ELSE None]]
  /\ step' = [step EXCEPT ![r] =
                IF \E w \in Waits : done'[r][w] = "success" THEN "servers" ELSE "deliver"]
  /\ UNCHANGED <<watcher, snap, callers, world>>

\* The server of a successful command is in the list, or it is not.
ListServers(r) ==
  /\ step[r] = "servers"
  /\ \E listed \in SUBSET Enrich :
       done' = [done EXCEPT ![r] =
                  [w \in Waits |-> IF @[w] # "success" THEN @[w]
                                   ELSE IF w \in listed THEN "ok" ELSE "missing"]]
  /\ step' = [step EXCEPT ![r] = "deliver"]
  /\ UNCHANGED <<watcher, snap, callers, world>>

\* Mutant: the completions that need the list are not taken back.
ListServersFailsKeeps(r) ==
  /\ step[r] = "servers"
  /\ step' = [step EXCEPT ![r] = "deliver"]
  /\ UNCHANGED <<watcher, snap, done, callers, world>>

\* ListServers fails: the waits that need it are left to the next tick.
ListServersFails(r) ==
  /\ step[r] = "servers"
  /\ done' = [done EXCEPT ![r] =
                [w \in Waits |-> IF @[w] = "success" THEN None ELSE @[w]]]
  /\ step' = [step EXCEPT ![r] = "deliver"]
  /\ UNCHANGED <<watcher, snap, callers, world>>

Deliver(r) ==
  /\ step[r] = "deliver"
  /\ Send(done[r])
  /\ done' = [done EXCEPT ![r] = NoneFound]
  /\ step' = [step EXCEPT ![r] = "check"]
  /\ UNCHANGED <<running, snap, call, world>>

\* Mutant: the goroutine forgets that it was running.
CheckKeepsRunning(r) ==
  /\ step[r] = "check"
  /\ step' = [step EXCEPT ![r] = IF Tracked = {} THEN "gone" ELSE "sleep"]
  /\ snap' = [snap EXCEPT ![r] = {}]
  /\ UNCHANGED <<watcher, done, callers, world>>

\* Mutant: the decision to go rests on the snapshot, not on what is pending now.
CheckSnapshot(r) ==
  /\ step[r] = "check"
  /\ IF snap[r] \cap Tracked = {}
       THEN /\ running' = FALSE
            /\ step' = [step EXCEPT ![r] = "gone"]
       ELSE /\ step' = [step EXCEPT ![r] = "sleep"]
            /\ UNCHANGED running
  /\ snap' = [snap EXCEPT ![r] = {}]
  /\ UNCHANGED <<pending, done, callers, world>>

\* After a tick the goroutine goes if nothing is pending; else it sleeps until
\* the ticker fires.
Check(r) ==
  /\ step[r] = "check"
  /\ IF Tracked = {}
       THEN /\ running' = FALSE
            /\ step' = [step EXCEPT ![r] = "gone"]
       ELSE /\ step' = [step EXCEPT ![r] = "sleep"]
            /\ UNCHANGED running
  /\ snap' = [snap EXCEPT ![r] = {}]
  /\ UNCHANGED <<pending, done, callers, world>>

Wake(r) ==
  /\ step[r] = "sleep"
  /\ step' = [step EXCEPT ![r] = "snapshot"]
  /\ UNCHANGED <<watcher, snap, done, callers, world>>

Runner(r) ==
  \/ Snapshot(r)
  \/ ListQueueFails(r) \/ ListQueue(r)
  \/ ListServers(r) \/ ListServersFails(r)
  \/ Deliver(r) \/ Check(r) \/ Wake(r)

-----------------------------------------------------------------------------
(***************************************************************************)
(* Time, contexts and the platform.                                        *)
(***************************************************************************)
Expires(w) ==
  /\ call[w] # "new"
  /\ w \notin expired
  /\ expired' = expired \cup {w}
  /\ UNCHANGED <<watcher, runners, callers, cancelled, status>>

ContextDone(w) ==
  /\ w \notin cancelled
  /\ cancelled' = cancelled \cup {w}
  /\ UNCHANGED <<watcher, runners, callers, expired, status>>

CommandEnds(c) ==
  /\ status[c] = "open"
  /\ \E s \in {"complete", "failed"} : status' = [status EXCEPT ![c] = s]
  /\ UNCHANGED <<watcher, runners, callers, expired, cancelled>>

World ==
  \/ \E w \in Waits : Expires(w) \/ ContextDone(w)
  \/ \E c \in Commands : CommandEnds(c)

Next ==
  \/ \E w \in Waits : Caller(w)
  \/ \E r \in Runners : Runner(r)
  \/ World

Spec == Init /\ [][Next]_vars

-----------------------------------------------------------------------------
(***************************************************************************)
(* Safety.                                                                 *)
(***************************************************************************)
Active == {r \in Runners : step[r] # "gone"}

\* While a wait is tracked a goroutine looks after it, and never two: one started
\* as the last one was deciding to leave neither gets lost nor doubles it
\* (register and the end of run, under the mutex).
OneRunner ==
  /\ \A r, q \in Active : r = q
  /\ Tracked # {} => Active # {}

\* A tracked wait has not been answered: no second result is sent to a channel
\* that holds one and is closed, which would panic (tick's delivery and
\* expireDeadlines).
TrackedUnanswered ==
  \A w \in Tracked : chan[w] = None /\ call[w] \in {"blocked", "leaving"}

\* What a caller is told is true: a timeout only after its own deadline, though
\* another wait for the command timed out a moment ago, and an outcome only once
\* the command has it (tick, and its check that the wait is still the same).
Truthful ==
  \A w \in Waits :
    /\ chan[w] = "timeout"         => w \in expired
    /\ chan[w] = "failed"          => status[CommandOf[w]] = "failed"
    /\ chan[w] \in {"ok", "missing"} => status[CommandOf[w]] = "complete"
    /\ chan[w] = "missing"         => w \in Enrich

\* A blocked caller is tracked or has its answer, when no two waits are for one
\* command: nothing else drops a wait (cancel, tick and expireDeadlines).
Unforgotten ==
  \A w \in Waits :
    call[w] = "blocked" => w \in Tracked \/ chan[w] # None

\* What a caller sees: it waits until register returns.
Seen(w) == IF call[w] \in {"blocked", "leaving"} THEN "waiting" ELSE call[w]

\* The answer a wait has been given is what its channel was sent.
AW == INSTANCE AsyncWait WITH call <- [w \in Waits |-> Seen(w)], answer <- chan

\* Seen by its callers, the watcher with its map, its goroutine and its snapshots
\* only does what WaitProvision and WaitTerminate promise: a wait that is made is
\* answered at most once and truthfully, while its caller still waits, and ends
\* early only when refused for a duplicate or when its context is done.
WaitsAsPromised == AW!Spec

-----------------------------------------------------------------------------
(***************************************************************************)
(* Liveness.                                                               *)
(***************************************************************************)

\* The goroutine's calls end, with any answer: by their 30 s context if not
\* before, as long as no other call keeps them from the token (ConsoleToken says
\* what happens then).  Deadlines pass; a select with a ready case takes one.
Fairness ==
  /\ \A r \in Runners : WF_vars(Runner(r))
  /\ \A w \in Waits : /\ WF_vars(Expires(w))
                      /\ WF_vars(Receive(w) \/ GiveUp(w)) /\ WF_vars(Cancel(w))

FairSpec == Init /\ [][Next]_vars /\ Fairness

\* Every wait returns, even if the console never answers or never lists the
\* command (watcher.go:283-286).
WaitsReturn == \A w \in Waits : call[w] = "blocked" ~> call[w] = "returned"

\* The goroutine goes when nobody waits (watcher.go:14-16: "exits as soon as no
\* commands are pending").
RunnerGoes == Active # {} ~> Active = {}

=============================================================================
