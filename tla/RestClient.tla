----------------------------- MODULE RestClient -----------------------------
(***************************************************************************)
(* httpClient (internal/kamatera/client.go): CreateServer, whose POST is   *)
(* sent once and, when its answer is lost, looked for by name, and         *)
(* TerminateServer, whose POST is repeated.  The lookups of recoverByName  *)
(* are calls of the console client, whose token they share with the        *)
(* watcher's: this module extends ConsoleToken and moves in its steps.     *)
(*                                                                         *)
(* A request whose answer is lost may be lost itself, or reach the         *)
(* platform after the client has given it up.                              *)
(***************************************************************************)
EXTENDS ConsoleToken

CONSTANTS
  Clients,      \* goroutines that create and terminate, one VM at a time
  MaxRetries    \* httpClient.maxRetries

ASSUME ClientsAssumption == Clients \subseteq Calls
ASSUME RetriesAssumption == MaxRetries \in Nat

VARIABLES
  op,        \* what each client is doing, or did last
  stage,     \* how far it is
  attempt,   \* do: which attempt this is
  stray,     \* network: its abandoned requests that may still arrive
  taken,     \* platform: how many of its requests were accepted
  listed,    \* platform: GET /servers lists the VM of the name
  overdue    \* recoverByName: the deadline has passed

client == <<op, stage, attempt, overdue>>
remote == <<stray, taken, listed>>
rest   == <<client, remote>>
all    == <<console, rest>>

Finished == {"id", "recovered", "error"}

\* "sending": in the POST, not taken by the platform yet; "sent": taken, the
\* answer to come; "lookup": in FindServerByName.
Stages == {"sending", "sent", "backoff", "grace", "lookup", "poll"} \cup Finished

RestTypeOK ==
  /\ op \in [Clients -> {"create", "terminate"}]
  /\ stage \in [Clients -> Stages]
  /\ attempt \in [Clients -> 1 .. MaxRetries + 1]
  /\ stray \in [Clients -> 0 .. MaxRetries + 1]
  /\ taken \in [Clients -> 0 .. MaxRetries + 1]
  /\ listed \in [Clients -> BOOLEAN]
  /\ overdue \in [Clients -> BOOLEAN]
  /\ \A g \in Clients : at[g] \notin Returned => stage[g] = "lookup"

RestInit ==
  /\ ConsoleInit
  /\ op = [g \in Clients |-> "create"]
  /\ stage = [g \in Clients |-> "error"]
  /\ attempt = [g \in Clients |-> 1]
  /\ stray = [g \in Clients |-> 0]
  /\ taken = [g \in Clients |-> 0]
  /\ listed = [g \in Clients |-> FALSE]
  /\ overdue = [g \in Clients |-> FALSE]

\* The client moves on; when it returns, nothing of its locals is left.
Become(g, s) ==
  /\ stage' = [stage EXCEPT ![g] = s]
  /\ attempt' = [attempt EXCEPT ![g] = IF s \in Finished THEN 1 ELSE @]
  /\ overdue' = [overdue EXCEPT ![g] = IF s \in Finished THEN FALSE ELSE @]

-----------------------------------------------------------------------------
(***************************************************************************)
(* do: one POST, or several.                                               *)
(***************************************************************************)

\* Mutant: the create is as retryable as the terminate.
AttemptsAlike(g) == MaxRetries + 1

\* Mutant: one attempt too many.
AttemptsPlusOne(g) == IF op[g] = "create" THEN 1 ELSE MaxRetries + 2

Attempts(g) == IF op[g] = "create" THEN 1 ELSE MaxRetries + 1

\* A call of CreateServer, with a new name, or of TerminateServer.
Begin(g, o) ==
  /\ stage[g] \in Finished
  /\ op' = [op EXCEPT ![g] = o]
  /\ Become(g, "sending")
  /\ stray' = [stray EXCEPT ![g] = 0]
  /\ taken' = [taken EXCEPT ![g] = 0]
  /\ listed' = [listed EXCEPT ![g] = FALSE]

\* The platform accepts the request.
Arrives(g) ==
  /\ stage[g] = "sending"
  /\ Become(g, "sent")
  /\ taken' = [taken EXCEPT ![g] = @ + 1]
  /\ UNCHANGED <<op, stray, listed>>

\* 2xx: decodeCommandID finds the command's id in the answer, or does not.
Answered(g) ==
  /\ stage[g] = "sent"
  /\ \E result \in {"id", "error"} : Become(g, result)
  /\ UNCHANGED <<op, remote>>

\* 4xx: no attempt follows.
Refused(g) ==
  /\ stage[g] = "sending"
  /\ Become(g, "error")
  /\ UNCHANGED <<op, remote>>

\* What follows a failure: another attempt, or the end of do.
Failed(g, end) == Become(g, IF attempt[g] < Attempts(g) THEN "backoff" ELSE end)

Astray(g) == stage[g] = "sending" /\ stray' = [stray EXCEPT ![g] = @ + 1]

\* 5xx, the request having had its effect or not, or being under way still behind
\* the gateway that answered.
ServerError(g) ==
  /\ stage[g] \in {"sending", "sent"}
  /\ Failed(g, "error")
  /\ UNCHANGED stray \/ Astray(g)
  /\ UNCHANGED <<op, taken, listed>>

\* No answer: the request may be under way still.  CreateServer, and it alone,
\* goes on to recoverByName.
TransportError(g) ==
  /\ stage[g] \in {"sending", "sent"}
  /\ Failed(g, IF op[g] = "create" THEN "grace" ELSE "error")
  /\ IF stage[g] = "sending" THEN Astray(g) ELSE UNCHANGED stray
  /\ UNCHANGED <<op, taken, listed>>

Retry(g) ==
  /\ stage[g] = "backoff"
  /\ stage' = [stage EXCEPT ![g] = "sending"]
  /\ attempt' = [attempt EXCEPT ![g] = @ + 1]
  /\ UNCHANGED <<op, overdue, remote>>

Post(g) ==
  \/ Arrives(g) \/ Answered(g) \/ Refused(g)
  \/ ServerError(g) \/ TransportError(g) \/ Retry(g)

-----------------------------------------------------------------------------
(***************************************************************************)
(* recoverByName.                                                          *)
(***************************************************************************)

\* The grace period, or the pause between two looks, is over.
Look(g) ==
  /\ stage[g] \in {"grace", "poll"}
  /\ Become(g, "lookup")
  /\ Start(g)
  /\ UNCHANGED <<op, remote>>

\* Mutant: any list will do.
FoundUnlisted(g) ==
  /\ stage[g] = "lookup"
  /\ at[g] = "ok"
  /\ Become(g, "recovered")
  /\ UNCHANGED <<op, remote>>

\* The server is in the list: ErrCreateRecovered.
Found(g) ==
  /\ stage[g] = "lookup"
  /\ at[g] = "ok"
  /\ listed[g]
  /\ Become(g, "recovered")
  /\ UNCHANGED <<op, remote>>

\* A 4xx, from GET /servers or from POST /authenticate, ends the recovery.
Aborted(g) ==
  /\ stage[g] = "lookup"
  /\ at[g] = "client"
  /\ Become(g, "error")
  /\ UNCHANGED <<op, remote>>

\* Mutant: the deadline is not looked at.
NotFoundEver(g) ==
  /\ stage[g] = "lookup"
  /\ at[g] = "other" \/ (at[g] = "ok" /\ ~listed[g])
  /\ Become(g, "poll")
  /\ UNCHANGED <<op, remote>>

\* It is not in the list, or there is no list: until the deadline, look again.
NotFound(g) ==
  /\ stage[g] = "lookup"
  /\ at[g] = "other" \/ (at[g] = "ok" /\ ~listed[g])
  /\ Become(g, IF overdue[g] THEN "error" ELSE "poll")
  /\ UNCHANGED <<op, remote>>

LookedUp(g) == Found(g) \/ Aborted(g) \/ NotFound(g)

\* The caller's context is done: a sleep is cut short.
Cancelled(g) ==
  /\ stage[g] \in {"backoff", "grace", "poll"}
  /\ Become(g, "error")
  /\ UNCHANGED <<op, remote>>

-----------------------------------------------------------------------------
(***************************************************************************)
(* Time, the network and the platform.                                     *)
(***************************************************************************)
Overdue(g) ==
  /\ stage[g] \in {"lookup", "poll"}
  /\ ~overdue[g]
  /\ overdue' = [overdue EXCEPT ![g] = TRUE]
  /\ UNCHANGED <<op, stage, attempt, remote>>

StrayArrives(g) ==
  /\ stray[g] > 0
  /\ stray' = [stray EXCEPT ![g] = @ - 1]
  /\ taken' = [taken EXCEPT ![g] = @ + 1]
  /\ UNCHANGED <<client, listed>>

\* The VM that was ordered appears in GET /servers.
Listed(g) ==
  /\ op[g] = "create"
  /\ taken[g] > 0
  /\ ~listed[g]
  /\ listed' = [listed EXCEPT ![g] = TRUE]
  /\ UNCHANGED <<client, stray, taken>>

\* Without a step of the console client.
Alone(g) ==
  \/ \E o \in {"create", "terminate"} : Begin(g, o)
  \/ Post(g)
  \/ LookedUp(g) \/ Cancelled(g)
  \/ Overdue(g) \/ StrayArrives(g) \/ Listed(g)

\* A step of it: the watcher's calls start at any time.
Console ==
  \/ Platform
  \/ \E c \in Calls : Request(c)
  \/ \E c \in Calls \ Clients : Start(c)

RestNext ==
  \/ \E g \in Clients : Look(g)
  \/ \E g \in Clients : Alone(g) /\ UNCHANGED console
  \/ Console /\ UNCHANGED rest

RestSpec == RestInit /\ [][RestNext]_all

-----------------------------------------------------------------------------
(***************************************************************************)
(* Safety.                                                                 *)
(***************************************************************************)

\* client.go:14-15: a create is never ordered twice, whatever is lost, late or
\* answered by an error, and a terminate no more often than the retries allow
\* (CreateServer and TerminateServer through do).
OrdersBounded ==
  \A g \in Clients :
    taken[g] + stray[g] <= IF op[g] = "create" THEN 1 ELSE MaxRetries + 1

\* A create or a terminate that reports success was taken by the platform
\* (decodeCommandID's id, and ErrCreateRecovered).
SuccessIsReal ==
  \A g \in Clients : stage[g] \in {"id", "recovered"} => taken[g] > 0

\* How far a client is from the next attempt, or from its return.
Distance(s) ==
  CASE s = "sending" -> 4 [] s = "sent" -> 3 [] s \in {"backoff", "grace"} -> 2
    [] s = "poll" -> 1 [] OTHER -> 0

\* A create and a terminate never go back: an attempt follows with a higher number,
\* and a lookup is followed by another only before the recovery's deadline, which
\* nothing extends (do's loop and recoverByName's).
OperationAdvances ==
  [][\A g \in Clients : stage[g] \notin Finished /\ stage'[g] \notin Finished =>
       /\ overdue[g] => overdue'[g]
       /\ attempt'[g] >= attempt[g]
       /\ \/ stage'[g] = stage[g]
          \/ attempt'[g] > attempt[g]
          \/ Distance(stage'[g]) < Distance(stage[g])
          \/ stage[g] = "lookup" /\ ~overdue[g]]_all

(***************************************************************************)
(* To its callers, the client is a ServerOrder.                            *)
(***************************************************************************)
StandsAt(s) ==
  CASE s \in {"sending", "sent", "backoff"} -> "asking"
    [] s \in {"grace", "lookup", "poll"}    -> "doubtful"
    [] s \in {"id", "recovered"}            -> "done"
    [] s = "error"                          -> "failed"

Order == INSTANCE ServerOrder WITH
           call <- [g \in Clients |-> StandsAt(stage[g])], orders <- taken, late <- stray

\* What CreateServer and TerminateServer do is what their callers are promised.
OrdersAsPromised == Order!OrderSpec

-----------------------------------------------------------------------------
(***************************************************************************)
(* Liveness.                                                               *)
(***************************************************************************)

\* Requests end, sleeps are over, deadlines pass.
Moves(g) == Post(g) \/ LookedUp(g)

RestFairness ==
  /\ ConsoleFairness
  /\ \A g \in Clients : /\ WF_all(Moves(g) /\ UNCHANGED console)
                        /\ WF_all(Look(g))
                        /\ WF_all(Overdue(g) /\ UNCHANGED console)

RestFairSpec == RestSpec /\ RestFairness

\* A create and a terminate return, though every lookup of a recovery may fail
\* and the list may never show the server (recoverByName's deadline).
OperationsReturn ==
  \A g \in Clients : stage[g] = "sending" ~> stage[g] \in Finished

=============================================================================
