----------------------------- MODULE ServerOrder -----------------------------
(***************************************************************************)
(* What CreateServer and TerminateServer promise their callers, createNode *)
(* and terminateAndDelete, whatever becomes of the requests they send: how *)
(* often the platform may have been asked for the same thing, what a       *)
(* success means, and what may still happen after a failure.               *)
(***************************************************************************)
EXTENDS Naturals

CONSTANTS
  Clients,      \* goroutines that create and terminate, one VM at a time
  MaxRetries    \* how often a terminate is repeated

VARIABLES
  op,      \* what each client asks for, or asked for last
  call,    \* how it stands with its call
  orders,  \* how often the platform has accepted it
  late     \* requests given up on, which may still be accepted

orderVars == <<op, call, orders, late>>

\* "asking": an answer may still come; "doubtful": a create whose answer will not
\* come, and whose VM is looked for; then what the call returned.
Calling  == {"asking", "doubtful"}
Answers  == {"done", "failed"}

\* A create is asked for once, a terminate, which does no harm twice, again.
Limit(o) == IF o = "create" THEN 1 ELSE MaxRetries + 1

OrderInit ==
  /\ op = [g \in Clients |-> "create"]
  /\ call = [g \in Clients |-> "failed"]
  /\ orders = [g \in Clients |-> 0]
  /\ late = [g \in Clients |-> 0]

Goes(g, s) == call' = [call EXCEPT ![g] = s]

Ask(g, o) ==
  /\ call[g] \in Answers
  /\ op' = [op EXCEPT ![g] = o]
  /\ Goes(g, "asking")
  /\ orders' = [orders EXCEPT ![g] = 0]
  /\ late' = [late EXCEPT ![g] = 0]

\* The platform accepts a request of the call.
Accept(g) ==
  /\ call[g] = "asking"
  /\ orders[g] + late[g] < Limit(op[g])
  /\ orders' = [orders EXCEPT ![g] = @ + 1]
  /\ UNCHANGED <<op, call, late>>

\* A request is given up on before the platform has seen it: a create is now in
\* doubt or fails, a terminate is asked for again or fails.
GiveUpOn(g) ==
  /\ call[g] = "asking"
  /\ orders[g] + late[g] < Limit(op[g])
  /\ late' = [late EXCEPT ![g] = @ + 1]
  /\ \E s \in {"failed", IF op[g] = "create" THEN "doubtful" ELSE "asking"} : Goes(g, s)
  /\ UNCHANGED <<op, orders>>

\* A create was accepted, and the answer is lost.
Doubt(g) ==
  /\ call[g] = "asking"
  /\ op[g] = "create"
  /\ orders[g] = 1
  /\ Goes(g, "doubtful")
  /\ UNCHANGED <<op, orders, late>>

\* Success: what was asked for was accepted.
Succeed(g) ==
  /\ call[g] \in Calling
  /\ orders[g] > 0
  /\ Goes(g, "done")
  /\ UNCHANGED <<op, orders, late>>

\* Failure says nothing of what was accepted, or may be yet.
Fail(g) ==
  /\ call[g] \in Calling
  /\ Goes(g, "failed")
  /\ UNCHANGED <<op, orders, late>>

\* A request that was given up on is accepted, the call having returned or not.
AcceptLate(g) ==
  /\ late[g] > 0
  /\ late' = [late EXCEPT ![g] = @ - 1]
  /\ orders' = [orders EXCEPT ![g] = @ + 1]
  /\ UNCHANGED <<op, call>>

OrderNext ==
  \E g \in Clients :
    \/ \E o \in {"create", "terminate"} : Ask(g, o)
    \/ Accept(g) \/ GiveUpOn(g) \/ Doubt(g)
    \/ Succeed(g) \/ Fail(g) \/ AcceptLate(g)

OrderSpec == OrderInit /\ [][OrderNext]_orderVars

=============================================================================
