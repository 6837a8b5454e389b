-------------------------- MODULE RestClientProofs --------------------------
(***************************************************************************)
(* The safety of RestClient, for any number of clients and retries.        *)
(*                                                                         *)
(* Its steps are steps of ConsoleToken or leave it alone, so that what is  *)
(* proved of the token holds here.  For the orders, what a client has on   *)
(* the platform or on its way is no more than its attempts (Counted).      *)
(***************************************************************************)
EXTENDS RestClient, ConsoleTokenProofs

\* Orders by attempts: one less while the request is still to arrive.
Counted ==
  \A g \in Clients :
    /\ attempt[g] <= Attempts(g)
    /\ stage[g] = "backoff" => attempt[g] < Attempts(g)
    /\ stage[g] = "sending" => taken[g] + stray[g] < attempt[g]
    /\ stage[g] \notin Finished => taken[g] + stray[g] <= attempt[g]
    /\ taken[g] + stray[g] <= Attempts(g)
    /\ stage[g] \in Finished => attempt[g] = 1

\* What the client goes by is there.
Taken ==
  \A g \in Clients :
    stage[g] \in {"sent", "id", "recovered"} \/ listed[g] => taken[g] > 0

\* The counters are natural numbers; their bounds come from Counted.
RestTypes ==
  /\ op \in [Clients -> {"create", "terminate"}]
  /\ stage \in [Clients -> Stages]
  /\ attempt \in [Clients -> Nat \ {0}]
  /\ stray \in [Clients -> Nat]
  /\ taken \in [Clients -> Nat]
  /\ listed \in [Clients -> BOOLEAN]
  /\ overdue \in [Clients -> BOOLEAN]

\* A client is in a call of the console only to look a server up.
LooksUp == \A g \in Clients : at[g] \notin Returned => stage[g] = "lookup"

RestIInv ==
  /\ ConsoleTypeOK
  /\ RestTypes
  /\ Counted
  /\ Taken
  /\ LooksUp

-----------------------------------------------------------------------------
\* The console client does not notice who calls it: recoverByName's lookups are
\* calls of bearerGet like any other.
THEOREM RestIsConsole == RestSpec => ConsoleSpec
  <1>1. RestInit => ConsoleInit
    BY DEF RestInit
  <1>2. [RestNext]_all => [ConsoleNext]_console
    BY ClientsAssumption DEF RestNext, Look, Console, ConsoleNext, all
  <1> QED
    BY <1>1, <1>2, PTL DEF RestSpec, ConsoleSpec

-----------------------------------------------------------------------------
\* Nothing has been ordered at the start.
LEMMA RestInitInvariant == RestInit => RestIInv
  <1> SUFFICES ASSUME RestInit PROVE RestIInv
    OBVIOUS
  <1>1. ConsoleTypeOK
    BY ConsoleInitInvariant DEF RestInit, ConsoleIInv
  <1>2. RestTypes
    BY DEF RestInit, RestTypes, Stages, Finished
  <1>3. Counted
    BY RetriesAssumption DEF RestInit, Counted, Attempts, Finished
  <1>4. Taken /\ LooksUp
    BY ClientsAssumption DEF RestInit, ConsoleInit, Taken, LooksUp, Returned
  <1> QED
    BY <1>1, <1>2, <1>3, <1>4 DEF RestIInv

\* A step of one client disturbs no other: it is enough to look at the one.
Sound(g) ==
  /\ attempt[g] <= Attempts(g)
  /\ stage[g] = "backoff" => attempt[g] < Attempts(g)
  /\ stage[g] = "sending" => taken[g] + stray[g] < attempt[g]
  /\ stage[g] \notin Finished => taken[g] + stray[g] <= attempt[g]
  /\ taken[g] + stray[g] <= Attempts(g)
  /\ stage[g] \in Finished => attempt[g] = 1
  /\ stage[g] \in {"sent", "id", "recovered"} \/ listed[g] => taken[g] > 0

LEMMA OneClient ==
  ASSUME RestIInv, RestTypes', NEW g \in Clients, Sound(g)',
         \A d \in Clients \ {g} :
           /\ op'[d] = op[d] /\ stage'[d] = stage[d] /\ attempt'[d] = attempt[d]
           /\ stray'[d] = stray[d] /\ taken'[d] = taken[d] /\ listed'[d] = listed[d]
  PROVE  Counted' /\ Taken'
  <1> SUFFICES ASSUME NEW d \in Clients PROVE Sound(d)'
    BY DEF Sound, Counted, Taken
  <1>1. Sound(d)
    BY DEF RestIInv, Counted, Taken, Sound
  <1> QED
    BY <1>1 DEF Sound, Attempts

\* The client that a step is of: its counters before it.
LEMMA Before ==
  ASSUME RestIInv, NEW g \in Clients
  PROVE  /\ Sound(g)
         /\ op[g] \in {"create", "terminate"} /\ stage[g] \in Stages
         /\ attempt[g] \in Nat \ {0} /\ stray[g] \in Nat /\ taken[g] \in Nat
         /\ Attempts(g) \in Nat \ {0} /\ MaxRetries \in Nat
  BY RetriesAssumption DEF RestIInv, RestTypes, Counted, Taken, Sound, Attempts

\* What a client's move changes, and what it leaves.
LEMMA BecomeMoves ==
  ASSUME RestIInv, NEW g \in Clients, NEW s \in Stages, Become(g, s)
  PROVE  /\ stage' \in [Clients -> Stages]
         /\ attempt' \in [Clients -> Nat \ {0}]
         /\ overdue' \in [Clients -> BOOLEAN]
         /\ stage'[g] = s
         /\ attempt'[g] = IF s \in Finished THEN 1 ELSE attempt[g]
         /\ \A d \in Clients \ {g} : stage'[d] = stage[d] /\ attempt'[d] = attempt[d]
  <1> USE DEF RestIInv, RestTypes, Become
  <1>1. attempt' \in [Clients -> Nat \ {0}] /\ stage' \in [Clients -> Stages]
    OBVIOUS
  <1>2. overdue' \in [Clients -> BOOLEAN]
    <2>1. CASE s \in Finished
      BY <2>1
    <2>2. CASE s \notin Finished
      BY <2>2
    <2> QED
      BY <2>1, <2>2
  <1> QED
    BY <1>1, <1>2

\* A move that orders nothing: to the end, or to where no request is on its way.
LEMMA MoveKeeps ==
  ASSUME RestIInv, NEW g \in Clients, NEW s \in Stages, Become(g, s),
         UNCHANGED <<op, remote>>,
         s # "sending",
         stage[g] \notin Finished,
         s = "backoff" => attempt[g] < Attempts(g),
         s \in {"sent", "id", "recovered"} => taken[g] > 0
  PROVE  RestTypes' /\ Counted' /\ Taken'
  <1> USE DEF remote
  <1>1. RestTypes'
    BY BecomeMoves DEF RestIInv, RestTypes
  <1>2. Sound(g)'
    BY Before, BecomeMoves DEF Sound, Attempts, Finished
  <1> QED
    BY <1>1, <1>2, BecomeMoves, OneClient

\* Begin, and every step of the POST: what is new on its way was attempted.
LEMMA PostKeeps ==
  ASSUME RestIInv, NEW g \in Clients,
         Post(g) \/ \E o \in {"create", "terminate"} : Begin(g, o)
  PROVE  RestTypes' /\ Counted' /\ Taken'
  <1>1. ASSUME NEW o \in {"create", "terminate"}, Begin(g, o)
        PROVE  RestTypes' /\ Counted' /\ Taken'
    <2>1. "sending" \in Stages /\ "sending" \notin Finished /\ Become(g, "sending")
      BY <1>1 DEF Begin, Stages, Finished
    <2>2. RestTypes'
      BY <1>1, <2>1, BecomeMoves DEF Begin, RestIInv, RestTypes
    <2>3. attempt'[g] = 1 /\ taken'[g] = 0 /\ stray'[g] = 0 /\ ~listed'[g]
      BY <1>1, <2>1, BecomeMoves, Before DEF Begin, RestIInv, RestTypes, Sound
    <2>4. Sound(g)'
      BY <1>1, <2>1, <2>3, BecomeMoves, Before DEF Sound, Attempts, Finished
    <2>5. \A d \in Clients \ {g} :
            /\ op'[d] = op[d]
            /\ stray'[d] = stray[d] /\ taken'[d] = taken[d] /\ listed'[d] = listed[d]
      BY <1>1 DEF Begin, RestIInv, RestTypes
    <2> QED
      BY <2>1, <2>2, <2>4, <2>5, BecomeMoves, OneClient
  <1>2. CASE Arrives(g)
    <2>1. /\ "sent" \in Stages /\ "sent" \notin Finished /\ Become(g, "sent")
          /\ stage[g] = "sending" /\ taken' = [taken EXCEPT ![g] = @ + 1]
          /\ UNCHANGED <<op, stray, listed>>
      BY <1>2 DEF Arrives, Stages, Finished
    <2>2. RestTypes'
      BY <2>1, BecomeMoves DEF RestIInv, RestTypes
    <2>3. taken'[g] = taken[g] + 1 /\ attempt'[g] = attempt[g] /\ stage'[g] = "sent"
      BY <2>1, BecomeMoves DEF RestIInv, RestTypes
    <2>4. Sound(g)'
      BY <2>1, <2>3, Before DEF Sound, Attempts, Finished
    <2>5. \A d \in Clients \ {g} : taken'[d] = taken[d]
      BY <2>1 DEF RestIInv, RestTypes
    <2> QED
      BY <2>1, <2>2, <2>4, <2>5, BecomeMoves, OneClient
  <1>3. CASE Answered(g)
    <2>1. PICK s \in {"id", "error"} : Become(g, s)
      BY <1>3 DEF Answered
    <2> QED
      BY <1>3, <2>1, MoveKeeps, Before DEF Answered, Sound, Stages, Finished
  <1>4. CASE Refused(g)
    BY <1>4, MoveKeeps DEF Refused, Stages, Finished
  <1>5. ASSUME ServerError(g) \/ TransportError(g), UNCHANGED stray
        PROVE  RestTypes' /\ Counted' /\ Taken'
    BY <1>5, MoveKeeps DEF ServerError, TransportError, Failed, Stages, Finished, remote
  <1>6. ASSUME ServerError(g) \/ TransportError(g), Astray(g)
        PROVE  RestTypes' /\ Counted' /\ Taken'
    <2>1. PICK s \in {"backoff", "grace", "error"} :
            Become(g, s) /\ (s = "backoff" => attempt[g] < Attempts(g))
      BY <1>6 DEF ServerError, TransportError, Failed
    <2>2. /\ s \in Stages /\ s \notin {"sending", "sent", "id", "recovered"}
          /\ stage[g] = "sending"
          /\ UNCHANGED <<op, taken, listed>>
          /\ stray' = [stray EXCEPT ![g] = @ + 1]
      BY <1>6 DEF ServerError, TransportError, Astray, Stages, Finished
    <2>3. RestTypes'
      <3>1. stray' \in [Clients -> Nat]
        BY <2>2 DEF RestIInv, RestTypes
      <3> QED
        BY <2>1, <2>2, <3>1, BecomeMoves DEF RestIInv, RestTypes
    <2>4. stray'[g] = stray[g] + 1
      BY <2>2 DEF RestIInv, RestTypes
    <2>5. Sound(g)'
      BY <2>1, <2>2, <2>4, BecomeMoves, Before DEF Sound, Attempts, Finished
    <2>6. \A d \in Clients \ {g} : stray'[d] = stray[d]
      BY <2>2 DEF RestIInv, RestTypes
    <2> QED
      BY <2>1, <2>2, <2>3, <2>5, <2>6, BecomeMoves, OneClient
  <1>7. CASE Retry(g)
    <2> USE DEF remote
    <2>1. RestTypes'
      BY <1>7 DEF Retry, RestIInv, RestTypes, Stages
    <2>2. stage'[g] = "sending" /\ attempt'[g] = attempt[g] + 1
      BY <1>7 DEF Retry, RestIInv, RestTypes
    <2>3. Sound(g)'
      BY <1>7, <2>2, Before DEF Retry, Sound, Attempts, Finished
    <2>4. \A d \in Clients \ {g} : stage'[d] = stage[d] /\ attempt'[d] = attempt[d]
      BY <1>7 DEF Retry, RestIInv, RestTypes
    <2> QED
      BY <1>7, <2>1, <2>3, <2>4, OneClient DEF Retry
  <1>8. ServerError(g) \/ TransportError(g) => UNCHANGED stray \/ Astray(g)
    BY DEF ServerError, TransportError
  <1> QED
    BY <1>1, <1>2, <1>3, <1>4, <1>5, <1>6, <1>7, <1>8 DEF Post

\* recoverByName, time, the network and the platform order nothing.
LEMMA OthersKeep ==
  ASSUME RestIInv, NEW g \in Clients,
         \/ Look(g) \/ LookedUp(g) \/ Cancelled(g)
         \/ Overdue(g) \/ StrayArrives(g) \/ Listed(g)
  PROVE  RestTypes' /\ Counted' /\ Taken'
  <1> USE DEF Stages, Finished
  <1>1. CASE Look(g)
    BY <1>1, MoveKeeps DEF Look
  <1>2. CASE Found(g)
    BY <1>2, MoveKeeps, Before DEF Found, Sound
  <1>3. CASE Aborted(g) \/ NotFound(g) \/ Cancelled(g)
    BY <1>3, MoveKeeps DEF Aborted, NotFound, Cancelled
  <1>4. CASE Overdue(g)
    <2>1. UNCHANGED <<op, stage, attempt, remote>> /\ overdue' \in [Clients -> BOOLEAN]
      BY <1>4 DEF Overdue, RestIInv, RestTypes
    <2> QED
      BY <2>1 DEF remote, RestIInv, RestTypes, Counted, Attempts, Taken
  <1>5. CASE StrayArrives(g)
    <2>1. /\ stray' \in [Clients -> Nat] /\ taken' \in [Clients -> Nat]
          /\ stray'[g] = stray[g] - 1 /\ taken'[g] = taken[g] + 1
          /\ \A d \in Clients \ {g} : stray'[d] = stray[d] /\ taken'[d] = taken[d]
      BY <1>5 DEF StrayArrives, RestIInv, RestTypes
    <2>2. Sound(g)'
      BY <1>5, <2>1, Before DEF StrayArrives, client, Sound, Attempts
    <2> QED
      BY <1>5, <2>1, <2>2, OneClient DEF StrayArrives, client, RestIInv, RestTypes
  <1>6. CASE Listed(g)
    <2>1. /\ listed' \in [Clients -> BOOLEAN]
          /\ \A d \in Clients \ {g} : listed'[d] = listed[d]
      BY <1>6 DEF Listed, RestIInv, RestTypes
    <2>2. Sound(g)'
      BY <1>6, Before DEF Listed, client, Sound, Attempts
    <2> QED
      BY <1>6, <2>1, <2>2, OneClient DEF Listed, client, RestIInv, RestTypes
  <1> QED
    BY <1>1, <1>2, <1>3, <1>4, <1>5, <1>6 DEF LookedUp

\* A client leaves "lookup" when its call has returned.
LEMMA LooksUpKept ==
  ASSUME RestIInv, RestNext
  PROVE  LooksUp'
  <1> USE DEF RestIInv, LooksUp
  <1>1. at \in [Calls -> Places \cup Returned] /\ stage \in [Clients -> Stages]
    BY DEF ConsoleTypeOK, RestTypes
  <1>2. ASSUME NEW g \in Clients, Look(g) PROVE LooksUp'
    BY <1>1, <1>2 DEF Look, Become, Start, Go
  <1>3. ASSUME NEW g \in Clients, Alone(g), UNCHANGED console PROVE LooksUp'
    <2>1. \A d \in Clients \ {g} : stage'[d] = stage[d]
      BY <1>1, <1>3
      DEF Alone, Begin, Post, Arrives, Answered, Refused, ServerError, TransportError,
          Retry, LookedUp, Found, Aborted, NotFound, Cancelled, Overdue, StrayArrives,
          Listed, Become, Failed, client
    <2>2. CASE at[g] \in Returned
      BY <1>3, <2>1, <2>2 DEF console
    <2>3. CASE at[g] \notin Returned
      <3>1. stage[g] = "lookup"
        BY <2>3
      <3>2. Overdue(g) \/ StrayArrives(g) \/ Listed(g)
        BY <1>3, <2>3, <3>1
        DEF Alone, Begin, Post, Arrives, Answered, Refused, ServerError,
            TransportError, Retry, LookedUp, Found, Aborted, NotFound, Cancelled,
            Finished, Returned
      <3> QED
        BY <1>3, <3>2 DEF Overdue, StrayArrives, Listed, client, console
    <2> QED
      BY <2>2, <2>3
  <1>4. CASE Platform /\ UNCHANGED rest
    BY <1>4 DEF Platform, Rotate, Expires, rest, client
  <1>5. ASSUME NEW c \in Calls, Request(c), UNCHANGED rest PROVE LooksUp'
    <2>1. at[c] \notin Returned /\ \A d \in Calls \ {c} : at'[d] = at[d]
      BY <1>1, <1>5
      DEF Request, Ensure, Authenticated, AuthenticateFails, ReadToken, GetSucceeds,
          FirstRefused, SecondRefused, GetFails, Wipe, End, Go, Returned
    <2> QED
      BY <1>5, <2>1, ClientsAssumption DEF rest, client
  <1>6. ASSUME NEW c \in Calls \ Clients, Start(c), UNCHANGED rest PROVE LooksUp'
    BY <1>1, <1>6, ClientsAssumption DEF Start, Go, rest, client
  <1> QED
    BY <1>2, <1>3, <1>4, <1>5, <1>6 DEF RestNext, Console

\* Every step keeps what is counted, given that the token's types are kept.
LEMMA RestStepKeeps ==
  RestIInv /\ ConsoleTypeOK' /\ [RestNext]_all => RestIInv'
  <1> SUFFICES ASSUME RestIInv, ConsoleTypeOK', [RestNext]_all PROVE RestIInv'
    OBVIOUS
  <1>1. ASSUME UNCHANGED rest PROVE RestTypes' /\ Counted' /\ Taken'
    BY <1>1 DEF rest, client, remote, RestIInv, RestTypes, Counted, Attempts, Taken
  <1>2. CASE UNCHANGED all
    BY <1>1, <1>2 DEF all, rest, client, console, RestIInv, LooksUp
  <1>3. CASE RestNext
    <2>1. RestTypes' /\ Counted' /\ Taken'
      BY <1>1, <1>3, PostKeeps, OthersKeep DEF RestNext, Alone
    <2> QED
      BY <1>3, <2>1, LooksUpKept DEF RestIInv
  <1> QED
    BY <1>2, <1>3

\* The invariant of CreateServer, TerminateServer, do and recoverByName.
LEMMA RestInvariance == RestSpec => []RestIInv
  BY RestInitInvariant, RestStepKeeps, RestIsConsole, ConsoleTypeCorrect, PTL
  DEF RestSpec

-----------------------------------------------------------------------------
\* Every counter keeps to its type; no client runs more attempts than do allows.
THEOREM RestTypeCorrect == RestSpec => []RestTypeOK
  <1>1. RestIInv => RestTypeOK
    <2> SUFFICES ASSUME RestIInv PROVE RestTypeOK
      OBVIOUS
    <2>1. ASSUME NEW g \in Clients
          PROVE  /\ attempt[g] \in 1 .. MaxRetries + 1
                 /\ stray[g] \in 0 .. MaxRetries + 1
                 /\ taken[g] \in 0 .. MaxRetries + 1
      BY Before DEF Sound, Attempts
    <2> QED
      BY <2>1 DEF RestIInv, RestTypes, LooksUp, RestTypeOK
  <1> QED
    BY <1>1, RestInvariance, PTL

\* No create is ordered twice and no terminate more than MaxRetries + 1 times,
\* whatever the network loses or delays (do).
THEOREM NoDoubleOrder == RestSpec => []OrdersBounded
  <1>1. RestIInv => OrdersBounded
    BY Before DEF Sound, Attempts, OrdersBounded
  <1> QED
    BY <1>1, RestInvariance, PTL

\* Nobody is told of a VM that was not ordered (CreateServer, recoverByName).
THEOREM SuccessesReal == RestSpec => []SuccessIsReal
  <1>1. RestIInv => SuccessIsReal
    BY DEF RestIInv, Taken, SuccessIsReal
  <1> QED
    BY <1>1, RestInvariance, PTL

-----------------------------------------------------------------------------
\* A client's step: where it stands then, and that no other moves with it.
LEMMA OneMoves ==
  ASSUME RestIInv, NEW g \in Clients, Look(g) \/ Alone(g)
  PROVE  \A d \in Clients \ {g} :
           stage'[d] = stage[d] /\ attempt'[d] = attempt[d] /\ overdue'[d] = overdue[d]
  BY DEF Look, Alone, Begin, Post, Arrives, Answered, Refused, ServerError,
         TransportError, Retry, LookedUp, Found, Aborted, NotFound, Cancelled, Overdue,
         StrayArrives, Listed, Become, Failed, client, RestIInv, RestTypes

\* What OperationAdvances says of one client.
Onward(g) ==
  stage[g] \notin Finished /\ stage'[g] \notin Finished =>
    /\ overdue[g] => overdue'[g]
    /\ attempt'[g] >= attempt[g]
    /\ \/ stage'[g] = stage[g]
       \/ attempt'[g] > attempt[g]
       \/ Distance(stage'[g]) < Distance(stage[g])
       \/ stage[g] = "lookup" /\ ~overdue[g]

\* Moves within an attempt: to a nearer stage, or from a lookup in time to the next.
LEMMA NearerIsOnward ==
  ASSUME RestIInv, NEW g \in Clients, NEW s \in Stages, Become(g, s),
         \/ s \in Finished
         \/ Distance(s) < Distance(stage[g])
         \/ stage[g] = "lookup" /\ ~overdue[g]
  PROVE  Onward(g)
  <1>1. s \notin Finished => overdue' = [overdue EXCEPT ![g] = overdue[g]]
    BY DEF Become
  <1>2. s \notin Finished => overdue'[g] = overdue[g]
    BY <1>1 DEF RestIInv, RestTypes
  <1> QED
    BY <1>2, BecomeMoves, Before DEF Onward

\* A client leaves an attempt for the next, and a lookup for another while the
\* deadline is ahead; otherwise it comes nearer to its return (do, recoverByName).
THEOREM OperationsAdvance == RestSpec => OperationAdvances
  <1>1. RestIInv /\ [RestNext]_all => [\A g \in Clients : Onward(g)]_all
    <2> SUFFICES ASSUME RestIInv, RestNext, NEW g \in Clients PROVE Onward(g)
      OBVIOUS
    <2>1. stage[g] \in Stages /\ attempt[g] \in Nat \ {0}
      BY Before
    <2>2. CASE UNCHANGED <<stage, attempt, overdue>>
      BY <2>1, <2>2 DEF Onward
    <2>3. ASSUME NEW d \in Clients \ {g}, Look(d) \/ Alone(d) PROVE Onward(g)
      BY <2>1, <2>3, OneMoves DEF Onward
    <2>4. CASE Look(g)
      BY <2>1, <2>4, NearerIsOnward DEF Look, Distance, Stages
    <2>5. CASE Alone(g)
      <3> USE DEF Distance, Stages, Finished
      <3>1. ASSUME NEW o \in {"create", "terminate"}, Begin(g, o) PROVE Onward(g)
        BY <3>1 DEF Begin, Onward
      <3>2. CASE Arrives(g) \/ Answered(g) \/ Refused(g)
        BY <3>2, NearerIsOnward DEF Arrives, Answered, Refused
      <3>3. CASE ServerError(g) \/ TransportError(g)
        BY <3>3, NearerIsOnward DEF ServerError, TransportError, Failed
      <3>4. CASE Retry(g)
        BY <2>1, <3>4 DEF Retry, Onward, RestIInv, RestTypes
      <3>5. CASE Found(g) \/ Aborted(g) \/ NotFound(g) \/ Cancelled(g)
        BY <3>5, NearerIsOnward DEF Found, Aborted, NotFound, Cancelled
      <3>6. CASE Overdue(g)
        BY <2>1, <3>6 DEF Overdue, Onward, RestIInv, RestTypes
      <3>7. CASE StrayArrives(g) \/ Listed(g)
        BY <2>2, <3>7 DEF StrayArrives, Listed, client
      <3> QED
        BY <2>5, <3>1, <3>2, <3>3, <3>4, <3>5, <3>6, <3>7 DEF Alone, Post, LookedUp
    <2> QED
      BY <2>2, <2>3, <2>4, <2>5 DEF RestNext, rest, client
  <1> QED
    BY <1>1, RestInvariance, PTL DEF RestSpec, OperationAdvances, Onward

-----------------------------------------------------------------------------
\* How a client stands, of its stages.
Standing == [g \in Clients |-> StandsAt(stage[g])]

\* Where a client moves, it stands.
LEMMA MovesStanding ==
  ASSUME RestIInv, NEW g \in Clients, NEW s \in Stages, Become(g, s)
  PROVE  /\ Standing' = [Standing EXCEPT ![g] = StandsAt(s)]
         /\ Standing[g] = StandsAt(stage[g])
  BY DEF Standing, Become, RestIInv, RestTypes

\* A move that the caller does not see, its failure, or its success.
LEMMA MoveIsOrder ==
  ASSUME RestIInv, NEW g \in Clients, NEW s \in Stages, Become(g, s),
         UNCHANGED <<op, stray, taken>>,
         stage[g] \notin Finished,
         \/ StandsAt(s) = StandsAt(stage[g])
         \/ s = "error"
         \/ s \in {"id", "recovered"} /\ taken[g] > 0
         \/ s = "grace" /\ stage[g] = "sent" /\ op[g] = "create"
  PROVE  [Order!OrderNext]_<<op, Standing, taken, stray>>
  <1> USE DEF Stages, Finished
  <1>1. /\ Standing' = [Standing EXCEPT ![g] = StandsAt(s)]
        /\ Standing[g] = StandsAt(stage[g])
        /\ StandsAt(stage[g]) \in {"asking", "doubtful"}
    BY MovesStanding, Before DEF StandsAt
  <1>2. CASE StandsAt(s) = StandsAt(stage[g])
    BY <1>1, <1>2 DEF Standing
  <1>3. CASE s = "error"
    BY <1>1, <1>3 DEF Order!OrderNext, Order!Fail, Order!Goes, Order!Calling, Standing, StandsAt
  <1>4. CASE s \in {"id", "recovered"} /\ taken[g] > 0
    BY <1>1, <1>4
    DEF Order!OrderNext, Order!Succeed, Order!Goes, Order!Calling, Standing, StandsAt
  <1>5. CASE s = "grace" /\ stage[g] = "sent" /\ op[g] = "create"
    <2>1. taken[g] = 1
      BY <1>5, Before DEF Sound, Attempts
    <2> QED
      BY <1>1, <1>5, <2>1
      DEF Order!OrderNext, Order!Doubt, Order!Goes, Standing, StandsAt
  <1> QED
    BY <1>2, <1>3, <1>4, <1>5

\* A step of a client is one that its caller is promised, or none.
LEMMA ClientIsOrder ==
  ASSUME RestIInv, NEW g \in Clients, Look(g) \/ Alone(g)
  PROVE  [Order!OrderNext]_<<op, Standing, taken, stray>>
  <1> USE DEF Stages, Finished
  <1>1. ASSUME NEW o \in {"create", "terminate"}, Begin(g, o)
        PROVE  Order!OrderNext
    <2>1. Become(g, "sending") /\ stage[g] \in Finished
      BY <1>1 DEF Begin
    <2>2. /\ Standing' = [Standing EXCEPT ![g] = "asking"]
          /\ Standing[g] \in {"done", "failed"}
      BY <2>1, MovesStanding DEF StandsAt
    <2>3. Order!Ask(g, o)
      BY <1>1, <2>2 DEF Begin, Order!Ask, Order!Goes, Order!Answers, Standing
    <2> QED
      BY <2>3 DEF Order!OrderNext
  <1>2. CASE Arrives(g)
    <2>1. Become(g, "sent") /\ stage[g] = "sending"
      BY <1>2 DEF Arrives
    <2>2. Standing' = Standing /\ Standing[g] = "asking"
      <3>1. Standing' = [Standing EXCEPT ![g] = "asking"] /\ Standing[g] = "asking"
        BY <2>1, MovesStanding DEF StandsAt
      <3> QED
        BY <3>1 DEF Standing
    <2>3. taken[g] + stray[g] < IF op[g] = "create" THEN 1 ELSE MaxRetries + 1
      BY <2>1, Before DEF Sound, Attempts
    <2>4. Order!Accept(g)
      BY <1>2, <2>2, <2>3 DEF Arrives, Order!Accept, Order!Limit, Standing
    <2> QED
      BY <2>4 DEF Order!OrderNext
  <1>3. CASE Answered(g)
    BY <1>3, MoveIsOrder, Before DEF Answered, Sound, remote
  <1>4. CASE Refused(g)
    BY <1>4, MoveIsOrder DEF Refused, remote
  <1>5. ASSUME ServerError(g) \/ TransportError(g)
        PROVE  \E s \in {"backoff", "grace", "error"} :
                 /\ Become(g, s)
                 /\ s = "backoff" => op[g] # "create"
                 /\ s = "grace" => op[g] = "create"
                 /\ stage[g] \in {"sending", "sent"} /\ UNCHANGED <<op, taken>>
    <2>1. attempt[g] < Attempts(g) => op[g] # "create"
      BY Before DEF Attempts
    <2> QED
      BY <1>5, <2>1 DEF ServerError, TransportError, Failed
  <1>6. ASSUME ServerError(g) \/ TransportError(g)
        PROVE  [Order!OrderNext]_<<op, Standing, taken, stray>>
    <2>1. PICK s \in {"backoff", "grace", "error"} :
            /\ Become(g, s)
            /\ s = "backoff" => op[g] # "create"
            /\ s = "grace" => op[g] = "create"
            /\ stage[g] \in {"sending", "sent"} /\ UNCHANGED <<op, taken>>
      BY <1>5, <1>6
    <2>2. CASE UNCHANGED stray /\ ~(s = "grace" /\ stage[g] = "sending")
      BY <2>1, <2>2, MoveIsOrder DEF StandsAt
    <2>3. CASE Astray(g)
      <3>1. stage[g] = "sending" /\ stray' = [stray EXCEPT ![g] = @ + 1]
        BY <2>3 DEF Astray
      <3>2. taken[g] + stray[g] < IF op[g] = "create" THEN 1 ELSE MaxRetries + 1
        BY <3>1, Before DEF Sound, Attempts
      <3>3. /\ Standing' = [Standing EXCEPT ![g] = StandsAt(s)]
            /\ Standing[g] = "asking"
        BY <2>1, <3>1, MovesStanding DEF StandsAt
      <3>4. StandsAt(s) \in {"failed", IF op[g] = "create" THEN "doubtful" ELSE "asking"}
        BY <2>1 DEF StandsAt
      <3>5. Order!GiveUpOn(g)
        BY <2>1, <3>1, <3>2, <3>3, <3>4
        DEF Order!GiveUpOn, Order!Limit, Order!Goes, Standing
      <3> QED
        BY <3>5 DEF Order!OrderNext
    <2>4. s = "grace" => TransportError(g)
      BY <1>6, <2>1, BecomeMoves, Before DEF ServerError, Failed
    <2> QED
      BY <1>6, <2>1, <2>2, <2>3, <2>4 DEF ServerError, TransportError
  <1>7. CASE Retry(g)
    <2>1. Standing' = Standing
      BY <1>7 DEF Retry, Standing, StandsAt, RestIInv, RestTypes
    <2> QED
      BY <1>7, <2>1 DEF Retry, remote
  <1>8. CASE Look(g)
    BY <1>8, MoveIsOrder DEF Look, StandsAt, remote
  <1>9. CASE Found(g)
    BY <1>9, MoveIsOrder, Before DEF Found, Sound, remote
  <1>10. CASE Aborted(g) \/ NotFound(g) \/ Cancelled(g)
    BY <1>10, MoveIsOrder DEF Aborted, NotFound, Cancelled, StandsAt, remote
  <1>11. CASE Overdue(g) \/ Listed(g)
    BY <1>11 DEF Overdue, Listed, client, remote, Standing
  <1>12. CASE StrayArrives(g)
    BY <1>12
    DEF StrayArrives, client, Standing, Order!OrderNext, Order!AcceptLate
  <1> QED
    BY <1>1, <1>2, <1>3, <1>4, <1>5, <1>6, <1>7, <1>8, <1>9, <1>10, <1>11, <1>12
    DEF Alone, Post, LookedUp

\* CreateServer and TerminateServer do as ServerOrder says: the callers need not know
\* of attempts, of lookups, or of the console's token (do, recoverByName).
THEOREM ImplementsServerOrder == RestSpec => OrdersAsPromised
  <1>1. RestInit => Order!OrderInit
    BY DEF RestInit, Order!OrderInit, StandsAt
  <1>2. RestIInv /\ [RestNext]_all => [Order!OrderNext]_(Order!orderVars)
    <2> SUFFICES ASSUME RestIInv, [RestNext]_all
                 PROVE  [Order!OrderNext]_<<op, Standing, taken, stray>>
      BY DEF Order!orderVars, Standing
    <2>1. CASE UNCHANGED rest
      BY <2>1 DEF rest, client, remote, Standing
    <2>2. CASE \E g \in Clients : Look(g) \/ Alone(g)
      BY <2>2, ClientIsOrder
    <2> QED
      BY <2>1, <2>2 DEF RestNext, all
  <1> QED
    BY <1>1, <1>2, RestInvariance, PTL DEF RestSpec, OrdersAsPromised, Order!OrderSpec

-----------------------------------------------------------------------------
\* The token keeps its promises among creations and terminations, too (bearerGet).
THEOREM TokenSafeHere ==
  RestSpec => /\ []ConsoleTypeOK /\ []SecondRefusalExplained
              /\ RetryIsFresh /\ CallAdvances
  BY RestIsConsole, ConsoleTypeCorrect, SecondRefusalsExplained, RetriesFresh,
     CallsAdvance, PTL

=============================================================================
