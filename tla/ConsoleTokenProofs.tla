------------------------- MODULE ConsoleTokenProofs -------------------------
(***************************************************************************)
(* The safety of ConsoleToken, for any number of calls and any supply of   *)
(* tokens.                                                                 *)
(*                                                                         *)
(* A call that has wiped the token and has not been disturbed since will   *)
(* send a token the platform accepts (RetryLive), and one that has wiped   *)
(* it, disturbed or not, will send another than it did before (Fresh).     *)
(***************************************************************************)
EXTENDS ConsoleToken, TLAPS

\* A call that returns leaves nothing behind (End), and one that wipes the token
\* was refused once.
FirstTry == \A c \in Calls : at[c] \in Returned \cup {"wipe"} => try[c] = 1

RetryLive ==
  \A c \in Calls : try[c] = 2 /\ ~disturbed[c] =>
    /\ at[c] = "ensure" => token \in live \cup {Empty}
    /\ at[c] = "read"   => token \in live
    /\ at[c] = "get"    => sent[c] \in live

Fresh ==
  \A c \in Calls :
    try[c] = 2 /\ at[c] \in {"ensure", "read"} => token # sent[c] \/ sent[c] = Empty

ConsoleIInv == ConsoleTypeOK /\ FirstTry /\ RetryLive /\ Fresh

-----------------------------------------------------------------------------
\* newConsoleClient has no token, and nobody calls.
LEMMA ConsoleInitInvariant == ConsoleInit => ConsoleIInv
  BY NobodyAssumption
  DEF ConsoleInit, ConsoleIInv, ConsoleTypeOK, Places, Returned, Bearer,
      FirstTry, RetryLive, Fresh

\* A new token is one that no cache and no call holds.
LEMMA NewTokenNew ==
  ASSUME Tokens \ Held # {}
  PROVE  /\ NewToken \in Tokens
         /\ NewToken # token
         /\ \A c \in Calls : NewToken # sent[c]
  BY DEF NewToken, Held

\* The call's steps that neither change the token nor read it.
LEMMA QuietKeeps ==
  ASSUME ConsoleIInv, NEW c \in Calls,
         \/ Start(c) \/ Ensure(c) \/ AuthenticateFails(c)
         \/ GetSucceeds(c) \/ FirstRefused(c) \/ SecondRefused(c) \/ GetFails(c)
  PROVE  ConsoleIInv'
  <1> USE DEF shared, Go, End, Places, Returned, Bearer
  <1>1. UNCHANGED <<token, stale, live>>
    BY DEF Start, Ensure, AuthenticateFails, GetSucceeds, FirstRefused, SecondRefused,
           GetFails
  <1>2. ConsoleTypeOK'
    <2> USE DEF ConsoleIInv, ConsoleTypeOK
    <2>1. CASE Start(c) \/ FirstRefused(c)
      BY <2>1 DEF Start, FirstRefused
    <2>2. CASE Ensure(c)
      BY <2>2, NobodyAssumption DEF Ensure
    <2>3. CASE GetSucceeds(c) \/ SecondRefused(c) \/ GetFails(c)
      BY <2>3 DEF GetSucceeds, SecondRefused, GetFails
    <2>4. CASE AuthenticateFails(c)
      BY <2>4, NobodyAssumption DEF AuthenticateFails
    <2> QED
      BY <2>1, <2>2, <2>3, <2>4
  <1>3. FirstTry'
    BY DEF Start, Ensure, AuthenticateFails, GetSucceeds, FirstRefused, SecondRefused,
           GetFails, ConsoleIInv, ConsoleTypeOK, FirstTry
  <1>4. ASSUME NEW d \in Calls, try'[d] = 2
        PROVE  /\ try[d] = 2 /\ disturbed'[d] = disturbed[d] /\ sent'[d] = sent[d]
               /\ at'[d] = "ensure" => at[d] = "ensure"
               /\ at'[d] = "read" => \/ at[d] = "read"
                                     \/ at[d] = "ensure" /\ token # Empty
               /\ at'[d] = "get" => at[d] = "get"
    BY <1>4
    DEF Start, Ensure, AuthenticateFails, GetSucceeds, FirstRefused, SecondRefused,
        GetFails, ConsoleIInv, ConsoleTypeOK, FirstTry
  <1>5. RetryLive'
    BY <1>1, <1>4 DEF ConsoleIInv, RetryLive
  <1>6. Fresh'
    BY <1>1, <1>4 DEF ConsoleIInv, Fresh
  <1> QED
    BY <1>2, <1>3, <1>5, <1>6 DEF ConsoleIInv

\* A new token is live and held by nobody; those it displaces in live are held by
\* nobody either.
LEMMA AuthenticatedKeeps ==
  ASSUME ConsoleIInv, NEW c \in Calls, Authenticated(c)
  PROVE  ConsoleIInv'
  <1> USE DEF Go, Places, Returned, Bearer
  <1>1. /\ token' \in Tokens /\ token' \in live' /\ token' # token
        /\ \A d \in Calls : token' # sent[d]
    BY NewTokenNew DEF Authenticated
  <1>2. \A d \in Calls : sent[d] \in live => sent[d] \in live'
    BY DEF Authenticated, Held
  <1>3. mu = c /\ \A d \in Calls : at[d] = "auth" => d = c
    BY DEF Authenticated, ConsoleIInv, ConsoleTypeOK
  <1>4. ConsoleTypeOK'
    BY <1>1, <1>3, NobodyAssumption DEF Authenticated, ConsoleIInv, ConsoleTypeOK
  <1>5. FirstTry'
    BY DEF Authenticated, ConsoleIInv, ConsoleTypeOK, FirstTry
  <1>6. RetryLive'
    BY <1>1, <1>2 DEF Authenticated, ConsoleIInv, ConsoleTypeOK, RetryLive
  <1>7. Fresh'
    BY <1>1 DEF Authenticated, ConsoleIInv, ConsoleTypeOK, Fresh
  <1> QED
    BY <1>4, <1>5, <1>6, <1>7 DEF ConsoleIInv

\* The token that is read is the one RetryLive speaks of.
LEMMA ReadTokenKeeps ==
  ASSUME ConsoleIInv, NEW c \in Calls, ReadToken(c)
  PROVE  ConsoleIInv'
  <1> USE DEF Go, Places, Returned, Bearer, shared
  <1>1. ConsoleTypeOK' /\ FirstTry'
    BY DEF ReadToken, ConsoleIInv, ConsoleTypeOK, FirstTry
  <1>2. RetryLive'
    BY DEF ReadToken, ConsoleIInv, ConsoleTypeOK, RetryLive
  <1>3. Fresh'
    BY DEF ReadToken, ConsoleIInv, ConsoleTypeOK, Fresh
  <1> QED
    BY <1>1, <1>2, <1>3 DEF ConsoleIInv

\* A wipe disturbs every other call that is past its own.
LEMMA WipeKeeps ==
  ASSUME ConsoleIInv, NEW c \in Calls, Wipe(c)
  PROVE  ConsoleIInv'
  <1> USE DEF Go, Places, Returned, Bearer, Disturbs
  <1>1. ConsoleTypeOK' /\ FirstTry'
    BY DEF Wipe, ConsoleIInv, ConsoleTypeOK, FirstTry
  <1>2. RetryLive'
    <2> SUFFICES ASSUME NEW d \in Calls, try'[d] = 2, ~disturbed'[d]
                 PROVE  d = c
      BY DEF Wipe, RetryLive, ConsoleIInv, ConsoleTypeOK
    <2> QED
      BY DEF Wipe, ConsoleIInv, ConsoleTypeOK
  <1>3. Fresh'
    BY DEF Wipe, ConsoleIInv, ConsoleTypeOK, Fresh
  <1> QED
    BY <1>1, <1>2, <1>3 DEF ConsoleIInv

\* A rotation disturbs every call that is past its wipe; an expiry none.
LEMMA PlatformKeeps ==
  ASSUME ConsoleIInv, Platform
  PROVE  ConsoleIInv'
  <1>1. CASE Rotate
    <2> USE <1>1 DEF Rotate, Disturbs, shared
    <2>1. ConsoleTypeOK' /\ FirstTry' /\ Fresh'
      BY DEF ConsoleIInv, ConsoleTypeOK, FirstTry, Fresh
    <2>2. RetryLive'
      BY DEF RetryLive
    <2> QED
      BY <2>1, <2>2 DEF ConsoleIInv
  <1>2. CASE Expires
    BY <1>2 DEF Expires, ConsoleIInv, ConsoleTypeOK, FirstTry, RetryLive, Fresh
  <1> QED
    BY <1>1, <1>2 DEF Platform

\* Every step of the calls and of the platform keeps the invariant.
LEMMA ConsoleStepKeeps == ConsoleIInv /\ [ConsoleNext]_console => ConsoleIInv'
  <1> SUFFICES ASSUME ConsoleIInv, [ConsoleNext]_console PROVE ConsoleIInv'
    OBVIOUS
  <1>1. CASE UNCHANGED console
    BY <1>1 DEF console, ConsoleIInv, ConsoleTypeOK, FirstTry, RetryLive, Fresh
  <1>2. CASE ConsoleNext
    BY <1>2, QuietKeeps, AuthenticatedKeeps, ReadTokenKeeps, WipeKeeps, PlatformKeeps
    DEF ConsoleNext, Request
  <1> QED
    BY <1>1, <1>2

\* The invariant of ensureToken, bearerGet and bearerGetOnce.
LEMMA ConsoleInvariance == ConsoleSpec => []ConsoleIInv
  BY ConsoleInitInvariant, ConsoleStepKeeps, PTL DEF ConsoleSpec

-----------------------------------------------------------------------------
\* Every variable keeps to its type, and the mutex is held across POST
\* /authenticate by the call that makes it, and by no other (ensureToken).
THEOREM ConsoleTypeCorrect == ConsoleSpec => []ConsoleTypeOK
  BY ConsoleInvariance, PTL DEF ConsoleIInv

\* A second 401 comes only of another call's wipe, or of another rotation, after
\* the call's own wipe (bearerGet).
THEOREM SecondRefusalsExplained == ConsoleSpec => []SecondRefusalExplained
  <1>1. ConsoleIInv => SecondRefusalExplained
    BY DEF ConsoleIInv, RetryLive, SecondRefusalExplained, Accepted
  <1> QED
    BY <1>1, ConsoleInvariance, PTL

\* The retry of bearerGet never carries the token that was refused.
THEOREM RetriesFresh == ConsoleSpec => RetryIsFresh
  <1> DEFINE Freshly ==
        \A c \in Calls :
          try[c] = 2 /\ at[c] = "read" /\ at'[c] = "get" =>
            sent'[c] # sent[c] \/ sent[c] = Empty
  <1>1. ConsoleIInv /\ [ConsoleNext]_console => [Freshly]_console
    <2> SUFFICES ASSUME ConsoleIInv, ConsoleNext, NEW c \in Calls,
                        try[c] = 2, at[c] = "read", at'[c] = "get"
                 PROVE  sent'[c] # sent[c] \/ sent[c] = Empty
      OBVIOUS
    <2>1. at \in [Calls -> Places \cup Returned] /\ sent \in [Calls -> Bearer]
      BY DEF ConsoleIInv, ConsoleTypeOK
    <2>2. ReadToken(c)
      BY <2>1
      DEF ConsoleNext, Platform, Rotate, Expires, Start, Request, Ensure,
          Authenticated, AuthenticateFails, ReadToken, GetSucceeds, FirstRefused,
          SecondRefused, GetFails, Wipe, End, Go, Places, Returned
    <2>3. sent'[c] = token
      BY <2>1, <2>2 DEF ReadToken
    <2> QED
      BY <2>3 DEF ConsoleIInv, Fresh
  <1> QED
    BY <1>1, ConsoleInvariance, PTL DEF ConsoleSpec, RetryIsFresh

\* No step of a call goes back, and those of the others, of the wipes and the
\* rotations it may suffer from, leave it where it is: a call of bearerGet takes no
\* more than ten steps and two requests.
THEOREM CallsAdvance == ConsoleSpec => CallAdvances
  <1> DEFINE Advances ==
        \A c \in Calls : at[c] \in Places =>
          \/ at'[c] = at[c] /\ try'[c] = try[c] /\ sent'[c] = sent[c]
          \/ Remaining(c)' < Remaining(c)
  <1>1. ConsoleIInv /\ [ConsoleNext]_console => [Advances]_console
    <2> SUFFICES ASSUME ConsoleIInv, ConsoleNext, NEW c \in Calls, at[c] \in Places
                 PROVE  \/ at'[c] = at[c] /\ try'[c] = try[c] /\ sent'[c] = sent[c]
                        \/ Remaining(c)' < Remaining(c)
      OBVIOUS
    <2>1. /\ at \in [Calls -> Places \cup Returned]
          /\ try \in [Calls -> {1, 2}] /\ sent \in [Calls -> Bearer]
      BY DEF ConsoleIInv, ConsoleTypeOK
    <2>2. CASE Request(c)
      <3> USE DEF Go, End, Remaining, Ahead, Places, Returned
      <3>1. CASE Ensure(c) \/ Authenticated(c) \/ ReadToken(c) \/ FirstRefused(c)
        BY <2>1, <3>1 DEF Ensure, Authenticated, ReadToken, FirstRefused
      <3>2. CASE \/ AuthenticateFails(c) \/ GetSucceeds(c)
                 \/ SecondRefused(c) \/ GetFails(c)
        BY <2>1, <3>2 DEF AuthenticateFails, GetSucceeds, SecondRefused, GetFails
      <3>3. CASE Wipe(c)
        BY <2>1, <3>3 DEF Wipe, ConsoleIInv, FirstTry
      <3> QED
        BY <2>2, <3>1, <3>2, <3>3 DEF Request
    <2>3. CASE Start(c)
      BY <2>3 DEF Start, Places, Returned
    <2>4. CASE Platform
      BY <2>4 DEF Platform, Rotate, Expires
    <2>5. ASSUME NEW d \in Calls \ {c}, Start(d) \/ Request(d)
          PROVE  at'[c] = at[c] /\ try'[c] = try[c] /\ sent'[c] = sent[c]
      BY <2>1, <2>5
      DEF Start, Request, Ensure, Authenticated, AuthenticateFails, ReadToken,
          GetSucceeds, FirstRefused, SecondRefused, GetFails, Wipe, End, Go
    <2> QED
      BY <2>2, <2>3, <2>4, <2>5 DEF ConsoleNext
  <1> QED
    BY <1>1, ConsoleInvariance, PTL DEF ConsoleSpec, CallAdvances

=============================================================================
