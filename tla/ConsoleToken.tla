---------------------------- MODULE ConsoleToken ----------------------------
(***************************************************************************)
(* consoleClient (internal/kamatera/console_client.go): the Bearer token   *)
(* that concurrent calls of ListQueue and ListServers share, and bearerGet *)
(* that authenticates when there is none, and again, once, after a 401.    *)
(*                                                                         *)
(* ensureToken holds the mutex while POST /authenticate is under way; no   *)
(* context interrupts the wait for a sync.Mutex.  bearerGet lets go of it  *)
(* between any two of its steps, so the token it sends may not be the one  *)
(* it fetched, and the token it wipes not the one that was refused.        *)
(***************************************************************************)
EXTENDS Naturals

CONSTANTS
  Calls,    \* the goroutines that call bearerGet, each one call at a time
  Ending,   \* those whose requests end: they have a deadline, or luck
  Tokens,   \* Bearer tokens, recycled once nobody holds them
  Empty,    \* the empty string: no token
  Nobody    \* the holder of a free mutex

ASSUME EndingAssumption == Ending \subseteq Calls
ASSUME EmptyAssumption  == Empty \notin Tokens
ASSUME NobodyAssumption == Nobody \notin Calls

VARIABLES
  mu,         \* consoleClient.mu: who holds it across a step
  token,      \* consoleClient.token
  stale,      \* consoleClient.expiresAt is less than 30 s away
  live,       \* platform: the tokens it accepts
  at,         \* bearerGet: where each call is
  try,        \* bearerGet: first or second bearerGetOnce
  sent,       \* bearerGetOnce: the token of the last request
  disturbed   \* history: the token was wiped or revoked since the call's own wipe

shared  == <<mu, token, stale>>
console == <<mu, token, stale, live, at, try, sent, disturbed>>

\* "ensure": about to lock in ensureToken; "auth": in POST /authenticate, with
\* the mutex; "read": about to lock in bearerGetOnce; "get": in the GET;
\* "wipe": about to lock after a 401.
Places == {"ensure", "auth", "read", "get", "wipe"}

\* No call yet, or what it returned.  "client": an APIError with a 4xx; "other":
\* a 5xx, a transport error, a body that does not decode.
Returned == {"none", "ok", "client", "other"}

Bearer == Tokens \cup {Empty}

\* The mutex is held across a step by the call that authenticates, and by no
\* other (ensureToken's deferred Unlock).
ConsoleTypeOK ==
  /\ mu \in Calls \cup {Nobody}
  /\ \A c \in Calls : mu = c <=> at[c] = "auth"
  /\ token \in Bearer
  /\ stale \in BOOLEAN
  /\ live \subseteq Tokens
  /\ at \in [Calls -> Places \cup Returned]
  /\ try \in [Calls -> {1, 2}]
  /\ sent \in [Calls -> Bearer]
  /\ disturbed \in [Calls -> BOOLEAN]

ConsoleInit ==
  /\ mu = Nobody
  /\ token = Empty
  /\ stale = FALSE
  /\ live = {}
  /\ at = [c \in Calls |-> "none"]
  /\ try = [c \in Calls |-> 1]
  /\ sent = [c \in Calls |-> Empty]
  /\ disturbed = [c \in Calls |-> FALSE]

Go(c, place) == at' = [at EXCEPT ![c] = place]

\* The call returns, with nothing of it left.
End(c, answer) ==
  /\ Go(c, answer)
  /\ try' = [try EXCEPT ![c] = 1]
  /\ sent' = [sent EXCEPT ![c] = Empty]
  /\ disturbed' = [disturbed EXCEPT ![c] = FALSE]

-----------------------------------------------------------------------------
Start(c) ==
  /\ at[c] \in Returned
  /\ Go(c, "ensure")
  /\ UNCHANGED <<shared, live, try, sent, disturbed>>

\* ensureToken locks: the cached token will do, or the call goes for a new one,
\* keeping the mutex.
Ensure(c) ==
  /\ at[c] = "ensure"
  /\ mu = Nobody
  /\ IF token # Empty /\ ~stale
       THEN Go(c, "read") /\ UNCHANGED mu
       ELSE Go(c, "auth") /\ mu' = c
  /\ UNCHANGED <<token, stale, live, try, sent, disturbed>>

\* The tokens some cache or call still holds.
Held == {token} \cup {sent[c] : c \in Calls}

\* A token is as good as another, so long as nobody holds it.
NewToken == CHOOSE t \in Tokens : t \notin Held

\* POST /authenticate answers with a token, which is cached.  What nobody holds
\* is forgotten.
Authenticated(c) ==
  /\ at[c] = "auth"
  /\ Tokens \ Held # {}
  /\ token' = NewToken
  /\ live' = (live \cap Held) \cup {NewToken}
  /\ stale' = FALSE
  /\ mu' = Nobody
  /\ Go(c, "read")
  /\ UNCHANGED <<try, sent, disturbed>>

\* Mutant: an early return that does not unlock.
AuthenticateFailsLocked(c) ==
  /\ at[c] = "auth"
  /\ \E answer \in {"client", "other"} : End(c, answer)
  /\ UNCHANGED <<mu, token, stale, live>>

\* It answers otherwise, or not before the context ends.  A 401 here is not
\* retried.
AuthenticateFails(c) ==
  /\ at[c] = "auth"
  /\ \E answer \in {"client", "other"} : End(c, answer)
  /\ mu' = Nobody
  /\ UNCHANGED <<token, stale, live>>

\* bearerGetOnce reads the cached token, which may have been wiped since.
ReadToken(c) ==
  /\ at[c] = "read"
  /\ mu = Nobody
  /\ sent' = [sent EXCEPT ![c] = token]
  /\ Go(c, "get")
  /\ UNCHANGED <<shared, live, try, disturbed>>

Accepted(c) == sent[c] \in live

\* The GET is answered.  The platform judges the token at this moment: judged
\* earlier, the same answer would have been given then.
GetSucceeds(c) ==
  /\ at[c] = "get"
  /\ Accepted(c)
  /\ End(c, "ok")
  /\ UNCHANGED <<shared, live>>

\* A 401, of the first request: to be retried.
FirstRefused(c) ==
  /\ at[c] = "get"
  /\ ~Accepted(c)
  /\ try[c] = 1
  /\ Go(c, "wipe")
  /\ UNCHANGED <<shared, live, try, sent, disturbed>>

\* Mutant: as many retries as there are refusals.
SecondRefusedAgain(c) ==
  /\ at[c] = "get"
  /\ ~Accepted(c)
  /\ try[c] = 2
  /\ Go(c, "wipe")
  /\ UNCHANGED <<shared, live, try, sent, disturbed>>

\* A 401, of the second: the caller's.
SecondRefused(c) ==
  /\ at[c] = "get"
  /\ ~Accepted(c)
  /\ try[c] = 2
  /\ End(c, "client")
  /\ UNCHANGED <<shared, live>>

\* Any other answer, or none before the context ends.
GetFails(c) ==
  /\ at[c] = "get"
  /\ \E answer \in {"client", "other"} : End(c, answer)
  /\ UNCHANGED <<shared, live>>

\* What a wipe by c, or a rotation, does to the calls that are past their own wipe.
Disturbs(S) == disturbed' = [d \in Calls |-> disturbed[d] \/ (d \in S /\ try[d] = 2)]

\* Mutant: the token that was refused is kept.
WipeNothing(c) ==
  /\ at[c] = "wipe"
  /\ mu = Nobody
  /\ Go(c, "ensure")
  /\ try' = [try EXCEPT ![c] = 2]
  /\ Disturbs(Calls \ {c})
  /\ UNCHANGED <<shared, live, sent>>

\* Mutant: the second request follows at once, without a new token.
WipeAndRead(c) ==
  /\ at[c] = "wipe"
  /\ mu = Nobody
  /\ token' = Empty
  /\ Go(c, "read")
  /\ try' = [try EXCEPT ![c] = 2]
  /\ Disturbs(Calls \ {c})
  /\ UNCHANGED <<mu, stale, live, sent>>

\* The token is wiped, be it the one that was refused or not.
Wipe(c) ==
  /\ at[c] = "wipe"
  /\ mu = Nobody
  /\ token' = Empty
  /\ Go(c, "ensure")
  /\ try' = [try EXCEPT ![c] = 2]
  /\ Disturbs(Calls \ {c})
  /\ UNCHANGED <<mu, stale, live, sent>>

Request(c) ==
  \/ Ensure(c)
  \/ Authenticated(c) \/ AuthenticateFails(c)
  \/ ReadToken(c)
  \/ GetSucceeds(c) \/ FirstRefused(c) \/ SecondRefused(c) \/ GetFails(c)
  \/ Wipe(c)

-----------------------------------------------------------------------------
\* The platform revokes the tokens it has issued.
Rotate ==
  /\ live # {}
  /\ live' = {}
  /\ Disturbs(Calls)
  /\ UNCHANGED <<shared, at, try, sent>>

\* The cached token comes within 30 s of its expiry.
Expires ==
  /\ token # Empty
  /\ ~stale
  /\ stale' = TRUE
  /\ UNCHANGED <<mu, token, live, at, try, sent, disturbed>>

Platform == Rotate \/ Expires

ConsoleNext == Platform \/ \E c \in Calls : Start(c) \/ Request(c)

ConsoleSpec == ConsoleInit /\ [][ConsoleNext]_console

-----------------------------------------------------------------------------
(***************************************************************************)
(* Safety.                                                                 *)
(***************************************************************************)

\* The second request of a call never carries the token the first was refused
\* with (bearerGet's wipe), however the wipes, the authentications and the reads
\* of several calls fall between each other.
RetryIsFresh ==
  [][\A c \in Calls :
       try[c] = 2 /\ at[c] = "read" /\ at'[c] = "get" =>
         sent'[c] # sent[c] \/ sent[c] = Empty]_console

\* A 401 of the second request has a cause outside the call: after its own wipe
\* another call wiped the token, or the platform rotated it once more (bearerGet:
\* the second bearerGetOnce has no retry).
SecondRefusalExplained ==
  \A c \in Calls :
    at[c] = "get" /\ try[c] = 2 /\ ~Accepted(c) => disturbed[c]

\* How many steps a request has still to take, at most; then what a call has, whose
\* first request may be refused.
Ahead(place) ==
  CASE place = "ensure" -> 5 [] place = "auth" -> 4 [] place = "read" -> 3
    [] place = "get" -> 2 [] place = "wipe" -> 1 [] OTHER -> 0

Remaining(c) == Ahead(at[c]) + IF try[c] = 1 /\ at[c] \notin Returned THEN 5 ELSE 0

\* A call gets on with each of its steps, and no step of another call, or of the
\* platform, sets it back: with ten at most, and two requests, it returns, however
\* often its tokens are wiped and rotated (bearerGet authenticates again once).
CallAdvances ==
  [][\A c \in Calls : at[c] \in Places =>
       \/ at'[c] = at[c] /\ try'[c] = try[c] /\ sent'[c] = sent[c]
       \/ Remaining(c)' < Remaining(c)]_console

-----------------------------------------------------------------------------
(***************************************************************************)
(* Liveness.                                                               *)
(***************************************************************************)

\* The mutex is fair (sync.Mutex hands over to a waiter that has waited 1 ms);
\* the requests of the calls in Ending are answered, fail or time out.
Answers(c) ==
  \/ Authenticated(c) \/ AuthenticateFails(c)
  \/ GetSucceeds(c) \/ FirstRefused(c) \/ SecondRefused(c) \/ GetFails(c)

Locks(c) == Ensure(c) \/ ReadToken(c) \/ Wipe(c)

ConsoleFairness ==
  /\ \A c \in Calls  : SF_console(Locks(c))
  /\ \A c \in Ending : WF_console(Answers(c))

ConsoleFairSpec == ConsoleSpec /\ ConsoleFairness

\* client.go:147: "each call sets its own deadline via context".  A call whose
\* requests end ends, whatever the calls beside it do: such are the calls of the
\* watcher's tick, which have 30 s.
CallsReturn == \A c \in Ending : at[c] = "ensure" ~> at[c] \in Returned

=============================================================================
