------------------------------ MODULE AsyncWait ------------------------------
(***************************************************************************)
(* What WaitProvision and WaitTerminate promise their callers, with no     *)
(* word of the watcher behind them: a caller waits for a command of the    *)
(* platform, is given at most one answer, a true one, and goes on with it  *)
(* or when its own context is done.  CmdWatcher implements it.             *)
(***************************************************************************)
CONSTANTS
  Waits,      \* calls of WaitProvision and WaitTerminate
  Commands,   \* Kamatera command ids
  CommandOf,  \* the command each wait is for
  Enrich,     \* the waits that end with a lookup of the server
  None        \* no answer yet

VARIABLES
  call,       \* where each caller is: "new", "waiting" or "returned"
  answer,     \* the answer each wait was given
  expired,    \* the waits whose deadline has passed
  cancelled,  \* the waits whose caller's context is done
  status      \* platform: the command queue

vars == <<call, answer, expired, cancelled, status>>

Answers == {"timeout", "failed", "ok", "missing"}

Init ==
  /\ call = [w \in Waits |-> "new"]
  /\ answer = [w \in Waits |-> None]
  /\ expired = {}
  /\ cancelled = {}
  /\ status = [c \in Commands |-> "open"]

Ask(w) ==
  /\ call[w] = "new"
  /\ call' = [call EXCEPT ![w] = "waiting"]
  /\ UNCHANGED <<answer, expired, cancelled, status>>

\* Another caller waits for the same command: an error, at once.
Refuse(w) ==
  /\ call[w] = "new"
  /\ \E v \in Waits \ {w} : CommandOf[v] = CommandOf[w] /\ call[v] = "waiting"
  /\ call' = [call EXCEPT ![w] = "returned"]
  /\ UNCHANGED <<answer, expired, cancelled, status>>

True(w, a) ==
  \/ a = "timeout" /\ w \in expired
  \/ a = "failed"  /\ status[CommandOf[w]] = "failed"
  \/ a = "ok"      /\ status[CommandOf[w]] = "complete"
  \/ a = "missing" /\ status[CommandOf[w]] = "complete" /\ w \in Enrich

\* Any number of waits are answered at once; none that was answered before, and
\* none that nobody makes.
Answer ==
  /\ answer' \in [Waits -> Answers \cup {None}]
  /\ \A w \in Waits : answer'[w] # answer[w] =>
       answer[w] = None /\ call[w] = "waiting" /\ True(w, answer'[w])
  /\ UNCHANGED <<call, expired, cancelled, status>>

Return(w) ==
  /\ call[w] = "waiting"
  /\ answer[w] # None \/ w \in cancelled
  /\ call' = [call EXCEPT ![w] = "returned"]
  /\ UNCHANGED <<answer, expired, cancelled, status>>

Expires(w) ==
  /\ call[w] # "new"
  /\ expired' = expired \cup {w}
  /\ UNCHANGED <<call, answer, cancelled, status>>

ContextDone(w) ==
  /\ cancelled' = cancelled \cup {w}
  /\ UNCHANGED <<call, answer, expired, status>>

CommandEnds(c) ==
  /\ status[c] = "open"
  /\ \E s \in {"complete", "failed"} : status' = [status EXCEPT ![c] = s]
  /\ UNCHANGED <<call, answer, expired, cancelled>>

Next ==
  \/ \E w \in Waits : Ask(w) \/ Refuse(w) \/ Return(w) \/ Expires(w) \/ ContextDone(w)
  \/ Answer
  \/ \E c \in Commands : CommandEnds(c)

Spec == Init /\ [][Next]_vars

=============================================================================
