----------------------------- MODULE RateLimit ------------------------------
(***************************************************************************)
(* auth::util::rate_limit (server/core/auth.rs) for one address: requests  *)
(* that concurrently INCR the key rate-limit:<ip>, and EXPIRE it when they *)
(* are the first.  Nothing calls it yet.  Time is abstracted: a key with a *)
(* TTL expires at any moment, one without never does.                      *)
(***************************************************************************)
EXTENDS Naturals

CONSTANTS
  Requests,     \* slots for calls of rate_limit with this address
  Limit,        \* its argument limit
  MaxCount,     \* bound on the counter
  MaxFailures   \* bound on calls to Redis that fail and on dead daemons

ASSUME RateLimitAssumption ==
  Limit \in Nat /\ MaxCount \in Nat /\ MaxFailures \in Nat

VARIABLES
  count,     \* Redis: the counter, 0 when there is no key
  ttl,       \* Redis: "set" if the key has a TTL, else "unset"
  phase,     \* the await a call is suspended at
  got,       \* the counter INCR answered to a call, 0 before
  status,    \* the end of a call: "none", "ok", "limited" (429) or "error"
  failures   \* failures so far

vars == <<count, ttl, phase, got, status, failures>>

\* "incr" and "expire": the command is on its way to Redis; "counted" and
\* "set": its reply is on its way back.
Phases   == {"idle", "incr", "counted", "expire", "set", "done"}
Awaits   == {"incr", "counted", "expire", "set"}
Statuses == {"none", "ok", "limited", "error"}

TypeOK ==
  /\ count \in 0 .. MaxCount
  /\ ttl \in {"set", "unset"}
  /\ phase \in [Requests -> Phases]
  /\ got \in [Requests -> 0 .. MaxCount]
  /\ status \in [Requests -> Statuses]
  /\ failures \in 0 .. MaxFailures
  /\ ttl = "set" => count > 0

Init ==
  /\ count = 0 /\ ttl = "unset"
  /\ phase = [r \in Requests |-> "idle"]
  /\ got = [r \in Requests |-> 0]
  /\ status = [r \in Requests |-> "none"]
  /\ failures = 0

Call(r) ==
  /\ phase[r] = "idle"
  /\ phase' = [phase EXCEPT ![r] = "incr"]
  /\ UNCHANGED <<count, ttl, got, status, failures>>

\* Mutant of Increment: the call gets the counter as it was before.
IncrementAfter(r) ==
  /\ phase[r] = "incr"
  /\ count < MaxCount
  /\ count' = count + 1
  /\ got' = [got EXCEPT ![r] = count]
  /\ phase' = [phase EXCEPT ![r] = "counted"]
  /\ UNCHANGED <<ttl, status, failures>>

\* Redis executes INCR, which makes the key without a TTL.
Increment(r) ==
  /\ phase[r] = "incr"
  /\ count < MaxCount
  /\ count' = count + 1
  /\ got' = [got EXCEPT ![r] = count + 1]
  /\ phase' = [phase EXCEPT ![r] = "counted"]
  /\ UNCHANGED <<ttl, status, failures>>

End(r, s) ==
  /\ phase' = [phase EXCEPT ![r] = "done"]
  /\ status' = [status EXCEPT ![r] = s]
  /\ UNCHANGED <<count, ttl, got>>

\* Mutant of Over: a request at the limit is refused.
AtLimit(n) == n >= Limit

Over(n) == n > Limit

\* Mutant of First: the TTL is set by a request that finds no key.
Before(n) == n < 1

First(n) == 1 >= n

\* The reply of INCR: 429, or EXPIRE if this call made the key, or nothing.
Counted(r) ==
  /\ phase[r] = "counted"
  /\ \/ Over(got[r]) /\ End(r, "limited")
     \/ /\ ~Over(got[r]) /\ First(got[r])
        /\ phase' = [phase EXCEPT ![r] = "expire"]
        /\ UNCHANGED <<count, ttl, got, status>>
     \/ ~Over(got[r]) /\ ~First(got[r]) /\ End(r, "ok")
  /\ UNCHANGED failures

\* Redis executes EXPIRE; without a key it has no effect.
SetExpiry(r) ==
  /\ phase[r] = "expire"
  /\ ttl' = IF count > 0 THEN "set" ELSE "unset"
  /\ phase' = [phase EXCEPT ![r] = "set"]
  /\ UNCHANGED <<count, got, status, failures>>

Return(r) ==
  /\ phase[r] = "set"
  /\ End(r, "ok")
  /\ UNCHANGED failures

\* A call to Redis fails, before or after Redis has executed the command, or
\* the daemon dies.
Fail(r) ==
  /\ phase[r] \in Awaits
  /\ failures < MaxFailures
  /\ failures' = failures + 1
  /\ End(r, "error")

\* The slot is free for the next request of this address.
Forget(r) ==
  /\ phase[r] = "done"
  /\ phase' = [phase EXCEPT ![r] = "idle"]
  /\ got' = [got EXCEPT ![r] = 0]
  /\ status' = [status EXCEPT ![r] = "none"]
  /\ UNCHANGED <<count, ttl, failures>>

\* Mutant of Expire: the TTL survives the key.
ExpireCounter ==
  /\ ttl = "set"
  /\ count' = 0
  /\ UNCHANGED <<ttl, phase, got, status, failures>>

\* Redis deletes the key.
Expire ==
  /\ ttl = "set"
  /\ count' = 0 /\ ttl' = "unset"
  /\ UNCHANGED <<phase, got, status, failures>>

Step(r) == Increment(r) \/ Counted(r) \/ SetExpiry(r) \/ Return(r)

Next == Expire \/ \E r \in Requests : Call(r) \/ Step(r) \/ Fail(r) \/ Forget(r)

\* Commands and replies arrive, and a TTL runs out.
Fairness == WF_vars(Expire) /\ \A r \in Requests : WF_vars(Step(r))

Spec == Init /\ [][Next]_vars /\ Fairness

-----------------------------------------------------------------------------
(* Properties.                                                             *)

\* What INCR decided for each call.
Decision(n) == IF n = 0 THEN "none" ELSE IF n <= Limit THEN "pass" ELSE "limit"

Verdict == [r \in Requests |-> Decision(got[r])]

\* The counter as a fixed window: decided by the order in which Redis executes
\* INCR, whatever the order of the replies.
Window == INSTANCE FixedWindow WITH
  open    <- count > 0,
  served  <- IF count <= Limit THEN count ELSE Limit,
  verdict <- Verdict

\* INCR, EXPIRE and the expiry of the key implement the fixed window.
ImplementsWindow == Window!Spec

\* A call answers what was decided when its INCR was executed, however late.
AnswersVerdict ==
  \A r \in Requests :
    /\ status[r] = "ok" => Verdict[r] = "pass"
    /\ status[r] = "limited" => Verdict[r] = "limit"

\* A window that is open closes: it has a TTL, or the call that opened it is
\* about to set it.  One failure between INCR and EXPIRE leaves a key without
\* TTL, and the address limited for ever; so does the limit 0.
WindowCloses ==
  failures = 0 /\ Limit > 0 /\ count > 0 =>
    \/ ttl = "set"
    \/ \E r \in Requests : phase[r] = "counted" /\ got[r] = 1
    \/ \E r \in Requests : phase[r] = "expire"

\* An open window closes in the end, unless a call fails.
WindowsEnd == failures = 0 /\ count > 0 ~> failures > 0 \/ count = 0
=============================================================================
