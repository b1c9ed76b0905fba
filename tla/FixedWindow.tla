---------------------------- MODULE FixedWindow -----------------------------
(***************************************************************************)
(* What auth::util::rate_limit (server/core/auth.rs) promises for one      *)
(* address: windows that open with a request and close later, and in each  *)
(* of them at most Limit requests let through, every other one refused.    *)
(***************************************************************************)
EXTENDS Naturals

CONSTANTS Requests, Limit

VARIABLES
  open,     \* a window is open
  served,   \* requests let through in it
  verdict   \* what was decided for a request: "none", "pass" or "limit"

vars == <<open, served, verdict>>

TypeOK ==
  /\ open \in BOOLEAN
  /\ served \in 0 .. Limit
  /\ verdict \in [Requests -> {"none", "pass", "limit"}]

Init ==
  /\ open = FALSE
  /\ served = 0
  /\ verdict = [r \in Requests |-> "none"]

Let(r) ==
  /\ verdict[r] = "none"
  /\ served < Limit
  /\ open' = TRUE /\ served' = served + 1
  /\ verdict' = [verdict EXCEPT ![r] = "pass"]

Refuse(r) ==
  /\ verdict[r] = "none"
  /\ served = Limit
  /\ open' = TRUE /\ UNCHANGED served
  /\ verdict' = [verdict EXCEPT ![r] = "limit"]

Close ==
  /\ open
  /\ open' = FALSE /\ served' = 0
  /\ UNCHANGED verdict

\* The slot of a request is used for the next one.
Renew(r) ==
  /\ verdict[r] # "none"
  /\ verdict' = [verdict EXCEPT ![r] = "none"]
  /\ UNCHANGED <<open, served>>

Next == Close \/ \E r \in Requests : Let(r) \/ Refuse(r) \/ Renew(r)

Spec == Init /\ [][Next]_vars
=============================================================================
