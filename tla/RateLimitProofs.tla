-------------------------- MODULE RateLimitProofs ---------------------------
(* Proofs about RateLimit, for every limit and every set of requests. *)
EXTENDS RateLimit, TLAPS

\* What a call has at each of its awaits and at its end.
Progress(r) ==
  /\ phase[r] # "done" => status[r] = "none"
  /\ phase[r] \in {"idle", "incr"} => got[r] = 0
  /\ phase[r] \in {"counted", "expire", "set"} => got[r] > 0
  /\ phase[r] \in {"expire", "set"} => got[r] <= Limit
  /\ status[r] \in {"ok", "limited"} => got[r] > 0
  /\ status[r] = "ok" => got[r] <= Limit
  /\ status[r] = "limited" => got[r] > Limit

IInv == TypeOK /\ \A r \in Requests : Progress(r)

USE RateLimitAssumption DEF vars, Phases, Awaits, Statuses

LEMMA Decisions ==
  ASSUME NEW n \in Nat
  PROVE  /\ Decision(n) = "none" <=> n = 0
         /\ Decision(n) = "pass" <=> 0 < n /\ n <= Limit
         /\ Decision(n) = "limit" <=> n > Limit
BY DEF Decision

LEMMA InitIInv == Init => IInv
BY DEF Init, IInv, TypeOK, Progress

LEMMA NextTypeOK == TypeOK /\ [Next]_vars => TypeOK'
<1> SUFFICES ASSUME TypeOK, [Next]_vars PROVE TypeOK'
  OBVIOUS
<1> USE DEF TypeOK
<1>1. CASE Expire
  BY <1>1 DEF Expire
<1>2. ASSUME NEW r \in Requests, Call(r) \/ Forget(r) PROVE TypeOK'
  BY <1>2 DEF Call, Forget
<1>3. ASSUME NEW r \in Requests, Increment(r) PROVE TypeOK'
  BY <1>3 DEF Increment
<1>4. ASSUME NEW r \in Requests, Counted(r) PROVE TypeOK'
  BY <1>4 DEF Counted, End
<1>5. ASSUME NEW r \in Requests, SetExpiry(r) PROVE TypeOK'
  BY <1>5 DEF SetExpiry
<1>6. ASSUME NEW r \in Requests, Return(r) \/ Fail(r) PROVE TypeOK'
  BY <1>6 DEF Return, Fail, End
<1> QED BY <1>1, <1>2, <1>3, <1>4, <1>5, <1>6 DEF Next, Step

LEMMA NextIInv == IInv /\ [Next]_vars => IInv'
<1> SUFFICES ASSUME IInv, [Next]_vars PROVE IInv'
  OBVIOUS
<1>1. TypeOK /\ TypeOK'
  BY NextTypeOK DEF IInv
<1> SUFFICES ASSUME NEW s \in Requests PROVE Progress(s)'
  BY <1>1 DEF IInv
<1>2. Progress(s)
  BY DEF IInv
<1> USE <1>1, <1>2 DEF TypeOK, Progress
<1>3. CASE Expire \/ UNCHANGED vars
  BY <1>3 DEF Expire
<1>4. ASSUME NEW r \in Requests, Call(r) \/ Forget(r) PROVE Progress(s)'
  BY <1>4 DEF Call, Forget
<1>5. ASSUME NEW r \in Requests, Increment(r) PROVE Progress(s)'
  BY <1>5 DEF Increment
<1>6. ASSUME NEW r \in Requests, Counted(r) PROVE Progress(s)'
  BY <1>6 DEF Counted, End, Over
<1>7. ASSUME NEW r \in Requests, SetExpiry(r) PROVE Progress(s)'
  BY <1>7 DEF SetExpiry
<1>8. ASSUME NEW r \in Requests, Return(r) \/ Fail(r) PROVE Progress(s)'
  BY <1>8 DEF Return, Fail, End
<1> QED BY <1>3, <1>4, <1>5, <1>6, <1>7, <1>8 DEF Next, Step

LEMMA Inductive == Spec => []IInv
BY InitIInv, NextIInv, PTL DEF Spec

\* The counter, TTL and calls keep their types; only a key has a TTL.
THEOREM TypeCorrect == Spec => []TypeOK
BY Inductive, PTL DEF IInv

\* 429 is answered exactly to the calls whose INCR exceeded the limit.
THEOREM AnswersFollowVerdict == Spec => []AnswersVerdict
<1>1. IInv => AnswersVerdict
  <2> SUFFICES ASSUME IInv, NEW r \in Requests
               PROVE  /\ status[r] = "ok" => Decision(got[r]) = "pass"
                      /\ status[r] = "limited" => Decision(got[r]) = "limit"
    BY DEF AnswersVerdict, Verdict
  <2>1. got[r] \in Nat /\ Progress(r)
    BY DEF IInv, TypeOK
  <2> QED BY <2>1, Decisions DEF Progress
<1> QED BY <1>1, Inductive, PTL

\* Without a failure, an open window has a TTL or a call about to set it.
THEOREM OpenWindowsClose == Spec => []WindowCloses
<1>1. Init => WindowCloses
  BY DEF Init, WindowCloses
<1>2. IInv /\ WindowCloses /\ [Next]_vars => WindowCloses'
  <2> SUFFICES ASSUME IInv, WindowCloses, [Next]_vars,
                      failures' = 0, Limit > 0, count' > 0, ttl' # "set"
               PROVE  \E r \in Requests : \/ phase'[r] = "counted" /\ got'[r] = 1
                                          \/ phase'[r] = "expire"
    BY DEF WindowCloses
  <2> DEFINE Opener(r) == \/ phase[r] = "counted" /\ got[r] = 1
                          \/ phase[r] = "expire"
  <2> USE DEF IInv, TypeOK
  <2>1. CASE Expire \/ UNCHANGED vars
    BY <2>1 DEF Expire, WindowCloses
  <2>2. ASSUME NEW r \in Requests, Call(r) \/ Forget(r) \/ Return(r)
        PROVE  \E s \in Requests : Opener(s)'
    BY <2>2 DEF Call, Forget, Return, End, WindowCloses
  <2>3. ASSUME NEW r \in Requests, Increment(r)
        PROVE  \E s \in Requests : Opener(s)'
    <3>1. CASE count = 0
      BY <2>3, <3>1 DEF Increment
    <3>2. CASE count > 0
      BY <2>3, <3>2 DEF Increment, WindowCloses
    <3> QED BY <3>1, <3>2
  <2>4. ASSUME NEW r \in Requests, Counted(r)
        PROVE  \E s \in Requests : Opener(s)'
    BY <2>4 DEF Counted, End, Over, First, WindowCloses
  <2>5. ASSUME NEW r \in Requests, SetExpiry(r) \/ Fail(r)
        PROVE  \E s \in Requests : Opener(s)'
    BY <2>5 DEF SetExpiry, Fail
  <2> QED BY <2>1, <2>2, <2>3, <2>4, <2>5 DEF Next, Step
<1> QED BY <1>1, <1>2, Inductive, PTL DEF Spec

\* rate_limit implements the fixed window: every step of Redis and of the calls
\* is a step of the window or leaves it alone.
THEOREM Refinement == Spec => ImplementsWindow
<1>1. Init => Window!Init
  BY DEF Init, Window!Init, Verdict, Decision
<1>2. IInv /\ IInv' /\ [Next]_vars => [Window!Next]_(Window!vars)
  <2> SUFFICES ASSUME IInv, IInv', [Next]_vars PROVE [Window!Next]_(Window!vars)
    OBVIOUS
  <2> USE DEF IInv, TypeOK
  <2>1. CASE UNCHANGED <<count, got>>
    BY <2>1 DEF Window!vars, Verdict
  <2>2. CASE Expire
    BY <2>2 DEF Expire, Window!Next, Window!Close, Verdict
  <2>3. ASSUME NEW r \in Requests, Increment(r)
        PROVE  Window!Let(r) \/ Window!Refuse(r)
    <3>1. got[r] = 0 /\ Verdict[r] = "none"
      BY <2>3, Decisions DEF Increment, Progress, Verdict
    <3>2. CASE count + 1 <= Limit
      <4>1. Verdict' = [Verdict EXCEPT ![r] = "pass"]
        <5>1. Decision(count + 1) = "pass"
          BY <3>2, Decisions
        <5> QED BY <2>3, <5>1 DEF Increment, Verdict
      <4> QED BY <2>3, <3>1, <3>2, <4>1 DEF Increment, Window!Let
    <3>3. CASE count + 1 > Limit
      <4>1. Verdict' = [Verdict EXCEPT ![r] = "limit"]
        <5>1. Decision(count + 1) = "limit"
          BY <3>3, Decisions
        <5> QED BY <2>3, <5>1 DEF Increment, Verdict
      <4> QED BY <2>3, <3>1, <3>3, <4>1 DEF Increment, Window!Refuse
    <3> QED BY <3>2, <3>3
  <2>4. ASSUME NEW r \in Requests, Forget(r), got[r] # 0
        PROVE  Window!Renew(r)
    <3>1. Verdict[r] # "none" /\ Verdict' = [Verdict EXCEPT ![r] = "none"]
      <4>1. Decision(0) = "none" /\ Decision(got[r]) # "none"
        BY <2>4, Decisions
      <4> QED BY <2>4, <4>1 DEF Forget, Verdict
    <3> QED BY <2>4, <3>1 DEF Forget, Window!Renew
  <2>5. ASSUME NEW r \in Requests, Forget(r), got[r] = 0
        PROVE  UNCHANGED <<count, got>>
    BY <2>5 DEF Forget
  <2>6. ASSUME NEW r \in Requests,
               Call(r) \/ Counted(r) \/ SetExpiry(r) \/ Return(r) \/ Fail(r)
        PROVE  UNCHANGED <<count, got>>
    BY <2>6 DEF Call, Counted, SetExpiry, Return, Fail, End
  <2> QED BY <2>1, <2>2, <2>3, <2>4, <2>5, <2>6 DEF Next, Step, Window!Next
<1> QED BY <1>1, <1>2, Inductive, PTL DEF Spec, ImplementsWindow, Window!Spec

=============================================================================
