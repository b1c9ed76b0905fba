--------------------------- MODULE SessionsProofs ---------------------------
(* Proofs about Sessions, for every set of browsers, accounts and requests. *)
EXTENDS Sessions, TLAPS

\* The invariant speaks of the contents q of a slot, of a browser's cookie and
\* of its token, in a world with documents j, running daemon k and logins l.

Pending(q) == q.phase \in {"await", "read"}

\* Browser b logged in to the account of t in the run that signed t.
Granted(b, t, l) == <<b, t.sub, t.key>> \in l

\* The jti of t has been a jti of its account.
Dated(t, j) == j[t.sub] # None => t.jti <= j[t.sub]

\* A suspended handler has nothing to send yet; a login knows its account, a
\* refresh the verified cookie of this run.
Suspended(q, k, l) ==
  Pending(q) =>
    /\ q.user \in Users /\ q.message.delta = Unset /\ q.token = None
    /\ q.kind \in {"login", "refresh"}
    /\ q.kind = "refresh" =>
         LET cookie == q.message.original
         IN  /\ cookie # None /\ cookie.sub = q.user /\ cookie.key = k
             /\ Granted(q.browser, cookie, l)

\* The jti only grows: that of the cookie, the one when the request began, the
\* one that was read and the one of now are in order, while there is one.
Ordered(q, j) ==
  Pending(q) =>
    /\ q.phase = "read" /\ q.read # None /\ j[q.user] # None =>
         q.read <= j[q.user]
    /\ q.kind = "refresh" =>
         /\ q.since = None => j[q.user] = None
         /\ q.since # None => q.message.original.jti <= q.since
         /\ q.since # None /\ j[q.user] # None => q.since <= j[q.user]
         /\ q.phase = "read" /\ q.read # None =>
              q.since # None /\ q.since <= q.read

\* What a response carries.
Carried(q, j, l) ==
  q.phase = "reply" =>
    /\ q.token # None =>
         /\ q.message.delta \notin {Unset, Removal}
         /\ SameSession(q.message.delta, q.token)
         /\ Granted(q.browser, q.token, l)
    /\ q.message.delta \notin {Unset, Removal} =>
         /\ q.token # None \/ q.status = "error"
         /\ Granted(q.browser, q.message.delta, l)
         /\ Dated(q.message.delta, j)
         /\ q.kind = "refresh" =>
              SameSession(q.message.delta, q.message.original)
    /\ q.kind = "refresh" /\ q.status = "ok" =>
         q.message.original.jti = q.since
    /\ q.kind = "refresh" /\ q.status = "revoked" =>
         /\ q.user \in Users /\ q.message.original # None
         /\ j[q.user] # None => q.message.original.jti < j[q.user]

Sound(q, j, k, l) == Suspended(q, k, l) /\ Ordered(q, j) /\ Carried(q, j, l)

\* What a browser has.
Kept ==
  \A b \in Browsers :
    /\ jar[b] # None => Granted(b, jar[b], logins) /\ Dated(jar[b], jti)
    /\ token[b] # None => Granted(b, token[b], logins)

AllSound == \A r \in Requests : Sound(req[r], jti, boot, logins)

IInv == TypeOK /\ Kept /\ AllSound

-----------------------------------------------------------------------------
(* Type correctness.                                                       *)

USE DEF vars

\* Messages, idle slots and tokens are of their types.
LEMMA Constructors ==
  /\ \A c \in RefreshTokens \cup {None} : NewMessage(c) \in Messages
  /\ Idle \in Request
  /\ \A m \in Messages, d \in RefreshTokens \cup {Unset, Removal} :
       Add(m, d) \in Messages
BY DEF NewMessage, Messages, Idle, Request, Kinds, Phases, Statuses, Add

LEMMA CreateType ==
  ASSUME TypeOK, NEW u \in Users, NEW j \in Jtis
  PROVE  /\ Create("access", u, j) \in AccessTokens
         /\ Create("refresh", u, j) \in RefreshTokens
<1>1. /\ now + AccessLifetime \in 0 .. MaxTime + AccessLifetime
      /\ now + RefreshLifetime \in 0 .. MaxTime + RefreshLifetime
  BY SessionsAssumption DEF TypeOK
<1> QED BY <1>1 DEF TypeOK, Create, AccessTokens, RefreshTokens, Tokens, Lifetime

LEMMA InitTypeOK == Init => TypeOK
BY SessionsAssumption, Constructors DEF Init, TypeOK, Boots, Jtis, Idle

\* A request that begins with well-typed contents keeps the types.
LEMMA BeginTypeOK ==
  ASSUME TypeOK, NEW r \in Requests, NEW b \in Browsers, NEW kind \in Kinds,
         NEW q \in Request, Begin(r, b, kind, q)
  PROVE  TypeOK'
BY DEF Begin, TypeOK, Request

LEMMA ArriveTypeOK ==
  ASSUME TypeOK, NEW r \in Requests, NEW b \in Browsers,
         Login(r, b) \/ Refresh(r, b) \/ Logout(r, b)
  PROVE  TypeOK'
<1>1. NewMessage(None) \in Messages
  BY Constructors
<1>2. CASE Login(r, b)
  <2>1. PICK u \in Users :
          Begin(r, b, "login", [Idle EXCEPT !.phase = "await", !.user = u,
                                  !.message = NewMessage(None)])
    BY <1>2 DEF Login, Sent
  <2>2. [Idle EXCEPT !.phase = "await", !.user = u,
                     !.message = NewMessage(None)] \in Request
    BY <1>1, Constructors DEF Request, Phases, Idle
  <2> QED BY <2>1, <2>2, BeginTypeOK DEF Kinds
<1>3. CASE Refresh(r, b)
  <2> DEFINE cookie  == jar[b]
             message == NewMessage(cookie)
             refused(status) == [Idle EXCEPT !.phase = "reply",
                                   !.status = status, !.message = message]
             started == [Idle EXCEPT !.phase = "await", !.user = cookie.sub,
                           !.since = jti[cookie.sub], !.message = message]
  <2>1. message \in Messages
    BY Constructors DEF TypeOK
  <2>2. \A status \in Statuses : refused(status) \in Request
    BY <2>1, Constructors DEF Request, Phases, Idle
  <2>3. cookie # None => started \in Request
    <3>1. cookie # None => cookie.sub \in Users /\ jti[cookie.sub] \in Jtis \cup {None}
      BY DEF TypeOK, RefreshTokens, Tokens
    <3> QED BY <2>1, <3>1, Constructors DEF Request, Phases, Idle
  <2>4. \/ \E status \in Statuses : Begin(r, b, "refresh", refused(status))
        \/ cookie # None /\ Begin(r, b, "refresh", started)
    BY <1>3 DEF Refresh, Sent, Statuses
  <2> QED BY <2>2, <2>3, <2>4, BeginTypeOK DEF Kinds
<1>4. CASE Logout(r, b)
  <2> DEFINE m == CopyDelta(NewMessage(None), Remove(NewMessage(None)))
  <2>1. m \in Messages
    BY <1>1 DEF CopyDelta, Remove, Add, Messages
  <2>2. [Idle EXCEPT !.phase = "reply", !.status = "ok", !.message = m] \in Request
    BY <2>1, Constructors DEF Request, Phases, Statuses, Idle
  <2>3. Begin(r, b, "logout",
              [Idle EXCEPT !.phase = "reply", !.status = "ok", !.message = m])
    BY <1>4 DEF Logout, Sent
  <2> HIDE DEF m
  <2> QED BY <2>2, <2>3, BeginTypeOK DEF Kinds
<1> QED BY <1>2, <1>3, <1>4

LEMMA AnswerTypeOK ==
  ASSUME TypeOK, NEW r \in Requests, NEW status \in Statuses,
         NEW m \in Messages, NEW access \in AccessTokens \cup {None},
         Answer(r, status, m, access), req[r].phase # "idle",
         logins' \subseteq Browsers \X Users \X Boots
  PROVE  TypeOK'
<1> DEFINE q == [req[r] EXCEPT !.phase = "reply", !.status = status,
                               !.message = m, !.token = access]
<1>0. req[r] \in Request /\ "reply" \in Phases
  BY DEF TypeOK, Phases
<1>1. q \in Request
  BY <1>0 DEF Request
<1>2. q.browser = req[r].browser
  BY DEF TypeOK, Request
<1>3. req' = [req EXCEPT ![r] = q]
  BY DEF Answer
<1> HIDE DEF q
<1>4. req' \in [Requests -> Request]
  BY <1>1, <1>3 DEF TypeOK
<1>5. \A s \in Requests : req'[s].phase # "idle" => req'[s].browser \in Browsers
  <2>1. req[r].browser \in Browsers
    BY DEF TypeOK
  <2>2. req'[r] = q /\ \A s \in Requests \ {r} : req'[s] = req[s]
    BY <1>3 DEF TypeOK
  <2> QED BY <1>2, <2>1, <2>2 DEF TypeOK
<1> QED BY <1>4, <1>5 DEF Answer, TypeOK

\* A slot after a reload of b differs in its field open at most.
LEMMA Reloaded ==
  ASSUME TypeOK, NEW b \in Browsers, Reload(b), NEW r \in Requests
  PROVE  /\ req'[r] \in Request
         /\ \E o \in BOOLEAN : req'[r] = [req[r] EXCEPT !.open = o]
<1>1. req[r] \in Request
  BY DEF TypeOK
<1>2. req'[r] = IF req[r].browser = b THEN [req[r] EXCEPT !.open = FALSE] ELSE req[r]
  BY DEF Reload
<1>3. PICK o \in BOOLEAN : req'[r] = [req[r] EXCEPT !.open = o]
  <2>1. req[r] = [req[r] EXCEPT !.open = req[r].open] /\ req[r].open \in BOOLEAN
    BY <1>1 DEF Request
  <2> QED BY <1>2, <2>1
<1>4. [req[r] EXCEPT !.open = o] \in Request
  BY <1>1, <1>3 DEF Request
<1> QED BY <1>3, <1>4

\* The contents of a slot after its handler has answered.
LEMMA Answered ==
  ASSUME TypeOK, NEW r \in Requests, NEW status, NEW m, NEW access,
         Answer(r, status, m, access)
  PROVE  /\ req'[r].phase = "reply" /\ req'[r].status = status
         /\ req'[r].message = m /\ req'[r].token = access
         /\ req'[r].browser = req[r].browser /\ req'[r].kind = req[r].kind
         /\ req'[r].user = req[r].user /\ req'[r].since = req[r].since
         /\ \A s \in Requests \ {r} : req'[s] = req[s]
BY DEF Answer, TypeOK, Request

LEMMA HandlerTypeOK ==
  ASSUME TypeOK, NEW r \in Requests,
         \/ GrantLogin(r) \/ GrantRefresh(r) \/ DenyRefresh(r) \/ Fail(r),
         Suspended(req[r], boot, logins)
  PROVE  TypeOK'
<1> DEFINE q == req[r]
           refresh == Create("refresh", q.user, q.read)
           access == Create("access", q.user, q.read)
<1>1. /\ q \in Request /\ Pending(q) /\ q.phase # "idle" /\ q.message \in Messages
      /\ q.user \in Users /\ q.browser \in Browsers
  BY DEF TypeOK, Request, Suspended, GrantLogin, GrantRefresh, DenyRefresh,
         Fail, Pending
<1>2. CASE GrantLogin(r) \/ GrantRefresh(r)
  <2>1. q.read \in Jtis
    BY <1>1, <1>2 DEF Request, GrantLogin, GrantRefresh
  <2>2. refresh \in RefreshTokens /\ access \in AccessTokens
    BY <1>1, <2>1, CreateType
  <2>3. Add(q.message, refresh) \in Messages
    BY <1>1, <2>2, Constructors
  <2>4. CopyDelta(q.message, Add(q.message, refresh)) \in Messages
    BY <1>1, <2>3, Constructors DEF CopyDelta, Messages
  <2>5. \E m \in Messages, status \in Statuses, t \in AccessTokens \cup {None} :
          Answer(r, status, m, t)
    BY <1>2, <2>2, <2>3, <2>4
    DEF GrantLogin, GrantRefresh, AnswerSession, Statuses
  <2>6. logins' \subseteq Browsers \X Users \X Boots
    BY <1>1, <1>2 DEF GrantLogin, GrantRefresh, TypeOK
  <2> QED BY <1>1, <2>5, <2>6, AnswerTypeOK
<1>3. CASE DenyRefresh(r)
  BY <1>1, <1>3, AnswerTypeOK DEF DenyRefresh, Statuses, TypeOK
<1>4. CASE Fail(r)
  BY <1>1, <1>4, AnswerTypeOK DEF Fail, Statuses, TypeOK
<1> QED BY <1>2, <1>3, <1>4

LEMMA NetworkTypeOK ==
  ASSUME TypeOK, NEW r \in Requests, Read(r) \/ Deliver(r) \/ Lose(r),
         Suspended(req[r], boot, logins)
  PROVE  TypeOK'
<1>1. CASE Read(r)
  <2> DEFINE q == [req[r] EXCEPT !.phase = "read", !.read = jti[req[r].user]]
  <2>1. req[r].user \in Users
    BY <1>1 DEF Read, Suspended, Pending
  <2>2. q \in Request /\ q.browser = req[r].browser
    BY <2>1 DEF TypeOK, Request, Phases
  <2>3. req' = [req EXCEPT ![r] = q]
    BY <1>1 DEF Read, TypeOK
  <2> HIDE DEF q
  <2> QED BY <1>1, <2>2, <2>3 DEF Read, TypeOK
<1>2. CASE Lose(r)
  BY <1>2, Constructors DEF Lose, TypeOK, Idle
<1>3. CASE Deliver(r)
  <2>1. req[r].browser \in Browsers /\ req[r].token \in AccessTokens \cup {None}
    BY <1>3 DEF Deliver, TypeOK, Request
  <2>2. req[r].message.delta \in RefreshTokens \cup {Unset, Removal}
    BY DEF TypeOK, Request, Messages
  <2>3. jar' \in [Browsers -> RefreshTokens \cup {None}]
    BY <1>3, <2>1, <2>2 DEF Deliver, TypeOK
  <2>4. token' \in [Browsers -> AccessTokens \cup {None}]
    BY <1>3, <2>1 DEF Deliver, TypeOK
  <2>5. quit' \in [Browsers -> BOOLEAN]
    BY <1>3, <2>1 DEF Deliver, TypeOK
  <2>6. /\ req' \in [Requests -> Request]
        /\ \A s \in Requests : req'[s].phase # "idle" => req'[s].browser \in Browsers
    BY <1>3, Constructors DEF Deliver, TypeOK, Idle
  <2> QED BY <1>3, <2>3, <2>4, <2>5, <2>6 DEF Deliver, TypeOK
<1> QED BY <1>1, <1>2, <1>3

LEMMA WorldTypeOK ==
  ASSUME TypeOK,
         \/ Tick \/ Restart
         \/ \E b \in Browsers : Reload(b)
         \/ \E u \in Users : Revoke(u) \/ LoseDocument(u)
  PROVE  TypeOK'
<1>1. CASE Tick
  BY <1>1, SessionsAssumption DEF Tick, TypeOK
<1>2. CASE Restart
  <2>1. boot' \in Boots
    BY <1>2, SessionsAssumption DEF Restart, TypeOK, Boots
  <2>2. /\ req' \in [Requests -> Request]
        /\ \A s \in Requests : req'[s].phase # "idle" => req'[s].browser \in Browsers
    BY <1>2, Constructors DEF Restart, TypeOK, Idle
  <2> QED BY <1>2, <2>1, <2>2 DEF Restart, TypeOK
<1>3. ASSUME NEW b \in Browsers, Reload(b) PROVE TypeOK'
  <2>1. req' \in [Requests -> Request]
    BY <1>3, Reloaded DEF Reload
  <2>2. \A s \in Requests : /\ req'[s].phase = req[s].phase
                            /\ req'[s].browser = req[s].browser
    BY <1>3, Reloaded DEF TypeOK, Request
  <2> QED BY <1>3, <2>1, <2>2 DEF Reload, TypeOK
<1>4. ASSUME NEW u \in Users, Revoke(u) PROVE TypeOK'
  <2>1. jti[u] + 1 \in Jtis
    BY <1>4, SessionsAssumption DEF Revoke, TypeOK, Jtis
  <2> QED BY <1>4, <2>1 DEF Revoke, TypeOK
<1>5. ASSUME NEW u \in Users, LoseDocument(u) PROVE TypeOK'
  BY <1>5 DEF LoseDocument, TypeOK
<1> QED BY <1>1, <1>2, <1>3, <1>4, <1>5

LEMMA NextTypeOK == TypeOK /\ AllSound /\ [Next]_vars => TypeOK'
<1> SUFFICES ASSUME TypeOK, AllSound, [Next]_vars PROVE TypeOK'
  OBVIOUS
<1>2. \A r \in Requests : Suspended(req[r], boot, logins)
  BY DEF AllSound, Sound
<1>1. CASE UNCHANGED vars
  BY <1>1 DEF TypeOK
<1> QED BY <1>1, <1>2, ArriveTypeOK, HandlerTypeOK, NetworkTypeOK, WorldTypeOK DEF Next

-----------------------------------------------------------------------------
(* The inductive invariant.                                                *)

LEMMA InitIInv == Init => IInv
BY InitTypeOK DEF Init, IInv, Kept, AllSound, Sound, Suspended, Ordered, Carried,
                  Pending, Idle

LEMMA IdleSound ==
  ASSUME NEW j, NEW k, NEW l
  PROVE  Sound(Idle, j, k, l)
BY DEF Idle, Sound, Suspended, Ordered, Carried, Pending

\* Logins are never taken back, and do not disturb the slots.
LEMMA MoreLogins ==
  ASSUME NEW q, NEW j, NEW k, NEW l, NEW m, l \subseteq m, Sound(q, j, k, l)
  PROVE  Sound(q, j, k, m)
BY DEF Sound, Suspended, Ordered, Carried, Granted

\* Whether the document is still there does not matter.
LEMMA OpenSound ==
  ASSUME NEW j, NEW k, NEW l, NEW q \in Request, NEW o \in BOOLEAN,
         Sound(q, j, k, l)
  PROVE  Sound([q EXCEPT !.open = o], j, k, l)
<1> DEFINE p == [q EXCEPT !.open = o]
<1>1. /\ p.browser = q.browser /\ p.kind = q.kind /\ p.phase = q.phase
      /\ p.user = q.user /\ p.since = q.since /\ p.read = q.read
      /\ p.message = q.message /\ p.status = q.status /\ p.token = q.token
  BY DEF Request
<1> HIDE DEF p
<1>2. Sound(p, j, k, l)
  BY <1>1 DEF Sound, Suspended, Ordered, Carried, Pending
<1> QED BY <1>2 DEF p

\* A step of the slot r alone.
LEMMA SlotStep ==
  ASSUME IInv, TypeOK', NEW r \in Requests, NEW q,
         req' = [req EXCEPT ![r] = q], UNCHANGED <<jti, boot, jar, token>>,
         logins \subseteq logins', Sound(q, jti, boot, logins')
  PROVE  IInv'
<1>1. Kept'
  BY DEF IInv, Kept, Granted
<1>2. AllSound'
  BY MoreLogins DEF IInv, AllSound, TypeOK
<1> QED BY <1>1, <1>2 DEF IInv

LEMMA ArriveIInv ==
  ASSUME IInv, TypeOK', NEW r \in Requests, NEW b \in Browsers,
         Login(r, b) \/ Refresh(r, b) \/ Logout(r, b)
  PROVE  IInv'
<1>1. CASE Login(r, b)
  <2>1. PICK u \in Users :
          Begin(r, b, "login", [Idle EXCEPT !.phase = "await", !.user = u,
                                  !.message = NewMessage(None)])
    BY <1>1 DEF Login, Sent
  <2> DEFINE q == [Idle EXCEPT !.phase = "await", !.user = u,
                     !.message = NewMessage(None), !.browser = b, !.kind = "login"]
  <2>2. Sound(q, jti, boot, logins)
    BY DEF Sound, Suspended, Ordered, Carried, Pending, NewMessage, Idle
  <2>3. req' = [req EXCEPT ![r] = q]
    BY <2>1 DEF Begin, Idle
  <2> HIDE DEF q
  <2> QED BY <2>1, <2>2, <2>3, SlotStep DEF Begin
<1>2. CASE Refresh(r, b)
  <2> DEFINE cookie  == jar[b]
             message == NewMessage(cookie)
             refused(status) == [Idle EXCEPT !.phase = "reply", !.status = status,
                     !.message = message, !.browser = b, !.kind = "refresh"]
             started == [Idle EXCEPT !.phase = "await", !.user = cookie.sub,
                           !.since = jti[cookie.sub], !.message = message,
                           !.browser = b, !.kind = "refresh"]
  <2>1. UNCHANGED <<now, boot, jti, jar, token, logins, quit>>
    BY <1>2 DEF Refresh, Begin
  <2>2. ASSUME NEW status \in {"unauthorized", "forbidden"},
               req' = [req EXCEPT ![r] = refused(status)]
        PROVE  IInv'
    <3>1. Sound(refused(status), jti, boot, logins)
      BY DEF Sound, Suspended, Ordered, Carried, Pending, NewMessage, Idle
    <3> HIDE DEF refused
    <3> QED BY <2>1, <2>2, <3>1, SlotStep
  <2>3. ASSUME cookie # None, Verify(cookie), req' = [req EXCEPT ![r] = started]
        PROVE  IInv'
    <3>1. /\ cookie \in RefreshTokens /\ cookie.sub \in Users /\ cookie.key = boot
          /\ cookie.jti \in Nat
          /\ Granted(b, cookie, logins) /\ Dated(cookie, jti)
          /\ jti[cookie.sub] \in Nat \cup {None}
      BY <2>3 DEF IInv, TypeOK, RefreshTokens, Tokens, Kept, Verify, Jtis
    <3>2. Suspended(started, boot, logins)
      BY <2>3, <3>1 DEF Suspended, Pending, NewMessage, Idle, Granted
    <3>3. Ordered(started, jti) /\ Carried(started, jti, logins)
      BY <3>1 DEF Ordered, Carried, Pending, NewMessage, Idle, Dated
    <3> HIDE DEF started
    <3> QED BY <2>1, <2>3, <3>2, <3>3, SlotStep DEF Sound
  <2>4. \/ \E status \in {"unauthorized", "forbidden"} :
             req' = [req EXCEPT ![r] = refused(status)]
        \/ /\ cookie # None /\ Verify(cookie)
           /\ req' = [req EXCEPT ![r] = started]
    BY <1>2 DEF Refresh, Begin, Sent, Idle
  <2> QED BY <2>2, <2>3, <2>4
<1>3. CASE Logout(r, b)
  <2> DEFINE m == CopyDelta(NewMessage(None), Remove(NewMessage(None)))
             q == [Idle EXCEPT !.phase = "reply", !.status = "ok",
                     !.message = m, !.browser = b, !.kind = "logout"]
  <2>1. m.delta = Unset
    BY DEF CopyDelta, Remove, NewMessage
  <2> HIDE DEF m
  <2>2. Sound(q, jti, boot, logins)
    BY <2>1 DEF Sound, Suspended, Ordered, Carried, Pending, Idle
  <2>3. req' = [req EXCEPT ![r] = q] /\ UNCHANGED <<jti, boot, jar, token, logins>>
    BY <1>3 DEF Logout, Sent, Begin, Idle, m
  <2> HIDE DEF q
  <2> QED BY <2>2, <2>3, SlotStep
<1> QED BY <1>1, <1>2, <1>3

\* A login or a refresh that is granted.
LEMMA GrantIInv ==
  ASSUME IInv, TypeOK', NEW r \in Requests, GrantLogin(r) \/ GrantRefresh(r)
  PROVE  IInv'
<1> DEFINE p == req[r]
           refresh == Create("refresh", p.user, p.read)
           access == Create("access", p.user, p.read)
           q(status, t) == [p EXCEPT !.phase = "reply", !.status = status,
                              !.message = Add(p.message, refresh), !.token = t]
           granted == q("ok", access)
           failed == q("error", None)
<1>1. /\ p \in Request /\ Pending(p) /\ p.phase = "read" /\ p.read # None
      /\ p.user \in Users /\ p.message.delta = Unset
      /\ p.message \in Messages /\ p.read \in Jtis
  BY DEF IInv, TypeOK, AllSound, Sound, Suspended, Pending, Request, GrantLogin,
         GrantRefresh
<1>2. refresh \in RefreshTokens /\ access \in AccessTokens
  BY <1>1, CreateType DEF IInv
<1>3. refresh # None /\ refresh # Unset /\ refresh # Removal /\ access # None
  BY <1>2, NoneIsNoToken
<1>4. CopyDelta(p.message, Add(p.message, refresh)) = Add(p.message, refresh)
  BY <1>1, <1>3 DEF CopyDelta, Add, Messages
<1>5. /\ \/ req' = [req EXCEPT ![r] = granted]
         \/ req' = [req EXCEPT ![r] = failed]
      /\ UNCHANGED <<jti, boot, jar, token>>
  BY <1>4 DEF GrantLogin, GrantRefresh, AnswerSession, Answer, IInv, TypeOK
<1>6. <<p.browser, p.user, boot>> \in logins' /\ logins \subseteq logins'
  BY <1>1 DEF GrantLogin, GrantRefresh, IInv, AllSound, Sound, Suspended, Granted
<1>7. /\ refresh.sub = p.user /\ refresh.key = boot /\ refresh.jti = p.read
      /\ access.sub = p.user /\ access.key = boot /\ access.jti = p.read
  BY DEF Create
<1>8. /\ granted.status = "ok" /\ granted.token = access
      /\ failed.status = "error" /\ failed.token = None
      /\ \A a \in {granted, failed} :
           /\ a.phase = "reply" /\ a.kind = p.kind
           /\ a.browser = p.browser /\ a.user = p.user /\ a.since = p.since
           /\ a.message.delta = refresh
           /\ a.message.original = p.message.original
  BY <1>1 DEF Request, Add, Messages
<1>9. p.kind = "refresh" => SameSession(refresh, p.message.original)
  BY <1>1, <1>7 DEF GrantLogin, GrantRefresh, SameSession, IInv, AllSound, Sound,
                    Suspended
<1>10. p.kind = "refresh" => p.message.original.jti = p.since
  <2> SUFFICES ASSUME p.kind = "refresh" PROVE p.message.original.jti = p.since
    OBVIOUS
  <2>1. p.read = p.message.original.jti
    BY DEF GrantLogin, GrantRefresh
  <2>2. /\ p.since # None /\ p.since <= p.read
        /\ p.message.original.jti <= p.since
    BY <1>1 DEF IInv, AllSound, Sound, Ordered
  <2>3. p.since \in Nat /\ p.read \in Nat
    BY <1>1, <2>2 DEF Request, Jtis
  <2> QED BY <2>1, <2>2, <2>3
<1>11. Dated(refresh, jti)
  BY <1>1, <1>7 DEF IInv, AllSound, Sound, Ordered, Dated
<1> HIDE DEF granted, failed, refresh, access
<1>12. Suspended(granted, boot, logins') /\ Ordered(granted, jti)
  BY <1>8 DEF Suspended, Ordered, Pending
<1>13. Suspended(failed, boot, logins') /\ Ordered(failed, jti)
  BY <1>8 DEF Suspended, Ordered, Pending
<1>14. Carried(granted, jti, logins')
  BY <1>3, <1>6, <1>7, <1>8, <1>9, <1>10, <1>11 DEF Carried, Granted, SameSession
<1>15. Carried(failed, jti, logins')
  BY <1>3, <1>6, <1>7, <1>8, <1>9, <1>10, <1>11 DEF Carried, Granted, SameSession
<1> QED BY <1>5, <1>6, <1>12, <1>13, <1>14, <1>15, SlotStep DEF Sound

\* A refresh with another jti, or a handler that fails.
LEMMA RefuseIInv ==
  ASSUME IInv, TypeOK', NEW r \in Requests, DenyRefresh(r) \/ Fail(r)
  PROVE  IInv'
<1> DEFINE p == req[r]
           q(status) == [p EXCEPT !.phase = "reply", !.status = status,
                                  !.message = p.message, !.token = None]
<1>1. /\ p \in Request /\ Pending(p) /\ p.message.delta = Unset
      /\ p.user \in Users
  BY DEF IInv, TypeOK, AllSound, Sound, Suspended, Pending, DenyRefresh, Fail
<1>2. UNCHANGED <<jti, boot, jar, token, logins>>
  BY DEF DenyRefresh, Fail, Answer
<1>3. CASE Fail(r)
  <2>1. req' = [req EXCEPT ![r] = q("error")]
    BY <1>3 DEF Fail, Answer, IInv, TypeOK
  <2>2. Sound(q("error"), jti, boot, logins)
    BY <1>1 DEF Sound, Suspended, Ordered, Carried, Pending, Request
  <2> HIDE DEF q
  <2> QED BY <1>2, <2>1, <2>2, SlotStep
<1>4. CASE DenyRefresh(r)
  <2>1. req' = [req EXCEPT ![r] = q("revoked")]
    BY <1>4 DEF DenyRefresh, Answer, IInv, TypeOK
  <2>2. /\ p.phase = "read" /\ p.kind = "refresh" /\ p.read # None
        /\ p.read # p.message.original.jti
    BY <1>4 DEF DenyRefresh
  <2>3. p.message.original # None
    BY <1>1, <2>2 DEF IInv, AllSound, Sound, Suspended
  <2>4. jti[p.user] # None => p.message.original.jti < jti[p.user]
    <3> SUFFICES ASSUME jti[p.user] # None
                 PROVE  p.message.original.jti < jti[p.user]
      OBVIOUS
    <3>1. /\ p.since # None /\ p.since <= p.read /\ p.read <= jti[p.user]
          /\ p.message.original.jti <= p.since
      BY <1>1, <2>2 DEF IInv, AllSound, Sound, Ordered
    <3>2. p.since \in Nat /\ p.read \in Nat /\ jti[p.user] \in Nat
      BY <1>1, <2>2, <3>1 DEF Request, Jtis, IInv, TypeOK
    <3>3. p.message.original.jti \in Nat
      BY <1>1, <2>3 DEF Request, Messages, RefreshTokens, Tokens, Jtis
    <3> QED BY <2>2, <3>1, <3>2, <3>3
  <2>5. Sound(q("revoked"), jti, boot, logins)
    BY <1>1, <2>2, <2>3, <2>4
    DEF Sound, Suspended, Ordered, Carried, Pending, Request
  <2> HIDE DEF q
  <2> QED BY <1>2, <2>1, <2>5, SlotStep
<1> QED BY <1>3, <1>4

LEMMA NetworkIInv ==
  ASSUME IInv, TypeOK', NEW r \in Requests, Read(r) \/ Deliver(r) \/ Lose(r)
  PROVE  IInv'
<1>1. CASE Read(r)
  <2> DEFINE p == req[r]
             q == [p EXCEPT !.phase = "read", !.read = jti[p.user]]
  <2>1. p \in Request /\ Pending(p) /\ Sound(p, jti, boot, logins) /\ p.user \in Users
    BY <1>1 DEF Read, IInv, TypeOK, AllSound, Sound, Suspended, Pending
  <2>2. req' = [req EXCEPT ![r] = q] /\ UNCHANGED <<jti, boot, jar, token, logins>>
    BY <1>1 DEF Read, IInv, TypeOK
  <2>3. jti[p.user] \in Nat \cup {None}
    BY <2>1 DEF IInv, TypeOK, Jtis
  <2>4. Sound(q, jti, boot, logins)
    BY <2>1, <2>3
    DEF Sound, Suspended, Ordered, Carried, Pending, Request
  <2> HIDE DEF q
  <2> QED BY <2>2, <2>4, SlotStep
<1>2. CASE Lose(r)
  BY <1>2, IdleSound, SlotStep DEF Lose
<1>3. CASE Deliver(r)
  <2> DEFINE q == req[r]
             b == q.browser
             d == q.message.delta
  <2>1. /\ b \in Browsers /\ q.token \in AccessTokens \cup {None}
        /\ d \in RefreshTokens \cup {Unset, Removal}
        /\ Carried(q, jti, logins) /\ q.phase = "reply"
    BY <1>3 DEF Deliver, IInv, TypeOK, Request, Messages, AllSound, Sound
  <2>2. d \notin {Unset, Removal} => Granted(b, d, logins) /\ Dated(d, jti)
    BY <2>1 DEF Carried
  <2>3. q.token # None => Granted(b, q.token, logins)
    BY <2>1 DEF Carried
  <2> DEFINE cookie == CASE d = Unset   -> jar[b]
                         [] d = Removal -> None
                         [] OTHER       -> d
  <2>4. /\ \A c \in Browsers \ {b} : jar'[c] = jar[c] /\ token'[c] = token[c]
        /\ jar'[b] \in {jar[b], None} \cup ({d} \ {Unset, Removal})
        /\ token'[b] \in {token[b], q.token}
    <3>1. jar' = [jar EXCEPT ![b] = cookie]
      BY <1>3 DEF Deliver
    <3>2. cookie \in {jar[b], None} \cup ({d} \ {Unset, Removal})
      OBVIOUS
    <3> HIDE DEF cookie
    <3>3. token' = token \/ token' = [token EXCEPT ![b] = q.token]
      BY <1>3 DEF Deliver
    <3> QED BY <2>1, <3>1, <3>2, <3>3 DEF IInv, TypeOK
  <2>5. UNCHANGED <<jti, boot, logins>> /\ req' = [req EXCEPT ![r] = Idle]
    BY <1>3 DEF Deliver
  <2> HIDE DEF q, b, d, cookie
  <2>6. Kept'
    BY <2>2, <2>3, <2>4, <2>5 DEF IInv, Kept
  <2>7. AllSound'
    BY <2>5, IdleSound DEF IInv, TypeOK, AllSound
  <2> QED BY <2>6, <2>7 DEF IInv
<1> QED BY <1>1, <1>2, <1>3

LEMMA WorldIInv ==
  ASSUME IInv, TypeOK',
         \/ Tick \/ Restart
         \/ \E b \in Browsers : Reload(b)
         \/ \E u \in Users : Revoke(u) \/ LoseDocument(u)
  PROVE  IInv'
<1>1. CASE Tick
  BY <1>1 DEF Tick, IInv, Kept, AllSound
<1>2. CASE Restart
  <2>1. Kept'
    BY <1>2 DEF Restart, IInv, Kept
  <2>2. ASSUME NEW r \in Requests PROVE Sound(req[r], jti, boot, logins)'
    <3>1. CASE Pending(req[r])
      BY <1>2, <3>1, IdleSound DEF Restart, Pending
    <3>2. CASE ~Pending(req[r])
      BY <1>2, <3>2
      DEF Restart, Pending, IInv, AllSound, Sound, Suspended, Ordered
    <3> QED BY <3>1, <3>2
  <2> QED BY <2>1, <2>2 DEF IInv, AllSound
<1>3. ASSUME NEW b \in Browsers, Reload(b) PROVE IInv'
  <2>1. Kept'
    BY <1>3 DEF Reload, IInv, TypeOK, Kept
  <2>2. ASSUME NEW r \in Requests PROVE Sound(req'[r], jti, boot, logins)
    <3>1. PICK o \in BOOLEAN : req'[r] = [req[r] EXCEPT !.open = o]
      BY <1>3, Reloaded DEF IInv
    <3>2. Sound(req[r], jti, boot, logins) /\ req[r] \in Request
      BY DEF IInv, AllSound, TypeOK
    <3> QED BY <3>1, <3>2, OpenSound
  <2> QED BY <1>3, <2>1, <2>2 DEF Reload, IInv, AllSound
<1>4. ASSUME NEW u \in Users, Revoke(u) \/ LoseDocument(u) PROVE IInv'
  <2>1. /\ UNCHANGED <<boot, jar, token, req, logins>>
        /\ \A v \in Users : /\ jti'[v] # None => jti[v] # None /\ jti[v] <= jti'[v]
                            /\ jti[v] \in Nat \cup {None}
                            /\ jti'[v] \in Nat \cup {None}
    BY <1>4 DEF Revoke, LoseDocument, IInv, TypeOK, Jtis
  <2>2. ASSUME NEW t \in RefreshTokens, Dated(t, jti) PROVE Dated(t, jti')
    <3>1. t.sub \in Users /\ t.jti \in Nat
      BY DEF RefreshTokens, Tokens, Jtis
    <3> QED BY <2>1, <2>2, <3>1 DEF Dated
  <2>3. Kept'
    BY <2>1, <2>2 DEF IInv, TypeOK, Kept
  <2>4. ASSUME NEW r \in Requests
        PROVE  Sound(req[r], jti', boot, logins)
    <3> DEFINE q == req[r]
    <3>1. q \in Request /\ Sound(q, jti, boot, logins)
      BY DEF IInv, TypeOK, AllSound
    <3>2. /\ q.message.delta \in RefreshTokens \cup {Unset, Removal}
          /\ q.message.original \in RefreshTokens \cup {None}
          /\ q.read \in Nat \cup {None} /\ q.since \in Nat \cup {None}
      BY <3>1 DEF Request, Messages, Jtis
    <3>3. q.message.original # None => q.message.original.jti \in Nat
      BY <3>2 DEF RefreshTokens, Tokens, Jtis
    <3> HIDE DEF q
    <3>4. Suspended(q, boot, logins)
      BY <3>1 DEF Sound
    <3>5. Ordered(q, jti')
      BY <2>1, <3>1, <3>2, <3>3, <3>4 DEF Sound, Ordered, Suspended
    <3>6. Carried(q, jti', logins)
      BY <2>1, <2>2, <3>1, <3>2, <3>3 DEF Sound, Carried
    <3> QED BY <3>4, <3>5, <3>6 DEF Sound, q
  <2> QED BY <2>1, <2>3, <2>4 DEF IInv, AllSound
<1> QED BY <1>1, <1>2, <1>3, <1>4

LEMMA NextIInv == IInv /\ [Next]_vars => IInv'
<1> SUFFICES ASSUME IInv, [Next]_vars PROVE IInv'
  OBVIOUS
<1>1. TypeOK'
  BY NextTypeOK DEF IInv
<1>2. CASE UNCHANGED vars
  BY <1>1, <1>2 DEF IInv, Kept, AllSound
<1> QED BY <1>1, <1>2, ArriveIInv, GrantIInv, RefuseIInv, NetworkIInv, WorldIInv
        DEF Next

LEMMA Inductive == Spec => []IInv
BY InitIInv, NextIInv, PTL DEF Spec

-----------------------------------------------------------------------------
(* What the invariant gives.                                               *)

\* Clock, documents, cookies, tokens, slots and histories keep their types: no
\* token is ever made for an account whose document was not found.
THEOREM TypeCorrect == Spec => []TypeOK
BY Inductive, PTL DEF IInv

\* The cookie and the token of a browser descend, by whatever chain of
\* refreshes, from a login of this browser to this account in the run of the
\* daemon whose key signed them.
THEOREM LoginStartsSession == Spec => []SessionsStartWithLogin
<1>1. IInv => SessionsStartWithLogin
  BY DEF IInv, Kept, SessionsStartWithLogin, Granted
<1> QED BY <1>1, Inductive, PTL

\* loginUser and /jwt/refresh answer with a cookie and a token of one session,
\* or with neither, or with an error and the cookie alone; and a refresh goes on
\* with the session of the cookie it was sent.
THEOREM SessionGivenWhole == Spec => []SessionIsGivenWhole
<1>1. IInv => SessionIsGivenWhole
  BY DEF IInv, AllSound, Sound, Carried, SessionIsGivenWhole
<1> QED BY <1>1, Inductive, PTL

\* A refresh that begins after the jti changed is refused for the cookies made
\* before, and no other cookie is refused with the token "".
THEOREM RevocationWorks == Spec => []RevocationTakesEffect
<1> SUFFICES ASSUME IInv PROVE RevocationTakesEffect
  BY Inductive, PTL
<1>1. ASSUME NEW r \in Requests, req[r].phase = "reply", req[r].kind = "refresh",
             req[r].status = "revoked"
      PROVE  req[r].message.original.jti # jti[req[r].user]
  <2> DEFINE q == req[r]
  <2>1. /\ q.user \in Users /\ q.message.original # None
        /\ jti[q.user] # None => q.message.original.jti < jti[q.user]
    BY <1>1 DEF IInv, AllSound, Sound, Carried
  <2>2. q.message.original.jti \in Nat /\ jti[q.user] \in Nat \cup {None}
    BY <2>1 DEF IInv, TypeOK, Request, Messages, RefreshTokens, Tokens, Jtis
  <2>3. None \notin Nat
    BY SessionsAssumption
  <2> QED BY <2>1, <2>2, <2>3
<1> QED BY <1>1 DEF IInv, AllSound, Sound, Carried, RevocationTakesEffect

=============================================================================
