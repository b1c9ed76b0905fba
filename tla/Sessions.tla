------------------------------ MODULE Sessions ------------------------------
(***************************************************************************)
(* Sessions of the turtle server: access tokens and the refresh cookie     *)
(* (server/core/auth.rs), handed out by loginUser (server/custom/schema.rs *)
(* through gql::post) and by POST /jwt/refresh (server/core/routes.rs),    *)
(* kept by browsers (client/client.ts), and ended by logoutUser, by        *)
(* expiry, by a change of the account's jti, and by a restart of the       *)
(* daemon, which draws new keypairs.                                       *)
(*                                                                         *)
(* A request reaches the server in the step that sends it; the reads of    *)
(* Redis, the resumed handler and the arrival of the response are steps of *)
(* their own, so that requests overtake each other everywhere.  Passwords, *)
(* the search and its failures are in Accounts.                            *)
(***************************************************************************)
EXTENDS Naturals

CONSTANTS
  Browsers,   \* each one is a cookie jar and one page
  Users,      \* accounts
  Requests,   \* slots for requests in flight
  None,
  Unset,      \* no change of the cookie to send
  Removal,    \* an empty value and Max-Age=0
  AccessLifetime, RefreshLifetime,   \* 60 * 15 and 60 * 60 * 24 * 7 seconds
  MaxTime,    \* bound on the clock
  MaxJti,     \* bound on the changes of an account's jti
  MaxBoots    \* bound on the starts of the daemon

ASSUME SessionsAssumption ==
  /\ None \notin Users \cup Nat /\ Unset # Removal /\ None \notin {Unset, Removal}
  /\ AccessLifetime \in Nat \ {0} /\ RefreshLifetime \in Nat \ {0}
  /\ MaxTime \in Nat /\ MaxJti \in Nat /\ MaxBoots \in Nat \ {0}

VARIABLES
  now,      \* seconds
  boot,     \* the run of the daemon; names its two keypairs
  jti,      \* Redis: the jti of an account's document (0: the null that
            \* create_user writes), or None when Redis has lost the document
  jar,      \* the refresh cookie of a browser, or None
  token,    \* Client.token of the page of a browser, or None
  req,      \* the requests in flight
  logins,   \* history: <<browser, account, boot>> of the logins with the right
            \* password, which have made a refresh cookie
  quit      \* history: the browser's last answer was that of a logout

vars == <<now, boot, jti, jar, token, req, logins, quit>>

-----------------------------------------------------------------------------
(* Tokens.                                                                 *)

Boots == 1 .. MaxBoots
Jtis  == 0 .. MaxJti

Lifetime == [access |-> AccessLifetime, refresh |-> RefreshLifetime]

\* auth::Claims, the run whose private key signed them, and which of the two
\* keypairs of that run.
Tokens(use) ==
  [use : {use}, sub : Users, jti : Jtis, key : Boots,
   exp : 0 .. MaxTime + Lifetime[use]]

AccessTokens  == Tokens("access")
RefreshTokens == Tokens("refresh")

ASSUME NoneIsNoToken ==
  {None, Unset, Removal} \cap (AccessTokens \cup RefreshTokens) = {}

\* Token::create.
Create(use, user, j) ==
  [use |-> use, sub |-> user, jti |-> j, key |-> boot,
   exp |-> now + Lifetime[use]]

\* Mutant of Verify: the keypair outlives the daemon.
VerifyAnyKey(t) == t.exp >= now

\* Token::verify: jsonwebtoken checks the signature, then exp without leeway.
Verify(t) == t.key = boot /\ t.exp >= now

-----------------------------------------------------------------------------
(* Cookies: Message::cookies, a cookie::CookieJar, reduced to "refresh".   *)

\* Message::new: the cookies of the request are the originals of the jar.
NewMessage(sent) == [original |-> sent, delta |-> Unset]

\* CookieJar::add.
Add(message, cookie) == [message EXCEPT !.delta = cookie]

\* CookieJar::remove, which RefreshToken::reset calls: a removal is sent only
\* for a cookie the request carried.
Remove(message) ==
  [message EXCEPT !.delta = IF message.original = None THEN Unset ELSE Removal]

\* Mutant of CopyDelta: the response is built from the message that was cloned.
CopyNothing(message, clone) == message

\* gql::post: resolvers work on a clone; its changes are added to the message.
CopyDelta(message, clone) ==
  IF clone.delta = Unset THEN message ELSE Add(message, clone.delta)

\* The cookie has Path=/jwt/refresh: browsers send it nowhere else.
Sent(b, kind) == IF kind = "refresh" THEN jar[b] ELSE None

-----------------------------------------------------------------------------
(* Requests.                                                               *)

Kinds == {"login", "refresh", "logout"}

\* "await": the handler waits for Redis; "read": Redis has read the document;
\* "reply": the response is on its way.
Phases == {"idle", "await", "read", "reply"}

Statuses == {"none", "ok", "revoked", "unauthorized", "forbidden", "error"}

Messages == [original : RefreshTokens \cup {None},
             delta : RefreshTokens \cup {Unset, Removal}]

Request == [browser : Browsers \cup {None}, kind : Kinds, phase : Phases,
            user : Users \cup {None}, since : Jtis \cup {None},
            read : Jtis \cup {None}, message : Messages,
            status : Statuses, token : AccessTokens \cup {None},
            open : BOOLEAN]  \* the document that asked is still there

Idle == [browser |-> None, kind |-> "logout", phase |-> "idle",
         user |-> None, since |-> None, read |-> None,
         message |-> NewMessage(None), status |-> "none", token |-> None,
         open |-> TRUE]

TypeOK ==
  /\ now \in 0 .. MaxTime
  /\ boot \in Boots
  /\ jti \in [Users -> Jtis \cup {None}]
  /\ jar \in [Browsers -> RefreshTokens \cup {None}]
  /\ token \in [Browsers -> AccessTokens \cup {None}]
  /\ req \in [Requests -> Request]
  /\ \A r \in Requests : req[r].phase # "idle" => req[r].browser \in Browsers
  /\ logins \subseteq Browsers \X Users \X Boots
  /\ quit \in [Browsers -> BOOLEAN]

Init ==
  /\ now = 0
  /\ boot = 1
  /\ jti = [u \in Users |-> 0]
  /\ jar = [b \in Browsers |-> None]
  /\ token = [b \in Browsers |-> None]
  /\ req = [r \in Requests |-> Idle]
  /\ logins = {}
  /\ quit = [b \in Browsers |-> FALSE]

\* A request of browser b enters slot r.
Begin(r, b, kind, q) ==
  /\ req[r].phase = "idle"
  /\ req' = [req EXCEPT ![r] = [q EXCEPT !.browser = b, !.kind = kind]]
  /\ UNCHANGED <<now, boot, jti, jar, token, logins, quit>>

\* loginUser with the right password: the handler searches for the account.
Login(r, b) ==
  \E u \in Users :
    Begin(r, b, "login", [Idle EXCEPT !.phase = "await", !.user = u,
                            !.message = NewMessage(Sent(b, "login"))])

\* jwt_refresh::post up to its first await.
Refresh(r, b) ==
  LET cookie  == Sent(b, "refresh")
      message == NewMessage(cookie)
      refused(status) == [Idle EXCEPT !.phase = "reply", !.status = status,
                                      !.message = message]
  IN  \/ cookie = None /\ Begin(r, b, "refresh", refused("unauthorized"))
      \/ /\ cookie # None /\ ~Verify(cookie)
         /\ Begin(r, b, "refresh", refused("forbidden"))
      \/ /\ cookie # None /\ Verify(cookie)
         /\ Begin(r, b, "refresh", [Idle EXCEPT !.phase = "await",
                                      !.user = cookie.sub,
                                      !.since = jti[cookie.sub],
                                      !.message = message])

\* logoutUser: reset the cookie in the clone, copy the changes, answer true.
Logout(r, b) ==
  LET message == NewMessage(Sent(b, "logout"))
  IN  Begin(r, b, "logout",
            [Idle EXCEPT !.phase = "reply", !.status = "ok",
                         !.message = CopyDelta(message, Remove(message))])

\* Redis reads the document for r: FT.SEARCH or JSON.GET.
Read(r) ==
  /\ req[r].phase = "await"
  /\ req' = [req EXCEPT ![r].phase = "read", ![r].read = jti[req[r].user]]
  /\ UNCHANGED <<now, boot, jti, jar, token, logins, quit>>

\* The handler of r answers.
Answer(r, status, message, access) ==
  /\ req' = [req EXCEPT ![r].phase = "reply", ![r].status = status,
                        ![r].message = message, ![r].token = access]
  /\ UNCHANGED <<now, boot, jti, jar, token, quit>>

\* The cookie is in the message when the access token is made: if that fails
\* (the clock, the key) the answer is an error, and has the cookie.
AnswerSession(r, message) ==
  \/ Answer(r, "ok", message, Create("access", req[r].user, req[r].read))
  \/ Answer(r, "error", message, None)

\* login_user with the document: the cookie goes into the clone of the
\* message, whose changes are copied whatever has become of the field.
GrantLogin(r) ==
  LET q == req[r]
      clone == Add(q.message, Create("refresh", q.user, q.read))
  IN  /\ q.phase = "read" /\ q.kind = "login"
      /\ q.read # None
      /\ AnswerSession(r, CopyDelta(q.message, clone))
      /\ logins' = logins \cup {<<q.browser, q.user, boot>>}

\* Mutant of GrantRefresh: a jti is not compared.
GrantAnyRefresh(r) ==
  LET q == req[r]
  IN  /\ q.phase = "read" /\ q.kind = "refresh" /\ q.read # None
      /\ AnswerSession(r, Add(q.message, Create("refresh", q.user, q.read)))
      /\ UNCHANGED logins

\* Mutant of GrantRefresh: a document that is missing is not an error.
GrantLost(r) ==
  LET q == req[r]
  IN  /\ q.phase = "read" /\ q.kind = "refresh"
      /\ AnswerSession(r, Add(q.message, Create("refresh", q.user, q.read)))
      /\ UNCHANGED logins

\* jwt_refresh::post with the document: a new cookie and an access token if
\* the jti is still that of the cookie.
GrantRefresh(r) ==
  LET q == req[r]
  IN  /\ q.phase = "read" /\ q.kind = "refresh"
      /\ q.read # None /\ q.read = q.message.original.jti
      /\ AnswerSession(r, Add(q.message, Create("refresh", q.user, q.read)))
      /\ UNCHANGED logins

\* ... and otherwise the token "" and no cookie.
DenyRefresh(r) ==
  LET q == req[r]
  IN  /\ q.phase = "read" /\ q.kind = "refresh"
      /\ q.read # None /\ q.read # q.message.original.jti
      /\ Answer(r, "revoked", q.message, None)
      /\ UNCHANGED logins

\* No document, or a call to Redis that failed: 500, or a GraphQL error.
Fail(r) ==
  /\ req[r].phase \in {"await", "read"}
  /\ Answer(r, "error", req[r].message, None)
  /\ UNCHANGED logins

\* Mutant of Deliver: what an answer has for a token is kept, whatever it is.
DeliverAnyToken(r) ==
  LET q == req[r]
      b == q.browser
      d == q.message.delta
  IN  /\ q.phase = "reply"
      /\ jar' = [jar EXCEPT ![b] = IF d \in {Unset, Removal} THEN @ ELSE d]
      /\ token' = IF q.open THEN [token EXCEPT ![b] = q.token] ELSE token
      /\ req' = [req EXCEPT ![r] = Idle]
      /\ UNCHANGED <<now, boot, jti, logins, quit>>

\* The response arrives: Message::done has made Set-Cookie of the delta, and
\* the page keeps the token (useToken, fetchRefresh), if it has not been left.
Deliver(r) ==
  LET q == req[r]
      b == q.browser
      d == q.message.delta
  IN  /\ q.phase = "reply"
      /\ jar' = [jar EXCEPT ![b] = CASE d = Unset   -> jar[b]
                                     [] d = Removal -> None
                                     [] OTHER       -> d]
      /\ token' = IF q.open /\ q.status \in {"ok", "revoked"} /\ q.kind # "logout"
                  THEN [token EXCEPT ![b] = q.token]
                  ELSE token
      /\ quit' = [quit EXCEPT ![b] = IF q.kind = "logout" THEN TRUE
                                     ELSE IF d \in {Unset, Removal} THEN @
                                     ELSE FALSE]
      /\ req' = [req EXCEPT ![r] = Idle]
      /\ UNCHANGED <<now, boot, jti, logins>>

\* The connection of r breaks.
Lose(r) ==
  /\ req[r].phase # "idle"
  /\ req' = [req EXCEPT ![r] = Idle]
  /\ UNCHANGED <<now, boot, jti, jar, token, logins, quit>>

\* The page is loaded again: client.ts keeps its token in memory.  Whether the
\* browser still takes the cookies of what the old document asked for is left
\* open (Deliver, Lose); its scripts do not run any more.
Reload(b) ==
  /\ token' = [token EXCEPT ![b] = None]
  /\ req' = [r \in Requests |-> IF req[r].browser = b
                                THEN [req[r] EXCEPT !.open = FALSE] ELSE req[r]]
  /\ UNCHANGED <<now, boot, jti, jar, logins, quit>>

Tick ==
  /\ now < MaxTime
  /\ now' = now + 1
  /\ UNCHANGED <<boot, jti, jar, token, req, logins, quit>>

\* The daemon stops, with the requests it was handling, and starts again.
Restart ==
  /\ boot < MaxBoots
  /\ boot' = boot + 1
  /\ req' = [r \in Requests |-> IF req[r].phase \in {"await", "read"} THEN Idle
                                                                   ELSE req[r]]
  /\ UNCHANGED <<now, jti, jar, token, logins, quit>>

\* Someone gives the document of u another jti; no resolver does so yet.
Revoke(u) ==
  /\ jti[u] # None /\ jti[u] < MaxJti
  /\ jti' = [jti EXCEPT ![u] = @ + 1]
  /\ UNCHANGED <<now, boot, jar, token, req, logins, quit>>

\* Redis loses the document of u.
LoseDocument(u) ==
  /\ jti[u] # None
  /\ jti' = [jti EXCEPT ![u] = None]
  /\ UNCHANGED <<now, boot, jar, token, req, logins, quit>>

Next ==
  \/ \E r \in Requests :
       \/ \E b \in Browsers : Login(r, b) \/ Refresh(r, b) \/ Logout(r, b)
       \/ Read(r) \/ GrantLogin(r) \/ GrantRefresh(r) \/ DenyRefresh(r)
       \/ Fail(r) \/ Deliver(r) \/ Lose(r)
  \/ \E b \in Browsers : Reload(b)
  \/ \E u \in Users : Revoke(u) \/ LoseDocument(u)
  \/ Tick
  \/ Restart

Spec == Init /\ [][Next]_vars

-----------------------------------------------------------------------------
(* Properties.                                                             *)

\* A session starts with a login and lives in one browser and one run of the
\* daemon: whatever chain of refreshes a token comes from, the browser that
\* has it logged in to that account in the run whose key signed it.
SessionsStartWithLogin ==
  \A b \in Browsers :
    /\ jar[b] # None => <<b, jar[b].sub, jar[b].key>> \in logins
    /\ token[b] # None => <<b, token[b].sub, token[b].key>> \in logins

SameSession(s, t) == s.sub = t.sub /\ s.jti = t.jti /\ s.key = t.key

\* An access token never comes without the cookie of the same session: neither
\* the clone of the message in gql::post nor an early return separates them.
\* A cookie comes without a token only when the answer is an error, since the
\* access token is made second.  And a refresh goes on with the session of the
\* cookie it was sent, although the document it is made from is read later and
\* the daemon may restart in between: same account, jti and run.
SessionIsGivenWhole ==
  \A r \in Requests :
    LET q == req[r]
        cookie == q.message.delta
        given  == cookie \notin {Unset, Removal}
    IN  q.phase = "reply" =>
          /\ q.token # None => given /\ SameSession(cookie, q.token)
          /\ given => q.token # None \/ q.status = "error"
          /\ given /\ q.kind = "refresh" => SameSession(cookie, q.message.original)

\* A change of the jti revokes the refresh cookies made before it: a refresh
\* that begins after the change gets nothing for such a cookie, although the
\* document is read at another moment than the cookie was verified.  And only
\* such a cookie is answered with the token "".
RevocationTakesEffect ==
  \A r \in Requests :
    LET q == req[r]
    IN  q.phase = "reply" /\ q.kind = "refresh" =>
          /\ q.status = "ok" => q.message.original.jti = q.since
          /\ q.status = "revoked" => q.message.original.jti # jti[q.user]

\* What logoutUser is for: after its answer, and until the next login or
\* refresh is answered, the browser has no refresh cookie.  It does not hold:
\* the cookie is not sent to /graphql, so that reset removes nothing.
LogoutEndsSession == \A b \in Browsers : quit[b] => jar[b] = None

=============================================================================
