----------------------------- MODULE PageProofs -----------------------------
(* Proofs about Page, for every set of browsers, accounts and requests. *)
EXTENDS Page, SessionsProofs

\* The invariant speaks of the document v of a browser, its token t and the
\* accounts h it has had, and of the contents q of a slot.

\* Who asked, as a query that is under way remembers it.
AskedFor(query, h) ==
  query.phase \in {"sent", "answered"} =>
    /\ query.token # None => query.token.sub \in h
    /\ query.result \in Users => query.result \in h

\* Before the spinner goes a document has nothing.
Bare(v, h) ==
  v.mode # "ready" =>
    /\ h = {} /\ v.store = None /\ v.query.phase = "none"
    /\ ~v.mounting /\ ~v.registering

Document(v, t, h) ==
  /\ t = None <=> h = {}
  /\ t # None => t.sub \in h
  /\ v.store \in Users => v.store \in h
  /\ AskedFor(v.query, h) /\ Bare(v, h)

InFlight(q) == q.phase # "idle" /\ q.open

\* What a document waits for.
Awaited(q, v) ==
  InFlight(q) =>
    /\ q.kind = "refresh" => v.mode = "spinner"
    /\ q.kind = "login" => v.mode = "ready"

\* An answer that is taken for a login has a token.
Paid(q) ==
  q.phase = "reply" /\ q.kind = "login" /\ q.status \in {"ok", "revoked"}
    => q.token # None

\* The first refresh of a document is its only one.
Refreshing(q, b) == InFlight(q) /\ q.kind = "refresh" /\ q.browser = b

Documents == \A b \in Browsers : Document(view[b], token[b], held[b])

Slots ==
  \A r \in Requests :
    /\ Paid(req[r])
    /\ InFlight(req[r]) => Awaited(req[r], view[req[r].browser])

Single ==
  \A b \in Browsers, r, s \in Requests :
    Refreshing(req[r], b) /\ Refreshing(req[s], b) => r = s

PInv == IInv /\ PageTypeOK /\ Documents /\ Slots /\ Single

-----------------------------------------------------------------------------
(* Pages disturb no session.                                               *)

\* Every page begins like a session, and each of its steps is a step of
\* Sessions or none.
LEMMA PageStep == [PageNext]_pageAll => [Next]_vars
BY DEF PageNext, pageAll, pageVars, vars, Next, Load, AskRefresh, Arrive, Break,
       Reboot, LoadQuery, AnswerQuery, TakeAnswer, LoseQuery, Collect, Submit,
       Register, Registered, Back, Elsewhere, Show

\* What is proved of Sessions holds behind the page: it calls the server as any
\* browser may.
THEOREM PageImplementsSessions == PageSpec => Spec
<1>1. PageInit => Init
  BY DEF PageInit
<1> QED BY <1>1, PageStep, PTL DEF PageSpec, Spec

-----------------------------------------------------------------------------
(* Documents.                                                              *)

\* A new document is bare.
LEMMA FreshDocument ==
  ASSUME NEW p \in Paths
  PROVE  Fresh(p) \in View /\ Document(Fresh(p), None, {})
<1>1. PICK w : w = Fresh(p)
  OBVIOUS
<1>2. NoQuery \in Query
  BY DEF NoQuery, Query
<1>3. w \in View
  BY <1>1, <1>2 DEF Fresh, View, Modes
<1>4. /\ w.path = p /\ w.mode = "blank" /\ w.store = None
      /\ w.query.phase = "none" /\ ~w.mounting /\ ~w.registering
  BY <1>1 DEF Fresh, NoQuery
<1>5. None \notin Users
  BY PageAssumption
<1> QED BY <1>1, <1>3, <1>4, <1>5 DEF Document, AskedFor, Bare

\* A document that goes to p.
LEMMA GoToDocument ==
  ASSUME NEW v \in View, NEW p \in Paths, NEW t, NEW h, Document(v, t, h)
  PROVE  /\ GoTo(v, p) \in View /\ Document(GoTo(v, p), t, h)
         /\ GoTo(v, p).mode = v.mode
<1>1. PICK w : w = GoTo(v, p)
  OBVIOUS
<1>2. w \in View
  BY <1>1 DEF GoTo, View
<1>3. /\ w.path = p /\ w.mode = v.mode /\ w.store = v.store
      /\ w.query = v.query /\ w.registering = v.registering
      /\ w.mounting => v.mode = "ready"
  BY <1>1 DEF GoTo, View
<1> QED BY <1>1, <1>2, <1>3 DEF Document, AskedFor, Bare

\* A slot goes on waiting for a document that stays in its mode.
LEMMA StillAwaited ==
  ASSUME NEW q, NEW v, NEW w, Awaited(q, v), w.mode = v.mode
  PROVE  Awaited(q, w)
BY DEF Awaited

\* The page of b alone changes.
LEMMA ShowStep ==
  ASSUME PInv, NEW b \in Browsers, NEW w \in View, Show(b, w),
         w.mode = view[b].mode, Document(w, token[b], held[b])
  PROVE  PInv'
<1>1. UNCHANGED <<vars, held>> /\ view' = [view EXCEPT ![b] = w]
  BY DEF Show
<1>2. IInv'
  BY <1>1, NextIInv DEF PInv, vars
<1>3. PageTypeOK'
  BY <1>1, <1>2 DEF PInv, PageTypeOK, IInv
<1>4. \A c \in Browsers : view'[c] = IF c = b THEN w ELSE view[c]
  BY <1>1 DEF PInv, PageTypeOK
<1>5. Documents'
  BY <1>1, <1>4 DEF PInv, Documents, vars
<1>6. Slots'
  <2> SUFFICES ASSUME NEW r \in Requests
               PROVE  /\ Paid(req[r])
                      /\ InFlight(req[r]) => Awaited(req[r], view'[req[r].browser])
    BY <1>1 DEF Slots, vars
  <2>1. InFlight(req[r]) => req[r].browser \in Browsers
    BY DEF PInv, PageTypeOK, TypeOK, InFlight
  <2> QED BY <1>4, <2>1, StillAwaited DEF PInv, Slots
<1>7. Single'
  BY <1>1 DEF PInv, Single, vars
<1> QED BY <1>2, <1>3, <1>5, <1>6, <1>7 DEF PInv

\* What a document is, from the invariant.
LEMMA DocumentOf ==
  ASSUME PInv, NEW b \in Browsers
  PROVE  /\ view[b] \in View /\ Document(view[b], token[b], held[b])
         /\ token[b] \in AccessTokens \cup {None} /\ held[b] \subseteq Users
BY DEF PInv, PageTypeOK, TypeOK, Documents

\* A new state of the query is put in its place.
LEMMA QueryStep ==
  ASSUME PInv, NEW b \in Browsers, NEW query \in Query, NEW store \in Answers \cup {None},
         NEW mounting \in BOOLEAN,
         Show(b, [view[b] EXCEPT !.query = query, !.store = store,
                                 !.mounting = mounting]),
         AskedFor(query, held[b]), store \in Users => store \in held[b],
         mounting => view[b].mounting,
         query.phase # "none" => view[b].mode = "ready",
         store # None => view[b].mode = "ready"
  PROVE  PInv'
<1>1. PICK v : v = view[b]
  OBVIOUS
<1>2. v \in View /\ Document(v, token[b], held[b])
  BY <1>1, DocumentOf
<1>3. PICK w : w = [v EXCEPT !.query = query, !.store = store, !.mounting = mounting]
  OBVIOUS
<1>4. w \in View
  BY <1>2, <1>3 DEF View
<1>5. /\ w.path = v.path /\ w.mode = v.mode
      /\ w.registering = v.registering /\ w.query = query /\ w.store = store
      /\ w.mounting = mounting
  BY <1>2, <1>3 DEF View
<1>6. Document(w, token[b], held[b])
  BY <1>1, <1>2, <1>5 DEF Document, Bare
<1> QED BY <1>1, <1>3, <1>4, <1>5, <1>6, ShowStep

LEMMA LoadQueryStep ==
  ASSUME PInv, NEW b \in Browsers, LoadQuery(b)
  PROVE  PInv'
<1> DEFINE v == view[b]
           asked == [NoQuery EXCEPT !.phase = "sent", !.token = token[b]]
<1>1. /\ v \in View /\ Document(v, token[b], held[b])
      /\ token[b] \in AccessTokens \cup {None}
  BY DocumentOf
<1>2. v.mounting
  BY DEF LoadQuery
<1>3. v.mode = "ready"
  BY <1>1, <1>2 DEF Document, Bare
<1>4. None \notin Users
  BY PageAssumption
<1>5. asked \in Query /\ AskedFor(asked, held[b])
  BY <1>1, <1>4 DEF NoQuery, Query, AskedFor, Document
<1>6. v.query \in Query /\ v.store \in Answers \cup {None} /\ AskedFor(v.query, held[b])
      /\ (v.store \in Users => v.store \in held[b])
  BY <1>1 DEF View, Document
<1>7. PICK query \in {asked, v.query} :
        Show(b, [v EXCEPT !.mounting = FALSE, !.query = query])
  BY DEF LoadQuery
<1>8. [v EXCEPT !.mounting = FALSE, !.query = query] =
        [v EXCEPT !.query = query, !.store = v.store, !.mounting = FALSE]
  BY <1>1 DEF View
<1> HIDE DEF asked
<1> QED BY <1>3, <1>5, <1>6, <1>7, <1>8, QueryStep

LEMMA AnswerQueryStep ==
  ASSUME PInv, NEW b \in Browsers, AnswerQuery(b)
  PROVE  PInv'
<1> DEFINE v == view[b]
           query(u) == [v.query EXCEPT !.phase = "answered", !.result = u]
<1>1. v \in View /\ Document(v, token[b], held[b])
  BY DocumentOf
<1>2. v.query.phase = "sent"
  BY DEF AnswerQuery
<1>3. PICK u \in Answers :
        /\ u # Null => v.query.token # None /\ u = v.query.token.sub
        /\ Show(b, [v EXCEPT !.query.phase = "answered", !.query.result = u])
  BY DEF AnswerQuery
<1>4. v.mode = "ready"
  BY <1>1, <1>2 DEF Document, Bare
<1>5. Null \notin Users
  BY PageAssumption
<1>6. v.query \in Query
  BY <1>1 DEF View
<1>7. query(u) \in Query
  BY <1>3, <1>6 DEF Query
<1>8. query(u).phase = "answered" /\ query(u).result = u /\ query(u).token = v.query.token
  BY <1>6 DEF Query
<1>9. AskedFor(query(u), held[b])
  BY <1>1, <1>2, <1>3, <1>5, <1>8 DEF Document, AskedFor
<1>10. [v EXCEPT !.query.phase = "answered", !.query.result = u] =
         [v EXCEPT !.query = query(u), !.store = v.store, !.mounting = v.mounting]
  BY <1>1 DEF View
<1>11. v.store \in Answers \cup {None} /\ v.mounting \in BOOLEAN
       /\ (v.store \in Users => v.store \in held[b])
  BY <1>1 DEF View, Document
<1> HIDE DEF query
<1> QED BY <1>3, <1>4, <1>7, <1>9, <1>10, <1>11, QueryStep

LEMMA EndQueryStep ==
  ASSUME PInv, NEW b \in Browsers, TakeAnswer(b) \/ LoseQuery(b) \/ Collect(b)
  PROVE  PInv'
<1> DEFINE v == view[b]
           failed == [NoQuery EXCEPT !.phase = "failed"]
<1>1. v \in View /\ Document(v, token[b], held[b])
  BY DocumentOf
<1>2. /\ v.query \in Query /\ v.store \in Answers \cup {None}
      /\ v.mounting \in BOOLEAN /\ v.query.result \in Answers \cup {None}
  BY <1>1 DEF View, Query
<1>3. /\ NoQuery \in Query /\ failed \in Query
      /\ AskedFor(NoQuery, held[b]) /\ AskedFor(failed, held[b])
      /\ NoQuery.phase = "none"
  BY DEF NoQuery, Query, AskedFor
<1>4. /\ AskedFor(v.query, held[b]) /\ (v.store \in Users => v.store \in held[b])
      /\ v.query.phase # "none" => v.mode = "ready"
      /\ v.store # None => v.mode = "ready"
  BY <1>1 DEF Document, Bare
<1>5. None \notin Users
  BY PageAssumption
<1>6. CASE TakeAnswer(b)
  <2>1. /\ v.query.phase = "answered"
        /\ Show(b, [v EXCEPT !.query = NoQuery, !.store = v.query.result])
    BY <1>6 DEF TakeAnswer
  <2>2. [v EXCEPT !.query = NoQuery, !.store = v.query.result] =
          [v EXCEPT !.query = NoQuery, !.store = v.query.result,
                    !.mounting = v.mounting]
    BY <1>1 DEF View
  <2>3. v.query.result \in Users => v.query.result \in held[b]
    BY <1>4, <2>1 DEF AskedFor
  <2> QED BY <1>2, <1>3, <1>4, <2>1, <2>2, <2>3, QueryStep
<1>7. CASE LoseQuery(b)
  <2>1. v.query.phase # "none" /\ Show(b, [v EXCEPT !.query = failed])
    BY <1>7 DEF LoseQuery
  <2>2. [v EXCEPT !.query = failed] =
          [v EXCEPT !.query = failed, !.store = v.store, !.mounting = v.mounting]
    BY <1>1 DEF View
  <2> HIDE DEF failed
  <2> QED BY <1>2, <1>3, <1>4, <2>1, <2>2, QueryStep
<1>8. CASE Collect(b)
  <2>1. Show(b, [v EXCEPT !.store = None])
    BY <1>8 DEF Collect
  <2>2. [v EXCEPT !.store = None] =
          [v EXCEPT !.query = v.query, !.store = None, !.mounting = v.mounting]
    BY <1>1 DEF View
  <2> QED BY <1>2, <1>4, <1>5, <2>1, <2>2, QueryStep
<1> QED BY <1>6, <1>7, <1>8

\* The forms, and the history.
LEMMA WalkStep ==
  ASSUME PInv, NEW b \in Browsers, Register(b) \/ Registered(b) \/ Back(b)
  PROVE  PInv'
<1> DEFINE v == view[b]
           with(w, x) == [w EXCEPT !.registering = x]
<1>1. v \in View /\ Document(v, token[b], held[b])
  BY DocumentOf
<1>2. ASSUME NEW w \in View, NEW x \in BOOLEAN
      PROVE  /\ with(w, x) \in View
             /\ with(w, x).registering = x
             /\ with(w, x).path = w.path
             /\ with(w, x).mode = w.mode /\ with(w, x).store = w.store
             /\ with(w, x).mounting = w.mounting /\ with(w, x).query = w.query
  BY DEF View
<1>3. CASE Register(b)
  <2>1. v.mode = "ready" /\ v.path = "/register" /\ Show(b, with(v, TRUE))
    BY <1>3 DEF Register
  <2>2. /\ with(v, TRUE) \in View /\ with(v, TRUE).mode = v.mode
        /\ Document(with(v, TRUE), token[b], held[b])
    <3> HIDE DEF with
    <3> QED BY <1>1, <1>2, <2>1 DEF Document, AskedFor, Bare
  <2> HIDE DEF with
  <2> QED BY <2>1, <2>2, ShowStep
<1>4. CASE Registered(b)
  <2>1. /\ v.registering
        /\ \E w \in {v, GoTo(v, "/login")} : Show(b, with(w, FALSE))
    BY <1>4 DEF Registered
  <2>2. PICK w : w \in {v, GoTo(v, "/login")} /\ Show(b, with(w, FALSE))
    BY <2>1
  <2>3. v.mode = "ready"
    BY <1>1, <2>1 DEF Document, Bare
  <2>5. /\ w \in View /\ Document(w, token[b], held[b]) /\ w.mode = v.mode
    BY <1>1, <2>2, GoToDocument DEF Paths
  <2>6. Document(with(w, FALSE), token[b], held[b])
    <3> HIDE DEF with
    <3> QED BY <1>2, <2>5 DEF Document, AskedFor, Bare
  <2> HIDE DEF with
  <2> QED BY <1>2, <2>2, <2>5, <2>6, ShowStep
<1>5. CASE Back(b)
  <2>1. PICK p \in Paths \ {v.path} : Show(b, GoTo(v, p))
    BY <1>5 DEF Back
  <2> QED BY <1>1, <2>1, GoToDocument, ShowStep
<1> QED BY <1>3, <1>4, <1>5

-----------------------------------------------------------------------------
(* Requests.                                                               *)

\* No request begins: those that are in flight were in flight, and the
\* documents that wait for them stay as they are.
LEMMA OngoingStep ==
  ASSUME PInv, IInv', PageTypeOK', Documents',
         \A r \in Requests :
           /\ Paid(req'[r])
           /\ InFlight(req'[r]) =>
                /\ InFlight(req[r])
                /\ req'[r].browser = req[r].browser /\ req'[r].kind = req[r].kind
                /\ req[r].kind \in {"refresh", "login"} =>
                     view'[req[r].browser].mode = view[req[r].browser].mode
  PROVE  PInv'
<1>1. Slots'
  BY DEF PInv, Slots, Awaited
<1>2. Single'
  BY DEF PInv, Single, Refreshing
<1> QED BY <1>1, <1>2 DEF PInv

\* No page changes, and no token.
LEMMA ElsewhereStep == PInv /\ (Elsewhere \/ UNCHANGED pageAll) => PInv'
<1> SUFFICES ASSUME PInv, Elsewhere \/ UNCHANGED pageAll PROVE PInv'
  OBVIOUS
<1>1. IInv'
  BY PageStep, NextIInv DEF PInv, PageNext
<1>2. UNCHANGED <<view, held>>
  BY DEF Elsewhere, pageAll, pageVars
<1>3. UNCHANGED token
  BY DEF Elsewhere, pageAll, vars, Read, GrantLogin, GrantRefresh, DenyRefresh,
         Fail, AnswerSession, Answer, Revoke, LoseDocument, Tick
<1>4. PageTypeOK' /\ Documents'
  BY <1>1, <1>2, <1>3 DEF PInv, PageTypeOK, Documents, IInv
<1>5. ASSUME NEW r \in Requests
      PROVE  /\ Paid(req'[r])
             /\ InFlight(req'[r]) => InFlight(req[r])
             /\ req'[r].browser = req[r].browser /\ req'[r].kind = req[r].kind
  <2>1. /\ req \in [Requests -> Request] /\ req[r] \in Request
        /\ Paid(req[r]) /\ TypeOK /\ Suspended(req[r], boot, logins)
    BY DEF PInv, Slots, IInv, TypeOK, AllSound, Sound
  <2>2. CASE UNCHANGED req
    BY <2>1, <2>2
  <2>3. CASE \E s \in Requests : Read(s)
    BY <2>1, <2>3 DEF Read, Paid, InFlight, Request
  <2>4. ASSUME NEW s \in Requests, NEW status, NEW m, NEW access,
               Answer(s, status, m, access), req[s].phase # "idle",
               s = r /\ req[r].kind = "login" /\ status \in {"ok", "revoked"}
                 => access # None
        PROVE  /\ Paid(req'[r])
               /\ InFlight(req'[r]) => InFlight(req[r])
               /\ req'[r].browser = req[r].browser /\ req'[r].kind = req[r].kind
    <3>1. CASE s = r
      <4>1. /\ req'[r].phase = "reply" /\ req'[r].status = status
            /\ req'[r].token = access /\ req'[r].kind = req[r].kind
            /\ req'[r].browser = req[r].browser /\ req'[r].open = req[r].open
        BY <2>1, <2>4, <3>1 DEF Answer, Request
      <4> QED BY <2>4, <3>1, <4>1 DEF Paid, InFlight
    <3>2. CASE s # r
      BY <2>1, <2>4, <3>2 DEF Answer
    <3> QED BY <3>1, <3>2
  <2>5. CASE \E s \in Requests : GrantLogin(s)
    <3>1. PICK s \in Requests : GrantLogin(s)
      BY <2>5
    <3>2. req[s].phase # "idle" /\ req[s].user \in Users /\ req[s].read \in Jtis
      BY <3>1 DEF GrantLogin, PInv, IInv, AllSound, Sound, Suspended, Pending, TypeOK,
                  Request
    <3>3. Create("access", req[s].user, req[s].read) \in AccessTokens
      BY <2>1, <3>2, CreateType
    <3>4. Create("access", req[s].user, req[s].read) # None
      BY <3>3, NoneIsNoToken
    <3>5. PICK m : AnswerSession(s, m)
      BY <3>1 DEF GrantLogin
    <3>6. CASE Answer(s, "ok", m, Create("access", req[s].user, req[s].read))
      BY <2>4, <3>2, <3>4, <3>6
    <3>7. CASE Answer(s, "error", m, None)
      BY <2>4, <3>2, <3>7
    <3> QED BY <3>5, <3>6, <3>7 DEF AnswerSession
  <2>6. CASE \E s \in Requests : GrantRefresh(s)
    <3>1. PICK s \in Requests : GrantRefresh(s)
      BY <2>6
    <3>2. /\ req[s].phase # "idle" /\ req[s].kind = "refresh"
          /\ \E m, status, access : Answer(s, status, m, access)
      BY <3>1 DEF GrantRefresh, AnswerSession
    <3> QED BY <2>4, <3>2
  <2>7. CASE \E s \in Requests : DenyRefresh(s)
    <3>1. PICK s \in Requests : DenyRefresh(s)
      BY <2>7
    <3>2. /\ req[s].phase # "idle" /\ req[s].kind = "refresh"
          /\ \E m, access : Answer(s, "revoked", m, access)
      BY <3>1 DEF DenyRefresh
    <3> QED BY <2>4, <3>2
  <2>8. CASE \E s \in Requests : Fail(s)
    <3>1. PICK s \in Requests : Fail(s)
      BY <2>8
    <3>2. req[s].phase # "idle" /\ \E m, access : Answer(s, "error", m, access)
      BY <3>1 DEF Fail
    <3> QED BY <2>4, <3>2
  <2> QED BY <2>2, <2>3, <2>5, <2>6, <2>7, <2>8
          DEF Elsewhere, pageAll, vars, Revoke, LoseDocument, Tick
<1> QED BY <1>1, <1>2, <1>4, <1>5, OngoingStep

\* A page is loaded: what its old document asked for is not awaited any more.
LEMMA LoadStep ==
  ASSUME PInv, NEW b \in Browsers, Load(b)
  PROVE  PInv'
<1>1. PICK p \in Paths :
        /\ Reload(b)
        /\ view' = [view EXCEPT ![b] = Fresh(p)]
        /\ held' = [held EXCEPT ![b] = {}]
  BY DEF Load
<1>2. TypeOK /\ view \in [Browsers -> View] /\ held \in [Browsers -> SUBSET Users]
  BY DEF PInv, PageTypeOK
<1>3. IInv'
  BY <1>1, NextIInv DEF PInv, Next
<1>4. Fresh(p) \in View /\ Document(Fresh(p), None, {})
  BY FreshDocument
<1>5. PageTypeOK'
  BY <1>1, <1>2, <1>3, <1>4 DEF PageTypeOK, IInv
<1>6. Documents'
  BY <1>1, <1>2, <1>4 DEF PInv, Documents, Reload, TypeOK
<1>7. ASSUME NEW r \in Requests
      PROVE  /\ Paid(req'[r])
             /\ InFlight(req'[r]) =>
                  /\ req'[r] = req[r] /\ req[r].browser # b
                  /\ req[r].browser \in Browsers
  <2>1. req[r] \in Request /\ Paid(req[r])
    BY <1>2 DEF TypeOK, PInv, Slots
  <2>2. req'[r] = IF req[r].browser = b THEN [req[r] EXCEPT !.open = FALSE] ELSE req[r]
    BY <1>1 DEF Reload
  <2>3. CASE req[r].browser = b
    BY <2>1, <2>2, <2>3 DEF Paid, InFlight, Request
  <2>4. CASE req[r].browser # b
    BY <1>2, <2>1, <2>2, <2>4 DEF TypeOK, InFlight
  <2> QED BY <2>3, <2>4
<1>8. \A c \in Browsers \ {b} : view'[c] = view[c]
  BY <1>1, <1>2
<1> QED BY <1>3, <1>5, <1>6, <1>7, <1>8, OngoingStep

\* The slot of a request that begins.
LEMMA Begun ==
  ASSUME TypeOK, NEW r \in Requests, NEW b \in Browsers,
         Login(r, b) \/ Refresh(r, b)
  PROVE  /\ req'[r].browser = b /\ req'[r].open
         /\ Login(r, b) => req'[r].kind = "login" /\ req'[r].phase = "await"
         /\ Refresh(r, b) => req'[r].kind = "refresh"
         /\ \A s \in Requests \ {r} : req'[s] = req[s]
         /\ UNCHANGED token
<1>1. req \in [Requests -> Request]
  BY DEF TypeOK
<1> DEFINE Slot(kind) == /\ req'[r].browser = b /\ req'[r].open /\ req'[r].kind = kind
                         /\ \A s \in Requests \ {r} : req'[s] = req[s]
                         /\ UNCHANGED token
<1>2. ASSUME NEW kind, NEW q, Begin(r, b, kind, q), q.open
      PROVE  Slot(kind)
  BY <1>1, <1>2 DEF Begin
<1>3. Login(r, b) => Slot("login") /\ req'[r].phase = "await"
  BY <1>1 DEF Login, Begin, Idle
<1>4. ASSUME Refresh(r, b) PROVE Slot("refresh")
  <2>1. \E q : q.open /\ Begin(r, b, "refresh", q)
    BY <1>4 DEF Refresh, Idle
  <2> QED BY <1>2, <2>1
<1> QED BY <1>3, <1>4

LEMMA AskRefreshStep ==
  ASSUME PInv, NEW r \in Requests, NEW b \in Browsers, AskRefresh(r, b)
  PROVE  PInv'
<1> DEFINE v == view[b]
<1>1. /\ v.mode = "blank" /\ Refresh(r, b)
      /\ view' = [view EXCEPT ![b].mode = "spinner"] /\ UNCHANGED held
  BY DEF AskRefresh
<1>2. TypeOK /\ view \in [Browsers -> View] /\ v \in View /\ Document(v, token[b], held[b])
  BY DocumentOf DEF PInv, PageTypeOK
<1>3. IInv'
  BY <1>1, NextIInv DEF PInv, Next
<1>4. PICK w : w = [v EXCEPT !.mode = "spinner"]
  OBVIOUS
<1>5. /\ w \in View /\ w.mode = "spinner" /\ w.path = v.path
      /\ w.store = v.store /\ w.query = v.query /\ w.mounting = v.mounting
      /\ w.registering = v.registering
  BY <1>2, <1>4 DEF View, Modes
<1>6. view'[b] = w /\ (\A c \in Browsers \ {b} : view'[c] = view[c])
      /\ view' \in [Browsers -> View]
  BY <1>1, <1>2, <1>4, <1>5
<1>7. Document(w, token[b], held[b])
  BY <1>1, <1>2, <1>5 DEF Document, AskedFor, Bare
<1>8. /\ req'[r].browser = b /\ req'[r].open /\ req'[r].kind = "refresh"
      /\ \A s \in Requests \ {r} : req'[s] = req[s]
      /\ UNCHANGED token
  BY <1>1, <1>2, Begun
<1>9. PageTypeOK' /\ Documents'
  BY <1>1, <1>3, <1>6, <1>7, <1>8 DEF PInv, PageTypeOK, Documents, IInv
<1>10. \A s \in Requests \ {r} :
         InFlight(req[s]) => /\ req[s].browser \in Browsers
                             /\ Awaited(req[s], view[req[s].browser])
                             /\ req[s].browser = b =>
                                  req[s].kind \notin {"refresh", "login"}
  <2> SUFFICES ASSUME NEW s \in Requests \ {r}, InFlight(req[s])
               PROVE  /\ req[s].browser \in Browsers
                      /\ Awaited(req[s], view[req[s].browser])
                      /\ req[s].browser = b => req[s].kind \notin {"refresh", "login"}
    OBVIOUS
  <2>1. req[s].browser \in Browsers /\ Awaited(req[s], view[req[s].browser])
    BY <1>2 DEF TypeOK, InFlight, PInv, Slots
  <2> QED BY <1>1, <2>1 DEF Awaited
<1>11. Slots'
  BY <1>5, <1>6, <1>8, <1>10 DEF PInv, Slots, Paid, Awaited
<1>12. Single'
  BY <1>8, <1>10 DEF PInv, Single, Refreshing
<1> QED BY <1>3, <1>9, <1>11, <1>12 DEF PInv

LEMMA SubmitStep ==
  ASSUME PInv, NEW r \in Requests, NEW b \in Browsers, Submit(r, b)
  PROVE  PInv'
<1>1. /\ view[b].mode = "ready" /\ view[b].path = "/login" /\ Login(r, b)
      /\ UNCHANGED <<view, held>>
  BY DEF Submit, pageVars
<1>2. TypeOK /\ Document(view[b], token[b], held[b])
  BY DocumentOf DEF PInv, PageTypeOK
<1>3. IInv'
  BY <1>1, NextIInv DEF PInv, Next
<1>4. /\ req'[r].browser = b /\ req'[r].kind = "login" /\ req'[r].phase = "await"
      /\ \A s \in Requests \ {r} : req'[s] = req[s]
      /\ UNCHANGED token
  BY <1>1, <1>2, Begun
<1>5. PageTypeOK' /\ Documents'
  BY <1>1, <1>3, <1>4 DEF PInv, PageTypeOK, Documents, IInv
<1>6. Slots'
  BY <1>1, <1>4 DEF PInv, Slots, Paid, Awaited
<1>7. Single'
  BY <1>4 DEF PInv, Single, Refreshing
<1> QED BY <1>3, <1>5, <1>6, <1>7 DEF PInv

\* What an answer changes: its slot, and the document, the token and the
\* accounts of its browser.
LEMMA Arrived ==
  ASSUME PInv, NEW r \in Requests, Arrive(r)
  PROVE  LET b == req[r].browser
         IN  /\ b \in Browsers /\ req'[r] = Idle
             /\ \A s \in Requests \ {r} : req'[s] = req[s]
             /\ \A c \in Browsers \ {b} :
                  view'[c] = view[c] /\ token'[c] = token[c] /\ held'[c] = held[c]
             /\ token'[b] = IF /\ req[r].open /\ req[r].status \in {"ok", "revoked"}
                               /\ req[r].kind # "logout"
                            THEN req[r].token ELSE token[b]
             /\ held'[b] = IF token'[b] = None THEN held[b]
                           ELSE held[b] \cup {token'[b].sub}
<1> DEFINE b == req[r].browser
<1>1. Deliver(r) /\ TypeOK /\ view \in [Browsers -> View] /\ held \in [Browsers -> SUBSET Users]
  BY DEF Arrive, PInv, PageTypeOK
<1>2. b \in Browsers
  BY <1>1 DEF Deliver, TypeOK
<1>3. req'[r] = Idle /\ \A s \in Requests \ {r} : req'[s] = req[s]
  BY <1>1 DEF Deliver, TypeOK
<1>4. \A c \in Browsers \ {b} :
        view'[c] = view[c] /\ token'[c] = token[c] /\ held'[c] = held[c]
  BY <1>1, <1>2 DEF Arrive, Deliver, TypeOK
<1>5. token'[b] = IF /\ req[r].open /\ req[r].status \in {"ok", "revoked"}
                     /\ req[r].kind # "logout"
                  THEN req[r].token ELSE token[b]
  BY <1>1, <1>2 DEF Deliver, TypeOK
<1>6. held'[b] = IF token'[b] = None THEN held[b] ELSE held[b] \cup {token'[b].sub}
  BY <1>1, <1>2 DEF Arrive
<1> QED BY <1>2, <1>3, <1>4, <1>5, <1>6

\* The document of the browser after an answer.
LEMMA ArrivedDocument ==
  ASSUME PInv, NEW r \in Requests, Arrive(r)
  PROVE  LET b == req[r].browser
         IN  /\ view'[b] \in View /\ Document(view'[b], token'[b], held'[b])
             /\ held'[b] \subseteq Users
             /\ Refreshing(req[r], b) \/ view'[b].mode = view[b].mode
<1> DEFINE b == req[r].browser
           q == req[r]
           v == view[b]
           t == token'[b]
           h == held'[b]
<1>1. /\ b \in Browsers /\ q \in Request /\ q.phase = "reply"
      /\ view \in [Browsers -> View]
  BY Arrived DEF Arrive, Deliver, PInv, PageTypeOK, TypeOK
<1>2. /\ v \in View /\ Document(v, token[b], held[b])
      /\ token[b] \in AccessTokens \cup {None} /\ held[b] \subseteq Users
  BY <1>1, DocumentOf
<1>3. /\ t = IF q.open /\ q.status \in {"ok", "revoked"} /\ q.kind # "logout"
             THEN q.token ELSE token[b]
      /\ h = IF t = None THEN held[b] ELSE held[b] \cup {t.sub}
  BY Arrived
<1>4. t \in AccessTokens \cup {None} /\ h \subseteq Users
  BY <1>1, <1>2, <1>3 DEF Request, AccessTokens, Tokens
<1>5. view' = IF ~q.open THEN view
              ELSE IF q.kind = "refresh" THEN [view EXCEPT ![b] = Refreshed(@, q.status)]
              ELSE IF q.kind = "login" /\ q.status = "ok"
              THEN [view EXCEPT ![b] = GoTo(@, "/")]
              ELSE view
  BY DEF Arrive
<1>6. /\ Paid(q) /\ InFlight(q) <=> q.open
      /\ q.open => Awaited(q, v)
  BY <1>1 DEF PInv, Slots, InFlight
<1>7. Document(v, t, h)
      \/ (q.open /\ q.kind = "refresh") \/ (q.open /\ q.kind = "login" /\ t # None /\ t = q.token)
  <2>1. CASE t = token[b]
    <3>1. h = held[b]
      BY <1>2, <1>3, <2>1 DEF Document
    <3> QED BY <1>2, <2>1, <3>1
  <2>2. CASE t # token[b]
    BY <1>1, <1>3, <1>6, <2>2 DEF Paid, Request, Kinds
  <2> QED BY <2>1, <2>2
<1>8. CASE q.open /\ q.kind = "refresh"
  <2>1. v.mode = "spinner"
    BY <1>6, <1>8 DEF Awaited, InFlight
  <2>2. /\ held[b] = {} /\ token[b] = None /\ v.store = None /\ ~v.registering
        /\ v.query.phase = "none"
    BY <1>2, <2>1 DEF Document, Bare
  <2>3. t = None <=> h = {}
    BY <1>3, <2>2
  <2>4. PICK w : w = Refreshed(v, q.status)
    OBVIOUS
  <2>5. view'[b] = w
    BY <1>1, <1>5, <1>8, <2>4
  <2>6. /\ w \in View /\ w.path = v.path /\ w.mode = "ready"
        /\ w.store = v.store /\ w.query = v.query /\ w.registering = v.registering
        /\ w.mounting = (v.path = "/")
    BY <1>2, <2>4 DEF Refreshed, View, Modes
  <2>7. None \notin Users
    BY PageAssumption
  <2>8. AskedFor(w.query, h) /\ Bare(w, h)
    BY <2>2, <2>6 DEF AskedFor, Bare
  <2>9. Document(w, t, h)
    BY <1>3, <2>2, <2>3, <2>6, <2>7, <2>8 DEF Document
  <2> QED BY <1>4, <1>6, <1>8, <2>5, <2>6, <2>9 DEF Refreshing
<1>9. CASE q.open /\ q.kind = "login" /\ t # None /\ t = q.token
  <2>1. v.mode = "ready"
    BY <1>6, <1>9 DEF Awaited, InFlight
  <2>2. h = held[b] \cup {t.sub}
    BY <1>3, <1>9
  <2>3. Document(v, t, h)
    BY <1>2, <1>9, <2>1, <2>2 DEF Document, AskedFor, Bare
  <2>4. CASE q.status = "ok"
    <3>1. view'[b] = GoTo(v, "/")
      BY <1>1, <1>5, <1>9, <2>4
    <3>2. /\ GoTo(v, "/") \in View /\ Document(GoTo(v, "/"), t, h)
          /\ GoTo(v, "/").mode = v.mode
      BY <1>2, <2>3, GoToDocument DEF Paths
    <3> QED BY <1>4, <3>1, <3>2
  <2>5. CASE q.status # "ok"
    BY <1>2, <1>4, <1>5, <1>9, <2>3, <2>5
  <2> QED BY <2>4, <2>5
<1>10. CASE Document(v, t, h) /\ ~(q.open /\ q.kind = "refresh")
  <2>1. CASE q.open /\ q.kind = "login" /\ q.status = "ok"
    <3>1. t = q.token /\ t # None
      BY <1>1, <1>3, <1>6, <2>1 DEF Paid
    <3> QED BY <1>9, <2>1, <3>1
  <2>2. CASE ~(q.open /\ q.kind = "login" /\ q.status = "ok")
    BY <1>2, <1>4, <1>5, <1>10, <2>2
  <2> QED BY <2>1, <2>2
<1> QED BY <1>7, <1>8, <1>9, <1>10

LEMMA ArriveStep ==
  ASSUME PInv, NEW r \in Requests, Arrive(r)
  PROVE  PInv'
<1> DEFINE b == req[r].browser
<1>1. IInv'
  BY NextIInv DEF Arrive, PInv, Next
<1>2. TypeOK /\ view \in [Browsers -> View] /\ held \in [Browsers -> SUBSET Users]
  BY DEF PInv, PageTypeOK
<1>3. /\ b \in Browsers /\ req'[r] = Idle
      /\ \A s \in Requests \ {r} : req'[s] = req[s]
      /\ \A c \in Browsers \ {b} :
           view'[c] = view[c] /\ token'[c] = token[c] /\ held'[c] = held[c]
  BY Arrived
<1>4. /\ view'[b] \in View /\ Document(view'[b], token'[b], held'[b])
      /\ held'[b] \subseteq Users
      /\ Refreshing(req[r], b) \/ view'[b].mode = view[b].mode
  BY ArrivedDocument
<1>5. (\E f : view' = [view EXCEPT ![b] = f] \/ view' = view)
      /\ \E f : held' = [held EXCEPT ![b] = f]
  BY DEF Arrive
<1>6. PageTypeOK'
  BY <1>1, <1>2, <1>3, <1>4, <1>5 DEF PageTypeOK, IInv
<1>7. Documents'
  BY <1>3, <1>4 DEF PInv, Documents
<1>8. ASSUME NEW s \in Requests
      PROVE  /\ Paid(req'[s])
             /\ InFlight(req'[s]) =>
                  /\ InFlight(req[s])
                  /\ req'[s].browser = req[s].browser /\ req'[s].kind = req[s].kind
                  /\ req[s].kind \in {"refresh", "login"} =>
                       view'[req[s].browser].mode = view[req[s].browser].mode
  <2>1. CASE s = r
    BY <1>3, <2>1 DEF Idle, Paid, InFlight
  <2>2. CASE s # r /\ ~InFlight(req[s])
    BY <1>3, <2>2 DEF PInv, Slots
  <2>3. CASE s # r /\ InFlight(req[s]) /\ req[s].browser # b
    <3>1. req[s].browser \in Browsers \ {b}
      BY <1>2, <2>3 DEF TypeOK, InFlight
    <3> QED BY <1>3, <2>3, <3>1 DEF PInv, Slots
  <2>4. CASE s # r /\ InFlight(req[s]) /\ req[s].browser = b
    <3>1. Refreshing(req[r], b) => req[s].kind \notin {"refresh", "login"}
      <4>1. Refreshing(req[r], b) => view[b].mode = "spinner"
        BY DEF PInv, Slots, Refreshing, Awaited
      <4>2. Refreshing(req[r], b) => ~Refreshing(req[s], b)
        BY <1>3, <2>4 DEF PInv, Single
      <4> QED BY <2>4, <4>1, <4>2 DEF PInv, Slots, Refreshing, Awaited
    <3> QED BY <1>3, <1>4, <2>4, <3>1 DEF PInv, Slots
  <2> QED BY <2>1, <2>2, <2>3, <2>4
<1> QED BY <1>1, <1>6, <1>7, <1>8, OngoingStep

\* Requests are cut off: a document whose refresh is among them is stranded.
LEMMA CutStep ==
  ASSUME PInv, IInv', NEW R \in SUBSET Requests, NEW all \in BOOLEAN, Cut(R, all),
         UNCHANGED token,
         \A r \in R : req[r].phase # "idle",
         \A r \in Requests : req'[r] = IF r \in R THEN Idle ELSE req[r]
  PROVE  PInv'
<1> DEFINE failing(v) == all /\ v.query.phase = "sent"
           cut(b) == \E r \in R : req[r].browser = b /\ req[r].open
                                   /\ req[r].kind = "refresh"
           failed == [NoQuery EXCEPT !.phase = "failed"]
           after(v) == IF failing(v) THEN [v EXCEPT !.query = failed] ELSE v
<1>1. TypeOK /\ view \in [Browsers -> View] /\ held \in [Browsers -> SUBSET Users]
  BY DEF PInv, PageTypeOK
<1>2. /\ view' = [b \in Browsers |-> IF cut(b) THEN Stranded(after(view[b]))
                                     ELSE after(view[b])]
      /\ UNCHANGED held
  BY DEF Cut
<1>3. ASSUME NEW b \in Browsers, cut(b)
      PROVE  \E r \in R : Refreshing(req[r], b) /\ view[b].mode = "spinner"
  BY <1>3 DEF PInv, Slots, Refreshing, InFlight, Awaited
<1>4. ASSUME NEW b \in Browsers
      PROVE  /\ view'[b] \in View /\ Document(view'[b], token[b], held[b])
             /\ ~cut(b) => view'[b].mode = view[b].mode
  <2> DEFINE v == view[b]
  <2>1. v \in View /\ Document(v, token[b], held[b])
    BY DocumentOf
  <2>2. failed \in Query /\ failed.phase = "failed"
    BY DEF NoQuery, Query
  <2>3. PICK w : w = after(v)
    OBVIOUS
  <2>4. /\ w \in View /\ w.path = v.path /\ w.mode = v.mode
        /\ w.store = v.store /\ w.mounting = v.mounting
        /\ w.registering = v.registering
        /\ w.query = IF failing(v) THEN failed ELSE v.query
    <3> HIDE DEF failed
    <3> QED BY <2>1, <2>2, <2>3 DEF View
  <2>5. Document(w, token[b], held[b])
    <3> HIDE DEF failed
    <3> QED BY <2>1, <2>2, <2>4 DEF Document, AskedFor, Bare
  <2>6. CASE ~cut(b)
    BY <1>2, <2>3, <2>4, <2>5, <2>6
  <2>7. CASE cut(b)
    <3>1. v.mode = "spinner"
      BY <1>3, <2>7
    <3>2. PICK x : x = Stranded(w)
      OBVIOUS
    <3>3. view'[b] = x
      BY <1>2, <2>3, <2>7, <3>2
    <3>4. /\ x \in View /\ x.path = w.path /\ x.mode = "stranded"
          /\ x.store = w.store /\ x.mounting = w.mounting /\ x.query = w.query
          /\ x.registering = w.registering
      BY <2>4, <3>2 DEF Stranded, View, Modes
    <3>5. Document(x, token[b], held[b])
      BY <2>4, <2>5, <3>1, <3>4 DEF Document, AskedFor, Bare
    <3> QED BY <2>4, <2>7, <3>3, <3>4, <3>5
  <2> QED BY <2>6, <2>7
<1>5. PageTypeOK' /\ Documents'
  BY <1>1, <1>2, <1>4 DEF PageTypeOK, Documents, IInv
<1>6. ASSUME NEW r \in Requests
      PROVE  /\ Paid(req'[r])
             /\ InFlight(req'[r]) =>
                  /\ InFlight(req[r])
                  /\ req'[r].browser = req[r].browser /\ req'[r].kind = req[r].kind
                  /\ req[r].kind \in {"refresh", "login"} =>
                       view'[req[r].browser].mode = view[req[r].browser].mode
    <2>1. CASE r \in R
    BY <2>1 DEF Idle, Paid, InFlight
  <2>2. CASE r \notin R /\ ~InFlight(req[r])
    BY <2>2 DEF PInv, Slots
  <2>3. CASE r \notin R /\ InFlight(req[r])
    <3> DEFINE b == req[r].browser
    <3>1. b \in Browsers
      BY <1>1, <2>3 DEF TypeOK, InFlight
    <3>2. cut(b) => req[r].kind \notin {"refresh", "login"}
      BY <1>3, <2>3, <3>1 DEF PInv, Slots, Single, Refreshing, Awaited
    <3> HIDE DEF cut
    <3> QED BY <1>4, <2>3, <3>1, <3>2 DEF PInv, Slots
  <2> QED BY <2>1, <2>2, <2>3
<1> QED BY <1>5, <1>6, OngoingStep

LEMMA BreakStep ==
  ASSUME PInv, NEW r \in Requests, Break(r)
  PROVE  PInv'
<1>1. Lose(r) /\ Cut({r}, FALSE)
  BY DEF Break
<1>2. IInv'
  BY <1>1, NextIInv DEF PInv, Next
<1>3. /\ UNCHANGED token /\ req[r].phase # "idle"
      /\ \A s \in Requests : req'[s] = IF s \in {r} THEN Idle ELSE req[s]
  BY <1>1 DEF Lose, PInv, IInv, TypeOK
<1> QED BY <1>1, <1>2, <1>3, CutStep

LEMMA RebootStep == PInv /\ Reboot => PInv'
<1> SUFFICES ASSUME PInv, Reboot PROVE PInv'
  OBVIOUS
<1> DEFINE R == {r \in Requests : req[r].phase \in {"await", "read"}}
<1>1. Restart /\ Cut(R, TRUE)
  BY DEF Reboot
<1>2. IInv'
  BY <1>1, NextIInv DEF PInv, Next
<1>3. /\ UNCHANGED token /\ \A r \in R : req[r].phase # "idle"
      /\ \A r \in Requests : req'[r] = IF r \in R THEN Idle ELSE req[r]
  BY <1>1 DEF Restart
<1> HIDE DEF R
<1>4. R \in SUBSET Requests
  BY DEF R
<1> QED BY <1>1, <1>2, <1>3, <1>4, CutStep

-----------------------------------------------------------------------------
(* The invariant, and what it gives.                                       *)

LEMMA InitPInv == PageInit => PInv
<1> SUFFICES ASSUME PageInit PROVE PInv
  OBVIOUS
<1>1. IInv
  BY InitIInv DEF PageInit
<1>2. \A b \in Browsers : view[b] \in View /\ Document(view[b], None, {})
  BY FreshDocument DEF PageInit
<1>3. PageTypeOK
  BY <1>1, FreshDocument DEF PageInit, PageTypeOK, IInv
<1>4. Documents
  BY <1>2 DEF PageInit, Init, Documents
<1>5. Slots /\ Single
  BY DEF PageInit, Init, Idle, Slots, Single, Paid, Refreshing, InFlight
<1> QED BY <1>1, <1>3, <1>4, <1>5 DEF PInv

LEMMA NextPInv == PInv /\ [PageNext]_pageAll => PInv'
<1> SUFFICES ASSUME PInv, [PageNext]_pageAll PROVE PInv'
  OBVIOUS
<1>1. CASE Elsewhere \/ UNCHANGED pageAll
  BY <1>1, ElsewhereStep
<1>2. CASE Reboot
  BY <1>2, RebootStep
<1>3. ASSUME NEW r \in Requests, Arrive(r) \/ Break(r)
      PROVE  PInv'
  BY <1>3, ArriveStep, BreakStep
<1>4. ASSUME NEW b \in Browsers, NEW r \in Requests, AskRefresh(r, b) \/ Submit(r, b)
      PROVE  PInv'
  BY <1>4, AskRefreshStep, SubmitStep
<1>5. ASSUME NEW b \in Browsers,
             \/ Load(b) \/ LoadQuery(b) \/ AnswerQuery(b) \/ TakeAnswer(b)
             \/ LoseQuery(b) \/ Collect(b) \/ Register(b) \/ Registered(b) \/ Back(b)
      PROVE  PInv'
  BY <1>5, LoadStep, LoadQueryStep, AnswerQueryStep, EndQueryStep, WalkStep
<1> QED BY <1>1, <1>2, <1>3, <1>4, <1>5 DEF PageNext

LEMMA PageInductive == PageSpec => []PInv
BY InitPInv, NextPInv, PTL DEF PageSpec

\* Documents keep their shape: a store has only accounts and null in it, and a
\* query only tokens that were given.
THEOREM PageTypeCorrect == PageSpec => []PageTypeOK
BY PageInductive, PTL DEF PInv

\* Whatever answers overtake each other, and whenever the page is loaded again,
\* it names no account whose token its document has not had.
THEOREM OnlyHeldIsShown == PageSpec => []ShownWasHeld
<1>1. PInv => ShownWasHeld
  <2> SUFFICES ASSUME PInv, NEW b \in Browsers, Shown(b) # None
               PROVE  Shown(b) \in held[b]
    BY DEF ShownWasHeld
  <2> QED BY DEF Shown, PInv, Documents, Document
<1> QED BY <1>1, PageInductive, PTL

\* No step sends a query without a token from a document that has had one.
LEMMA AskedStep ==
  ASSUME PInv, [PageNext]_pageAll, NEW b \in Browsers,
         view[b].query.phase # "sent", view'[b].query.phase = "sent",
         held[b] # {}
  PROVE  view'[b].query.token # None
<1>1. view \in [Browsers -> View] /\ token[b] # None
  BY DocumentOf DEF PInv, PageTypeOK, Document
<1>2. view'[b].query # view[b].query
  OBVIOUS
<1>3. ASSUME NEW c \in Browsers, NEW w, Show(c, w),
             w.query = view[c].query \/ w.query.phase # "sent"
      PROVE  FALSE
  BY <1>1, <1>2, <1>3 DEF Show
<1>4. CASE (\E r \in Requests : Break(r)) \/ Reboot
  <2>1. PICK R, all : Cut(R, all)
    BY <1>4 DEF Break, Reboot
  <2>2. view'[b].query = view[b].query \/ view'[b].query.phase = "failed"
    BY <1>1, <2>1 DEF Cut, Stranded, View, NoQuery
  <2> QED BY <1>2, <2>2
<1>5. CASE \E r \in Requests : Arrive(r)
  <2>1. PICK r \in Requests : Arrive(r)
    BY <1>5
  <2>2. view'[b].query = view[b].query
    BY <1>1, <2>1 DEF Arrive, Refreshed, GoTo, View
  <2> QED BY <1>2, <2>2
<1>6. ASSUME NEW c \in Browsers, Load(c)
      PROVE  FALSE
  BY <1>1, <1>2, <1>6 DEF Load, Fresh, NoQuery
<1>7. ASSUME NEW c \in Browsers, NEW r \in Requests,
             AskRefresh(r, c) \/ Submit(r, c)
      PROVE  FALSE
  BY <1>1, <1>2, <1>7 DEF AskRefresh, Submit, pageVars, View
<1>8. ASSUME NEW c \in Browsers, LoadQuery(c)
      PROVE  view'[b].query.token # None
  <2>1. view[c] \in View
    BY <1>1
  <2>2. PICK query \in {view[c].query, [NoQuery EXCEPT !.phase = "sent",
                                                       !.token = token[c]]} :
          Show(c, [view[c] EXCEPT !.mounting = FALSE, !.query = query])
    BY <1>8 DEF LoadQuery
  <2>3. [view[c] EXCEPT !.mounting = FALSE, !.query = query].query = query
    BY <2>1 DEF View
  <2>4. query # view[c].query
    BY <1>3, <2>2, <2>3
  <2>5. c = b
    BY <1>1, <1>2, <2>2 DEF Show
  <2>6. view'[b].query = query
    BY <1>1, <2>2, <2>3, <2>5 DEF Show
  <2>7. query.token = token[b]
    BY <2>2, <2>4, <2>5 DEF NoQuery
  <2> QED BY <1>1, <2>6, <2>7
<1>9. ASSUME NEW c \in Browsers,
             AnswerQuery(c) \/ TakeAnswer(c) \/ LoseQuery(c) \/ Collect(c)
      PROVE  FALSE
  <2>1. view[c] \in View /\ view[c].query \in Query
    BY <1>1 DEF View
  <2>2. CASE AnswerQuery(c)
    <3>1. PICK u : Show(c, [view[c] EXCEPT !.query.phase = "answered",
                                           !.query.result = u])
      BY <2>2 DEF AnswerQuery
    <3>2. [view[c] EXCEPT !.query.phase = "answered",
                          !.query.result = u].query.phase = "answered"
      BY <2>1 DEF View, Query
    <3> QED BY <1>3, <3>1, <3>2
  <2>3. CASE TakeAnswer(c) \/ LoseQuery(c)
    BY <1>3, <2>1, <2>3 DEF TakeAnswer, LoseQuery, NoQuery, View
  <2>4. CASE Collect(c)
    BY <1>3, <2>1, <2>4 DEF Collect, View
  <2> QED BY <1>9, <2>2, <2>3, <2>4
<1>10. ASSUME NEW c \in Browsers, Register(c) \/ Registered(c) \/ Back(c)
       PROVE  FALSE
  <2>1. view[c] \in View
    BY <1>1
  <2>2. ASSUME NEW p
        PROVE  /\ GoTo(view[c], p).query = view[c].query
               /\ [GoTo(view[c], p) EXCEPT !.registering = FALSE].query =
                    view[c].query
    BY <2>1 DEF GoTo, View
  <2>3. CASE Register(c)
    BY <1>3, <2>1, <2>3 DEF Register, View
  <2>4. CASE Registered(c)
    <3>1. PICK w \in {view[c], GoTo(view[c], "/login")} :
            Show(c, [w EXCEPT !.registering = FALSE])
      BY <2>4 DEF Registered
    <3>2. [w EXCEPT !.registering = FALSE].query = view[c].query
      BY <2>1, <2>2, <3>1 DEF View
    <3> QED BY <1>3, <3>1, <3>2
  <2>5. CASE Back(c)
    BY <1>3, <2>2, <2>5 DEF Back
  <2> QED BY <1>10, <2>3, <2>4, <2>5
<1>11. CASE Elsewhere \/ UNCHANGED pageAll
  BY <1>2, <1>11 DEF Elsewhere, pageAll, pageVars
<1> QED BY <1>4, <1>5, <1>6, <1>7, <1>8, <1>9, <1>10, <1>11 DEF PageNext

\* No answer, of whatever login or refresh and in whatever order, takes the
\* token from a document that has had one, and no query leaves without it; a
\* reload is the only end of it.
THEOREM AskedAsSomeone == PageSpec => AsksAsSomeone
<1>1. ASSUME PInv, [PageNext]_pageAll
      PROVE  [\A b \in Browsers :
                /\ view[b].query.phase # "sent" /\ view'[b].query.phase = "sent"
                /\ held[b] # {}
                => view'[b].query.token # None]_pageAll
  BY <1>1, AskedStep
<1> QED BY <1>1, PageInductive, PTL DEF PageSpec, AsksAsSomeone

\* There is no query, and nothing in the store, before the refresh of the
\* document is answered.
THEOREM AskedAfterRefresh == PageSpec => []AsksAfterRefresh
<1>1. PInv => AsksAfterRefresh
  BY DEF PInv, PageTypeOK, TypeOK, Documents, Document, Bare, Slots, InFlight, Awaited,
         AsksAfterRefresh
<1> QED BY <1>1, PageInductive, PTL

\* What Sessions promises holds behind the page: a session starts with a login
\* of its browser.
THEOREM PageSessionsStartWithLogin == PageSpec => []SessionsStartWithLogin
BY PageImplementsSessions, LoginStartsSession, PTL

\* ... and an answer that gives an access token gives the cookie with it.
THEOREM PageSessionIsGivenWhole == PageSpec => []SessionIsGivenWhole
BY PageImplementsSessions, SessionGivenWhole, PTL
=============================================================================
