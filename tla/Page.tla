-------------------------------- MODULE Page --------------------------------
(***************************************************************************)
(* The React page in front of Sessions: the spinner that waits for the     *)
(* first refresh (components/App.tsx, Core/Refresh.tsx), the query of the  *)
(* home page and Relay's store behind it (Pages/Index.tsx, client.ts), the *)
(* login and register forms (Pages/Lazy), and the browser's history.       *)
(*                                                                         *)
(* A browser has one document at a time.  Links do not exist: a document   *)
(* changes its path when a form is answered, and by Back and Forward.  The *)
(* entries that a document pushes on the history outlive it (a reload, and *)
(* a return to it from elsewhere, make another document of the same        *)
(* entries), so that any path may be behind or before a document.          *)
(* Loading bars, head elements and the fields of the forms are left out.   *)
(***************************************************************************)
EXTENDS Sessions

VARIABLES
  view,   \* what the document of a browser is showing and waiting for
  held    \* history: the accounts whose tokens this document has had

pageVars == <<view, held>>

Paths == {"/", "/login", "/register"}

\* "blank": rendered, its effects not run yet; "spinner": waiting for the
\* first refresh; "stranded": the fetch was rejected, and the spinner stays.
Modes == {"blank", "spinner", "ready", "stranded"}

\* readCurrentUser as Relay has it: null, or an account.
Null == "null"
Answers == Users \cup {Null}

ASSUME PageAssumption == {Null, None} \cap Users = {} /\ Null # None

\* "sent" with a token; "answered" by the server; "failed": fetch rejected.
NoQuery == [phase |-> "none", token |-> None, result |-> None]

Query == [phase : {"none", "sent", "answered", "failed"},
          token : AccessTokens \cup {None}, result : Answers \cup {None}]

View == [path : Paths,
         mode : Modes,
         mounting : BOOLEAN,           \* the home page's effect is to run
         store : Answers \cup {None},  \* Relay.Store, or None
         query : Query,                \* IndexQuery
         registering : BOOLEAN]        \* RegisterMutation is in flight

PageTypeOK ==
  /\ TypeOK
  /\ view \in [Browsers -> View]
  /\ held \in [Browsers -> SUBSET Users]

\* A new document: client.ts runs again.
Fresh(p) ==
  [path |-> p, mode |-> "blank", mounting |-> FALSE,
   store |-> None, query |-> NoQuery, registering |-> FALSE]

PageInit ==
  /\ Init
  /\ view \in [Browsers -> {Fresh(p) : p \in Paths}]
  /\ held = [b \in Browsers |-> {}]

\* The page of b changes, and no session does.
Show(b, v) ==
  /\ view' = [view EXCEPT ![b] = v]
  /\ UNCHANGED <<vars, held>>

-----------------------------------------------------------------------------
(* Loading.                                                                *)

\* Mutant of Load: the store outlives the document.
LoadKeeping(b) ==
  \E p \in Paths :
    /\ Reload(b)
    /\ view' = [view EXCEPT ![b] = [Fresh(p) EXCEPT !.store = view[b].store]]
    /\ held' = [held EXCEPT ![b] = {}]

\* The user opens a path, loads the page again, or goes back to a document that
\* has been left.
Load(b) ==
  \E p \in Paths :
    /\ Reload(b)
    /\ view' = [view EXCEPT ![b] = Fresh(p)]
    /\ held' = [held EXCEPT ![b] = {}]

\* App's effect: fetchRefresh.
AskRefresh(r, b) ==
  /\ view[b].mode = "blank"
  /\ Refresh(r, b)
  /\ view' = [view EXCEPT ![b].mode = "spinner"]
  /\ UNCHANGED held

\* Mutant of GoTo: the home page asks only in a document that began with it.
GoToQuietly(v, p) == [v EXCEPT !.path = p]

\* The path becomes p.  Once the spinner has gone the home page is mounted with
\* it, or unmounted with an effect that has not run.
GoTo(v, p) ==
  [v EXCEPT !.path = p,
            !.mounting = v.mode = "ready" /\ p = "/" /\ (v.path = "/" => v.mounting)]

\* Mutant of Refreshed: the spinner goes only if the answer is ok.
RefreshedIfOk(v, status) ==
  IF status # "ok" THEN v
  ELSE [v EXCEPT !.mode = "ready", !.mounting = v.path = "/"]

\* fetchRefresh returns, whatever the status; setLoading(false) shows the page.
Refreshed(v, status) == [v EXCEPT !.mode = "ready", !.mounting = v.path = "/"]

\* fetch rejects: the await in useRefresh throws, and setLoading is not called.
Stranded(v) == [v EXCEPT !.mode = "stranded"]

-----------------------------------------------------------------------------
(* Answers and broken connections.                                         *)

\* The response of r arrives.  A login with data stores the token and goes to
\* the home page; without data (loginUser is non-null) the form is cleared.
Arrive(r) ==
  LET q == req[r]
      b == q.browser
  IN  /\ Deliver(r)
      /\ view' = IF ~q.open THEN view
                 ELSE IF q.kind = "refresh"
                 THEN [view EXCEPT ![b] = Refreshed(@, q.status)]
                 ELSE IF q.kind = "login" /\ q.status = "ok"
                 THEN [view EXCEPT ![b] = GoTo(@, "/")]
                 ELSE view
      /\ held' = [held EXCEPT ![b] = IF token'[b] = None THEN @
                                     ELSE @ \cup {token'[b].sub}]

\* The requests of slots R are cut off, and if all is set the queries too.
Cut(R, all) ==
  /\ view' = [b \in Browsers |->
       LET v == view[b]
           w == IF all /\ v.query.phase = "sent"
                THEN [v EXCEPT !.query = [NoQuery EXCEPT !.phase = "failed"]]
                ELSE v
       IN  IF \E r \in R : req[r].browser = b /\ req[r].open
                             /\ req[r].kind = "refresh"
           THEN Stranded(w) ELSE w]
  /\ UNCHANGED held

Break(r) == Lose(r) /\ Cut({r}, FALSE)

Reboot ==
  /\ Restart
  /\ Cut({r \in Requests : req[r].phase \in {"await", "read"}}, TRUE)

-----------------------------------------------------------------------------
(* The home page.                                                          *)

\* loadQuery({}): what is in the store is shown (Relay's store-or-network); a
\* request in flight is shared; otherwise the query goes out with the token.
LoadQuery(b) ==
  LET v == view[b]
      known == v.store # None \/ v.query.phase \in {"sent", "answered"}
  IN  /\ v.mounting
      /\ Show(b, [v EXCEPT !.mounting = FALSE,
                    !.query = IF known THEN @
                              ELSE [NoQuery EXCEPT !.phase = "sent",
                                                   !.token = token[b]]])

\* read_current_user: the account of a token that verifies and whose document
\* Redis has, or an error, which leaves null.
AnswerQuery(b) ==
  LET q == view[b].query
      known == q.token # None /\ Verify(q.token) /\ jti[q.token.sub] # None
  IN  /\ q.phase = "sent"
      /\ \E u \in Answers :
           /\ u # Null => known /\ u = q.token.sub
           /\ Show(b, [view[b] EXCEPT !.query.phase = "answered",
                                      !.query.result = u])

\* Relay takes the answer into its store, wherever the document is now.
TakeAnswer(b) ==
  /\ view[b].query.phase = "answered"
  /\ Show(b, [view[b] EXCEPT !.query = NoQuery,
                             !.store = view[b].query.result])

\* The query's connection breaks, or Relay drops it with a page that is left.
\* The home page shows the fallback of its error boundary.
LoseQuery(b) ==
  /\ view[b].query.phase \in {"sent", "answered"}
  /\ Show(b, [view[b] EXCEPT !.query = [NoQuery EXCEPT !.phase = "failed"]])

\* Relay may collect what no mounted page retains.
Collect(b) ==
  /\ view[b].path # "/" /\ view[b].store # None
  /\ Show(b, [view[b] EXCEPT !.store = None])

-----------------------------------------------------------------------------
(* The forms, and the history.                                             *)

\* The login form is submitted; nothing keeps it from being submitted again.
Submit(r, b) ==
  /\ view[b].mode = "ready" /\ view[b].path = "/login"
  /\ Login(r, b)
  /\ UNCHANGED pageVars

Register(b) ==
  /\ view[b].mode = "ready" /\ view[b].path = "/register"
  /\ ~view[b].registering
  /\ Show(b, [view[b] EXCEPT !.registering = TRUE])

\* createUser is answered with an account, wherever the document is now, or
\* with an error.
Registered(b) ==
  /\ view[b].registering
  /\ \E w \in {view[b], GoTo(view[b], "/login")} :
       Show(b, [w EXCEPT !.registering = FALSE])

\* Mutant of Back: the page that Back comes to is mounted behind the spinner.
BackMounting(b) ==
  \E p \in Paths \ {view[b].path} :
    Show(b, [GoTo(view[b], p) EXCEPT !.mounting = p = "/"])

\* Back or Forward to another entry of this document, behind the spinner too:
\* BrowserRouter changes its location, and nothing is loaded.
Back(b) ==
  \E p \in Paths \ {view[b].path} : Show(b, GoTo(view[b], p))

\* The handlers, the clock, and what others do with Redis.
Elsewhere ==
  /\ \/ \E r \in Requests : \/ Read(r) \/ GrantLogin(r) \/ GrantRefresh(r)
                            \/ DenyRefresh(r) \/ Fail(r)
     \/ \E u \in Users : Revoke(u) \/ LoseDocument(u)
     \/ Tick
  /\ UNCHANGED pageVars

PageNext ==
  \/ \E b \in Browsers :
       \/ Load(b) \/ LoadQuery(b) \/ AnswerQuery(b) \/ TakeAnswer(b)
       \/ LoseQuery(b) \/ Collect(b) \/ Register(b) \/ Registered(b) \/ Back(b)
       \/ \E r \in Requests : AskRefresh(r, b) \/ Submit(r, b)
  \/ \E r \in Requests : Arrive(r) \/ Break(r)
  \/ Reboot
  \/ Elsewhere

pageAll == <<vars, pageVars>>

\* Effects run, and every request is answered or cut off: Redis answers the
\* handlers, and their responses arrive.  Users need not do anything.
PageFairness ==
  /\ \A b \in Browsers :
       /\ WF_pageAll(LoadQuery(b)) /\ WF_pageAll(AnswerQuery(b))
       /\ WF_pageAll(TakeAnswer(b))
  /\ \A r \in Requests :
       /\ WF_pageAll(Read(r) /\ UNCHANGED pageVars)
       /\ WF_pageAll(/\ GrantLogin(r) \/ GrantRefresh(r) \/ DenyRefresh(r)
                          \/ Fail(r)
                     /\ UNCHANGED pageVars)
       /\ WF_pageAll(Arrive(r))

PageSpec == PageInit /\ [][PageNext]_pageAll /\ PageFairness

-----------------------------------------------------------------------------
(* Properties.                                                             *)

\* "Logged in as ...", or None for "Not logged in" and the spinner.
Shown(b) ==
  LET v == view[b]
  IN  IF v.mode = "ready" /\ v.path = "/" /\ v.store \in Users THEN v.store
                                                              ELSE None

\* The page names only accounts whose token its document has had.  (Not more:
\* the account may be that of an earlier login of the same document, since
\* the store is not emptied by a login, or of one of two logins submitted.)
ShownWasHeld ==
  \A b \in Browsers : Shown(b) # None => Shown(b) \in held[b]

\* A document that has had a token asks with one: no answer, of whatever login
\* or refresh and in whatever order, takes the token from the home page.  (A
\* query sent before the login may still leave its null in the store, where no
\* login replaces it: the page says "Not logged in" until it is loaded again.)
AsksAsSomeone ==
  [][\A b \in Browsers :
       /\ view[b].query.phase # "sent" /\ view'[b].query.phase = "sent"
       /\ held[b] # {}
       => view'[b].query.token # None]_pageAll

\* The home page asks with what the refresh has given: while the refresh of the
\* document is not answered there is no query, also after a reload in between
\* and after Back and Forward behind the spinner.
AsksAfterRefresh ==
  \A b \in Browsers, r \in Requests :
    /\ req[r].phase # "idle" /\ req[r].kind = "refresh" /\ req[r].open
    /\ req[r].browser = b
    => view[b].query.phase = "none" /\ view[b].store = None

\* The spinner goes when the refresh is answered, whatever the answer, unless
\* the connection breaks: then it stays until the page is loaded again.
LoadingEnds ==
  \A b \in Browsers :
    view[b].mode = "spinner" ~> view[b].mode \in {"ready", "stranded", "blank"}

\* The home page comes to show an account or that there is none, or the error
\* boundary's fallback, or is left.
HomeSettles ==
  \A b \in Browsers :
    view[b].mode = "ready" /\ view[b].path = "/" /\ view[b].store = None
      ~> \/ view[b].mode # "ready" \/ view[b].path # "/"
         \/ view[b].store # None \/ view[b].query.phase = "failed"
=============================================================================
