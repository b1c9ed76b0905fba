------------------------------ MODULE Pipeline ------------------------------
(***************************************************************************)
(* A request on its way through the daemon: handler::handle and the routes *)
(* (server/core/handler.rs, server/core/routes.rs), the message that is    *)
(* cloned twice for juniper (server/core/message.rs), and the fields of a  *)
(* GraphQL operation, which juniper resolves concurrently on one of the    *)
(* clones (server/core/graphql.rs, server/custom/schema.rs).               *)
(*                                                                         *)
(* Requests share nothing they write here, so one is modelled, and then    *)
(* the next.  What the resolvers and the refresh route read and write in   *)
(* Redis is in Accounts and Sessions, the sending of files in StaticFiles: *)
(* here a call to Redis or to the disk has every outcome.                  *)
(***************************************************************************)
CONSTANTS
  Fields,   \* the fields of an operation, by their aliases
  Users,    \* accounts
  None

VARIABLES
  req,       \* the request
  phase,     \* what its handler awaits
  body,      \* what is left of the body: "coming", "whole", or "broken"
  context,   \* JuniperContext.message: its headers, and its cookie jar's delta
  field,     \* what has become of each field
  jar,       \* the delta of Message.cookies
  res,       \* status and body of the response
  last       \* history: the account whose session was created last, or None

vars == <<req, phase, body, context, field, jar, res, last>>

ASSUME PipelineAssumption == None \notin Users

-----------------------------------------------------------------------------
Routes  == {"refresh", "graphql", "web"}
Methods == {"GET", "POST", "other"}

\* The fields of the schema as far as they differ here: a login or a creation
\* waits for Redis, logoutUser does not, readCurrentUser looks at the headers.
Mutations == {"login", "create", "logout"}
Queries   == {"current"}

Operations == [Fields -> Mutations \cup {"absent"}]
                \cup [Fields -> Queries \cup {"absent"}]

\* What is in the body: an operation, or None if juniper cannot read it.
\* authorized: the request has an access token that is valid.
Request == [route : Routes, method : Methods, content : Operations \cup {None},
            authorized : BOOLEAN]

Phases == {"idle", "clone", "execute", "fields", "elsewhere", "done"}

Context == [headers : {"own", "default"}, delta : Users \cup {None}]

States  == {"unstarted", "waiting", "value", "error"}

Response == [status : {200, 400, 401, 403, 405, 500},
             body : {"empty", "page", "error", "data", "null", "token"}]

Silent == [status |-> 200, body |-> "empty"]

Untouched == [headers |-> "own", delta |-> None]

TypeOK ==
  /\ req \in Request
  /\ phase \in Phases
  /\ body \in {"coming", "whole", "broken"}
  /\ context \in Context
  /\ field \in [Fields -> States]
  /\ jar \in Users \cup {None}
  /\ res \in Response
  /\ last \in Users \cup {None}
  /\ phase = "fields" => req.content # None

NoRequest == [route |-> "web", method |-> "GET", content |-> None,
              authorized |-> FALSE]

Init ==
  /\ req = NoRequest
  /\ phase = "idle"
  /\ body = "coming"
  /\ context = Untouched
  /\ field = [f \in Fields |-> "unstarted"]
  /\ jar = None
  /\ res = Silent
  /\ last = None

-----------------------------------------------------------------------------
(* Routes.                                                                 *)

\* The methods of a route.
Allowed(route) == CASE route = "refresh" -> {"POST"}
                    [] route = "graphql" -> {"GET", "POST"}
                    [] route = "web"     -> {"GET"}

\* The handler returns; the response is as it is.
Respond(status, text) ==
  /\ phase' = "done"
  /\ res' = [status |-> status, body |-> text]

\* handler::handle on an error: 500 and an empty body; the cookie jar stays.
Fail ==
  /\ Respond(500, "empty")
  /\ UNCHANGED <<req, body, context, field, jar, last>>

\* A request arrives and is routed.
Arrive(q) ==
  /\ phase = "idle"
  /\ req' = q
  /\ \/ q.method \notin Allowed(q.route) /\ Respond(405, "empty")
     \/ q.route = "graphql" /\ q.method = "GET" /\ Respond(200, "page")
     \/ /\ q.route = "graphql" /\ q.method = "POST"
        /\ phase' = "clone" /\ UNCHANGED res
     \/ /\ q.route # "graphql" /\ q.method \in Allowed(q.route)
        /\ phase' = "elsewhere" /\ UNCHANGED res
  /\ UNCHANGED <<body, context, field, jar, last>>

\* web::get, as far as its answer goes: a file, or an error.
SendFile ==
  /\ phase = "elsewhere" /\ req.route = "web"
  /\ Respond(200, "page")
  /\ UNCHANGED <<req, body, context, field, jar, last>>

\* Mutant of RefuseRefresh: the cookie is renewed before it is verified.
RenewRefused ==
  /\ phase = "elsewhere" /\ req.route = "refresh"
  /\ \/ Respond(401, "empty") /\ UNCHANGED <<jar, last>>
     \/ Respond(403, "empty") /\ \E u \in Users : jar' = u /\ last' = u
  /\ UNCHANGED <<req, body, context, field>>

\* jwt_refresh::post without an await: no cookie, or one that does not verify.
RefuseRefresh ==
  /\ phase = "elsewhere" /\ req.route = "refresh"
  /\ Respond(401, "empty") \/ Respond(403, "empty")
  /\ UNCHANGED <<req, body, context, field, jar, last>>

\* jwt_refresh::post after JSON.GET: the token "" and no cookie; or a cookie,
\* and then an access token, unless making it fails (Fail keeps the cookie).
Refresh ==
  /\ phase = "elsewhere" /\ req.route = "refresh"
  /\ \/ Respond(200, "token") /\ UNCHANGED <<jar, last>>
     \/ /\ Respond(200, "token") \/ Respond(500, "empty")
        /\ \E u \in Users : jar' = u /\ last' = u
  /\ UNCHANGED <<req, body, context, field>>

\* JSON.GET, or a look at the disk, fails.
FailElsewhere == phase = "elsewhere" /\ Fail

-----------------------------------------------------------------------------
(* gql::post.                                                              *)

\* hyper::body::to_bytes: all of the body, or an error, after which nothing of
\* it is left.
ReadBody(left) ==
  \/ body = "coming" /\ left \in {"whole", "broken"}
  \/ body # "coming" /\ left = body

\* Mutant of Clone: what has come of a broken body is put back.
CloneKeeping ==
  /\ phase = "clone"
  /\ \E left \in {"whole", "broken"} :
       /\ ReadBody(left)
       /\ body' = "whole"
       /\ context' = [headers |-> IF left = "whole" THEN "own" ELSE "default",
                      delta |-> jar]
  /\ phase' = "execute"
  /\ UNCHANGED <<req, field, jar, res, last>>

\* message.clone() for the context: if the body cannot be read the clone has
\* a default request, without the headers of this one.
Clone ==
  /\ phase = "clone"
  /\ \E left \in {"whole", "broken"} :
       /\ ReadBody(left)
       /\ body' = left
       /\ context' = [headers |-> IF left = "whole" THEN "own" ELSE "default",
                      delta |-> jar]
  /\ phase' = "execute"
  /\ UNCHANGED <<req, field, jar, res, last>>

\* Mutant of Reject: a body that broke is waited for.
RejectUnreadable ==
  /\ phase = "execute"
  /\ body = "whole" /\ req.content = None
  /\ Respond(400, "error")
  /\ UNCHANGED <<req, body, context, field, jar, last>>

\* message.clone() for the request juniper executes, and juniper's reading of
\* it: 400 if there is no operation in what is left of the body.
Reject ==
  /\ phase = "execute"
  /\ body = "broken" \/ req.content = None
  /\ Respond(400, "error")
  /\ UNCHANGED <<req, body, context, field, jar, last>>

\* auth::util::authenticate, on the headers of the context.
Authenticated == context.headers = "own" /\ req.authorized

\* CookieJar::remove of a cookie the request did not carry: it only takes an
\* added one back.
Remove(delta) == None

\* Every field runs to its first await.
Started(kind) ==
  CASE kind = "absent"  -> "unstarted"
    [] kind = "logout"  -> "value"
    [] kind = "current" -> IF Authenticated THEN "waiting" ELSE "error"
    [] OTHER            -> "waiting"

\* Mutant of Execute: a body that cannot be read is an operation without fields.
ExecuteUnread ==
  /\ phase = "execute"
  /\ body # "broken"
  /\ field' = [f \in Fields |-> IF req.content = None THEN "unstarted"
                                                      ELSE Started(req.content[f])]
  /\ phase' = "fields"
  /\ UNCHANGED <<req, body, context, jar, res, last>>

Execute ==
  /\ phase = "execute"
  /\ body # "broken" /\ req.content # None
  /\ field' = [f \in Fields |-> Started(req.content[f])]
  /\ context' = [context EXCEPT !.delta =
                   IF \E f \in Fields : req.content[f] = "logout"
                   THEN Remove(@) ELSE @]
  /\ phase' = "fields"
  /\ UNCHANGED <<req, body, jar, res, last>>

\* The password is right: a cookie is added to the context's jar, and the field
\* has its token, or an error if the access token cannot be made.
Login(f) ==
  /\ phase = "fields"
  /\ field[f] = "waiting" /\ req.content[f] = "login"
  /\ \E u \in Users : context' = [context EXCEPT !.delta = u] /\ last' = u
  /\ \E is \in {"value", "error"} : field' = [field EXCEPT ![f] = is]
  /\ UNCHANGED <<req, phase, body, jar, res>>

\* Any other field has its value, or a field fails.
Resolve(f) ==
  /\ phase = "fields"
  /\ field[f] = "waiting"
  /\ \/ req.content[f] # "login" /\ field' = [field EXCEPT ![f] = "value"]
     \/ field' = [field EXCEPT ![f] = "error"]
  /\ UNCHANGED <<req, phase, body, context, jar, res, last>>

\* Mutations are non-null, so that one error leaves no data at all.
Data ==
  IF \E f \in Fields : field[f] = "error" /\ req.content[f] \in Mutations
  THEN "null" ELSE "data"

\* Mutant of Finish: the cookies are copied if there is data.
FinishWithData ==
  /\ phase = "fields"
  /\ \A f \in Fields : field[f] # "waiting"
  /\ jar' = IF Data = "data" THEN context.delta ELSE jar
  /\ Respond(200, Data)
  /\ UNCHANGED <<req, body, context, field, last>>

\* All fields are there: the changes of the context's cookies are added to
\* the message, and its response is juniper's.
Finish ==
  /\ phase = "fields"
  /\ \A f \in Fields : field[f] # "waiting"
  /\ jar' = IF context.delta = None THEN jar ELSE context.delta
  /\ Respond(200, Data)
  /\ UNCHANGED <<req, body, context, field, last>>

-----------------------------------------------------------------------------
\* Message::done; the response is sent, or the connection has broken, and the
\* next request has a message of its own.
Forget ==
  /\ phase # "idle"
  /\ req' = NoRequest /\ phase' = "idle" /\ body' = "coming"
  /\ context' = Untouched
  /\ field' = [f \in Fields |-> "unstarted"]
  /\ jar' = None /\ res' = Silent /\ last' = None

Next ==
  \/ \E q \in Request : Arrive(q)
  \/ SendFile \/ RefuseRefresh \/ Refresh \/ FailElsewhere
  \/ Clone \/ Reject \/ Execute
  \/ \E f \in Fields : Login(f) \/ Resolve(f)
  \/ Finish
  \/ Forget

Spec == Init /\ [][Next]_vars

-----------------------------------------------------------------------------
(* Properties.                                                             *)

\* A field is executed only on behalf of the request it came with: the body
\* came whole, so that the context, whose clone of the message would else be a
\* default one, has the headers by which the caller is known.  The two clones
\* may see different bodies; they never see one that is cut short.
ExecutesForCaller ==
  (\E f \in Fields : field[f] # "unstarted") =>
    body = "whole" /\ context.headers = "own"

\* An answer has a refresh cookie exactly if a session was created for it, and
\* then that of the session created last, whatever fields fail beside the login,
\* log out in the same operation, or leave no data.
AnswerCarriesSession == phase = "done" => jar = last

\* A refusal starts no session: a cookie comes only from an operation with a
\* login in it, or from a refresh that was granted; it is there although fields
\* failed, and, of all other errors, only with the 500 of a refresh whose access
\* token could not be made.
RefusalsStartNoSession ==
  phase = "done" /\ jar # None =>
    \/ /\ req.route = "graphql" /\ res.status = 200
       /\ \E f \in Fields : req.content[f] = "login"
    \/ req.route = "refresh" /\ res.status \in {200, 500}
=============================================================================
