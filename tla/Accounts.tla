------------------------------ MODULE Accounts ------------------------------
(***************************************************************************)
(* The user directory of the turtle server: the GraphQL resolvers of       *)
(* server/custom/schema.rs, run concurrently by the tasks hyper spawns, on *)
(* the RedisJSON documents nodes:users:<uuid> and the RediSearch index     *)
(* "users" over $.email (server/custom/redis.rs, server/core/redis.rs),    *)
(* with crashes and restarts of the daemon and of Redis.                   *)
(*                                                                         *)
(* A resolver runs without interruption from one await to the next, and    *)
(* every await is a call to Redis, so an action is the code from one Redis *)
(* reply to the next command sent.  Opening the connection (an await too)  *)
(* is part of the call it serves: neither has an effect of its own.        *)
(***************************************************************************)
EXTENDS Naturals, FiniteSets

CONSTANTS
  Requests,         \* GraphQL operations; each one is used at most once
  Ids,              \* the uuids util::uuid() draws
  Foreign,          \* an id without the prefix nodes:users:
  Emails,
  Passwords,
  TagOf,            \* [Emails -> tag]: what a TAG field indexes (case folded)
  None,
  MaxBoots,         \* bound on the starts of the daemon
  MaxRedisCrashes   \* bound on the crashes of Redis

ASSUME AccountsAssumption ==
  /\ None \notin Ids \cup Emails \cup Passwords
  /\ Foreign \notin Ids \cup {None}
  /\ DOMAIN TagOf = Emails
  /\ MaxBoots \in Nat /\ MaxRedisCrashes \in Nat

VARIABLES
  docs,       \* Redis: the document of an id, or None
  index,      \* Redis: the index "users" exists
  indexed,    \* RediSearch: the ids the index covers
  synced,     \* AOF on disk: the ids fsynced, and whether the index is
  sent,       \* JSON.SET commands written to Redis and not executed yet
  executed,   \* ids whose JSON.SET was executed (the OK reply is on its way)
  server,     \* the daemon: "down", "starting" or "up"
  boot,       \* number of starts; names the keypairs and the salt of a run
  req,        \* the arguments of a request
  phase,      \* the await a request is suspended at
  answer,     \* what a request was answered
  used,       \* uuids drawn so far
  issued,     \* access tokens given out
  crashes,    \* crashes of Redis so far
  visible     \* history: what the index covered when a create searched it

redisVars  == <<docs, index, indexed, synced, executed, crashes>>
serverVars == <<server, boot>>
taskVars   == <<req, phase, answer>>
vars == <<redisVars, sent, serverVars, taskVars, used, issued, visible>>

-----------------------------------------------------------------------------
(* Data.                                                                   *)

Boots == 0 .. MaxBoots

\* A PHC string carries the salt it was made with.
Hash == [password : Passwords, salt : Boots]

\* schema::User; jti is None and sub is the id in every document written.
User == [email : Emails, password : Hash]

ASSUME NoneIsNoUser == None \notin User

\* auth::Claims and the boot whose private key signed them.
Token == [sub : Ids, email : Emails, key : Boots]

SetCommand == [id : Ids, user : User]

\* Mutant of VerifyPassword: the hash is made with the salt of this run.
VerifyWithOwnSalt(password, hash) ==
  hash = [password |-> password, salt |-> boot]

\* scrypt::verify_password hashes again with the salt found in the string.
VerifyPassword(password, hash) ==
  hash = [password |-> password, salt |-> hash.salt]

Kinds  == {"create", "login", "readUser", "readCurrent", "node"}
Phases == {"idle", "search", "set", "get", "done", "lost"}
Awaits == {"search", "set", "get"}

Errors == {"in use", "many", "no user", "password", "auth", "redis", "no node"}
Answer == [result : {"none", "created", "token", "user"} \cup Errors,
           user : Ids \cup {None}]

NoAnswer == [result |-> "none", user |-> None]
Failure(e) == [result |-> e, user |-> None]
Success(kind, id) == [result |-> kind, user |-> id]

Request == [kind : Kinds, id : Ids \cup {None, Foreign},
            email : Emails \cup {None}, password : Passwords \cup {None},
            token : Token \cup {None}]

NoRequest == [kind |-> "node", id |-> None, email |-> None,
              password |-> None, token |-> None]

Existing == {i \in Ids : docs[i] # None}

\* FT.SEARCH users @email:{...}: the covered documents whose tag matches.
Hits(email) == {i \in indexed : TagOf[docs[i].email] = TagOf[email]}

\* The arguments the code after an await makes use of.
Ready(q, at) ==
  /\ at = "search" => q.email \in Emails
  /\ at = "search" /\ q.kind = "create" => q.id \in Ids /\ q.password \in Passwords
  /\ at \in {"set", "get"} => q.id \in Ids

TypeOK ==
  /\ docs \in [Ids -> User \cup {None}]
  /\ index \in BOOLEAN
  /\ indexed \subseteq Existing
  /\ synced \in [ids : SUBSET Ids, index : BOOLEAN]
  /\ sent \subseteq SetCommand
  /\ executed \subseteq Ids
  /\ server \in {"down", "starting", "up"}
  /\ boot \in Boots
  /\ req \in [Requests -> Request]
  /\ phase \in [Requests -> Phases]
  /\ answer \in [Requests -> Answer]
  /\ used \subseteq Ids
  /\ issued \subseteq Token
  /\ crashes \in 0 .. MaxRedisCrashes
  /\ visible \in [Ids -> SUBSET Ids]
  /\ \A r \in Requests : Ready(req[r], phase[r])

Init ==
  /\ docs = [i \in Ids |-> None]
  /\ index = FALSE /\ indexed = {}
  /\ synced = [ids |-> {}, index |-> FALSE]
  /\ sent = {} /\ executed = {}
  /\ server = "down" /\ boot = 0
  /\ req = [r \in Requests |-> NoRequest]
  /\ phase = [r \in Requests |-> "idle"]
  /\ answer = [r \in Requests |-> NoAnswer]
  /\ used = {} /\ issued = {}
  /\ crashes = 0
  /\ visible = [i \in Ids |-> {}]

-----------------------------------------------------------------------------
(* Requests: from the call of the resolver to its first await.             *)

\* Request r arrives with arguments q; its resolver runs to its first await.
Accept(r, q, first) ==
  /\ server = "up"
  /\ phase[r] = "idle"
  /\ req' = [req EXCEPT ![r] = q]
  /\ phase' = [phase EXCEPT ![r] = first]
  /\ UNCHANGED <<redisVars, sent, serverVars, issued, visible>>

Refuse(r, q, error) ==
  /\ Accept(r, q, "done")
  /\ answer' = [answer EXCEPT ![r] = Failure(error)]

\* Mutant of Authentic: the signature may be of an earlier run.
AuthenticOnce(token) == token # None

\* The signature is checked against the key of this run of the daemon.
Authentic(token) == token # None /\ token.key = boot

CreateUser(r) ==
  \E e \in Emails, p \in Passwords, i \in Ids \ used :
    /\ Accept(r, [NoRequest EXCEPT !.kind = "create", !.id = i,
                                   !.email = e, !.password = p], "search")
    /\ used' = used \cup {i}
    /\ UNCHANGED answer

LoginUser(r) ==
  \E e \in Emails, p \in Passwords :
    /\ Accept(r, [NoRequest EXCEPT !.kind = "login", !.email = e,
                                   !.password = p], "search")
    /\ UNCHANGED <<answer, used>>

\* Mutant of ReadUser: the email is not compared with the token's.
ReadAnyUser(r) ==
  \E e \in Emails, t \in issued \cup {None} :
    LET q == [NoRequest EXCEPT !.kind = "readUser", !.email = e, !.token = t]
    IN  /\ Authentic(t)
        /\ Accept(r, q, "search")
        /\ UNCHANGED <<answer, used>>

\* authenticate may also fail because the token has expired.
ReadUser(r) ==
  \E e \in Emails, t \in issued \cup {None} :
    LET q == [NoRequest EXCEPT !.kind = "readUser", !.email = e, !.token = t]
    IN  /\ \/ /\ Authentic(t) /\ t.email = e
              /\ Accept(r, q, "search")
              /\ UNCHANGED answer
           \/ Refuse(r, q, "auth")
        /\ UNCHANGED used

ReadCurrentUser(r) ==
  \E t \in issued \cup {None} :
    LET q == [NoRequest EXCEPT !.kind = "readCurrent", !.token = t]
    IN  /\ \/ /\ Authentic(t)
              /\ Accept(r, [q EXCEPT !.id = t.sub], "get")
              /\ UNCHANGED answer
           \/ Refuse(r, q, "auth")
        /\ UNCHANGED used

\* Mutant of Node: the prefix of the id is not looked at.
NodeOfAnyKind(r) ==
  \E i \in Ids \cup {Foreign} :
    /\ Accept(r, [NoRequest EXCEPT !.kind = "node", !.id = i], "get")
    /\ UNCHANGED <<answer, used>>

Node(r) ==
  \E i \in Ids \cup {Foreign} :
    LET q == [NoRequest EXCEPT !.kind = "node", !.id = i]
    IN  /\ \/ i \in Ids /\ Accept(r, q, "get") /\ UNCHANGED answer
           \/ i = Foreign /\ Refuse(r, q, "no node")
        /\ UNCHANGED used

-----------------------------------------------------------------------------
(* Requests: from a reply of Redis to the answer or to the next await.     *)

Reply(r, a) ==
  /\ phase' = [phase EXCEPT ![r] = "done"]
  /\ answer' = [answer EXCEPT ![r] = a]
  /\ UNCHANGED <<req, redisVars, serverVars, used>>

Searching(r, kind) ==
  /\ phase[r] = "search"
  /\ req[r].kind = kind
  /\ index

\* Mutant of SearchedCreate: the hits are not looked at.
CreateUnchecked(r) ==
  /\ Searching(r, "create")
  /\ phase' = [phase EXCEPT ![r] = "set"]
  /\ sent' = sent \cup
       {[id |-> req[r].id,
         user |-> [email |-> req[r].email,
                   password |-> [password |-> req[r].password, salt |-> boot]]]}
  /\ visible' = [visible EXCEPT ![req[r].id] = indexed]
  /\ UNCHANGED <<req, answer, redisVars, serverVars, used, issued>>

\* create_user after the search: refuse, or hash the password and send the
\* document.
SearchedCreate(r) ==
  /\ Searching(r, "create")
  /\ LET hits == Hits(req[r].email)
         user == [email |-> req[r].email,
                  password |-> [password |-> req[r].password, salt |-> boot]]
     IN  IF hits # {}
         THEN Reply(r, Failure("in use")) /\ UNCHANGED <<sent, visible>>
         ELSE /\ phase' = [phase EXCEPT ![r] = "set"]
              /\ sent' = sent \cup {[id |-> req[r].id, user |-> user]}
              /\ visible' = [visible EXCEPT ![req[r].id] = indexed]
              /\ UNCHANGED <<req, answer, redisVars, serverVars, used>>
  /\ UNCHANGED issued

\* Mutant of SearchedLogin: the claims take the email of the request.
LoginAsWritten(r) ==
  /\ Searching(r, "login")
  /\ \E i \in Hits(req[r].email) :
       /\ Hits(req[r].email) = {i}
       /\ VerifyPassword(req[r].password, docs[i].password)
       /\ Reply(r, Success("token", i))
       /\ issued' = issued \cup
            {[sub |-> i, email |-> req[r].email, key |-> boot]}
  /\ UNCHANGED <<sent, visible>>

\* login_user after the search: one account, whose stored hash must match.
\* The claims come from the stored document, not from the request.
SearchedLogin(r) ==
  /\ Searching(r, "login")
  /\ LET hits == Hits(req[r].email)
     IN  \/ /\ Cardinality(hits) > 1
            /\ Reply(r, Failure("many")) /\ UNCHANGED issued
         \/ /\ hits = {}
            /\ Reply(r, Failure("no user")) /\ UNCHANGED issued
         \/ \E i \in hits :
              /\ hits = {i}
              /\ IF VerifyPassword(req[r].password, docs[i].password)
                 THEN /\ Reply(r, Success("token", i))
                      /\ issued' = issued \cup
                           {[sub |-> i, email |-> docs[i].email, key |-> boot]}
                 ELSE Reply(r, Failure("password")) /\ UNCHANGED issued
  /\ UNCHANGED <<sent, visible>>

SearchedReadUser(r) ==
  /\ Searching(r, "readUser")
  /\ LET hits == Hits(req[r].email)
     IN  \/ Cardinality(hits) > 1 /\ Reply(r, Failure("many"))
         \/ hits = {} /\ Reply(r, Failure("no user"))
         \/ \E i \in hits : hits = {i} /\ Reply(r, Success("user", i))
  /\ UNCHANGED <<sent, issued, visible>>

\* JSON.GET of read_current_user and node: a missing document is an error.
Got(r) ==
  /\ phase[r] = "get"
  /\ Reply(r, IF req[r].id \in Existing THEN Success("user", req[r].id)
              ELSE Failure("no user"))
  /\ UNCHANGED <<sent, issued, visible>>

\* Mutant of Stored: the reply of JSON.SET is not awaited.
StoredUnawaited(r) ==
  /\ phase[r] = "set"
  /\ Reply(r, Success("created", req[r].id))
  /\ UNCHANGED <<sent, issued, visible>>

\* The OK of JSON.SET arrives.
Stored(r) ==
  /\ phase[r] = "set"
  /\ req[r].id \in executed
  /\ Reply(r, Success("created", req[r].id))
  /\ UNCHANGED <<sent, issued, visible>>

\* FT.SEARCH answers "no such index".
SearchedNothing(r) ==
  /\ phase[r] = "search" /\ ~index
  /\ Reply(r, Failure("redis"))
  /\ UNCHANGED <<sent, issued, visible>>

\* Mutant of RedisError: the answer to a JSON.SET is awaited without end.
RedisErrorOfReads(r) ==
  /\ phase[r] \in {"search", "get"}
  /\ Reply(r, Failure("redis"))
  /\ UNCHANGED <<sent, issued, visible>>

\* A call to Redis fails: refused connection, broken connection, lost reply.
\* Of a JSON.SET it says nothing: the command may have been executed, or may
\* still be.
RedisError(r) ==
  /\ phase[r] \in Awaits
  /\ Reply(r, Failure("redis"))
  /\ UNCHANGED <<sent, issued, visible>>

Step(r) ==
  \/ SearchedCreate(r) \/ SearchedLogin(r) \/ SearchedReadUser(r)
  \/ Got(r) \/ Stored(r) \/ SearchedNothing(r) \/ RedisError(r)

Begin(r) ==
  \/ CreateUser(r) \/ LoginUser(r) \/ ReadUser(r)
  \/ ReadCurrentUser(r) \/ Node(r)

-----------------------------------------------------------------------------
(* Redis.                                                                  *)

\* A JSON.SET is executed: the document is written and, if the index exists,
\* indexed in the same step.
ExecuteSet(c) ==
  /\ docs' = [docs EXCEPT ![c.id] = c.user]
  /\ indexed' = IF index THEN indexed \cup {c.id} ELSE indexed
  /\ executed' = executed \cup {c.id}
  /\ sent' = sent \ {c}
  /\ UNCHANGED <<index, synced, crashes, serverVars, taskVars, used, issued,
                 visible>>

\* The connection breaks before Redis has read the command.
DropSet(c) ==
  /\ sent' = sent \ {c}
  /\ UNCHANGED <<redisVars, serverVars, taskVars, used, issued, visible>>

\* The background scan of RediSearch reaches a document.
Scan(i) ==
  /\ index
  /\ i \in Existing \ indexed
  /\ indexed' = indexed \cup {i}
  /\ UNCHANGED <<docs, index, synced, executed, crashes, sent, serverVars,
                 taskVars, used, issued, visible>>

\* appendfsync everysec.
Fsync ==
  /\ synced' = [ids |-> Existing, index |-> index]
  /\ UNCHANGED <<docs, index, indexed, executed, crashes, sent, serverVars,
                 taskVars, used, issued, visible>>

\* Redis crashes and restarts from the append-only file; the index is rebuilt
\* by a scan.
RedisCrash ==
  /\ crashes < MaxRedisCrashes
  /\ crashes' = crashes + 1
  /\ docs' = [i \in Ids |-> IF i \in synced.ids THEN docs[i] ELSE None]
  /\ index' = synced.index
  /\ indexed' = {}
  /\ sent' = {}
  /\ UNCHANGED <<synced, executed, serverVars, taskVars, used, issued, visible>>

Redis ==
  \/ \E c \in sent : ExecuteSet(c) \/ DropSet(c)
  \/ \E i \in Ids : Scan(i)
  \/ Fsync
  \/ RedisCrash

-----------------------------------------------------------------------------
(* The daemon.                                                             *)

\* Context::new draws keypairs and salt; custom::redis::index connects.
Start ==
  /\ server = "down"
  /\ boot < MaxBoots
  /\ boot' = boot + 1
  /\ server' = "starting"
  /\ UNCHANGED <<redisVars, sent, taskVars, used, issued, visible>>

\* Redis is unreachable: __main returns the error and the daemon exits.
StartFails ==
  /\ server = "starting"
  /\ server' = "down"
  /\ UNCHANGED <<redisVars, sent, boot, taskVars, used, issued, visible>>

\* FT.CREATE: its result is ignored, whether the index is made, exists already
\* or could not be made.
Serve ==
  /\ server = "starting"
  /\ server' = "up"
  /\ index' \in {TRUE, index}
  /\ UNCHANGED <<docs, indexed, synced, executed, crashes, sent, boot,
                 taskVars, used, issued, visible>>

\* The process dies; a command already written to Redis stays in flight.
ServerCrash ==
  /\ server = "up"
  /\ server' = "down"
  /\ phase' = [r \in Requests |-> IF phase[r] \in Awaits THEN "lost"
                                                         ELSE phase[r]]
  /\ UNCHANGED <<redisVars, sent, boot, req, answer, used, issued, visible>>

Daemon == Start \/ StartFails \/ Serve \/ ServerCrash

\* The client closes its connection: hyper drops the suspended resolver; a
\* command already written stays in flight.
Hangup(r) ==
  /\ phase[r] \in Awaits
  /\ phase' = [phase EXCEPT ![r] = "lost"]
  /\ UNCHANGED <<redisVars, sent, serverVars, req, answer, used, issued, visible>>

Next ==
  \/ \E r \in Requests : Begin(r) \/ Step(r) \/ Hangup(r)
  \/ Redis
  \/ Daemon

\* A call to Redis returns: with its reply or with an error.
Fairness == \A r \in Requests : WF_vars(Step(r))

Spec == Init /\ [][Next]_vars /\ Fairness

-----------------------------------------------------------------------------
(* Properties.                                                             *)

SameTag(i, j) == TagOf[docs[i].email] = TagOf[docs[j].email]

\* No account is created over one the index showed.  create_user searches,
\* awaits, hashes, awaits and writes: two accounts with one tag exist only if
\* neither was covered by the index when the other one searched it.
NoVisibleDuplicate ==
  \A i, j \in Existing : i # j /\ SameTag(i, j) =>
    i \notin visible[j] /\ j \notin visible[i]

\* What the code promises with "Email {} is already in use": no two accounts
\* have the same email (as the index compares them).  It does not hold.
UniqueEmail == \A i, j \in Existing : SameTag(i, j) => i = j

\* A token names the account it was issued for with the email stored in it,
\* whatever spelling the login used, unless Redis has lost the account.
TokenNamesAccount ==
  \A t \in issued : t.sub \in Existing => docs[t.sub].email = t.email

\* An account reported as created is there, unless Redis has crashed since.
CreatedIsStored ==
  \A r \in Requests :
    answer[r].result = "created" /\ crashes = 0 => answer[r].user \in Existing

\* login_user decides as the passwords given to create_user say, whichever run
\* of the daemon (and so whichever salt) stored the hash: it issues a token
\* only for an account created with this password, and says "Incorrect
\* password" only if an account with this tag was created with another one.
LoginDecidesByPassword ==
  \A r \in Requests : req[r].kind = "login" =>
    /\ answer[r].result = "token" =>
         \E s \in Requests : /\ req[s].kind = "create"
                             /\ req[s].id = answer[r].user
                             /\ TagOf[req[s].email] = TagOf[req[r].email]
                             /\ req[s].password = req[r].password
    /\ answer[r].result = "password" =>
         \E s \in Requests : /\ req[s].kind = "create"
                             /\ req[s].id \in executed
                             /\ TagOf[req[s].email] = TagOf[req[r].email]
                             /\ req[s].password # req[r].password

\* read_user answers an account whose email has the tag of the email in the
\* caller's own token; and the run of the daemon that searches for it is the one
\* that issued the token: a restart makes every token void, and no search that a
\* token has begun outlives the run.
ReadsOwnEmail ==
  \A r \in Requests : req[r].kind = "readUser" =>
    /\ phase[r] = "search" => req[r].token.key = boot
    /\ answer[r].user \in Existing =>
         TagOf[docs[answer[r].user].email] = TagOf[req[r].token.email]

\* Every operation is answered, if the daemon lives: no reply of Redis, and no
\* missing reply, leaves a request suspended.
EveryRequestAnswered ==
  \A r \in Requests : phase[r] \in Awaits ~> phase[r] \in {"done", "lost"}

=============================================================================
