# A verification development for turtle

turtle (the crate and the command line in this repository) is a web server for a
single-page application: a Rust daemon that answers GraphQL, refreshes sessions
and sends static files, with Redis (RedisJSON, RediSearch) as its only store, a
React client, and a Deno command line that builds, runs and deploys all of it.
This directory holds TLA+ modules of the parts with state, TLC configurations
that check them on small instances, and proofs, checked by TLAPS, that the
properties hold for every value of the constants.

Paths below are relative to the repository; `server/core/` and `server/custom/`
are the daemon, `client/` and `components/` the page, `cli/` the command line.

## 1. The system

### Components

| component | source | state | operations | module |
|---|---|---|---|---|
| User directory | `server/custom/schema.rs`, `server/custom/redis.rs` | documents `nodes:users:<uuid>`, index `users` | createUser, loginUser, readUser, readCurrentUser, node | `Accounts` |
| Sessions | `server/core/auth.rs`, `server/core/routes.rs`, `server/custom/jwt.rs`, `client/client.ts` | keypairs and salt of a run, jti of a document, cookie jar and token of a page | loginUser, POST /jwt/refresh, logoutUser, verify, create, reset | `Sessions` |
| Rate limiting | `server/core/auth.rs` (`util::rate_limit`) | counter and TTL per address | rate_limit | `RateLimit`, `FixedWindow` |
| Request pipeline | `server/core/handler.rs`, `message.rs`, `routes.rs`, `graphql.rs` | the message: request, response, cookies, context | handle, clone, gql::post, jwt_refresh, web::get, the fields of an operation | `Pipeline` |
| Server life cycle | `server/daemon.rs`, `server/core/server.rs`, `context.rs` | listener, connections, shutdown signal | main, Context::new, index, serve, abort_signal | `Daemon`; restarts over kept data in `Accounts`, `Sessions` |
| Static files | `server/core/routes.rs` (`web`), `server/core/process.rs` | the response; files of `dist/` on disk | metadata, open, stream | `StaticFiles` |
| Redis commands | `server/core/redis.rs` | parameter values; none in the connection | builders, create, search, alter, json set/get | `RedisCommands` |
| Redis replies | `server/core/redis.rs` (`from_redis_value`) | position in the reply, results so far | the loop over a reply | `SearchReply`; with the command before it, `RedisSearch` |
| Client | `client/client.ts`, `client/bundle.tsx`, `components/` | access token, Relay's store, path, spinner, requests in flight | fetchRefresh, the home page's query, the login and register forms, Back | `Page`; the token in `Sessions` |
| Command line | `cli/cli.ts` | child processes, polling, `dist/` | localhost:deno with both its bundlings; clean, install, deploy, docker ... | `Localhost`, the first of these |
| Console, errors, uuids | `server/core/console.rs`, `error.rs`, `util` | none | formatting | a uuid is a fresh element of a set |
| Redis, RediSearch | external | documents, index, append-only file | JSON.SET, JSON.GET, FT.*, INCR, EXPIRE | inside `Accounts`, `RateLimit`, `RedisSearch` |
| Deployment | `docker/`, `config/`, `redis.conf` | none | none | not modelled |

### How they interact

hyper spawns a task per connection and calls `handler::handle` for every
request. The handler builds a `Message`, picks a route and awaits it; GraphQL
requests go through juniper to the resolvers of `schema.rs`, which work on a
clone of the message, and the changes of the clone's cookie jar are copied
back. All state that outlives a request is in Redis, except the keypairs and the
salt, which `AuthContext::new` draws at every start of the daemon. Tasks share
nothing else they write: locks are taken and released between two awaits, and
never held across one. So an action of these modules is the code from one
await to the next; what other tasks, Redis, the disk and the browser do falls
between them.

In development `turtle localhost:deno` bundles the client, starts the daemon
through cargo, polls it until it answers, and bundles again in watch mode. The
page asks for a refresh when it is rendered and shows a spinner until the answer;
then the home page asks who is logged in, with the token the refresh gave, and
keeps the answer in Relay's store; the login form replaces the token.

### What is hard

* A resolver reads (FT.SEARCH), awaits, and writes (JSON.SET); two of them, or
  one and RediSearch's own background scan, interleave.
* A call to Redis that fails says nothing of whether it was executed; the
  daemon can die while a command is on its way; Redis loses up to a second of
  writes (`appendfsync everysec`), and rebuilds its index by a scan.
* A restart of the daemon changes the keys and the salt under tokens and hashes
  that stay.
* The cookie is verified before an await and used after it; answers of two
  requests of one page overtake each other; a message is cloned and merged; the
  access token is made when the cookie is already in the jar, and may fail.
* INCR and EXPIRE are two commands.
* A file is looked at four times between a request and its body, while the
  bundler rewrites it.
* Parameter values of Redis commands are copied field by field in every setter,
  and a flat reply is parsed without a position, and without knowing which
  options shaped it.
* The second bundling of `localhost:deno` runs in a promise that nobody awaits.
* A page has several requests in flight whose answers write one token and one
  store, and is reloaded in between: the browser keeps the cookies of answers
  that the new document never sees.
* Ctrl-C reaches the command line, cargo, the bundler and the daemon at once, at any
  moment of starting, serving or draining; the port may be someone else's.

`PROJECT.json` lists these as hazards, each at its line.

### What makes each part correct

* Directory: no account is created over one that the search showed; an account
  reported as created exists; a token names the account it was issued for; a
  login decides by the password given at creation, whatever run of the daemon
  stored it; every operation is answered.
* Sessions: what a browser holds leads back to a login of that browser in this
  run of the daemon; no access token is given without the cookie of its session; a
  changed jti revokes.
* Rate limit: at most `limit` calls in a window, and every window ends.
* Pipeline: fields run in the context of their caller, an answer carries the
  session last created for it, and a refusal starts none.
* Life cycle: a handler that has begun comes to an answer, also while the daemon
  drains; the daemon ends after Ctrl-C; nothing is left behind when it ends.
* Page: it names only accounts whose token its document has had; it asks after the
  refresh, and with the token it was given; the spinner and the home page come
  to rest.
* Command line: the polling ends when the daemon serves; after Ctrl-C, and when the
  command has nothing left to do, no child stays.
* Files: an asset that stays is served, at least as new as the request; the
  type fits the body; Last-Modified is never newer than the body.
* Redis: a command says what its caller set; a reply's documents come back in
  order, once, each with its own content.

## 2. Modules

| module | models | states checked | abstracts |
|---|---|---|---|
| `Accounts` | five resolvers, from one Redis reply to the next command; JSON.SET in flight, execution, index scan, fsync, crash of Redis; start, failing start and crash of the daemon | `MCAccounts` | emails to spellings of a tag, scrypt to a record of password and salt |
| `Sessions` | loginUser, POST /jwt/refresh and logoutUser with cookie jars, page tokens, expiry, revocation, restarts | `MCSessions` | the search and the password to "the login is right" |
| `Page` | the document in front of `Sessions` (which it extends, each of its steps wrapping one of theirs or leaving them alone): spinner, token, home page's query, Relay's store, login, register, history | `MCPage` | head elements, loading bars, fields; a store to what it says of readCurrentUser |
| `Pipeline` | `handle`, the routes, the two clones of a message, the fields of an operation side by side, the merge of cookies | `MCLocalhost` | a call to Redis or the disk to all its outcomes |
| `Daemon` | main, from the context to the end of draining, around `Pipeline`, which it extends: one request in full, the other connections as a set of those with a request in flight | `MCLocalhost` | what requests do to Redis |
| `Localhost` | `localhost:deno` around `Daemon`, which it extends: bundling, polling, devtools, cargo, the terminal | `MCLocalhost` | the output of the children |
| `RateLimit`, `FixedWindow` | `rate_limit` on one address, and the fixed window it implements | `MCRateLimit` | time to "a key with a TTL expires at some moment" |
| `RedisCommands` | every setter of every builder, and the arguments written for it | `MCRedisSearch` | arguments to model values, a clause's several arguments to one |
| `SearchReply` | the loop of `FTSearchResult::from_redis_value` | `MCRedisSearch` | strings to keys, contents and bytes that are not UTF-8 |
| `RedisSearch` | one search from its setters (an instance of `RedisCommands`) through the reply that RediSearch shapes by the options to the loop (`SearchReply`) | `MCRedisSearch` | the query |
| `StaticFiles` | `web::get`, `file::send`, `content_type`, with a bundler that writes | `MCStaticFiles` | contents to versions, weights of encodings to the set named |

`<X>Proofs` extends `<X>` and holds its theorems; `PageProofs` also extends
`SessionsProofs`, `RedisSearchProofs` also `SearchReplyProofs`, and `LocalhostProofs`
has the theorems about `Pipeline`, `Daemon` and `Localhost`. The definitions are mapped to
source lines in `PROJECT.json`.

### Correspondence of state and actions

**Accounts.** `docs`, `index`, `indexed` and `synced` are Redis: the documents,
the existence of the index, what it covers, and what the append-only file on disk
holds. `req[r]` has the arguments of an operation, `phase[r]` the await it is
suspended at: `search` (FT.SEARCH), `set` (JSON.SET), `get` (JSON.GET).
`CreateUser`, `LoginUser`, `ReadUser`, `ReadCurrentUser` and `Node` are the
resolvers up to the first await, with the errors found before it;
`SearchedCreate`, `SearchedLogin`, `SearchedReadUser`, `Got` and `Stored` the
stretch after a reply. A search is one action with the code that consumes its
reply: nothing tells it from a search that happened earlier with the same
hits, except that the index may have grown in between, and then the search of
`create_user` is only older; the history variable `visible` records what the
index covered at the search. A JSON.SET is two actions, since its effect
and its reply come apart: it is `sent`, then executed (`ExecuteSet`) or lost
(`DropSet`), before or after the resolver has given up (`RedisError`), its
client has hung up (`Hangup`: hyper drops the suspended resolver) or the daemon
has died (`ServerCrash`). Opening the connection, an await of its own in the code, is
part of the call it serves. Passwords are `[password, salt]`; the salt is that of the
run of the daemon (`boot`) that made the hash, and `VerifyPassword` uses the
salt found in the hash, as `scrypt::verify_password` does.

**Sessions.** A request enters a slot with what its first stretch decides;
`Read` is the moment Redis reads the document, `GrantLogin`, `GrantRefresh`,
`DenyRefresh` and `Fail` are the handler after the reply, `Deliver` the arrival
in the browser. `Reload` throws the document away, and with it the token; `open`
says of a request whether the document that sent it is still there. If not, the
browser keeps the answer's cookie and drops the rest. A session is made in two
steps of one stretch, the cookie and then the access token; `AnswerSession` has the
answer in which the second failed, an error with the cookie in it. Messages are the cookie jar reduced to `refresh`: the cookie the
request came with and the change to send. The cookie's path is `/jwt/refresh`,
so `Sent` gives it to no other request; that is why `Logout`, which removes
the cookie in a clone of the message of a request to `/graphql`, sends no
removal. `Revoke` gives a document another jti: `revoke_user` is still a
`@todo` (`schema.rs:227`), so only an operator does it today, while the check of
the jti exists. A refresh that finds another jti is answered 200 with the
token `""`.

**Page.** `view[b]` is the document of browser b: `mode` is `useRefresh`'s loading
("blank" before the effect has run, "stranded" when its fetch was rejected),
`mounting` the home page's effect that is about to call `loadQuery`, `query` IndexQuery on
its way, `store` what Relay's store has for it. `held[b]` is a history
variable. `AskRefresh`, `Submit` and `Arrive` join a step of `Sessions` (`Refresh`,
`Login`, `Deliver`) with what the page does in the same turn of the browser's
event loop. The query of the home page is no request of `Sessions`, since it
changes no session: `AnswerQuery` asks `Verify` and the document directly. Relay
shares a query in flight, shows what its store has, drops the query of a page that
is left or keeps it, and collects what no page retains; the model allows each at
any time. A document is left by `Load` only; there are no links, so the path changes
by a form's answer (wherever the document is by then) and by `Back`. The entries a
document pushes on the history outlive a reload, and BrowserRouter takes Back and
Forward to them for a change of its location; so `Back` leads to any path at any
time, behind the spinner too. A browser that revives a whole document when it is
gone back to (its scripts' memory included) is not modelled. One registration
is in flight at a time; logins are submitted as often as there are slots.

**Daemon.** `server` is where main stands, `port` who listens on 3080. `Accept` is an
arrival in `Pipeline`, `Handle` the rest of it; `Leave` takes the answer and `Hangup`
breaks the connection. `abort_signal` is installed when `serve` polls it: Ctrl-C
before that kills the process (`Die`), the first one after that closes the
listener, and later ones do nothing, since tokio keeps its handler.
`hyper::Server::bind` panics if the port is taken.

**Localhost.** `command` is the async function of `localhost:deno`, `polling` its inner
`ready`, which it does not await, `cargo` and `tools` the children, `deno` the process,
which lives as long as its event loop has something to wait for ("gone" when it has
nothing left or by Ctrl-C) unless a rejected promise ends it ("crashed"): a bundling that
throws, the second of them in a `ready` that nobody awaits (`CheckFails`), or a program
that cannot be started (`StartFails`). Its children then go on, and Ctrl-C of the
command's terminal is modelled only while the command runs. The polling
connects as one more client of the daemon. The two bundlings differ: the first
must succeed, the second watches.

**Pipeline.** One request at a time, since requests share nothing they write
here. `context` is `JuniperContext`'s clone of the message, `jar` the changes of
the message's own cookie jar. `gql::post` clones the message twice, and each clone
reads the body. If it breaks while the first reads, that clone falls back to a
default request without the caller's headers, and is kept as context; the second
finds the body empty and juniper answers 400, so nothing is executed with it.
`Execute` runs every field to its first await, as juniper does before any of
them waits; `Login` and `Resolve` end fields in any order. A login adds its cookie
before its access token is made, so that its field may be an error beside the cookie,
and `Refresh` may end in a 500 with the cookie, since the handler keeps the jar.
`Finish` copies the cookies of the context back, whether or not there is data.
`Fail` is the handler's answer 500, `Forget` the end of a message, before or after its
answer.

**RateLimit.** The command on its way, and its reply on its way back, are
phases, so that replies overtake each other. Nothing in the daemon calls
`rate_limit` yet (`auth.rs`: `@todo: use rate limiting`).

**RedisCommands.** `pool` holds the variables of a caller, `Extend` a setter of
any builder called on one variable and kept in the same or in another one
(setters borrow, so chains fork). `Clauses` is the table of fields in the
order in which `search`, `create` and `alter` write them, each with its form: a flag,
a bare word, a word with arguments, a word with a list. What a command has to say
(`Meant`) is not taken from these forms but from RediSearch's grammar: `Alone` are the
words that take no argument, all others take what was set, and a list of names takes
one count. Where the code departs from the grammar (`Miswritten`) the property says
nothing: TEMPORARY is written without its seconds, MAXTEXTFIELDS with a number, and
PREFIX and FIELDS with a count before each name, which is right for one name only.

**SearchReply.** One action per kind of item the loop meets. Its own specification
starts with any reply at all, and is the one of the theorems.

**RedisSearch.** `Compose` is `RedisCommands`, `Ask` the sending of the command put
together, or of one without parameters as all resolvers send it. `meant` is what the
caller set of the options that change a reply's shape, `heard` what is in the
command. `Answer` writes a reply as RediSearch does under `heard`: a score, a payload
and a sort key after the key, no content, or the fields of RETURN. `Garble` is any
other list. `Parse` is the loop. The loop takes a string for a key wherever it
stands, so with WITHSCORES or WITHSORTKEYS it returns scores as results; no
caller sets these today, and the properties say what holds for the other ones.

**StaticFiles.** A name leads to an inode, an inode to a version with its mtime.
The metadata are read before the file is opened and become the header
Last-Modified after it; `mtime` holds them in between. Names are those of files under
`dist/`: how a path with repeated slashes is joined to that directory is left out.
Rewriting changes the content under an inode, removal and creation change the
inode; an open handle stays on its inode. `file::send` looks for `If-None-Match` and
`If-Modified-Since` among the headers of the response it is making
(`process.rs:147, 163`), where they never are, so its answer 304 and the ETag
comparison have no step here.

## 3. Runs

| run | question | bounds | why they are enough |
|---|---|---|---|
| `accounts_safety` | the directory's promises under interleaving, crashes and restarts | 3 operations, 2 uuids, 2 spellings of one email, 2 passwords, 2 runs of the daemon, 1 crash of Redis | two creates and a reader or login; two salts; the crash separates executed from synced |
| `accounts_readers` | a token reads its own account only | 4 operations, 2 uuids, 2 different emails, 1 password, 2 runs of the daemon | two creates, a login, a read; a token of the run before |
| `accounts_live` | every operation is answered | 2 operations, 1 run | operations wait for Redis, never for each other |
| `accounts_duplicate` | one account per email (does not hold) | 2 operations | two creates suffice |
| `sessions_safety` | sessions under expiry, revocation, restart, overtaking | 1 browser, 1 account, 2 requests, lifetimes 1 and 2, clock 3, 1 change of jti, 2 runs | two answers overtake each other; both lifetimes end within the clock |
| `sessions_logout` | logout ends the session (does not hold) | 1 browser, 1 account | a login and a logout suffice |
| `ratelimit` | INCR and EXPIRE implement the fixed window, and windows end unless a call fails | 3 calls, limit 2, counter to 4, 1 failure | one call under, one at and one over the limit |
| `redis_search` | commands say what was set; a search finds its documents, as far as a parser that knows no options can | 3 setters on 2 variables, 2 arguments, lists of up to 2, all fields of all builders; 3 documents, 2 keys and a score, 2 contents; lists of 4 items | a set, another set and a fork; a pair can follow its own key, another's, or none |
| `static_files` | what stays is served, headers fit | 1 request, 1 asset, index, 1 route, 4 writes, 3 seconds | requests share nothing they write; a write between each two looks |
| `localhost` | requests, the daemon and the command line around them, from the first bundling to the last child's end | 1 request of 2 fields (a login beside another login, a creation or a logout), 2 accounts, 1 other client beside the polling, 1 of the devtools | a login beside a field that fails; a request, the polling and another client in flight when Ctrl-C comes |
| `page` | what a page asks, shows and keeps when answers overtake each other and documents come and go | 1 browser, 2 accounts, 2 requests in flight, 1 run, no clock | two logins, or a login and the refresh of an earlier document; browsers share nothing, and the theorems are for any number |
| `page_live` | the spinner goes, the home page settles | 1 browser, 1 account, 1 request in flight, 2 runs, clock 2, 1 change of jti | every way a refresh or the query can fail: expired, revoked, lost, restarted, broken |

That browsers and accounts do not mix is the theorem `LoginStartsSession`, for any
number of them.

Deadlock checking is off in the runs of systems that may stop: operations are
used once, counters and clocks are bounded, and the daemon, the command line and
a user may be done.

`accounts_duplicate` and `sessions_logout` end in a counterexample. They are
the two places where the code contradicts what it says itself:

* **UniqueEmail.** `create_user` searches (`schema.rs:139`), hashes, and then
  writes (`158`) with no lock and no condition; two registrations of one email that
  both search before either is indexed both succeed, although the code
  answers "Email {} is already in use" to prevent that (`142`). From then on every
  login with it ends in "More than one user found" (`179`). `NoVisibleDuplicate`
  is what does hold: never over an account the index showed.
* **LogoutEndsSession.** `logoutUser` answers true, but its `reset` removes a
  cookie the request to `/graphql` never carries, and no Set-Cookie is sent.

### Fairness

In `Accounts` every `Step(r)` is weakly fair:
a call to Redis returns, with a reply or an error (the redis crate answers
pending commands with an error when the connection breaks), and tokio polls
a task that was woken. Without it the resolver waits for ever: the code has no
timeout. In `RateLimit` the same for its steps, and for `Expire`: a key with a
TTL is deleted by Redis.

In `Localhost` what main and its tasks do by themselves is fair as one action
(`DaemonSteps`), for the same reason, and so are the end of another client's
request, the polling's own steps and cargo's end after its child's. So `StopsOnSignal`
says that the daemon ends after Ctrl-C if Redis answers and clients take their
answers; it waits for ever on one that does not, since nothing has a timeout.
Nothing forces a client to send a request, a user to press Ctrl-C, the
bundler or devtools to end, or another program to leave the port. `PollingEnds` is
therefore about a daemon that comes to serve and goes on: if it never does,
`ready()` polls for ever, or until another program with the port answers it.
`NothingStays` is about a command that has ended by itself or by Ctrl-C, not about
one that has crashed.

In `Page` effects run (React runs them after the render), every handler comes to its
answer, and every answer arrives or its connection breaks. A user need not do
anything, connections need not break, and Relay need not collect.

## 4. Proofs

TLAPS checks that the following hold for every value of the constants (any
number of requests, uuids, emails, browsers, failures and so on) under the
named assumptions in the modules, which only say that model values are
distinct from data and bounds are numbers.

| theorem | argument |
|---|---|
| `Accounts!TypeCorrect`, `NoVisibleDuplicates`, `TokensNameAccounts`, `CreatedAreStored` | the invariant joins: a uuid in use is drawn once (`Fresh`), a command or document of an id is the one its create sent and is written at most once (`WrittenOnce`), the search of a create saw no twin (`SawNoTwin`), an issued token names an executed id with its email (`NamesExecuted`). None of the three properties is inductive alone: a document appears by a command sent several steps before, and that the command's search saw no twin must be carried by the command |
| `Accounts!LoginsDecide`, `ReadersReadTheirOwn` | every document and every command in flight stems from a create that has begun (`Created`), and a request that has begun keeps its arguments, an executed document its content until Redis loses it (`Keeps`); so what an answer was based on can still be named after any number of steps (`Decided`, `Shown`) |
| `Sessions!TypeCorrect`, `LoginStartsSession`, `SessionGivenWhole`, `RevocationWorks` | for every request in flight: what it carries (cookie received, cookie and token to send) stems from a login recorded, a token to send has its cookie beside it, and the jti read is at least that at its beginning (`Kept`, `AllSound`). A jar gets its cookie from an answer, an answer from a request whose cookie was in that jar |
| `Pipeline`: `TypeCorrect`, `CallerIsKnown`, `AnswersCarrySessions`, `RefusalsStartNothing` (in `LocalhostProofs`) | the last session is in the context while fields run, in the jar after them, nowhere before (`SessionIsWhere`); once the second clone is due the context is the request's own or the body is broken (`CloneIsWhole`) |
| `Localhost`: `LocalImplementsPipeline`, `LocalRequests`, `LocalTypeCorrect`, `NobodyIsLeft` | a step of the daemon or of the command line is a step of `Pipeline` or leaves it alone (death and a broken connection are its `Forget`), so that what holds of a request alone holds in a daemon that starts, drains and dies. The port is released by the step that leaves "serving", whichever it is; draining ends only without requests. |
| `Page`: `PageImplementsSessions`, `PageSessionsStartWithLogin`, `PageSessionIsGivenWhole` | the same for `Sessions`: its theorems hold behind the page |
| `Page!PageTypeCorrect`, `OnlyHeldIsShown`, `AskedAsSomeone`, `AskedAfterRefresh` | a document whose refresh is not answered has nothing, neither token, store nor query (`Bare`); it has at most one refresh, its first (`Single`), and logins are submitted only after it (`Awaited`); an answer taken for a login has a token (`Paid`); a document asks with the token it has, and once it has had a token no answer takes it away (`AskedStep`), so that a query without one goes out only of a document that never had any; a null that such a query left in the store may stay there, and the property does not speak of it |
| `RateLimit!TypeCorrect`, `AnswersFollowVerdict`, `OpenWindowsClose`, `Refinement` | a call has counted exactly after its INCR (`Progress`); a step maps to a step of `FixedWindow` or to a stutter |
| `SearchReply!TypeCorrect`, `NothingIsInvented` | each result stems from an item before the position, later than the result before; the last result's key stands before every later pair |
| `SearchReply!DocumentsAreFound` | of a plain reply: there are positions `off`, one after each document, with the key right after the one before, then nils and arrays that are no pairs, and the content last (`Layout`); the loop's position lies in one of these stretches, and the results are the documents before it, the last with or without its content (`Progress`). That the results equal the documents at the end is not inductive: it says nothing until the loop is over |
| `RedisSearch!CommandsSayWhatWasSet` | every builder in the pool has in its fields what its history says was set last (`PoolInv`), and what is read in the last command is what the builders it is made of have (`CmdInv`). The heart is a lemma about flattening: the arguments of a clause are those between two marks, each argument is between some, and a keyword stands in its own clause only, so reading the command back by keyword finds the clause that wrote it (`ReadBack`). That what is found there is what RediSearch's grammar asks for is a lemma of its own about a clause and its value (`WrittenMeans`, `HeardAsMeant`), in which the clauses the code miswrites fall out |
| `RedisSearch!SearchTypeCorrect`, `SearchesFindDocuments`, `OptionsAreHarmless`, `SearchInventsNothing` | the composition (`SearchInv`): what RediSearch hears is what was meant, by the theorem before; a reply under harmless options is laid out as `Layout` says, by the same lemma about flattening; from there on the loop's own invariant carries |
| `StaticFiles!WhatStaysIsServed` | a second invariant beside the first: as long as the file found on arrival has not been removed, the name located is still in place with a version not older (`Serves`), and later writes have later versions |
| `StaticFiles!TypeCorrect`, `LastModifiedIsSafe`, `TypesFit` | mtimes do not pass the clock and grow under an inode, the name a request will open leads to content at least as new as its Last-Modified; the content type set on arrival is that of the file chosen |

Two of the assumptions say more than that. `RedisSearchAssumption` has the keywords of
a command apart from the arguments callers give: RediSearch takes an argument by its
place and never for a keyword, while the property reads a command back by its
keywords. `SearchReplyAssumption` has the bytes that are not UTF-8 and the value of a
result without content apart from keys and contents.

What flattening a list of lists gives is a fact about a recursive function, and the
library's induction theorems cannot be used with the provers here. `FlattenMarks` in
`RedisSearchProofs` is therefore proved by a least counterexample, which
`WellFoundedInduction` gives for sets instead of operators (`WFMin`,
`NatLessThanWellFounded`).

Model-checked only: the liveness properties (`EveryRequestAnswered`, `WindowsEnd`,
`HandlersAnswer`, `StopsOnSignal`, `PollingEnds`, `NothingStays`, `LoadingEnds`,
`HomeSettles`), since fairness and ENABLED are outside the prover. Every other property of a
passing run is a theorem.

## 5. Not modelled

* Text: formatting, logging, the escaping of emails in queries. Emails are
  taken to have no characters that are special to RediSearch.
* scrypt, RSA and jsonwebtoken: a hash verifies exactly the password it was
  made of, a signature exactly with its run's key. That making a token fails is
  modelled (`Fail`, `AnswerSession`), why it does is not.
* Operations with several fields in `Sessions`, whose mutations have one, as the
  client's have. They are in `Pipeline`.
* FT.AGGREGATE, FT.INFO and the other commands of `redis.rs` nothing calls;
  their builders follow the same pattern as those in `RedisCommands`.
* Of `cli/cli.ts`, the commands that run one process and wait for it, or print help
  (clean, install, upgrade, cache, bundle:relay, codegen, localhost:snowpack, test,
  deploy, docker, sync): straight lines without state of their own.
* Of `components/`, what only shows: head elements, loading bars, error pages,
  the fields of forms. Links do not exist.
* How long anything takes: the polling's 750 ms, the time Redis or a build needs.
* `docker/`, `config/`, certificates: declarations without behaviour of their own.

## 6. Plan

1. Done: all components with state, and the compositions `Page` over `Sessions`,
   `Localhost` over `Daemon` over `Pipeline`, and `RedisSearch` over `RedisCommands` and
   `SearchReply`, with the proofs above.
2. Not pursued: an abstract directory that `Accounts` implements. With the race of
   `create_user` there is none without saying when searches overlap writes, and
   that is what `NoVisibleDuplicate` and `LoginDecidesByPassword` already say.
3. Left: timeouts, should the code gain them; and `revoke_user`, when its `@todo` is
   done.
