---------------------------- MODULE StaticFiles -----------------------------
(***************************************************************************)
(* Static files: web::get (server/core/routes.rs), file::send and          *)
(* content_type (server/core/process.rs), while a build replaces the files *)
(* under dist/.  The file is looked at four times, with awaits in between: *)
(* a check whether it is there, its metadata, its opening, and, when the   *)
(* handler has returned, the reading of the body.                          *)
(*                                                                         *)
(* file::send looks for If-None-Match and If-Modified-Since among the      *)
(* headers of the response it is making, where they never are: the answer  *)
(* 304 has no step here.                                                   *)
(***************************************************************************)
EXTENDS Integers

CONSTANTS
  Requests,
  Assets, Index,   \* files under dist/; Index is index.html
  Routes,          \* paths that are no file: "/", the client's routes
  Accepts,         \* Accept-Encoding: the sets of what it may name
  None, Gone,
  MaxWrites,       \* bound on the writes of files
  MaxTime          \* bound on the clock

Files == Assets \cup {Index}
Paths == Files \cup Routes

ASSUME StaticFilesAssumption ==
  /\ Index \notin Assets /\ Files \cap Routes = {}
  /\ None \notin Int \cup Files /\ Gone \notin Int /\ None # Gone
  /\ {} \in Accepts
  /\ Accepts \subseteq SUBSET {"deflate", "gzip", "br", "binary"}
  /\ MaxWrites \in Nat /\ MaxTime \in Nat

VARIABLES
  now,      \* seconds
  writes,   \* the number of writes so far
  disk,     \* the inode a file name leads to, or None
  content,  \* of an inode: the write that made what it holds, and its mtime
  phase,    \* of a request: what its handler awaits
  req,      \* the request, and what the handler has found for it
  res,      \* the response
  seen      \* history: for each file, None if it was absent when the request
            \* came, Gone if it has been removed since, else its version then

vars == <<now, writes, disk, content, phase, req, res, seen>>

-----------------------------------------------------------------------------
Writes == 1 .. MaxWrites  \* an inode is named by the write that made it
Times  == 0 .. MaxTime

Content == [version : Writes, mtime : Times]

ASSUME NoneIsNoContent == None \notin Content

Encodings == {"identity", "deflate", "gzip", "br"}

\* file::Encoding::iter(): the first one the request names is used, whatever
\* weight it gives it.
Rank == [deflate |-> 1, gzip |-> 2, br |-> 3]

\* HeaderValue::to_str fails on bytes that are no text.
Readable(accept) == "binary" \notin accept

Chosen(accept) ==
  IF accept = {} THEN "identity"
  ELSE CHOOSE e \in accept : \A f \in accept : Rank[e] <= Rank[f]

\* mime_guess::from_path.
Guess(path) ==
  IF path = Index THEN "html" ELSE IF path \in Assets THEN "asset" ELSE "plain"

Body == [file : Files, version : Writes, encoding : Encodings]

Phases == {"idle", "metadata", "open", "stream", "done"}

\* file is the path that file::send is given, mtime what it has read of the
\* file's metadata, handle the open file.
Request == [method : {"GET", "other"}, path : Paths, accept : Accepts,
            file : Files \cup {None}, mtime : Times \cup {None},
            handle : Writes \cup {None}]

\* Content-Type, Content-Encoding and Last-Modified among the headers.
Response == [status : {"none", "200", "405", "500"},
             type : {"none", "html", "asset", "plain"}, encoding : Encodings,
             modified : Times \cup {None}, body : Body \cup {None}]

Seen == [Files -> Writes \cup {None, Gone}]

TypeOK ==
  /\ now \in Times /\ writes \in 0 .. MaxWrites
  /\ disk \in [Files -> Writes \cup {None}]
  /\ content \in [Writes -> Content \cup {None}]
  /\ phase \in [Requests -> Phases]
  /\ req \in [Requests -> Request]
  /\ res \in [Requests -> Response]
  /\ seen \in [Requests -> Seen]
  /\ \A f \in Files : disk[f] # None => content[disk[f]] # None
  /\ \A r \in Requests :
       /\ phase[r] \in {"metadata", "open", "stream"} => req[r].file # None
       /\ phase[r] = "stream" => /\ req[r].handle # None
                                 /\ content[req[r].handle] # None

NoRequest == [method |-> "GET", path |-> Index, accept |-> {},
              file |-> None, mtime |-> None, handle |-> None]

\* hyper::Response::new.
NoResponse == [status |-> "none", type |-> "none", encoding |-> "identity",
               modified |-> None, body |-> None]

Init ==
  /\ now = 0 /\ writes = 0
  /\ disk = [f \in Files |-> None]
  /\ content = [k \in Writes |-> None]
  /\ phase = [r \in Requests |-> "idle"]
  /\ req = [r \in Requests |-> NoRequest]
  /\ res = [r \in Requests |-> NoResponse]
  /\ seen = [r \in Requests |-> [f \in Files |-> None]]

-----------------------------------------------------------------------------
(* Requests.                                                               *)

\* Request r runs to phase next, where it is q with the response a.
Leave(r, next, q, a) ==
  /\ phase' = [phase EXCEPT ![r] = next]
  /\ req' = [req EXCEPT ![r] = q]
  /\ res' = [res EXCEPT ![r] = a]
  /\ UNCHANGED <<now, writes, disk, content>>

\* handler::handle on an error: headers set before stay.
Fail(r) ==
  /\ Leave(r, "done", req[r], [res[r] EXCEPT !.status = "500"])
  /\ UNCHANGED seen

\* Mutant of Located: the asset is not looked for.
LocatedAnyway(path) == IF path \in Assets THEN path ELSE Index

\* Mutant of Located: a route is sent under its own path.
LocatedNowhere(path) == path

\* std::fs::metadata(...).is_file(): anything else is a route of the client.
Located(path) ==
  IF path \in Files /\ disk[path] # None THEN path ELSE Index

\* A request arrives at phase next, its file and its response found.
Arrive(r, next, q, a) ==
  /\ phase[r] = "idle"
  /\ Leave(r, next, q, a)
  /\ seen' = [seen EXCEPT ![r] =
       [f \in Files |-> IF disk[f] = None THEN None ELSE content[disk[f]].version]]

\* Mutant of Get: the content type is left to be guessed from the path.
GetGuessed(r) ==
  \E path \in Paths, accept \in Accepts :
    Arrive(r, "metadata",
           [NoRequest EXCEPT !.path = path, !.accept = accept, !.file = Located(path)], NoResponse)

\* GET, from its arrival to the first await of file::send.
Get(r) ==
  \E path \in Paths, accept \in Accepts :
    LET file == Located(path)
    IN  Arrive(r, "metadata",
               [NoRequest EXCEPT !.path = path, !.accept = accept, !.file = file],
               [NoResponse EXCEPT !.type = IF file # path THEN "html" ELSE "none"])

\* Any other method: 405, with the content type of the path.
Refuse(r) ==
  \E path \in Paths, accept \in Accepts :
    Arrive(r, "done",
           [NoRequest EXCEPT !.method = "other", !.path = path, !.accept = accept],
           [NoResponse EXCEPT !.status = "405", !.type = Guess(path)])

Metadata(r) ==
  /\ phase[r] = "metadata"
  /\ LET inode == disk[req[r].file]
     IN  IF inode = None THEN Fail(r)
         ELSE /\ Leave(r, "open", [req[r] EXCEPT !.mtime = content[inode].mtime], res[r])
              /\ UNCHANGED seen

\* The response that file::send, get and content_type::guess make of a file
\* that has been opened: Last-Modified is of the metadata read before.
Opened(q, a) ==
  [a EXCEPT !.status = "200", !.encoding = Chosen(q.accept), !.modified = q.mtime,
            !.type = IF @ = "none" THEN Guess(q.path) ELSE @]

\* Mutant of Open: Last-Modified is the time of the answer.
OpenDated(r) ==
  /\ phase[r] = "open"
  /\ LET inode == disk[req[r].file]
     IN  IF inode = None \/ ~Readable(req[r].accept) THEN Fail(r)
         ELSE /\ Leave(r, "stream", [req[r] EXCEPT !.handle = inode],
                       [Opened(req[r], res[r]) EXCEPT !.modified = now])
              /\ UNCHANGED seen

Open(r) ==
  /\ phase[r] = "open"
  /\ LET inode == disk[req[r].file]
     IN  IF inode = None \/ ~Readable(req[r].accept) THEN Fail(r)
         ELSE /\ Leave(r, "stream", [req[r] EXCEPT !.handle = inode],
                       Opened(req[r], res[r]))
              /\ UNCHANGED seen

\* hyper reads the body from the open file, whatever its name leads to now.
Stream(r) ==
  /\ phase[r] = "stream"
  /\ LET body == [file |-> req[r].file,
                  version |-> content[req[r].handle].version,
                  encoding |-> res[r].encoding]
     IN  Leave(r, "done", req[r], [res[r] EXCEPT !.body = body])
  /\ UNCHANGED seen

-----------------------------------------------------------------------------
(* The build, in another process: snowpack build --watch, clean --dist.  To *)
(* empty a file before it is written again is a write too.                  *)

Written(inode) ==
  /\ writes < MaxWrites
  /\ writes' = writes + 1
  /\ content' = [content EXCEPT ![inode] = [version |-> writes + 1, mtime |-> now]]
  /\ UNCHANGED now

Create(f) ==
  /\ disk[f] = None
  /\ Written(writes + 1)
  /\ disk' = [disk EXCEPT ![f] = writes + 1]
  /\ UNCHANGED <<phase, req, res, seen>>

Rewrite(f) ==
  /\ disk[f] # None
  /\ Written(disk[f])
  /\ UNCHANGED <<disk, phase, req, res, seen>>

Remove(f) ==
  /\ disk[f] # None
  /\ disk' = [disk EXCEPT ![f] = None]
  /\ seen' = [r \in Requests |->
                [seen[r] EXCEPT ![f] = IF @ = None THEN None ELSE Gone]]
  /\ UNCHANGED <<now, writes, content, phase, req, res>>

Tick ==
  /\ now < MaxTime
  /\ now' = now + 1
  /\ UNCHANGED <<writes, disk, content, phase, req, res, seen>>

Next ==
  \/ \E r \in Requests :
       Get(r) \/ Refuse(r) \/ Metadata(r) \/ Open(r) \/ Stream(r)
  \/ \E f \in Files : Create(f) \/ Rewrite(f) \/ Remove(f)
  \/ Tick

Spec == Init /\ [][Next]_vars

-----------------------------------------------------------------------------
(* Properties.                                                             *)

\* Once the file is open, Last-Modified is not newer than what the body will
\* be read from: metadata is asked for before the file is opened, so a build
\* in between makes the header too old, and a client that revalidates fetches
\* again; it never makes it too new, and the client keep stale content.
LastModifiedNotNewer ==
  \A r \in Requests : phase[r] = "stream" =>
    res[r].modified <= content[req[r].handle].mtime

\* The content type fits the file sent, although the type is decided when the
\* request arrives, or from the path of the request after the file is open,
\* and the file in between.
TypeFitsBody ==
  \A r \in Requests : res[r].body # None =>
    res[r].type = Guess(res[r].body.file)

\* The file a request asked for.
Wanted(r) ==
  IF req[r].path \in Files /\ seen[r][req[r].path] # None
  THEN req[r].path ELSE Index

\* A file that stays in place while the request runs is sent, in a version not
\* older than that of the request's arrival: what is rewritten, created or
\* removed beside it, between the four looks, does no harm.
ServesWhatStays ==
  \A r \in Requests :
    LET version == seen[r][Wanted(r)]
    IN  /\ phase[r] = "done" /\ req[r].method = "GET" /\ Readable(req[r].accept)
        /\ version \in Writes
        => /\ res[r].status = "200"
           /\ res[r].body.file = Wanted(r) /\ res[r].body.version >= version
=============================================================================
