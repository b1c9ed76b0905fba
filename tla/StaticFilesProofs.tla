------------------------- MODULE StaticFilesProofs --------------------------
(***************************************************************************)
(* Proofs about StaticFiles, for any number of files, requests and writes: *)
(* types, Last-Modified, the content type, and what is sent.               *)
(***************************************************************************)
EXTENDS StaticFiles, TLAPS

\* What is known of request q with response a at phase p.
Typed(p, q, a) ==
  /\ p \in Phases /\ q \in Request /\ a \in Response
  /\ p \in {"metadata", "open", "stream"} => q.file # None
  /\ p = "stream" => q.handle # None /\ content[q.handle] # None

\* What becomes Last-Modified was read from the file before it was opened, and
\* time has only gone on since.
Dated(p, q, a) ==
  /\ p \in {"open", "stream"} => q.mtime \in Times /\ q.mtime <= now
  /\ p = "open" /\ disk[q.file] # None => q.mtime <= content[disk[q.file]].mtime
  /\ p = "stream" => a.modified = q.mtime /\ q.mtime <= content[q.handle].mtime

\* Unless a type is given, the file sent is that of the path; if one is, it is
\* that of the file.
Fits(p, q, a) ==
  /\ p \in {"metadata", "open"} =>
       \/ a.type = "none" /\ q.file = q.path
       \/ a.type = "html" /\ q.file = Index
  /\ p = "stream" => a.type = Guess(q.file)
  /\ a.body # None => a.type = Guess(a.body.file)
  /\ p # "done" => a.body = None

Good(p, q, a) == Typed(p, q, a) /\ Dated(p, q, a) /\ Fits(p, q, a)

\* The inductive invariant.
Inv ==
  /\ TypeOK
  /\ \A k \in Writes : content[k] # None => content[k].mtime <= now
  /\ \A r \in Requests : Good(phase[r], req[r], res[r])

-----------------------------------------------------------------------------
LEMMA ChosenType ==
  ASSUME NEW accept \in Accepts, Readable(accept)
  PROVE  Chosen(accept) \in Encodings
<1>1. accept \subseteq {"deflate", "gzip", "br"}
  <2>1. accept \subseteq {"deflate", "gzip", "br", "binary"}
    BY StaticFilesAssumption
  <2> QED BY <2>1 DEF Readable
<1>2. CASE accept = {}
  BY <1>2 DEF Chosen, Encodings
<1>3. CASE accept # {}
  <2>1. \E e \in accept : \A f \in accept : Rank[e] <= Rank[f]
    <3>1. /\ Rank["deflate"] = 1 /\ Rank["gzip"] = 2 /\ Rank["br"] = 3
      BY DEF Rank
    <3>2. CASE "deflate" \in accept
      BY <1>1, <3>1, <3>2
    <3>3. CASE "deflate" \notin accept /\ "gzip" \in accept
      BY <1>1, <3>1, <3>3
    <3>4. CASE "deflate" \notin accept /\ "gzip" \notin accept
      <4>1. accept = {"br"}
        BY <1>1, <1>3, <3>4
      <4> QED BY <3>1, <4>1
    <3> QED BY <3>2, <3>3, <3>4
  <2>2. Chosen(accept) \in accept
    BY <1>3, <2>1 DEF Chosen
  <2> QED BY <1>1, <2>2 DEF Encodings
<1> QED BY <1>2, <1>3

\* A step of one request keeps the invariant if it leaves that request well.
LEMMA LeaveInv ==
  ASSUME Inv, NEW r \in Requests, NEW p, NEW q, NEW a, Leave(r, p, q, a),
         Good(p, q, a), seen' \in [Requests -> Seen]
  PROVE  Inv'
<1>1. /\ now' = now /\ writes' = writes /\ disk' = disk /\ content' = content
      /\ phase' = [phase EXCEPT ![r] = p]
      /\ req' = [req EXCEPT ![r] = q] /\ res' = [res EXCEPT ![r] = a]
  BY DEF Leave
<1>2. /\ p \in Phases /\ q \in Request /\ a \in Response
      /\ phase \in [Requests -> Phases] /\ req \in [Requests -> Request]
      /\ res \in [Requests -> Response]
  BY DEF Inv, TypeOK, Good, Typed
<1>3. /\ phase' \in [Requests -> Phases] /\ req' \in [Requests -> Request]
      /\ res' \in [Requests -> Response]
  BY <1>1, <1>2
<1>4. \A s \in Requests :
        /\ s = r => phase'[s] = p /\ req'[s] = q /\ res'[s] = a
        /\ s # r => phase'[s] = phase[s] /\ req'[s] = req[s] /\ res'[s] = res[s]
  BY <1>1, <1>2
<1>5. ASSUME NEW s \in Requests
      PROVE  Good(phase[s], req[s], res[s])'
  <2>1. Good(phase'[s], req'[s], res'[s])
    BY <1>4 DEF Inv
  <2> QED BY <1>1, <2>1 DEF Good, Typed, Dated, Fits
<1>6. TypeOK'
  BY <1>1, <1>3, <1>5 DEF Inv, TypeOK, Good, Typed
<1> QED BY <1>1, <1>5, <1>6 DEF Inv

\* What the invariant says of a request.
LEMMA Known ==
  ASSUME Inv, NEW r \in Requests
  PROVE  /\ req[r] \in Request /\ res[r] \in Response
         /\ Typed(phase[r], req[r], res[r]) /\ Dated(phase[r], req[r], res[r])
         /\ Fits(phase[r], req[r], res[r])
         /\ seen \in [Requests -> Seen]
BY DEF Inv, TypeOK, Good

LEMMA ArriveInv ==
  ASSUME Inv, NEW r \in Requests, NEW p, NEW q, NEW a, Arrive(r, p, q, a),
         Good(p, q, a)
  PROVE  Inv'
<1> DEFINE now_seen == [f \in Files |-> IF disk[f] = None THEN None
                                       ELSE content[disk[f]].version]
<1>1. now_seen \in Seen
  <2>1. \A f \in Files : disk[f] # None => content[disk[f]].version \in Writes
    BY DEF Inv, TypeOK, Content
  <2> QED BY <2>1 DEF Seen
<1>2. seen' = [seen EXCEPT ![r] = now_seen] /\ Leave(r, p, q, a)
  BY DEF Arrive
<1> HIDE DEF now_seen
<1>3. seen' \in [Requests -> Seen]
  BY <1>1, <1>2, Known
<1> QED BY <1>2, <1>3, LeaveInv

LEMMA NoRequestType == NoRequest \in Request /\ NoResponse \in Response
<1>1. Index \in Paths /\ {} \in Accepts
  BY StaticFilesAssumption DEF Paths, Files
<1> QED BY <1>1 DEF NoRequest, NoResponse, Request, Response, Encodings

LEMMA InitInv == Init => Inv
<1> SUFFICES ASSUME Init PROVE Inv
  OBVIOUS
<1>1. now \in Times /\ writes \in 0 .. MaxWrites
  BY StaticFilesAssumption DEF Init, Times
<1>2. /\ phase \in [Requests -> Phases] /\ req \in [Requests -> Request]
      /\ res \in [Requests -> Response] /\ seen \in [Requests -> Seen]
  BY NoRequestType DEF Init, Phases, Seen
<1>3. \A r \in Requests : phase[r] = "idle" /\ res[r].body = None
  BY DEF Init, NoResponse
<1>4. TypeOK
  BY <1>1, <1>2, <1>3 DEF Init, TypeOK
<1>5. \A k \in Writes : content[k] = None
  BY DEF Init
<1> QED BY <1>2, <1>3, <1>4, <1>5 DEF Inv, Good, Typed, Dated, Fits

-----------------------------------------------------------------------------
(* One lemma for each action of a request.                                 *)

LEMMA GetInv ==
  ASSUME Inv, NEW r \in Requests, Get(r)
  PROVE  Inv'
<1>1. PICK path \in Paths, accept \in Accepts :
        Arrive(r, "metadata",
               [NoRequest EXCEPT !.path = path, !.accept = accept,
                                 !.file = Located(path)],
               [NoResponse EXCEPT
                  !.type = IF Located(path) # path THEN "html" ELSE "none"])
  BY DEF Get
<1> DEFINE type == IF Located(path) # path THEN "html" ELSE "none"
           q == [NoRequest EXCEPT !.path = path, !.accept = accept,
                                  !.file = Located(path)]
           a == [NoResponse EXCEPT !.type = type]
<1>2. Located(path) \in Files /\ (Located(path) = path \/ Located(path) = Index)
  BY DEF Located, Files
<1>3. q \in Request /\ q.file = Located(path) /\ q.path = path
  BY <1>2, NoRequestType DEF Request
<1>4. a \in Response /\ a.type = type /\ a.body = None
  BY NoRequestType DEF Response, NoResponse
<1>5. None \notin Files
  BY StaticFilesAssumption
<1> HIDE DEF q, a
<1>6. Good("metadata", q, a)
  BY <1>2, <1>3, <1>4, <1>5 DEF Good, Typed, Dated, Fits, Phases
<1> QED BY <1>1, <1>6, ArriveInv DEF q, a

LEMMA RefuseInv ==
  ASSUME Inv, NEW r \in Requests, Refuse(r)
  PROVE  Inv'
<1>1. PICK path \in Paths, accept \in Accepts :
        Arrive(r, "done",
               [NoRequest EXCEPT !.method = "other", !.path = path,
                                 !.accept = accept],
               [NoResponse EXCEPT !.status = "405", !.type = Guess(path)])
  BY DEF Refuse
<1> DEFINE q == [NoRequest EXCEPT !.method = "other", !.path = path, !.accept = accept]
           a == [NoResponse EXCEPT !.status = "405", !.type = Guess(path)]
<1>2. q \in Request
  BY NoRequestType DEF Request
<1>3. Guess(path) \in {"none", "html", "asset", "plain"}
  BY DEF Guess
<1>4. a \in Response /\ a.body = None
  BY <1>3, NoRequestType DEF Response, NoResponse
<1> HIDE DEF q, a
<1>5. Good("done", q, a)
  BY <1>2, <1>4 DEF Good, Typed, Dated, Fits, Phases
<1> QED BY <1>1, <1>5, ArriveInv DEF q, a

LEMMA FailInv ==
  ASSUME Inv, NEW r \in Requests, Fail(r), phase[r] # "done"
  PROVE  Inv'
<1> DEFINE a == [res[r] EXCEPT !.status = "500"]
<1>1. a \in Response /\ a.body = None /\ req[r] \in Request
  BY Known DEF Response, Fits
<1> HIDE DEF a
<1>2. Good("done", req[r], a)
  BY <1>1 DEF Good, Typed, Dated, Fits, Phases
<1>3. Leave(r, "done", req[r], a) /\ seen' = seen
  BY DEF Fail, a
<1> QED BY <1>2, <1>3, LeaveInv, Known

LEMMA MetadataInv ==
  ASSUME Inv, NEW r \in Requests, Metadata(r)
  PROVE  Inv'
<1> DEFINE inode == disk[req[r].file]
<1>1. phase[r] = "metadata" /\ req[r].file \in Files /\ req[r].file # None
  BY Known DEF Metadata, Typed, Request
<1>2. CASE inode = None
  BY <1>1, <1>2, FailInv DEF Metadata
<1>3. CASE inode # None
  <2> DEFINE q == [req[r] EXCEPT !.mtime = content[inode].mtime]
  <2>1. /\ inode \in Writes /\ content[inode] \in Content
        /\ content[inode].mtime \in Times /\ content[inode].mtime <= now
    BY <1>1, <1>3 DEF Inv, TypeOK, Content
  <2>2. /\ q \in Request /\ q.file = req[r].file /\ q.path = req[r].path
        /\ q.mtime = content[inode].mtime
    BY <2>1, Known DEF Request
  <2>3. Leave(r, "open", q, res[r]) /\ seen' = seen
    BY <1>3 DEF Metadata
  <2> HIDE DEF q
  <2>4. Typed("open", q, res[r])
    BY <1>1, <2>2, Known DEF Typed, Phases
  <2>5. Dated("open", q, res[r])
    <3>1. content[inode].mtime <= content[inode].mtime
      BY <2>1 DEF Times
    <3> QED BY <2>1, <2>2, <3>1 DEF Dated
  <2>6. Fits("open", q, res[r])
    BY <1>1, <2>2, Known DEF Fits
  <2> QED BY <2>3, <2>4, <2>5, <2>6, LeaveInv, Known DEF Good
<1> QED BY <1>2, <1>3

LEMMA OpenInv ==
  ASSUME Inv, NEW r \in Requests, Open(r)
  PROVE  Inv'
<1> DEFINE inode == disk[req[r].file]
<1>1. /\ phase[r] = "open" /\ req[r].file \in Files /\ req[r].file # None
      /\ req[r].accept \in Accepts /\ req[r].path \in Paths
  BY Known DEF Open, Typed, Request
<1>2. CASE inode = None \/ ~Readable(req[r].accept)
  BY <1>1, <1>2, FailInv DEF Open
<1>3. CASE ~(inode = None \/ ~Readable(req[r].accept))
  <2> DEFINE type == IF res[r].type = "none" THEN Guess(req[r].path) ELSE res[r].type
             q == [req[r] EXCEPT !.handle = inode]
             a == Opened(req[r], res[r])
  <2>1. inode \in Writes /\ content[inode] # None /\ inode # None
    BY <1>1, <1>3 DEF Inv, TypeOK
  <2>2. Chosen(req[r].accept) \in Encodings
    BY <1>1, <1>3, ChosenType
  <2>3. type \in {"none", "html", "asset", "plain"}
    BY Known DEF Guess, Response
  <2>4. /\ q \in Request /\ q.file = req[r].file /\ q.handle = inode
        /\ q.mtime = req[r].mtime /\ req[r].mtime \in Times
    BY <1>1, <2>1, Known DEF Request, Dated
  <2>5. /\ a \in Response /\ a.body = res[r].body /\ a.type = type
        /\ a.modified = req[r].mtime
    BY <2>2, <2>3, <2>4, Known DEF Response, Opened
  <2>6. Leave(r, "stream", q, a) /\ seen' = seen
    BY <1>3 DEF Open
  <2>7. type = Guess(req[r].file) /\ res[r].body = None
    BY <1>1, Known DEF Fits, Guess
  <2> HIDE DEF q, a, type
  <2>8. Typed("stream", q, a)
    BY <1>1, <2>1, <2>4, <2>5 DEF Typed, Phases
  <2>9. Dated("stream", q, a)
    BY <1>1, <2>1, <2>4, <2>5, Known DEF Dated
  <2>10. Fits("stream", q, a)
    BY <2>4, <2>5, <2>7 DEF Fits
  <2> QED BY <2>6, <2>8, <2>9, <2>10, LeaveInv, Known DEF Good
<1> QED BY <1>2, <1>3

LEMMA StreamInv ==
  ASSUME Inv, NEW r \in Requests, Stream(r)
  PROVE  Inv'
<1> DEFINE body == [file |-> req[r].file,
                    version |-> content[req[r].handle].version,
                    encoding |-> res[r].encoding]
           a == [res[r] EXCEPT !.body = body]
<1>1. /\ phase[r] = "stream" /\ req[r].file \in Files
      /\ req[r].handle \in Writes /\ content[req[r].handle] # None
      /\ res[r].encoding \in Encodings
  BY Known DEF Stream, Typed, Request, Response
<1>2. content[req[r].handle].version \in Writes
  BY <1>1 DEF Inv, TypeOK, Content
<1>3. body \in Body /\ body.file = req[r].file
  BY <1>1, <1>2 DEF Body
<1>4. Leave(r, "done", req[r], a) /\ seen' = seen
  BY DEF Stream
<1> HIDE DEF body
<1>5. a \in Response /\ a.body = body /\ a.type = res[r].type
  BY <1>3, Known DEF Response
<1> HIDE DEF a
<1>6. Typed("done", req[r], a) /\ Dated("done", req[r], a)
  BY <1>5, Known DEF Typed, Dated, Phases
<1>7. Fits("done", req[r], a)
  BY <1>1, <1>3, <1>5, Known DEF Fits
<1> QED BY <1>4, <1>6, <1>7, LeaveInv, Known DEF Good

-----------------------------------------------------------------------------
(* The build.                                                              *)

\* A write gives an inode a content of now, later than any Last-Modified.
LEMMA WrittenInv ==
  ASSUME Inv, NEW f \in Files, Create(f) \/ Rewrite(f)
  PROVE  Inv'
<1> DEFINE inode == IF disk[f] = None THEN writes + 1 ELSE disk[f]
           new == [version |-> writes + 1, mtime |-> now]
<1>1. /\ now' = now /\ writes' = writes + 1 /\ phase' = phase /\ req' = req
      /\ res' = res /\ seen' = seen
      /\ content' = [content EXCEPT ![inode] = new]
      /\ disk' = [disk EXCEPT ![f] = inode]
  <2>1. disk \in [Files -> Writes \cup {None}]
    BY DEF Inv, TypeOK
  <2> QED BY <2>1 DEF Create, Rewrite, Written
<1>2. /\ writes + 1 \in Writes /\ writes + 1 \in 0 .. MaxWrites
      /\ now \in Times /\ now \in Int
  BY StaticFilesAssumption DEF Inv, TypeOK, Create, Rewrite, Written, Writes, Times
<1>3. inode \in Writes
  BY <1>2 DEF Inv, TypeOK
<1>4. new \in Content /\ new.mtime = now /\ new # None
  BY <1>2, NoneIsNoContent DEF Content
<1> HIDE DEF inode, new
<1>5. /\ content \in [Writes -> Content \cup {None}]
      /\ disk \in [Files -> Writes \cup {None}]
  BY DEF Inv, TypeOK
<1>6. /\ content' \in [Writes -> Content \cup {None}]
      /\ disk' \in [Files -> Writes \cup {None}]
      /\ \A k \in Writes : content'[k] = IF k = inode THEN new ELSE content[k]
      /\ \A g \in Files : disk'[g] = IF g = f THEN inode ELSE disk[g]
  BY <1>1, <1>3, <1>4, <1>5
<1>7. TypeOK'
  <2>1. \A g \in Files : disk'[g] # None => content'[disk'[g]] # None
    BY <1>3, <1>4, <1>5, <1>6 DEF Inv, TypeOK
  <2>2. \A r \in Requests :
          /\ phase[r] \in {"metadata", "open", "stream"} => req[r].file # None
          /\ phase[r] = "stream" => /\ req[r].handle # None
                                        /\ content'[req[r].handle] # None
    <3> SUFFICES ASSUME NEW r \in Requests
                 PROVE  /\ phase[r] \in {"metadata", "open", "stream"} =>
                             req[r].file # None
                        /\ phase[r] = "stream" =>
                             /\ req[r].handle # None
                             /\ content'[req[r].handle] # None
      OBVIOUS
    <3>1. req[r].handle \in Writes \cup {None}
      BY Known DEF Request
    <3> QED BY <1>4, <1>6, <3>1, Known DEF Typed
  <2> QED BY <1>1, <1>2, <1>6, <2>1, <2>2 DEF Inv, TypeOK
<1>8. \A k \in Writes : content'[k] # None => content'[k].mtime <= now'
  BY <1>1, <1>2, <1>4, <1>6 DEF Inv
<1>9. ASSUME NEW r \in Requests
      PROVE  Good(phase[r], req[r], res[r])'
  <2> DEFINE p == phase[r]
             q == req[r]
             a == res[r]
  <2>1. /\ Typed(p, q, a) /\ Dated(p, q, a) /\ Fits(p, q, a)
        /\ q \in Request /\ phase'[r] = p /\ req'[r] = q /\ res'[r] = a
    BY <1>1, Known
  <2>2. Typed(phase[r], req[r], res[r])' /\ Fits(phase[r], req[r], res[r])'
    <3>1. q.handle \in Writes \cup {None}
      BY <2>1 DEF Request
    <3>2. Typed(phase[r], req[r], res[r])'
      BY <1>4, <1>6, <2>1, <3>1 DEF Typed
    <3> QED BY <2>1, <3>2 DEF Fits
  <2>3. ASSUME p = "open" PROVE Dated(phase[r], req[r], res[r])'
    <3>1. q.file \in Files /\ q.mtime <= now
      BY <2>1, <2>3 DEF Typed, Request, Dated
    <3>2. CASE q.file = f
      <4>1. content'[disk'[q.file]] = new
        BY <1>3, <1>6, <3>1, <3>2
      <4> QED BY <1>1, <1>4, <2>1, <2>3, <3>1, <4>1 DEF Dated
    <3>3. CASE q.file # f
      <4>1. disk'[q.file] = disk[q.file]
        BY <1>6, <3>1, <3>3
      <4>2. disk[q.file] # None => \/ content'[disk[q.file]] = content[disk[q.file]]
                                  \/ content'[disk[q.file]] = new
        BY <1>5, <1>6, <3>1
      <4> QED BY <1>1, <1>4, <2>1, <2>3, <3>1, <4>1, <4>2 DEF Dated
    <3> QED BY <3>2, <3>3
  <2>4. ASSUME p = "stream" PROVE Dated(phase[r], req[r], res[r])'
    <3>1. q.handle \in Writes
      BY <2>1, <2>4 DEF Typed, Request
    <3>2. content'[q.handle] = content[q.handle] \/ content'[q.handle] = new
      BY <1>6, <3>1
    <3> QED BY <1>1, <1>4, <2>1, <2>4, <3>2 DEF Dated
  <2>5. ASSUME p # "open" /\ p # "stream" PROVE Dated(phase[r], req[r], res[r])'
    BY <2>1, <2>5 DEF Dated
  <2> QED BY <2>2, <2>3, <2>4, <2>5 DEF Good
<1> QED BY <1>7, <1>8, <1>9 DEF Inv

LEMMA RemoveInv ==
  ASSUME Inv, NEW f \in Files, Remove(f)
  PROVE  Inv'
<1>1. /\ now' = now /\ writes' = writes /\ content' = content
      /\ disk' = [disk EXCEPT ![f] = None]
      /\ phase' = phase /\ req' = req /\ res' = res
  BY DEF Remove
<1>2. seen' \in [Requests -> Seen]
  <2>1. \A r \in Requests :
          [seen[r] EXCEPT ![f] = IF @ = None THEN None ELSE Gone] \in Seen
    BY Known DEF Seen
  <2> QED BY <2>1 DEF Remove
<1>3. \A g \in Files : disk'[g] = IF g = f THEN None ELSE disk[g]
  BY <1>1 DEF Inv, TypeOK
<1>4. TypeOK'
  <2>1. /\ disk' \in [Files -> Writes \cup {None}]
        /\ \A g \in Files : disk'[g] # None => content'[disk'[g]] # None
    BY <1>1, <1>3 DEF Inv, TypeOK
  <2> QED BY <1>1, <1>2, <2>1 DEF Inv, TypeOK
<1>5. ASSUME NEW r \in Requests
      PROVE  Good(phase[r], req[r], res[r])'
  <2>1. /\ phase'[r] = phase[r] /\ req'[r] = req[r] /\ res'[r] = res[r]
        /\ Good(phase[r], req[r], res[r])
    BY <1>1 DEF Inv
  <2>2. phase[r] = "open" => req[r].file \in Files
    BY Known DEF Typed, Request
  <2>3. phase[r] = "open" /\ disk'[req[r].file] # None =>
          disk'[req[r].file] = disk[req[r].file]
    BY <1>3, <2>2
  <2> QED BY <1>1, <2>1, <2>3 DEF Good, Typed, Dated, Fits
<1> QED BY <1>1, <1>4, <1>5 DEF Inv

LEMMA TickInv ==
  ASSUME Inv, Tick
  PROVE  Inv'
<1>1. /\ now' = now + 1 /\ now \in Times /\ now' \in Times
      /\ UNCHANGED <<writes, disk, content, phase, req, res, seen>>
  BY StaticFilesAssumption DEF Tick, Inv, TypeOK, Times
<1>2. TypeOK'
  BY <1>1 DEF Inv, TypeOK
<1>3. \A t \in Times : t <= now => t <= now'
  BY <1>1 DEF Times
<1>4. \A k \in Writes : content'[k] # None => content'[k].mtime <= now'
  <2>1. \A k \in Writes : content[k] # None => content[k].mtime \in Times
    BY DEF Inv, TypeOK, Content
  <2> QED BY <1>1, <1>3, <2>1 DEF Inv
<1>5. \A r \in Requests : Good(phase[r], req[r], res[r])'
  BY <1>1, <1>3 DEF Inv, Good, Typed, Dated, Fits
<1> QED BY <1>2, <1>4, <1>5 DEF Inv

LEMMA NextInv == Inv /\ [Next]_vars => Inv'
<1> SUFFICES ASSUME Inv, [Next]_vars PROVE Inv'
  OBVIOUS
<1>1. CASE UNCHANGED vars
  BY <1>1 DEF vars, Inv, TypeOK, Good, Typed, Dated, Fits
<1>2. ASSUME NEW r \in Requests,
             Get(r) \/ Refuse(r) \/ Metadata(r) \/ Open(r) \/ Stream(r)
      PROVE  Inv'
  BY <1>2, GetInv, RefuseInv, MetadataInv, OpenInv, StreamInv
<1>3. ASSUME NEW f \in Files, Create(f) \/ Rewrite(f) \/ Remove(f)
      PROVE  Inv'
  BY <1>3, WrittenInv, RemoveInv
<1>4. CASE Tick
  BY <1>4, TickInv
<1> QED BY <1>1, <1>2, <1>3, <1>4 DEF Next

LEMMA Invariance == Spec => []Inv
BY InitInv, NextInv, PTL DEF Spec

\* The handler never lacks the file it is about to read, and an open file has
\* a content, however the build replaces files.
THEOREM TypeCorrect == Spec => []TypeOK
<1>1. Inv => TypeOK
  BY DEF Inv
<1> QED BY <1>1, Invariance, PTL

\* Last-Modified is never newer than the content the body is read from.
THEOREM LastModifiedIsSafe == Spec => []LastModifiedNotNewer
<1>1. Inv => LastModifiedNotNewer
  BY DEF Inv, Good, Dated, LastModifiedNotNewer
<1> QED BY <1>1, Invariance, PTL

\* The content type fits the file in the body.
THEOREM TypesFit == Spec => []TypeFitsBody
<1>1. Inv => TypeFitsBody
  BY DEF Inv, Good, Fits, TypeFitsBody
<1> QED BY <1>1, Invariance, PTL

-----------------------------------------------------------------------------
(* What stays in place is sent.                                            *)

\* What request q, that found the versions s when it came, is about: Wanted.
Named(q, s) == IF q.path \in Files /\ s[q.path] # None THEN q.path ELSE Index

\* As long as the file has not been removed, a GET request is on its way to
\* it, in the version found or a later one.
Serves(p, q, a, s) ==
  q.method = "GET" /\ s[Named(q, s)] \in Writes =>
    /\ p \in {"metadata", "open"} =>
         /\ q.file = Named(q, s) /\ disk[q.file] # None
         /\ content[disk[q.file]].version >= s[Named(q, s)]
    /\ p = "stream" =>
         /\ q.file = Named(q, s) /\ a.status = "200"
         /\ content[q.handle].version >= s[Named(q, s)]
    /\ p = "done" /\ Readable(q.accept) =>
         /\ a.status = "200" /\ a.body.file = Named(q, s)
         /\ a.body.version >= s[Named(q, s)]

\* The second inductive invariant: also, a later write has a later version.
ServeInv ==
  /\ \A k \in Writes : content[k] # None => content[k].version <= writes
  /\ \A r \in Requests : Serves(phase[r], req[r], res[r], seen[r])

\* A step of one request.
LEMMA LeaveServe ==
  ASSUME Inv, ServeInv, NEW r \in Requests, NEW p, NEW q, NEW a, NEW s,
         Leave(r, p, q, a), seen' = [seen EXCEPT ![r] = s], Serves(p, q, a, s)
  PROVE  ServeInv'
<1>1. /\ now' = now /\ writes' = writes /\ disk' = disk /\ content' = content
      /\ phase' = [phase EXCEPT ![r] = p]
      /\ req' = [req EXCEPT ![r] = q] /\ res' = [res EXCEPT ![r] = a]
  BY DEF Leave
<1>2. /\ phase \in [Requests -> Phases] /\ req \in [Requests -> Request]
      /\ res \in [Requests -> Response] /\ seen \in [Requests -> Seen]
  BY DEF Inv, TypeOK
<1>3. \A t \in Requests :
        /\ t = r => phase'[t] = p /\ req'[t] = q /\ res'[t] = a /\ seen'[t] = s
        /\ t # r => /\ phase'[t] = phase[t] /\ req'[t] = req[t]
                    /\ res'[t] = res[t] /\ seen'[t] = seen[t]
  BY <1>1, <1>2
<1>4. ASSUME NEW t \in Requests
      PROVE  Serves(phase[t], req[t], res[t], seen[t])'
  <2>1. Serves(phase'[t], req'[t], res'[t], seen'[t])
    BY <1>3 DEF ServeInv
  <2> QED BY <1>1, <2>1 DEF Serves, Named
<1> QED BY <1>1, <1>4 DEF ServeInv

\* The same when what the request found on its arrival is left alone.
LEMMA StayServe ==
  ASSUME Inv, ServeInv, NEW r \in Requests, NEW p, NEW q, NEW a,
         Leave(r, p, q, a), seen' = seen, Serves(p, q, a, seen[r])
  PROVE  ServeInv'
<1>1. seen' = [seen EXCEPT ![r] = seen[r]]
  BY DEF Inv, TypeOK
<1> QED BY <1>1, LeaveServe

\* The file located is the one named, and its version the one found.
LEMMA GetServe ==
  ASSUME Inv, ServeInv, NEW r \in Requests, Get(r)
  PROVE  ServeInv'
<1>1. PICK path \in Paths, accept \in Accepts :
        Arrive(r, "metadata",
               [NoRequest EXCEPT !.path = path, !.accept = accept,
                                 !.file = Located(path)],
               [NoResponse EXCEPT
                  !.type = IF Located(path) # path THEN "html" ELSE "none"])
  BY DEF Get
<1> DEFINE q == [NoRequest EXCEPT !.path = path, !.accept = accept,
                                  !.file = Located(path)]
           a == [NoResponse EXCEPT !.type = IF Located(path) # path THEN "html" ELSE "none"]
           s == [f \in Files |-> IF disk[f] = None THEN None ELSE content[disk[f]].version]
<1>2. q.file = Located(path) /\ q.path = path
  BY DEF NoRequest
<1>3. Leave(r, "metadata", q, a) /\ seen' = [seen EXCEPT ![r] = s]
  BY <1>1 DEF Arrive
<1>4. \A f \in Files : /\ s[f] = IF disk[f] = None THEN None ELSE content[disk[f]].version
                       /\ disk[f] # None => content[disk[f]].version \in Writes
                       /\ disk[f] # None => s[f] # None
  BY StaticFilesAssumption DEF Inv, TypeOK, Content, Writes
<1>5. Index \in Files /\ None \notin Writes
  BY StaticFilesAssumption DEF Files, Writes
<1> HIDE DEF q, a, s
<1>6. Located(path) = Named(q, s)
  BY <1>2, <1>4 DEF Located, Named
<1>7. Named(q, s) \in Files
  BY <1>5 DEF Named
<1>8. s[Named(q, s)] \in Writes =>
        /\ disk[Named(q, s)] # None
        /\ content[disk[Named(q, s)]].version >= s[Named(q, s)]
  BY <1>4, <1>5, <1>7 DEF Writes
<1>9. Serves("metadata", q, a, s)
  BY <1>2, <1>6, <1>8 DEF Serves
<1> QED BY <1>3, <1>9, LeaveServe

LEMMA RefuseServe ==
  ASSUME Inv, ServeInv, NEW r \in Requests, Refuse(r)
  PROVE  ServeInv'
<1>1. PICK path \in Paths, accept \in Accepts :
        Arrive(r, "done",
               [NoRequest EXCEPT !.method = "other", !.path = path,
                                 !.accept = accept],
               [NoResponse EXCEPT !.status = "405", !.type = Guess(path)])
  BY DEF Refuse
<1> DEFINE q == [NoRequest EXCEPT !.method = "other", !.path = path, !.accept = accept]
           a == [NoResponse EXCEPT !.status = "405", !.type = Guess(path)]
           s == [f \in Files |-> IF disk[f] = None THEN None ELSE content[disk[f]].version]
<1>2. q.method = "other"
  BY DEF NoRequest
<1>3. Leave(r, "done", q, a) /\ seen' = [seen EXCEPT ![r] = s]
  BY <1>1 DEF Arrive
<1> HIDE DEF q, a, s
<1>4. Serves("done", q, a, s)
  BY <1>2 DEF Serves
<1> QED BY <1>3, <1>4, LeaveServe

\* A request fails only if its file is gone or its headers are no text.
LEMMA FailServe ==
  ASSUME Inv, ServeInv, NEW r \in Requests, Fail(r), phase[r] \in {"metadata", "open"},
         disk[req[r].file] = None \/ ~Readable(req[r].accept)
  PROVE  ServeInv'
<1>1. Serves(phase[r], req[r], res[r], seen[r])
  BY DEF ServeInv
<1>2. Serves("done", req[r], [res[r] EXCEPT !.status = "500"], seen[r])
  BY <1>1 DEF Serves
<1> QED BY <1>2, StayServe DEF Fail

LEMMA MetadataServe ==
  ASSUME Inv, ServeInv, NEW r \in Requests, Metadata(r)
  PROVE  ServeInv'
<1>1. phase[r] = "metadata" /\ Serves(phase[r], req[r], res[r], seen[r])
  BY DEF Metadata, ServeInv
<1>2. CASE disk[req[r].file] = None
  BY <1>1, <1>2, FailServe DEF Metadata
<1>3. CASE disk[req[r].file] # None
  <2> DEFINE q == [req[r] EXCEPT !.mtime = content[disk[req[r].file]].mtime]
  <2>1. Leave(r, "open", q, res[r]) /\ seen' = seen
    BY <1>3 DEF Metadata
  <2>2. /\ q.method = req[r].method /\ q.path = req[r].path /\ q.file = req[r].file
        /\ q.accept = req[r].accept
    BY Known DEF Request
  <2> HIDE DEF q
  <2>3. Named(q, seen[r]) = Named(req[r], seen[r])
    BY <2>2 DEF Named
  <2>4. Serves("open", q, res[r], seen[r])
    BY <1>1, <2>2, <2>3 DEF Serves
  <2> QED BY <2>1, <2>4, StayServe
<1> QED BY <1>2, <1>3

LEMMA OpenServe ==
  ASSUME Inv, ServeInv, NEW r \in Requests, Open(r)
  PROVE  ServeInv'
<1> DEFINE inode == disk[req[r].file]
<1>1. /\ phase[r] = "open" /\ Serves(phase[r], req[r], res[r], seen[r])
      /\ req[r] \in Request /\ res[r] \in Response
  BY Known DEF Open, ServeInv
<1>2. CASE inode = None \/ ~Readable(req[r].accept)
  BY <1>1, <1>2, FailServe DEF Open
<1>3. CASE ~(inode = None \/ ~Readable(req[r].accept))
  <2> DEFINE q == [req[r] EXCEPT !.handle = inode]
             a == Opened(req[r], res[r])
  <2>1. Leave(r, "stream", q, a) /\ seen' = seen
    BY <1>3 DEF Open
  <2>2. /\ q.method = req[r].method /\ q.path = req[r].path
        /\ q.file = req[r].file /\ q.handle = inode /\ a.status = "200"
    BY <1>1 DEF Request, Response, Opened
  <2> HIDE DEF q, a
  <2>3. Named(q, seen[r]) = Named(req[r], seen[r])
    BY <2>2 DEF Named
  <2>4. Serves("stream", q, a, seen[r])
    BY <1>1, <2>2, <2>3 DEF Serves
  <2> QED BY <2>1, <2>4, StayServe
<1> QED BY <1>2, <1>3

LEMMA StreamServe ==
  ASSUME Inv, ServeInv, NEW r \in Requests, Stream(r)
  PROVE  ServeInv'
<1> DEFINE body == [file |-> req[r].file,
                    version |-> content[req[r].handle].version,
                    encoding |-> res[r].encoding]
           a == [res[r] EXCEPT !.body = body]
<1>1. /\ phase[r] = "stream" /\ Serves(phase[r], req[r], res[r], seen[r])
      /\ res[r] \in Response
  BY Known DEF Stream, ServeInv
<1>2. Leave(r, "done", req[r], a) /\ seen' = seen
  BY DEF Stream
<1>3. /\ a.status = res[r].status /\ a.body.file = req[r].file
      /\ a.body.version = content[req[r].handle].version
  BY <1>1 DEF Response
<1> HIDE DEF a
<1>4. Serves("done", req[r], a, seen[r])
  BY <1>1, <1>3 DEF Serves
<1> QED BY <1>2, <1>4, StayServe

\* A write replaces a content by a later one, or makes a new file.
LEMMA WrittenServe ==
  ASSUME Inv, ServeInv, NEW f \in Files, Create(f) \/ Rewrite(f)
  PROVE  ServeInv'
<1> DEFINE inode == IF disk[f] = None THEN writes + 1 ELSE disk[f]
           new == [version |-> writes + 1, mtime |-> now]
<1>1. /\ now' = now /\ writes' = writes + 1 /\ phase' = phase /\ req' = req
      /\ res' = res /\ seen' = seen
      /\ content' = [content EXCEPT ![inode] = new]
      /\ disk' = [disk EXCEPT ![f] = inode]
  <2>1. disk \in [Files -> Writes \cup {None}]
    BY DEF Inv, TypeOK
  <2> QED BY <2>1 DEF Create, Rewrite, Written
<1>2. /\ writes \in Int /\ writes + 1 \in Writes
      /\ content \in [Writes -> Content \cup {None}]
      /\ disk \in [Files -> Writes \cup {None}]
      /\ Writes \subseteq Int /\ None \notin Writes
  BY StaticFilesAssumption DEF Inv, TypeOK, Create, Rewrite, Written, Writes
<1>3. inode \in Writes /\ new.version = writes + 1
  BY <1>2
<1> HIDE DEF inode, new
<1>4. \A k \in Writes : content'[k] = IF k = inode THEN new ELSE content[k]
  BY <1>1, <1>2
<1>5. \A g \in Files : disk[g] # None => disk'[g] = disk[g]
  BY <1>1, <1>2 DEF inode
<1>6. \A k \in Writes : content[k] # None =>
        content[k].version \in Writes /\ content[k].version <= writes
  BY <1>2 DEF Content, ServeInv
<1>7. ASSUME NEW k \in Writes, content'[k] # None PROVE content'[k].version <= writes'
  <2>1. CASE k = inode
    BY <1>1, <1>2, <1>3, <1>4, <2>1
  <2>2. CASE k # inode
    <3>1. content'[k] = content[k] /\ content[k] # None
      BY <1>4, <1>7, <2>2
    <3>2. content[k].version \in Int /\ content[k].version <= writes
      BY <1>2, <1>6, <3>1
    <3> QED BY <1>1, <1>2, <3>1, <3>2
  <2> QED BY <2>1, <2>2
<1>8. ASSUME NEW k \in Writes, content[k] # None, NEW v \in Writes, content[k].version >= v
      PROVE  content'[k].version >= v
  <2>1. content[k].version \in Int /\ content[k].version <= writes /\ v \in Int
    BY <1>2, <1>6, <1>8
  <2>2. CASE k = inode
    BY <1>2, <1>3, <1>4, <1>8, <2>1, <2>2
  <2>3. CASE k # inode
    BY <1>4, <1>8, <2>3
  <2> QED BY <2>2, <2>3
<1>9. ASSUME NEW r \in Requests
      PROVE  Serves(phase[r], req[r], res[r], seen[r])'
  <2> DEFINE q == req[r]
             s == seen[r]
             v == s[Named(q, s)]
  <2>1. /\ Serves(phase[r], q, res[r], s) /\ Typed(phase[r], q, res[r]) /\ q \in Request
        /\ phase'[r] = phase[r] /\ req'[r] = q /\ res'[r] = res[r] /\ seen'[r] = s
    BY <1>1, Known DEF ServeInv
  <2>2. ASSUME q.method = "GET", v \in Writes, phase[r] \in {"metadata", "open"}
        PROVE  disk'[q.file] # None /\ content'[disk'[q.file]].version >= v
    <3>1. /\ q.file \in Files /\ disk[q.file] # None /\ disk[q.file] \in Writes
          /\ content[disk[q.file]].version >= v
      BY <1>2, <2>1, <2>2 DEF Serves, Typed, Request
    <3>2. disk'[q.file] = disk[q.file] /\ content[disk[q.file]] # None
      BY <1>5, <3>1 DEF Inv, TypeOK
    <3>3. content'[disk[q.file]].version >= v
      BY <1>8, <2>2, <3>1, <3>2
    <3> QED BY <3>1, <3>2, <3>3
  <2>3. ASSUME q.method = "GET", v \in Writes, phase[r] = "stream"
        PROVE  content'[q.handle].version >= v
    <3>1. q.handle \in Writes /\ content[q.handle] # None /\ content[q.handle].version >= v
      BY <2>1, <2>3 DEF Serves, Typed, Request
    <3> QED BY <1>8, <2>3, <3>1
  <2>4. Named(q, s)' = Named(q, s) /\ v' = v
    BY <1>1 DEF Named
  <2> QED BY <2>1, <2>2, <2>3, <2>4 DEF Serves
<1> QED BY <1>7, <1>9 DEF ServeInv

\* A file removed is marked in every request that found it.
LEMMA RemoveServe ==
  ASSUME Inv, ServeInv, NEW f \in Files, Remove(f)
  PROVE  ServeInv'
<1>1. /\ writes' = writes /\ content' = content /\ disk' = [disk EXCEPT ![f] = None]
      /\ phase' = phase /\ req' = req /\ res' = res
  BY DEF Remove
<1>2. \A g \in Files : g # f => disk'[g] = disk[g]
  BY <1>1 DEF Inv, TypeOK
<1>3. Index \in Files /\ Gone \notin Writes /\ None \notin Writes /\ Gone # None
  BY StaticFilesAssumption DEF Files, Writes
<1>4. ASSUME NEW r \in Requests
      PROVE  Serves(phase[r], req[r], res[r], seen[r])'
  <2> DEFINE q == req[r]
             s == seen[r]
  <2>0. PICK t : t = seen'[r]
    OBVIOUS
  <2>1. /\ Serves(phase[r], q, res[r], s) /\ s \in Seen /\ q \in Request
        /\ phase'[r] = phase[r] /\ req'[r] = q /\ res'[r] = res[r]
    BY <1>1, Known DEF ServeInv
  <2>2. t = [s EXCEPT ![f] = IF @ = None THEN None ELSE Gone]
    BY <2>0 DEF Remove
  <2>3. \A g \in Files : /\ g # f => t[g] = s[g]
                         /\ g = f => t[g] \in {None, Gone}
                         /\ t[g] = None <=> s[g] = None
    BY <1>3, <2>1, <2>2 DEF Seen
  <2>4. Named(q, t) = Named(q, s) /\ Named(q, s) \in Files
    BY <1>3, <2>3 DEF Named
  <2>5. t[Named(q, s)] \in Writes => Named(q, s) # f /\ t[Named(q, s)] = s[Named(q, s)]
    BY <1>3, <2>3, <2>4
  <2>6. t[Named(q, s)] \in Writes => disk'[Named(q, s)] = disk[Named(q, s)]
    BY <1>2, <2>4, <2>5
  <2>7. Named(req[r], seen[r])' = Named(q, s) /\ seen'[r] = t
    BY <2>0, <2>1, <2>4 DEF Named
  <2> QED BY <1>1, <2>1, <2>5, <2>6, <2>7 DEF Serves
<1>5. \A k \in Writes : content'[k] # None => content'[k].version <= writes'
  BY <1>1 DEF ServeInv
<1> QED BY <1>4, <1>5 DEF ServeInv

LEMMA InitServe == Init => ServeInv
<1> SUFFICES ASSUME Init PROVE ServeInv
  OBVIOUS
<1>1. \A k \in Writes : content[k] = None
  BY DEF Init
<1>2. \A r \in Requests : phase[r] = "idle"
  BY DEF Init
<1> QED BY <1>1, <1>2 DEF ServeInv, Serves

LEMMA NextServe == Inv /\ ServeInv /\ [Next]_vars => ServeInv'
<1> SUFFICES ASSUME Inv, ServeInv, [Next]_vars PROVE ServeInv'
  OBVIOUS
<1>1. CASE UNCHANGED vars
  BY <1>1 DEF vars, ServeInv, Serves, Named
<1>2. ASSUME NEW r \in Requests,
             Get(r) \/ Refuse(r) \/ Metadata(r) \/ Open(r) \/ Stream(r)
      PROVE  ServeInv'
  BY <1>2, GetServe, RefuseServe, MetadataServe, OpenServe, StreamServe
<1>3. ASSUME NEW f \in Files, Create(f) \/ Rewrite(f) \/ Remove(f)
      PROVE  ServeInv'
  BY <1>3, WrittenServe, RemoveServe
<1>4. CASE Tick
  BY <1>4 DEF Tick, ServeInv, Serves, Named
<1> QED BY <1>1, <1>2, <1>3, <1>4 DEF Next

\* Whatever a build writes, creates or removes beside it, a file that stays in
\* place while a request runs is sent, not older than the request found it.
THEOREM WhatStaysIsServed == Spec => []ServesWhatStays
<1>1. ServeInv => ServesWhatStays
  <2> SUFFICES ASSUME ServeInv, NEW r \in Requests,
                      phase[r] = "done", req[r].method = "GET",
                      Readable(req[r].accept), seen[r][Wanted(r)] \in Writes
               PROVE  /\ res[r].status = "200"
                      /\ res[r].body.file = Wanted(r)
                      /\ res[r].body.version >= seen[r][Wanted(r)]
    BY DEF ServesWhatStays
  <2>1. Wanted(r) = Named(req[r], seen[r])
    BY DEF Wanted, Named
  <2> QED BY <2>1 DEF ServeInv, Serves
<1>2. Init /\ [][Next]_vars /\ []Inv => []ServeInv
  BY InitServe, NextServe, PTL
<1> QED BY <1>1, <1>2, Invariance, PTL DEF Spec
=============================================================================
