--------------------------- MODULE AccountsProofs ---------------------------
(* Proofs about Accounts, for every set of requests, ids and emails. *)
EXTENDS Accounts, TLAPS

\* What is known of a create that has searched nothing yet: its uuid is its
\* own and has left no trace.
Creating(r) == phase[r] = "search" /\ req[r].kind = "create"

Fresh ==
  /\ \A r \in Requests : Creating(r) =>
       /\ req[r].id \in Ids /\ req[r].password \in Passwords
       /\ req[r].id \in used /\ req[r].id \notin executed
       /\ visible[req[r].id] = {}
       /\ \A c \in sent : c.id # req[r].id
  /\ \A r, s \in Requests :
       Creating(r) /\ Creating(s) /\ req[r].id = req[s].id => r = s

\* A uuid is written once: at most one command carries it, before it executes.
WrittenOnce ==
  /\ executed \subseteq used
  /\ \A c \in sent : c.id \in used /\ c.id \notin executed
  /\ \A c, d \in sent : c.id = d.id => c = d
  /\ Existing \subseteq executed

\* What a create saw was executed, and none of it has its tag.
SawNoTwin ==
  /\ \A j \in Ids : visible[j] \subseteq executed
  /\ \A j \in Ids \ used : visible[j] = {}
  /\ \A c \in sent : \A i \in visible[c.id] \cap Existing :
       TagOf[docs[i].email] # TagOf[c.user.email]
  /\ \A j \in Existing : \A i \in visible[j] \cap Existing :
       TagOf[docs[i].email] # TagOf[docs[j].email]

\* Tokens and answers name documents that were executed; Redis loses none of
\* those while it has not crashed.
NamesExecuted ==
  /\ \A t \in issued : t.sub \in executed
  /\ \A t \in issued : t.sub \in Existing => docs[t.sub].email = t.email
  /\ \A r \in Requests :
       answer[r].result = "created" => answer[r].user \in executed
  /\ crashes = 0 => executed \subseteq Existing

IInv == TypeOK /\ Fresh /\ WrittenOnce /\ SawNoTwin /\ NamesExecuted

-----------------------------------------------------------------------------
(* Type correctness.                                                       *)

USE DEF redisVars, serverVars, taskVars

\* The arguments and answers the actions build are of their types.
LEMMA Constructors ==
  /\ NoRequest \in Request
  /\ NoAnswer \in Answer
  /\ \A e \in Errors : Failure(e) \in Answer
  /\ \A k \in {"created", "token", "user"}, i \in Ids : Success(k, i) \in Answer
BY DEF NoRequest, Request, Kinds, NoAnswer, Answer, Failure, Success

LEMMA InitTypeOK == Init => TypeOK
<1>1. ASSUME Init PROVE crashes \in 0 .. MaxRedisCrashes /\ boot \in Boots
  BY <1>1, AccountsAssumption DEF Init, Boots
<1>2. ASSUME Init PROVE synced \in [ids : SUBSET Ids, index : BOOLEAN]
  BY <1>2 DEF Init
<1>3. ASSUME Init PROVE \A r \in Requests : Ready(req[r], phase[r])
  BY <1>3 DEF Init, Ready
<1> QED BY <1>1, <1>2, <1>3, Constructors DEF Init, TypeOK, Phases, Existing

\* A request arriving with well-typed arguments keeps the types.
LEMMA AcceptTypeOK ==
  ASSUME TypeOK, NEW r \in Requests, NEW q \in Request, NEW first \in Phases,
         Accept(r, q, first), answer' \in [Requests -> Answer],
         used' \subseteq Ids,
         Ready(q, first)
  PROVE  TypeOK'
BY DEF Accept, TypeOK, Existing

LEMMA RefuseTypeOK ==
  ASSUME TypeOK, NEW r \in Requests, NEW q \in Request, NEW e \in Errors,
         Refuse(r, q, e), UNCHANGED used
  PROVE  TypeOK'
<1>1. Ready(q, "done") /\ "done" \in Phases
  BY DEF Ready, Phases
<1>2. Accept(r, q, "done")
  BY DEF Refuse
<1>3. answer' \in [Requests -> Answer] /\ used' \subseteq Ids
  BY Constructors DEF Refuse, TypeOK
<1> QED BY <1>1, <1>2, <1>3, AcceptTypeOK

LEMMA BeginTypeOK ==
  ASSUME TypeOK, NEW r \in Requests, Begin(r)
  PROVE  TypeOK'
<1>1. CASE CreateUser(r)
  <2>1. PICK e \in Emails, p \in Passwords, i \in Ids \ used :
          /\ Accept(r, [NoRequest EXCEPT !.kind = "create", !.id = i,
                                         !.email = e, !.password = p], "search")
          /\ used' = used \cup {i}
          /\ UNCHANGED answer
    BY <1>1 DEF CreateUser
  <2> DEFINE q == [NoRequest EXCEPT !.kind = "create", !.id = i,
                                    !.email = e, !.password = p]
  <2>2. q \in Request /\ Ready(q, "search")
    BY Constructors DEF Request, NoRequest, Kinds, Ready
  <2> QED BY <2>1, <2>2, AcceptTypeOK DEF TypeOK, Phases
<1>2. CASE LoginUser(r)
  <2>1. PICK e \in Emails, p \in Passwords :
          /\ Accept(r, [NoRequest EXCEPT !.kind = "login", !.email = e,
                                         !.password = p], "search")
          /\ UNCHANGED <<answer, used>>
    BY <1>2 DEF LoginUser
  <2> DEFINE q == [NoRequest EXCEPT !.kind = "login", !.email = e,
                                    !.password = p]
  <2>2. q \in Request /\ Ready(q, "search")
    BY Constructors DEF Request, NoRequest, Kinds, Ready
  <2> QED BY <2>1, <2>2, AcceptTypeOK DEF TypeOK, Phases
<1>3. CASE ReadUser(r)
  <2>1. PICK e \in Emails, t \in issued \cup {None} :
          LET q == [NoRequest EXCEPT !.kind = "readUser", !.email = e,
                                     !.token = t]
          IN  /\ \/ /\ Authentic(t) /\ t.email = e
                    /\ Accept(r, q, "search")
                    /\ UNCHANGED answer
                 \/ Refuse(r, q, "auth")
              /\ UNCHANGED used
    BY <1>3 DEF ReadUser
  <2> DEFINE q == [NoRequest EXCEPT !.kind = "readUser", !.email = e,
                                    !.token = t]
  <2>2. q \in Request /\ Ready(q, "search")
    BY Constructors DEF Request, NoRequest, Kinds, Ready, TypeOK
  <2>3. CASE Accept(r, q, "search") /\ UNCHANGED <<answer, used>>
    BY <2>2, <2>3, AcceptTypeOK DEF TypeOK, Phases
  <2>4. CASE Refuse(r, q, "auth") /\ UNCHANGED used
    BY <2>2, <2>4, RefuseTypeOK DEF Errors
  <2> QED BY <2>1, <2>3, <2>4
<1>4. CASE ReadCurrentUser(r)
  <2>1. PICK t \in issued \cup {None} :
          LET q == [NoRequest EXCEPT !.kind = "readCurrent", !.token = t]
          IN  /\ \/ /\ Authentic(t)
                    /\ Accept(r, [q EXCEPT !.id = t.sub], "get")
                    /\ UNCHANGED answer
                 \/ Refuse(r, q, "auth")
              /\ UNCHANGED used
    BY <1>4 DEF ReadCurrentUser
  <2> DEFINE q == [NoRequest EXCEPT !.kind = "readCurrent", !.token = t]
             qq == [q EXCEPT !.id = t.sub]
  <2>2. q \in Request
    BY Constructors DEF Request, NoRequest, Kinds, TypeOK
  <2>3. CASE Authentic(t) /\ Accept(r, qq, "get") /\ UNCHANGED <<answer, used>>
    <3>1. t.sub \in Ids
      BY <2>3 DEF Authentic, TypeOK, Token
    <3>2. qq \in Request /\ Ready(qq, "get")
      BY <2>2, <3>1 DEF Request, NoRequest, Ready
    <3> QED BY <2>3, <3>1, <3>2, AcceptTypeOK DEF TypeOK, Phases
  <2>4. CASE Refuse(r, q, "auth") /\ UNCHANGED used
    BY <2>2, <2>4, RefuseTypeOK DEF Errors
  <2> QED BY <2>1, <2>3, <2>4
<1>5. CASE Node(r)
  <2>1. PICK i \in Ids \cup {Foreign} :
          LET q == [NoRequest EXCEPT !.kind = "node", !.id = i]
          IN  /\ \/ i \in Ids /\ Accept(r, q, "get") /\ UNCHANGED answer
                 \/ i = Foreign /\ Refuse(r, q, "no node")
              /\ UNCHANGED used
    BY <1>5 DEF Node
  <2> DEFINE q == [NoRequest EXCEPT !.kind = "node", !.id = i]
  <2>2. q \in Request /\ (i \in Ids => Ready(q, "get"))
    BY Constructors DEF Request, NoRequest, Kinds, Ready
  <2>3. CASE i \in Ids /\ Accept(r, q, "get") /\ UNCHANGED <<answer, used>>
    BY <2>2, <2>3, AcceptTypeOK DEF TypeOK, Phases
  <2>4. CASE Refuse(r, q, "no node") /\ UNCHANGED used
    BY <2>2, <2>4, RefuseTypeOK DEF Errors
  <2> QED BY <2>1, <2>3, <2>4
<1> QED BY <1>1, <1>2, <1>3, <1>4, <1>5 DEF Begin

\* A request that is answered keeps the types.
LEMMA ReplyTypeOK ==
  ASSUME TypeOK, NEW r \in Requests, NEW a \in Answer, Reply(r, a),
         issued' \subseteq Token, UNCHANGED <<sent, visible>>
  PROVE  TypeOK'
BY DEF Reply, TypeOK, Phases, Ready, Existing

LEMMA StepTypeOK ==
  ASSUME TypeOK, NEW r \in Requests, Step(r)
  PROVE  TypeOK'
<1>1. CASE SearchedCreate(r)
  <2> DEFINE hits == Hits(req[r].email)
             user == [email |-> req[r].email,
                      password |-> [password |-> req[r].password,
                                    salt |-> boot]]
  <2>1. CASE hits # {}
    <3>1. Reply(r, Failure("in use")) /\ UNCHANGED <<sent, visible, issued>>
      BY <1>1, <2>1 DEF SearchedCreate
    <3> QED BY <3>1, ReplyTypeOK, Constructors DEF Errors, TypeOK
  <2>2. CASE hits = {}
    <3>1. user \in User /\ req[r].id \in Ids
      BY <1>1 DEF SearchedCreate, Searching, TypeOK, Ready, User, Hash
    <3>2. /\ phase' = [phase EXCEPT ![r] = "set"]
          /\ sent' = sent \cup {[id |-> req[r].id, user |-> user]}
          /\ visible' = [visible EXCEPT ![req[r].id] = indexed]
          /\ UNCHANGED <<req, answer, redisVars, serverVars, used, issued>>
      BY <1>1, <2>2 DEF SearchedCreate
    <3>3. sent' \subseteq SetCommand
      BY <3>1, <3>2 DEF SetCommand, TypeOK
    <3>4. phase' \in [Requests -> Phases] /\ visible' \in [Ids -> SUBSET Ids]
      BY <3>1, <3>2 DEF TypeOK, Phases, Existing
    <3>5. \A s \in Requests : Ready(req[s], phase'[s])
      BY <3>1, <3>2 DEF TypeOK, Ready
    <3> HIDE DEF user
    <3> QED BY <3>2, <3>3, <3>4, <3>5 DEF TypeOK, Existing
  <2> QED BY <2>1, <2>2
<1>2. CASE SearchedLogin(r)
  <2>1. issued' \subseteq Token
    <3> SUFFICES ASSUME NEW i \in Hits(req[r].email),
                        issued' = issued \cup {[sub |-> i,
                                     email |-> docs[i].email, key |-> boot]}
                 PROVE  issued' \subseteq Token
      BY <1>2 DEF SearchedLogin, TypeOK
    <3>1. docs[i].email \in Emails
      BY DEF TypeOK, Hits, Existing, User
    <3> QED BY <3>1 DEF TypeOK, Token, Hits, Existing
  <2>2. PICK a \in Answer : Reply(r, a)
    BY <1>2, Constructors DEF SearchedLogin, Errors, Hits, TypeOK, Existing
  <2> QED BY <1>2, <2>1, <2>2, ReplyTypeOK DEF SearchedLogin
<1>3. CASE SearchedReadUser(r)
  <2>1. PICK a \in Answer :
          Reply(r, a) /\ UNCHANGED <<sent, issued, visible>>
    BY <1>3, Constructors DEF SearchedReadUser, Errors, Hits, TypeOK, Existing
  <2> QED BY <2>1, ReplyTypeOK DEF TypeOK
<1>4. CASE Got(r)
  <2> DEFINE a == IF req[r].id \in Existing THEN Success("user", req[r].id)
                                           ELSE Failure("no user")
  <2>1. a \in Answer
    BY Constructors DEF Errors, Existing
  <2>2. Reply(r, a) /\ UNCHANGED <<sent, issued, visible>>
    BY <1>4 DEF Got
  <2> HIDE DEF a
  <2> QED BY <2>1, <2>2, ReplyTypeOK DEF TypeOK
<1>5. CASE Stored(r)
  BY <1>5, ReplyTypeOK, Constructors DEF Stored, TypeOK
<1>6. CASE SearchedNothing(r)
  BY <1>6, ReplyTypeOK, Constructors DEF SearchedNothing, Errors, TypeOK
<1>7. CASE RedisError(r)
  BY <1>7, ReplyTypeOK, Constructors DEF RedisError, Errors, TypeOK
<1> QED BY <1>1, <1>2, <1>3, <1>4, <1>5, <1>6, <1>7 DEF Step

LEMMA RedisTypeOK ==
  ASSUME TypeOK, Redis
  PROVE  TypeOK'
<1>1. ASSUME NEW c \in sent, ExecuteSet(c)
      PROVE  TypeOK'
  <2>1. c.id \in Ids /\ c.user \in User /\ c.user # None
    BY NoneIsNoUser DEF TypeOK, SetCommand
  <2>2. docs' \in [Ids -> User \cup {None}] /\ indexed' \subseteq Existing'
    BY <1>1, <2>1 DEF ExecuteSet, TypeOK, Existing
  <2>3. executed' \subseteq Ids /\ sent' \subseteq SetCommand
    BY <1>1, <2>1 DEF ExecuteSet, TypeOK
  <2> QED BY <1>1, <2>2, <2>3 DEF ExecuteSet, TypeOK
<1>2. ASSUME NEW c \in sent, DropSet(c)
      PROVE  TypeOK'
  BY <1>2 DEF DropSet, TypeOK, Existing
<1>3. ASSUME NEW i \in Ids, Scan(i)
      PROVE  TypeOK'
  BY <1>3 DEF Scan, TypeOK, Existing
<1>4. CASE Fsync
  <2>1. synced' \in [ids : SUBSET Ids, index : BOOLEAN]
    BY <1>4 DEF Fsync, TypeOK, Existing
  <2> QED BY <1>4, <2>1 DEF Fsync, TypeOK, Existing
<1>5. CASE RedisCrash
  <2>1. docs' \in [Ids -> User \cup {None}] /\ index' \in BOOLEAN
    BY <1>5 DEF RedisCrash, TypeOK
  <2>2. crashes' \in 0 .. MaxRedisCrashes
    BY <1>5, AccountsAssumption DEF RedisCrash, TypeOK
  <2>3. sent' = {} /\ indexed' = {}
    BY <1>5 DEF RedisCrash
  <2> QED BY <1>5, <2>1, <2>2, <2>3 DEF RedisCrash, TypeOK, Existing
<1> QED BY <1>1, <1>2, <1>3, <1>4, <1>5 DEF Redis

LEMMA DaemonTypeOK ==
  ASSUME TypeOK, Daemon
  PROVE  TypeOK'
<1>1. CASE Start
  <2>1. boot' \in Boots
    BY <1>1, AccountsAssumption DEF Start, TypeOK, Boots
  <2> QED BY <1>1, <2>1 DEF Start, TypeOK, Existing
<1>2. CASE StartFails
  BY <1>2 DEF StartFails, TypeOK, Existing
<1>3. CASE Serve
  BY <1>3 DEF Serve, TypeOK, Existing
<1>4. CASE ServerCrash
  <2>1. phase' \in [Requests -> Phases]
    BY <1>4 DEF ServerCrash, TypeOK, Phases
  <2>2. \A r \in Requests : Ready(req[r], phase'[r])
    BY <1>4 DEF ServerCrash, TypeOK, Ready
  <2> QED BY <1>4, <2>1, <2>2 DEF ServerCrash, TypeOK, Existing
<1> QED BY <1>1, <1>2, <1>3, <1>4 DEF Daemon

LEMMA HangupTypeOK ==
  ASSUME TypeOK, NEW r \in Requests, Hangup(r)
  PROVE  TypeOK'
BY DEF Hangup, TypeOK, Phases, Ready, Existing

LEMMA NextTypeOK == TypeOK /\ [Next]_vars => TypeOK'
<1> SUFFICES ASSUME TypeOK, [Next]_vars PROVE TypeOK'
  OBVIOUS
<1>1. CASE UNCHANGED vars
  BY <1>1 DEF vars, TypeOK, Existing
<1> QED BY <1>1, BeginTypeOK, StepTypeOK, HangupTypeOK, RedisTypeOK,
           DaemonTypeOK DEF Next

\* Documents, index, commands, requests and answers keep their types in every
\* run of the daemon and of Redis, and a resolver that resumes after an await
\* finds the arguments it needs.
THEOREM TypeCorrect == Spec => []TypeOK
BY InitTypeOK, NextTypeOK, PTL DEF Spec

-----------------------------------------------------------------------------
(* The inductive invariant.                                                *)

LEMMA InitIInv == Init => IInv
<1> SUFFICES ASSUME Init PROVE IInv
  OBVIOUS
<1>1. TypeOK
  BY InitTypeOK
<1>2. Existing = {}
  BY DEF Init, Existing
<1>3. Fresh
  BY DEF Init, Fresh, Creating
<1>4. WrittenOnce /\ SawNoTwin
  BY <1>2 DEF Init, WrittenOnce, SawNoTwin
<1>5. NamesExecuted
  BY DEF Init, NamesExecuted, NoAnswer
<1> QED BY <1>1, <1>3, <1>4, <1>5 DEF IInv

\* Steps that touch neither Redis, nor the commands, nor a create, nor the
\* tokens: the rest of the operations begin and end with these.
Quiet ==
  /\ UNCHANGED <<docs, index, indexed, executed, crashes, sent, visible>>
  /\ used \subseteq used'
  /\ \A r \in Requests :
       Creating(r)' => Creating(r) /\ UNCHANGED req[r]

LEMMA QuietIInv ==
  ASSUME IInv, TypeOK', Quiet, NamesExecuted'
  PROVE  IInv'
<1>1. Fresh'
  BY DEF IInv, Quiet, Fresh, Creating
<1>2. WrittenOnce'
  BY DEF IInv, Quiet, WrittenOnce, Existing
<1>3. SawNoTwin'
  BY DEF IInv, Quiet, SawNoTwin, Existing
<1> QED BY <1>1, <1>2, <1>3 DEF IInv

LEMMA CreateUserIInv ==
  ASSUME IInv, TypeOK', NEW r \in Requests, CreateUser(r)
  PROVE  IInv'
<1>1. PICK e \in Emails, p \in Passwords, i \in Ids \ used :
        /\ Accept(r, [NoRequest EXCEPT !.kind = "create", !.id = i,
                                       !.email = e, !.password = p], "search")
        /\ used' = used \cup {i}
        /\ UNCHANGED answer
  BY DEF CreateUser
<1>2. /\ phase[r] = "idle"
      /\ req'[r].id = i /\ req'[r].password = p
      /\ \A s \in Requests \ {r} : req'[s] = req[s] /\ phase'[s] = phase[s]
      /\ UNCHANGED <<docs, index, indexed, executed, crashes, sent, visible,
                     issued>>
  BY <1>1 DEF Accept, IInv, TypeOK, NoRequest, Request
<1>3. i \notin executed /\ visible[i] = {} /\ \A c \in sent : c.id # i
  BY DEF IInv, WrittenOnce, SawNoTwin
<1>4. Fresh'
  BY <1>1, <1>2, <1>3 DEF IInv, Fresh, Creating
<1>5. WrittenOnce'
  BY <1>1, <1>2 DEF IInv, WrittenOnce, Existing
<1>7. SawNoTwin'
  BY <1>1, <1>2 DEF IInv, SawNoTwin, Existing
<1>6. NamesExecuted'
  BY <1>1, <1>2 DEF IInv, NamesExecuted, Existing
<1> QED BY <1>4, <1>5, <1>6, <1>7 DEF IInv

\* The other operations, when they arrive.
LEMMA AcceptIInv ==
  ASSUME IInv, TypeOK', NEW r \in Requests, NEW q \in Request,
         NEW first \in Phases, Accept(r, q, first), q.kind # "create",
         UNCHANGED used,
         UNCHANGED answer \/ \E e \in Errors :
                               answer' = [answer EXCEPT ![r] = Failure(e)]
  PROVE  IInv'
<1>1. Quiet
  BY DEF Accept, Quiet, Creating, IInv, TypeOK
<1>2. \A s \in Requests :
        answer'[s].result = "created" => answer'[s] = answer[s]
  <2>1. ASSUME NEW e \in Errors, answer' = [answer EXCEPT ![r] = Failure(e)],
               NEW s \in Requests, answer'[s].result = "created"
        PROVE  answer'[s] = answer[s]
    BY <2>1 DEF IInv, TypeOK, Failure, Errors
  <2> QED BY <2>1
<1>3. NamesExecuted'
  BY <1>2 DEF Accept, NamesExecuted, IInv, Existing
<1> QED BY <1>1, <1>3, QuietIInv

LEMMA BeginIInv ==
  ASSUME IInv, TypeOK', NEW r \in Requests, Begin(r)
  PROVE  IInv'
<1> USE DEF Phases, Errors
<1>0. TypeOK
  BY DEF IInv
<1>1. CASE CreateUser(r)
  BY <1>1, CreateUserIInv
<1>2. CASE LoginUser(r)
  <2>1. PICK e \in Emails, p \in Passwords :
          Accept(r, [NoRequest EXCEPT !.kind = "login", !.email = e,
                                      !.password = p], "search")
    BY <1>2 DEF LoginUser
  <2>2. PICK q \in Request : q.kind = "login" /\ Accept(r, q, "search")
    BY <2>1, Constructors DEF Request, NoRequest, Kinds
  <2>3. UNCHANGED <<answer, used>>
    BY <1>2 DEF LoginUser
  <2> QED BY <2>2, <2>3, AcceptIInv
<1>3. CASE ReadUser(r)
  <2>1. PICK e \in Emails, t \in issued \cup {None} :
          LET q == [NoRequest EXCEPT !.kind = "readUser", !.email = e,
                                     !.token = t]
          IN  /\ \/ /\ Authentic(t) /\ t.email = e
                    /\ Accept(r, q, "search")
                    /\ UNCHANGED answer
                 \/ Refuse(r, q, "auth")
              /\ UNCHANGED used
    BY <1>3 DEF ReadUser
  <2> DEFINE q == [NoRequest EXCEPT !.kind = "readUser", !.email = e,
                                    !.token = t]
  <2>2. q \in Request /\ q.kind # "create"
    BY <1>0, Constructors DEF Request, NoRequest, Kinds, TypeOK
  <2> QED BY <2>1, <2>2, AcceptIInv DEF Refuse
<1>4. CASE ReadCurrentUser(r)
  <2>1. PICK t \in issued \cup {None} :
          LET q == [NoRequest EXCEPT !.kind = "readCurrent", !.token = t]
          IN  /\ \/ /\ Authentic(t)
                    /\ Accept(r, [q EXCEPT !.id = t.sub], "get")
                    /\ UNCHANGED answer
                 \/ Refuse(r, q, "auth")
              /\ UNCHANGED used
    BY <1>4 DEF ReadCurrentUser
  <2> DEFINE q == [NoRequest EXCEPT !.kind = "readCurrent", !.token = t]
             qq == [q EXCEPT !.id = t.sub]
  <2>2. q \in Request /\ q.kind # "create"
    BY <1>0, Constructors DEF Request, NoRequest, Kinds, TypeOK
  <2>3. CASE Authentic(t) /\ Accept(r, qq, "get") /\ UNCHANGED <<answer, used>>
    <3>1. t.sub \in Ids
      BY <1>0, <2>3 DEF Authentic, TypeOK, Token
    <3>2. qq \in Request /\ qq.kind # "create"
      BY <2>2, <3>1 DEF Request, NoRequest
    <3> QED BY <2>3, <3>2, AcceptIInv
  <2> QED BY <2>1, <2>2, <2>3, AcceptIInv DEF Refuse
<1>5. CASE Node(r)
  <2>1. PICK i \in Ids \cup {Foreign} :
          LET q == [NoRequest EXCEPT !.kind = "node", !.id = i]
          IN  /\ \/ i \in Ids /\ Accept(r, q, "get") /\ UNCHANGED answer
                 \/ i = Foreign /\ Refuse(r, q, "no node")
              /\ UNCHANGED used
    BY <1>5 DEF Node
  <2> DEFINE q == [NoRequest EXCEPT !.kind = "node", !.id = i]
  <2>2. q \in Request /\ q.kind # "create"
    BY Constructors DEF Request, NoRequest, Kinds
  <2> QED BY <2>1, <2>2, AcceptIInv DEF Refuse
<1> QED BY <1>1, <1>2, <1>3, <1>4, <1>5 DEF Begin

\* An answer that creates no account and issues no token.
LEMMA ReplyIInv ==
  ASSUME IInv, TypeOK', NEW r \in Requests, NEW a \in Answer, Reply(r, a),
         a.result = "created" => a.user \in executed,
         UNCHANGED <<sent, issued, visible>>
  PROVE  IInv'
<1>1. Quiet
  BY DEF Reply, Quiet, Creating, IInv, TypeOK
<1>2. NamesExecuted'
  BY DEF Reply, NamesExecuted, IInv, TypeOK, Existing
<1> QED BY <1>1, <1>2, QuietIInv

LEMMA SearchedCreateIInv ==
  ASSUME IInv, TypeOK', NEW r \in Requests, SearchedCreate(r)
  PROVE  IInv'
<1> DEFINE hits == Hits(req[r].email)
           user == [email |-> req[r].email,
                    password |-> [password |-> req[r].password, salt |-> boot]]
<1>1. CASE hits # {}
  BY <1>1, ReplyIInv, Constructors
  DEF SearchedCreate, Errors, Failure
<1>2. CASE hits = {}
  <2> DEFINE id == req[r].id
             c  == [id |-> id, user |-> user]
  <2>1. /\ phase' = [phase EXCEPT ![r] = "set"]
        /\ sent' = sent \cup {c}
        /\ visible' = [visible EXCEPT ![id] = indexed]
        /\ UNCHANGED <<req, answer, redisVars, serverVars, used, issued>>
    BY <1>2 DEF SearchedCreate
  <2>2. /\ Creating(r) /\ id \in Ids /\ id \in used /\ id \notin executed
        /\ visible[id] = {}
        /\ \A d \in sent : d.id # id
    BY DEF SearchedCreate, Searching, Creating, IInv, Fresh
  <2>3. \A i \in indexed : TagOf[docs[i].email] # TagOf[req[r].email]
    BY <1>2 DEF Hits
  <2>4. c.id = id /\ c.user.email = req[r].email
    OBVIOUS
  <2> HIDE DEF user, c, id
  <2>5. /\ \A s \in Requests : Creating(s)' => Creating(s) /\ s # r
        /\ \A j \in Ids : visible'[j] = IF j = id THEN indexed ELSE visible[j]
    BY <2>1, <2>2 DEF Creating, IInv, TypeOK
  <2>6. \A s \in Requests : Creating(s)' => req[s].id # id
    BY <2>2, <2>5 DEF IInv, Fresh, id
  <2>7. Fresh'
    BY <2>1, <2>2, <2>4, <2>5, <2>6 DEF IInv, Fresh
  <2>8. WrittenOnce'
    BY <2>1, <2>2, <2>4 DEF IInv, WrittenOnce, Existing
  <2>9. SawNoTwin'
    BY <2>1, <2>2, <2>3, <2>4, <2>5
    DEF IInv, SawNoTwin, WrittenOnce, Existing, TypeOK, SetCommand
  <2>10. NamesExecuted'
    BY <2>1 DEF IInv, NamesExecuted, Existing
  <2> QED BY <2>7, <2>8, <2>9, <2>10 DEF IInv
<1> QED BY <1>1, <1>2

LEMMA SearchedLoginIInv ==
  ASSUME IInv, TypeOK', NEW r \in Requests, SearchedLogin(r)
  PROVE  IInv'
<1> DEFINE hits == Hits(req[r].email)
<1>1. CASE \E i \in hits :
             /\ Reply(r, Success("token", i))
             /\ issued' = issued \cup
                  {[sub |-> i, email |-> docs[i].email, key |-> boot]}
  <2>1. PICK i \in hits :
             /\ Reply(r, Success("token", i))
             /\ issued' = issued \cup
                  {[sub |-> i, email |-> docs[i].email, key |-> boot]}
    BY <1>1
  <2>2. UNCHANGED <<sent, visible>>
    BY DEF SearchedLogin
  <2>3. i \in Existing /\ i \in executed
    BY DEF Hits, IInv, WrittenOnce, TypeOK
  <2>4. Quiet
    BY <2>1, <2>2 DEF Reply, Quiet, Creating, IInv, TypeOK
  <2>5. NamesExecuted'
    BY <2>1, <2>3 DEF Reply, NamesExecuted, IInv, TypeOK, Existing, Success
  <2> QED BY <2>4, <2>5, QuietIInv
<1>2. CASE (\E e \in Errors : Reply(r, Failure(e))) /\ UNCHANGED issued
  <2>1. PICK e \in Errors : Reply(r, Failure(e))
    BY <1>2
  <2>2. UNCHANGED <<sent, visible>>
    BY DEF SearchedLogin
  <2> QED BY <1>2, <2>1, <2>2, ReplyIInv, Constructors DEF Failure, Errors
<1> QED BY <1>1, <1>2 DEF SearchedLogin, Errors

LEMMA StepIInv ==
  ASSUME IInv, TypeOK', NEW r \in Requests, Step(r)
  PROVE  IInv'
<1>1. CASE SearchedReadUser(r)
  <2>1. Hits(req[r].email) \subseteq Ids
    BY DEF Hits, IInv, TypeOK, Existing
  <2>2. CASE \E e \in Errors : Reply(r, Failure(e))
    BY <1>1, <2>2, ReplyIInv, Constructors DEF SearchedReadUser, Failure, Errors
  <2>3. CASE \E i \in Ids : Reply(r, Success("user", i))
    BY <1>1, <2>3, ReplyIInv, Constructors DEF SearchedReadUser, Success
  <2> QED BY <1>1, <2>1, <2>2, <2>3 DEF SearchedReadUser, Errors
<1>2. CASE Got(r)
  <2> DEFINE a == IF req[r].id \in Existing THEN Success("user", req[r].id)
                                           ELSE Failure("no user")
  <2>1. a \in Answer /\ a.result # "created"
    BY Constructors DEF Errors, Existing, Success, Failure
  <2>2. Reply(r, a) /\ UNCHANGED <<sent, issued, visible>>
    BY <1>2 DEF Got
  <2> HIDE DEF a
  <2> QED BY <2>1, <2>2, ReplyIInv
<1>3. CASE Stored(r)
  <2>1. Success("created", req[r].id) \in Answer
    BY <1>3, Constructors DEF Stored, IInv, TypeOK
  <2> QED BY <1>3, <2>1, ReplyIInv DEF Stored, Success
<1>4. CASE SearchedNothing(r) \/ RedisError(r)
  <2>1. Reply(r, Failure("redis")) /\ UNCHANGED <<sent, issued, visible>>
    BY <1>4 DEF SearchedNothing, RedisError
  <2> QED BY <2>1, ReplyIInv, Constructors DEF Failure, Errors
<1> QED BY <1>1, <1>2, <1>3, <1>4, SearchedCreateIInv, SearchedLoginIInv
        DEF Step

LEMMA RedisIInv ==
  ASSUME IInv, TypeOK', Redis
  PROVE  IInv'
<1>1. ASSUME NEW c \in sent, ExecuteSet(c)
      PROVE  IInv'
  <2>1. /\ c.id \in Ids /\ c.user # None
        /\ c.id \in used /\ c.id \notin executed /\ c.id \notin Existing
        /\ \A d \in sent \ {c} : d.id # c.id
    BY NoneIsNoUser DEF IInv, TypeOK, SetCommand, WrittenOnce
  <2>2. /\ \A i \in Ids : docs'[i] = IF i = c.id THEN c.user ELSE docs[i]
        /\ Existing' = Existing \cup {c.id}
        /\ executed' = executed \cup {c.id} /\ sent' = sent \ {c}
        /\ indexed' \subseteq indexed \cup {c.id}
        /\ UNCHANGED <<crashes, taskVars, used, issued, visible>>
    BY <1>1, <2>1 DEF ExecuteSet, Existing, IInv, TypeOK
  <2>3. Fresh'
    BY <2>1, <2>2 DEF IInv, Fresh, Creating
  <2>4. WrittenOnce'
    BY <2>1, <2>2 DEF IInv, WrittenOnce, TypeOK
  <2>5. SawNoTwin'
    <3>1. \A j \in Ids : c.id \notin visible[j]
      BY <2>1 DEF IInv, SawNoTwin
    <3>2. \A j \in Ids : visible[j] \cap Existing' = visible[j] \cap Existing
      BY <2>2, <3>1
    <3>3. \A j \in Ids : \A i \in visible[j] \cap Existing : docs'[i] = docs[i]
      BY <2>2, <3>1 DEF Existing
    <3>4. \A d \in sent : d.id \in Ids
      BY DEF IInv, TypeOK, SetCommand
    <3>5. \A j \in Existing' : \A i \in visible[j] \cap Existing :
            TagOf[docs'[i].email] # TagOf[docs'[j].email]
      BY <2>1, <2>2, <3>3 DEF IInv, SawNoTwin, Existing
    <3> QED BY <2>2, <3>2, <3>3, <3>4, <3>5 DEF IInv, SawNoTwin, Existing
  <2>6. NamesExecuted'
    BY <2>1, <2>2 DEF IInv, NamesExecuted, TypeOK
  <2> QED BY <2>3, <2>4, <2>5, <2>6 DEF IInv
<1>2. ASSUME NEW c \in sent, DropSet(c)
      PROVE  IInv'
  BY <1>2 DEF DropSet, IInv, Fresh, Creating, WrittenOnce, SawNoTwin,
              NamesExecuted, Existing
<1>3. ASSUME NEW i \in Ids, Scan(i)
      PROVE  IInv'
  BY <1>3 DEF Scan, IInv, Fresh, Creating, WrittenOnce, SawNoTwin,
              NamesExecuted, Existing
<1>4. CASE Fsync
  BY <1>4 DEF Fsync, IInv, Fresh, Creating, WrittenOnce, SawNoTwin,
              NamesExecuted, Existing
<1>5. CASE RedisCrash
  <2>1. /\ Existing' \subseteq Existing
        /\ \A i \in Existing' : docs'[i] = docs[i]
        /\ sent' = {} /\ indexed' = {} /\ crashes' # 0
        /\ UNCHANGED <<executed, taskVars, used, issued, visible>>
    BY <1>5 DEF RedisCrash, Existing, IInv, TypeOK
  <2> QED BY <2>1 DEF IInv, Fresh, Creating, WrittenOnce, SawNoTwin,
                      NamesExecuted, TypeOK, Token
<1> QED BY <1>1, <1>2, <1>3, <1>4, <1>5 DEF Redis

LEMMA DaemonIInv ==
  ASSUME IInv, TypeOK', Daemon
  PROVE  IInv'
<1>1. NamesExecuted'
  BY DEF Daemon, Start, StartFails, Serve, ServerCrash, IInv, NamesExecuted,
         Existing
<1>2. CASE ServerCrash
  <2>1. Fresh'
    BY <1>2 DEF ServerCrash, IInv, TypeOK, Fresh, Creating
  <2>2. WrittenOnce' /\ SawNoTwin'
    BY <1>2 DEF ServerCrash, IInv, WrittenOnce, SawNoTwin, Existing
  <2> QED BY <1>1, <2>1, <2>2 DEF IInv
<1>3. CASE Start \/ StartFails \/ Serve
  <2>1. UNCHANGED <<docs, indexed, executed, crashes, sent, taskVars, used,
                    issued, visible>>
    BY <1>3 DEF Start, StartFails, Serve
  <2> QED BY <1>1, <2>1 DEF IInv, Fresh, Creating, WrittenOnce, SawNoTwin,
                           Existing
<1> QED BY <1>2, <1>3 DEF Daemon

LEMMA HangupIInv ==
  ASSUME IInv, TypeOK', NEW r \in Requests, Hangup(r)
  PROVE  IInv'
<1>1. Quiet
  BY DEF Hangup, Quiet, Creating, IInv, TypeOK
<1>2. NamesExecuted'
  BY DEF Hangup, IInv, NamesExecuted, Existing
<1> QED BY <1>1, <1>2, QuietIInv

LEMMA NextIInv == IInv /\ [Next]_vars => IInv'
<1> SUFFICES ASSUME IInv, [Next]_vars PROVE IInv'
  OBVIOUS
<1>1. TypeOK'
  BY NextTypeOK DEF IInv
<1>2. CASE UNCHANGED vars
  BY <1>2 DEF vars, IInv, TypeOK, Ready, Fresh, Creating, WrittenOnce,
              SawNoTwin, NamesExecuted, Existing
<1> QED BY <1>1, <1>2, BeginIInv, StepIInv, HangupIInv, RedisIInv,
           DaemonIInv DEF Next

LEMMA Inductive == Spec => []IInv
BY InitIInv, NextIInv, PTL DEF Spec

-----------------------------------------------------------------------------
(* What the invariant gives.                                               *)

\* Two accounts with one tag exist only if neither could be seen when the
\* other was searched for: the check in create_user misses a duplicate only
\* in the window between its search and the other one's write, or while the
\* index does not cover the other one.
THEOREM NoVisibleDuplicates == Spec => []NoVisibleDuplicate
<1>1. IInv => NoVisibleDuplicate
  BY DEF IInv, SawNoTwin, NoVisibleDuplicate, SameTag
<1> QED BY <1>1, Inductive, PTL

\* The claims of every access token are those of the account's document.
THEOREM TokensNameAccounts == Spec => []TokenNamesAccount
<1>1. IInv => TokenNamesAccount
  BY DEF IInv, NamesExecuted, TokenNamesAccount
<1> QED BY <1>1, Inductive, PTL

\* create_user answers only after Redis has executed the write, so an account
\* it reported is there until Redis crashes.
THEOREM CreatedAreStored == Spec => []CreatedIsStored
<1>1. IInv => CreatedIsStored
  BY DEF IInv, NamesExecuted, CreatedIsStored
<1> QED BY <1>1, Inductive, PTL

-----------------------------------------------------------------------------
(* What an answer stems from: what a login decided, from the create that    *)
(* gave the password; what a reader was shown, from the token it came with. *)

\* The document of id i is what request s asked for.
Origin(i, user, s) ==
  /\ phase[s] # "idle"
  /\ req[s].kind = "create" /\ req[s].id = i
  /\ req[s].email = user.email /\ req[s].password = user.password.password

Created ==
  /\ \A c \in sent : \E s \in Requests : Origin(c.id, c.user, s)
  /\ \A i \in Existing : \E s \in Requests : Origin(i, docs[i], s)

\* A request that is not finished has no answer.
Pending(r) ==
  phase[r] \in {"idle", "search", "set", "get"} => answer[r] = NoAnswer

\* A login's answer and the create it stems from.
Decided(r) == req[r].kind = "login" =>
  /\ answer[r].result = "token" =>
       \E s \in Requests : /\ phase[s] # "idle" /\ req[s].kind = "create"
                           /\ req[s].id = answer[r].user
                           /\ TagOf[req[s].email] = TagOf[req[r].email]
                           /\ req[s].password = req[r].password
  /\ answer[r].result = "password" =>
       \E s \in Requests : /\ phase[s] # "idle" /\ req[s].kind = "create"
                           /\ req[s].id \in executed
                           /\ TagOf[req[s].email] = TagOf[req[r].email]
                           /\ req[s].password # req[r].password

\* A reader searches the email of its token, and was shown a document that had
\* been executed, so that no later command writes it again.
Shown(r) == req[r].kind = "readUser" =>
  /\ phase[r] \notin {"get", "set"}
  /\ phase[r] = "search" => req[r].email = req[r].token.email
  /\ answer[r].user \in Ids => answer[r].user \in executed
  /\ answer[r].user \in Existing =>
       TagOf[docs[answer[r].user].email] = TagOf[req[r].token.email]

Traced(r) == Pending(r) /\ Decided(r) /\ Shown(r)

LInv == IInv /\ Created /\ \A r \in Requests : Traced(r)

-----------------------------------------------------------------------------
(* What every step keeps.                                                  *)

\* Arguments of a request that has begun, executed ids, and the document of an
\* executed id for as long as Redis has it.
Keeps ==
  /\ \A s \in Requests : phase[s] # "idle" =>
       phase'[s] # "idle" /\ req'[s] = req[s]
  /\ executed \subseteq executed'
  /\ \A i \in executed : i \in Existing' => i \in Existing /\ docs'[i] = docs[i]

LEMMA TasksKeep ==
  ASSUME IInv, NEW r \in Requests, Begin(r) \/ Step(r) \/ Hangup(r)
  PROVE  Keeps /\ Existing' = Existing /\ UNCHANGED docs
<1>0. UNCHANGED <<docs, executed>> /\ Existing' = Existing
  BY DEF Begin, CreateUser, LoginUser, ReadUser, ReadCurrentUser, Node, Refuse,
         Accept, Step, SearchedCreate, SearchedLogin, SearchedReadUser, Got,
         Stored, SearchedNothing, RedisError, Reply, Hangup, Existing
<1>1. CASE Begin(r)
  <2>1. /\ phase[r] = "idle"
        /\ \A s \in Requests \ {r} : req'[s] = req[s] /\ phase'[s] = phase[s]
    BY <1>1 DEF Begin, CreateUser, LoginUser, ReadUser, ReadCurrentUser, Node,
                Refuse, Accept, IInv, TypeOK
  <2> QED BY <1>0, <2>1 DEF Keeps, Existing
<1>2. CASE Step(r) \/ Hangup(r)
  <2>1. /\ UNCHANGED req
        /\ phase' = [phase EXCEPT ![r] = "done"] \/
           phase' = [phase EXCEPT ![r] = "set"] \/
           phase' = [phase EXCEPT ![r] = "lost"]
    BY <1>2 DEF Step, SearchedCreate, SearchedLogin, SearchedReadUser, Got,
                Stored, SearchedNothing, RedisError, Reply, Hangup
  <2> QED BY <1>0, <2>1 DEF Keeps, Existing, IInv, TypeOK
<1> QED BY <1>0, <1>1, <1>2

LEMMA ExecuteKeeps ==
  ASSUME IInv, NEW c \in sent, ExecuteSet(c)
  PROVE  /\ Keeps /\ UNCHANGED taskVars /\ sent' \subseteq sent
         /\ \A i \in Existing' : docs'[i] = IF i = c.id THEN c.user ELSE docs[i]
         /\ Existing' = Existing \cup {c.id}
<1>1. c.id \in Ids /\ c.user # None /\ c.id \notin executed
  BY NoneIsNoUser DEF IInv, TypeOK, SetCommand, WrittenOnce
<1>2. \A i \in Ids : docs'[i] = IF i = c.id THEN c.user ELSE docs[i]
  BY <1>1 DEF ExecuteSet, IInv, TypeOK
<1>3. executed' = executed \cup {c.id} /\ UNCHANGED taskVars /\
          sent' \subseteq sent
  BY DEF ExecuteSet
<1>4. Existing' = Existing \cup {c.id}
  BY <1>1, <1>2 DEF Existing
<1> QED BY <1>1, <1>2, <1>3, <1>4 DEF Keeps, Existing, IInv, TypeOK

\* The rest of Redis, and the daemon, write nothing and lose some of it.
LEMMA OthersKeep ==
  ASSUME IInv,
         \/ \E c \in sent : DropSet(c)
         \/ \E i \in Ids : Scan(i)
         \/ Fsync \/ RedisCrash \/ Daemon \/ UNCHANGED vars
  PROVE  /\ Keeps /\ UNCHANGED <<req, answer>> /\ sent' \subseteq sent
         /\ Existing' \subseteq Existing
         /\ \A i \in Existing' : docs'[i] = docs[i]
         /\ \A s \in Requests : phase'[s] \in {phase[s], "lost"}
<1>1. /\ UNCHANGED <<req, answer, executed>> /\ sent' \subseteq sent
  BY DEF DropSet, Scan, Fsync, RedisCrash, Daemon, Start, StartFails, Serve,
         ServerCrash, vars
<1>2. Existing' \subseteq Existing /\ \A i \in Existing' : docs'[i] = docs[i]
  <2>1. CASE RedisCrash
    BY <2>1 DEF RedisCrash, Existing
  <2>2. CASE UNCHANGED docs
    BY <2>2 DEF Existing
  <2> QED BY <2>1, <2>2 DEF DropSet, Scan, Fsync, Daemon, Start, StartFails,
                            Serve, ServerCrash, vars
<1>3. \A s \in Requests : /\ phase'[s] \in {phase[s], "lost"}
                          /\ phase[s] = "idle" => phase'[s] = "idle"
                          /\ phase[s] # "idle" => phase'[s] # "idle"
  <2>1. CASE ServerCrash
    BY <2>1 DEF ServerCrash, IInv, TypeOK, Awaits
  <2>2. CASE UNCHANGED phase
    BY <2>2
  <2> QED BY <2>1, <2>2 DEF DropSet, Scan, Fsync, RedisCrash, Daemon, Start,
                            StartFails, Serve, vars
<1> QED BY <1>1, <1>2, <1>3 DEF Keeps

-----------------------------------------------------------------------------
(* Documents stem from creates.                                            *)

LEMMA OriginKept ==
  ASSUME Keeps, NEW i, NEW user, NEW s \in Requests, Origin(i, user, s)
  PROVE  Origin(i, user, s)'
BY DEF Keeps, Origin

\* Nothing is written or sent but what was sent or had been written.
LEMMA CreatedKept ==
  ASSUME LInv, Keeps, sent' \subseteq sent, Existing' \subseteq Existing,
         \A i \in Existing' : docs'[i] = docs[i]
  PROVE  Created'
<1>1. ASSUME NEW c \in sent'
      PROVE  \E s \in Requests : Origin(c.id, c.user, s)'
  <2>1. PICK s \in Requests : Origin(c.id, c.user, s)
    BY DEF LInv, Created
  <2> QED BY <2>1, OriginKept
<1>2. ASSUME NEW i \in Existing'
      PROVE  \E s \in Requests : Origin(i, docs[i], s)'
  <2>1. PICK s \in Requests : Origin(i, docs[i], s)
    BY DEF LInv, Created
  <2>2. docs'[i] = docs[i]
    OBVIOUS
  <2> QED BY <2>1, <2>2 DEF Keeps, Origin
<1> QED BY <1>1, <1>2 DEF Created

LEMMA CreatedTasks ==
  ASSUME LInv, NEW r \in Requests, Begin(r) \/ Step(r) \/ Hangup(r)
  PROVE  Created'
<1>1. Keeps /\ Existing' = Existing /\ UNCHANGED docs
  BY TasksKeep DEF LInv
<1>2. CASE sent' \subseteq sent
  BY <1>1, <1>2, CreatedKept
<1>3. CASE SearchedCreate(r)
  <2> DEFINE user == [email |-> req[r].email,
                      password |-> [password |-> req[r].password,
                                    salt |-> boot]]
             command == [id |-> req[r].id, user |-> user]
  <2>1. sent' \subseteq sent \cup {command}
    BY <1>3 DEF SearchedCreate
  <2>2. Origin(command.id, command.user, r)
    BY <1>3 DEF SearchedCreate, Searching, Origin
  <2> HIDE DEF command
  <2> PICK c : c = command
    OBVIOUS
  <2>3. Origin(c.id, c.user, r)'
    BY <1>1, <2>2, OriginKept
  <2>4. ASSUME NEW d \in sent'
        PROVE  \E s \in Requests : Origin(d.id, d.user, s)'
    <3>1. CASE d = c
      BY <2>3, <3>1
    <3>2. CASE d \in sent
      <4>1. PICK s \in Requests : Origin(d.id, d.user, s)
        BY <3>2 DEF LInv, Created
      <4> QED BY <1>1, <4>1, OriginKept
    <3> QED BY <2>1, <3>1, <3>2
  <2>5. ASSUME NEW i \in Existing'
        PROVE  \E s \in Requests : Origin(i, docs[i], s)'
    <3>1. PICK s \in Requests : Origin(i, docs[i], s)
      BY <1>1 DEF LInv, Created
    <3> QED BY <1>1, <3>1 DEF Keeps, Origin
  <2> QED BY <2>4, <2>5 DEF Created
<1> QED
  BY <1>2, <1>3 DEF Begin, CreateUser, LoginUser, ReadUser, ReadCurrentUser,
     Node, Refuse, Accept, Step, SearchedLogin, SearchedReadUser, Got, Stored,
     SearchedNothing, RedisError, Reply, Hangup

LEMMA CreatedExecute ==
  ASSUME LInv, NEW c \in sent, ExecuteSet(c)
  PROVE  Created'
<1>1. /\ Keeps /\ sent' \subseteq sent
      /\ \A i \in Existing' : docs'[i] = IF i = c.id THEN c.user ELSE docs[i]
      /\ Existing' = Existing \cup {c.id}
  BY ExecuteKeeps DEF LInv
<1>2. ASSUME NEW d \in sent'
      PROVE  \E s \in Requests : Origin(d.id, d.user, s)'
  <2>1. PICK s \in Requests : Origin(d.id, d.user, s)
    BY <1>1 DEF LInv, Created
  <2> QED BY <1>1, <2>1, OriginKept
<1>3. ASSUME NEW i \in Existing'
      PROVE  \E s \in Requests : Origin(i, docs[i], s)'
  <2>1. CASE i = c.id
    <3>1. PICK s \in Requests : Origin(c.id, c.user, s)
      BY DEF LInv, Created
    <3>2. docs'[i] = c.user
      BY <1>1, <2>1
    <3> QED BY <1>1, <2>1, <3>1, <3>2 DEF Keeps, Origin
  <2>2. CASE i # c.id
    <3>1. docs'[i] = docs[i] /\ i \in Existing
      BY <1>1, <2>2
    <3>2. PICK s \in Requests : Origin(i, docs[i], s)
      BY <3>1 DEF LInv, Created
    <3> QED BY <1>1, <3>1, <3>2 DEF Keeps, Origin
  <2> QED BY <2>1, <2>2
<1> QED BY <1>2, <1>3 DEF Created

-----------------------------------------------------------------------------
(* Answers stem from requests.                                             *)

\* A request a step does not answer.  A step may end it, or take a create on.
LEMMA Undisturbed ==
  ASSUME LInv, Keeps, NEW r \in Requests,
         req'[r] = req[r], answer'[r] = answer[r],
         \/ phase'[r] \in {phase[r], "lost"}
         \/ phase'[r] = "set" /\ phase[r] = "search" /\ req[r].kind = "create"
  PROVE  Traced(r)'
<1>0. Pending(r) /\ Decided(r) /\ Shown(r)
  BY DEF LInv, Traced
<1>1. Pending(r)'
  BY <1>0 DEF Pending
<1>2. ASSUME NEW s \in Requests, phase[s] # "idle"
      PROVE  phase'[s] # "idle" /\ req'[s] = req[s]
  BY <1>2 DEF Keeps
<1>3. executed \subseteq executed'
  BY DEF Keeps
<1>4. Decided(r)'
  BY <1>0, <1>2, <1>3 DEF Decided
<1>5. Shown(r)'
  <2> SUFFICES ASSUME req[r].kind = "readUser" PROVE Shown(r)'
    BY DEF Shown
  <2>1. /\ phase'[r] \notin {"get", "set"}
        /\ phase'[r] = "search" => req[r].email = req[r].token.email
        /\ answer[r].user \in Ids => answer[r].user \in executed
    BY <1>0 DEF Shown
  <2>2. answer[r].user \in Existing' =>
          TagOf[docs'[answer[r].user].email] = TagOf[req[r].token.email]
    <3> SUFFICES ASSUME answer[r].user \in Existing'
                 PROVE  TagOf[docs'[answer[r].user].email]
                          = TagOf[req[r].token.email]
      OBVIOUS
    <3>1. answer[r].user \in executed
      BY <2>1 DEF Existing
    <3>2. answer[r].user \in Existing /\
              docs'[answer[r].user] = docs[answer[r].user]
      BY <3>1 DEF Keeps
    <3> QED BY <1>0, <3>2 DEF Shown
  <2> QED BY <1>3, <2>1, <2>2 DEF Shown
<1> QED BY <1>1, <1>4, <1>5 DEF Traced

\* A reader comes from ReadUser.
LEMMA OnlyReadUser ==
  ASSUME IInv, NEW r \in Requests, Begin(r), req'[r].kind = "readUser"
  PROVE  ReadUser(r)
<1> USE DEF IInv, TypeOK
<1>1. ~ CreateUser(r)
  <2> SUFFICES ASSUME CreateUser(r) PROVE FALSE
    OBVIOUS
  <2>1. PICK e \in Emails, p \in Passwords, i \in Ids \ used :
          Accept(r, [NoRequest EXCEPT !.kind = "create", !.id = i,
                                      !.email = e, !.password = p], "search")
    BY DEF CreateUser
  <2> DEFINE q == [NoRequest EXCEPT !.kind = "create", !.id = i,
                                    !.email = e, !.password = p]
  <2>2. q.kind = "create"
    BY DEF NoRequest
  <2> HIDE DEF q
  <2> QED BY <2>1, <2>2 DEF Accept, q
<1>2. ~ LoginUser(r)
  <2> SUFFICES ASSUME LoginUser(r) PROVE FALSE
    OBVIOUS
  <2>1. PICK e \in Emails, p \in Passwords :
          Accept(r, [NoRequest EXCEPT !.kind = "login", !.email = e,
                                      !.password = p], "search")
    BY DEF LoginUser
  <2> DEFINE q == [NoRequest EXCEPT !.kind = "login", !.email = e,
                                    !.password = p]
  <2>2. q.kind = "login"
    BY DEF NoRequest
  <2> HIDE DEF q
  <2> QED BY <2>1, <2>2 DEF Accept, q
<1>3. ~ ReadCurrentUser(r)
  <2> SUFFICES ASSUME ReadCurrentUser(r) PROVE FALSE
    OBVIOUS
  <2>1. PICK t \in issued \cup {None} :
          LET q == [NoRequest EXCEPT !.kind = "readCurrent", !.token = t]
          IN  \/ Accept(r, [q EXCEPT !.id = t.sub], "get")
              \/ Refuse(r, q, "auth")
    BY DEF ReadCurrentUser
  <2> DEFINE q == [NoRequest EXCEPT !.kind = "readCurrent", !.token = t]
             qq == [q EXCEPT !.id = t.sub]
  <2>2. q.kind = "readCurrent" /\ qq.kind = "readCurrent"
    BY DEF NoRequest
  <2> HIDE DEF q, qq
  <2> QED BY <2>1, <2>2 DEF Accept, Refuse, q, qq
<1>4. ~ Node(r)
  <2> SUFFICES ASSUME Node(r) PROVE FALSE
    OBVIOUS
  <2>1. PICK i \in Ids \cup {Foreign} :
          LET q == [NoRequest EXCEPT !.kind = "node", !.id = i]
          IN  Accept(r, q, "get") \/ Refuse(r, q, "no node")
    BY DEF Node
  <2> DEFINE q == [NoRequest EXCEPT !.kind = "node", !.id = i]
  <2>2. q.kind = "node"
    BY DEF NoRequest
  <2> HIDE DEF q
  <2> QED BY <2>1, <2>2 DEF Accept, Refuse, q
<1> QED BY <1>1, <1>2, <1>3, <1>4 DEF Begin

\* A request that arrives, with nothing yet or with a refusal.
LEMMA BeginTraced ==
  ASSUME LInv, NEW r \in Requests, Begin(r)
  PROVE  Traced(r)'
<1>0. answer[r] = NoAnswer
  BY DEF Begin, CreateUser, LoginUser, ReadUser, ReadCurrentUser, Node, Refuse,
         Accept, LInv, Traced, Pending
<1>1. \/ answer'[r] = NoAnswer
      \/ \E e \in {"auth", "no node"} :
           answer'[r] = Failure(e) /\ phase'[r] = "done"
  BY <1>0 DEF Begin, CreateUser, LoginUser, ReadUser, ReadCurrentUser, Node,
              Refuse, Accept, LInv, IInv, TypeOK
<1>2. /\ answer'[r].result \notin {"token", "password"}
      /\ answer'[r].user \notin Ids
  <2>1. None \notin Ids
    BY AccountsAssumption
  <2>2. CASE answer'[r] = NoAnswer
    BY <2>1, <2>2 DEF NoAnswer
  <2>3. ASSUME NEW e \in {"auth", "no node"}, answer'[r] = Failure(e)
        PROVE  /\ answer'[r].result \notin {"token", "password"}
               /\ answer'[r].user \notin Ids
    <3>1. Failure(e).result = e /\ Failure(e).user = None
      BY DEF Failure
    <3> QED BY <2>1, <2>3, <3>1
  <2> QED BY <1>1, <2>2, <2>3
<1>3. Pending(r)' /\ Decided(r)'
  BY <1>1, <1>2 DEF Pending, Decided
<1>4. ASSUME req'[r].kind = "readUser"
      PROVE  /\ phase'[r] \notin {"get", "set"}
             /\ phase'[r] = "search" => req'[r].email = req'[r].token.email
  <2>1. ReadUser(r)
    BY <1>4, OnlyReadUser DEF LInv
  <2>2. PICK e \in Emails, t \in issued \cup {None} :
          LET q == [NoRequest EXCEPT !.kind = "readUser", !.email = e,
                                     !.token = t]
          IN  \/ t.email = e /\ Accept(r, q, "search")
              \/ Refuse(r, q, "auth")
    BY <2>1 DEF ReadUser
  <2> DEFINE q == [NoRequest EXCEPT !.kind = "readUser", !.email = e,
                                    !.token = t]
  <2>3. q.email = e /\ q.token = t
    BY DEF NoRequest
  <2> HIDE DEF q
  <2> QED BY <2>2, <2>3 DEF Accept, Refuse, LInv, IInv, TypeOK, q
<1>5. Shown(r)'
  BY <1>2, <1>4 DEF Shown, Existing
<1> QED BY <1>3, <1>5 DEF Traced

\* An answer that decides no login and shows a reader nothing.
LEMMA PlainReply ==
  ASSUME LInv, NEW r \in Requests, NEW a \in Answer, Reply(r, a),
         a.result \notin {"token", "password"},
         req[r].kind = "readUser" => a.user \notin Ids
  PROVE  Traced(r)'
<1>1. phase'[r] = "done" /\ answer'[r] = a /\ UNCHANGED req
  BY DEF Reply, LInv, IInv, TypeOK
<1> QED BY <1>1 DEF Traced, Pending, Decided, Shown, Existing

LEMMA FailureReply ==
  ASSUME LInv, NEW r \in Requests, NEW e \in Errors \ {"password"},
         Reply(r, Failure(e))
  PROVE  Traced(r)'
<1>1. /\ Failure(e) \in Answer
      /\ Failure(e).result = e /\ Failure(e).user = None
  BY Constructors DEF Failure
<1>2. None \notin Ids /\ e \notin {"token", "password"}
  BY AccountsAssumption DEF Errors
<1> HIDE DEF Failure
<1> QED BY <1>1, <1>2, PlainReply

\* The document a search hit has the tag that was searched, and stems from a
\* create.
LEMMA HitOrigin ==
  ASSUME LInv, NEW r \in Requests, phase[r] = "search",
         NEW i \in Hits(req[r].email)
  PROVE  /\ i \in Ids /\ i \in Existing /\ i \in executed /\ docs[i] \in User
         /\ TagOf[docs[i].email] = TagOf[req[r].email]
         /\ \E s \in Requests : Origin(i, docs[i], s)
<1>1. i \in indexed /\ TagOf[docs[i].email] = TagOf[req[r].email]
  BY DEF Hits
<1>2. i \in Existing /\ i \in Ids /\ docs[i] \in User
  BY <1>1 DEF LInv, IInv, TypeOK, Existing
<1> QED BY <1>1, <1>2 DEF LInv, IInv, WrittenOnce, Created

LEMMA LoginTraced ==
  ASSUME LInv, NEW r \in Requests, SearchedLogin(r)
  PROVE  Traced(r)'
<1>0. Keeps
  BY TasksKeep DEF LInv, Step
<1>1. phase[r] = "search" /\ req[r].kind = "login"
  BY DEF SearchedLogin, Searching
<1>2. CASE \E e \in {"many", "no user"} : Reply(r, Failure(e))
  BY <1>2, FailureReply DEF Errors
<1>3. ASSUME NEW i \in Hits(req[r].email),
             VerifyPassword(req[r].password, docs[i].password),
             Reply(r, Success("token", i))
      PROVE  Traced(r)'
  <2>1. PICK s \in Requests : Origin(i, docs[i], s)
    BY <1>1, HitOrigin
  <2>2. docs[i].password.password = req[r].password
    BY <1>3 DEF VerifyPassword
  <2>3. /\ phase'[s] # "idle" /\ req'[s].kind = "create" /\ req'[s].id = i
        /\ TagOf[req'[s].email] = TagOf[req[r].email]
        /\ req'[s].password = req[r].password
    BY <1>0, <1>1, <2>1, <2>2, HitOrigin DEF Keeps, Origin
  <2>4. /\ phase'[r] = "done" /\ UNCHANGED req
        /\ answer'[r].result = "token" /\ answer'[r].user = i
    BY <1>3 DEF Reply, Success, LInv, IInv, TypeOK
  <2> QED BY <1>1, <2>3, <2>4 DEF Traced, Pending, Decided, Shown
<1>4. ASSUME NEW i \in Hits(req[r].email),
             ~ VerifyPassword(req[r].password, docs[i].password),
             Reply(r, Failure("password"))
      PROVE  Traced(r)'
  <2>1. PICK s \in Requests : Origin(i, docs[i], s)
    BY <1>1, HitOrigin
  <2>2. docs[i].password.password # req[r].password
    <3>1. docs[i].password \in Hash
      BY <1>1, HitOrigin DEF User
    <3> QED BY <1>4, <3>1 DEF VerifyPassword, Hash
  <2>3. /\ phase'[s] # "idle" /\ req'[s].kind = "create"
        /\ req'[s].id \in executed'
        /\ TagOf[req'[s].email] = TagOf[req[r].email]
        /\ req'[s].password # req[r].password
    BY <1>0, <1>1, <2>1, <2>2, HitOrigin DEF Keeps, Origin
  <2>4. /\ phase'[r] = "done" /\ UNCHANGED req
        /\ answer'[r].result = "password"
    BY <1>4 DEF Reply, Failure, LInv, IInv, TypeOK
  <2> QED BY <1>1, <2>3, <2>4 DEF Traced, Pending, Decided, Shown
<1> QED BY <1>2, <1>3, <1>4 DEF SearchedLogin

LEMMA ReaderTraced ==
  ASSUME LInv, NEW r \in Requests, SearchedReadUser(r)
  PROVE  Traced(r)'
<1>1. /\ phase[r] = "search" /\ req[r].kind = "readUser"
      /\ req[r].email = req[r].token.email
  BY DEF SearchedReadUser, Searching, LInv, Traced, Shown
<1>2. CASE \E e \in {"many", "no user"} : Reply(r, Failure(e))
  BY <1>2, FailureReply DEF Errors
<1>3. ASSUME NEW i \in Hits(req[r].email), Reply(r, Success("user", i))
      PROVE  Traced(r)'
  <2>1. i \in executed /\ TagOf[docs[i].email] = TagOf[req[r].token.email]
    BY <1>1, HitOrigin
  <2>2. /\ phase'[r] = "done" /\ answer'[r].user = i
        /\ UNCHANGED <<req, docs, executed>>
    BY <1>3 DEF Reply, Success, LInv, IInv, TypeOK
  <2> QED BY <1>1, <2>1, <2>2 DEF Traced, Pending, Decided, Shown
<1> QED BY <1>2, <1>3 DEF SearchedReadUser

LEMMA StepTraced ==
  ASSUME LInv, NEW r \in Requests, Step(r)
  PROVE  Traced(r)'
<1>0. Keeps
  BY TasksKeep DEF LInv
<1>1. CASE SearchedCreate(r)
  <2>1. CASE Reply(r, Failure("in use"))
    BY <2>1, FailureReply DEF Errors
  <2>2. CASE phase' = [phase EXCEPT ![r] = "set"] /\ UNCHANGED <<req, answer>>
    <3>1. phase'[r] = "set" /\ phase[r] = "search" /\ req[r].kind = "create"
      BY <1>1, <2>2 DEF SearchedCreate, Searching, LInv, IInv, TypeOK
    <3> QED BY <1>0, <2>2, <3>1, Undisturbed
  <2> QED BY <1>1, <2>1, <2>2 DEF SearchedCreate
<1>2. CASE Got(r)
  <2> DEFINE a == IF req[r].id \in Existing THEN Success("user", req[r].id)
                                           ELSE Failure("no user")
  <2>1. a \in Answer /\ a.result \in {"user", "no user"}
    BY Constructors DEF Errors, Existing, Success, Failure
  <2>2. Reply(r, a) /\ req[r].kind # "readUser"
    BY <1>2 DEF Got, LInv, Traced, Shown
  <2> HIDE DEF a
  <2> QED BY <2>1, <2>2, PlainReply
<1>3. CASE Stored(r)
  <2> DEFINE a == Success("created", req[r].id)
  <2>1. a \in Answer /\ a.result = "created"
    BY <1>3, Constructors DEF Stored, LInv, IInv, TypeOK, Success
  <2>2. Reply(r, a) /\ req[r].kind # "readUser"
    BY <1>3 DEF Stored, LInv, Traced, Shown
  <2> HIDE DEF a
  <2> QED BY <2>1, <2>2, PlainReply
<1>4. CASE SearchedNothing(r) \/ RedisError(r)
  BY <1>4, FailureReply DEF SearchedNothing, RedisError, Errors
<1> QED BY <1>1, <1>2, <1>3, <1>4, LoginTraced, ReaderTraced DEF Step

-----------------------------------------------------------------------------
(* The invariant, and what it gives.                                       *)

LEMMA InitLInv == Init => LInv
<1> SUFFICES ASSUME Init PROVE LInv
  OBVIOUS
<1>1. Existing = {} /\ sent = {}
  BY DEF Init, Existing
<1>2. None \notin Ids
  BY AccountsAssumption
<1>3. \A r \in Requests : /\ phase[r] = "idle" /\ answer[r] = NoAnswer
                          /\ req[r].kind = "node"
  BY DEF Init, NoRequest
<1>4. \A r \in Requests : Traced(r)
  BY <1>3 DEF Traced, Pending, Decided, Shown
<1> QED BY <1>1, <1>4, InitIInv DEF LInv, Created

LEMMA TasksLInv ==
  ASSUME LInv, IInv', NEW r \in Requests, Begin(r) \/ Step(r) \/ Hangup(r)
  PROVE  LInv'
<1>1. Keeps
  BY TasksKeep DEF LInv
<1>2. ASSUME NEW s \in Requests, s # r
      PROVE  Traced(s)'
  <2>1. /\ req'[s] = req[s] /\ answer'[s] = answer[s] /\ phase'[s] = phase[s]
    BY <1>2 DEF Begin, CreateUser, LoginUser, ReadUser, ReadCurrentUser, Node,
       Refuse, Accept, Step, SearchedCreate, SearchedLogin, SearchedReadUser,
       Got, Stored, SearchedNothing, RedisError, Reply, Hangup, LInv, IInv,
       TypeOK
  <2> QED BY <1>1, <2>1, Undisturbed
<1>3. Traced(r)'
  <2>1. CASE Hangup(r)
    BY <1>1, <2>1, Undisturbed DEF Hangup, LInv, IInv, TypeOK
  <2> QED BY <2>1, BeginTraced, StepTraced
<1>4. Created'
  BY CreatedTasks
<1> QED BY <1>2, <1>3, <1>4 DEF LInv

LEMMA NextLInv == LInv /\ [Next]_vars => LInv'
<1> SUFFICES ASSUME LInv, [Next]_vars PROVE LInv'
  OBVIOUS
<1>1. IInv'
  BY NextIInv DEF LInv
<1>2. ASSUME NEW c \in sent, ExecuteSet(c)
      PROVE  LInv'
  <2>1. Keeps /\ UNCHANGED taskVars
    BY <1>2, ExecuteKeeps DEF LInv
  <2>2. \A r \in Requests : Traced(r)'
    BY <2>1, Undisturbed
  <2>3. Created'
    BY <1>2, CreatedExecute
  <2> QED BY <1>1, <2>2, <2>3 DEF LInv
<1>3. CASE \/ \E c \in sent : DropSet(c)
           \/ \E i \in Ids : Scan(i)
           \/ Fsync \/ RedisCrash \/ Daemon \/ UNCHANGED vars
  <2>1. /\ Keeps /\ UNCHANGED <<req, answer>> /\ sent' \subseteq sent
        /\ Existing' \subseteq Existing
        /\ \A i \in Existing' : docs'[i] = docs[i]
        /\ \A s \in Requests : phase'[s] \in {phase[s], "lost"}
    BY <1>3, OthersKeep DEF LInv
  <2>2. \A r \in Requests : Traced(r)'
    BY <2>1, Undisturbed
  <2>3. Created'
    BY <2>1, CreatedKept
  <2> QED BY <1>1, <2>2, <2>3 DEF LInv
<1> QED BY <1>1, <1>2, <1>3, TasksLInv DEF Next, Redis

LEMMA LInductive == Spec => []LInv
BY InitLInv, NextLInv, PTL DEF Spec

\* login_user issues a token only for the password given to the create its
\* account stems from, and turns a password away only if a create that was
\* executed gave another one, in whatever runs of the daemon the two happened.
THEOREM LoginsDecide == Spec => []LoginDecidesByPassword
<1>1. LInv => LoginDecidesByPassword
  BY DEF LInv, Traced, Decided, LoginDecidesByPassword
<1> QED BY <1>1, LInductive, PTL

\* Requests are suspended in a daemon that runs, and a search by a token is one
\* of the run that issued it.
Signed ==
  \A r \in Requests :
    /\ phase[r] \in Awaits => server = "up"
    /\ req[r].kind = "readUser" /\ phase[r] = "search" =>
         req[r].token.key = boot

\* Only the daemon's own steps change its run, and they find no request
\* suspended, or leave none.
LEMMA NextSigned == IInv /\ Signed /\ [Next]_vars => Signed'
<1> SUFFICES ASSUME IInv, Signed, [Next]_vars PROVE Signed'
  OBVIOUS
<1>1. ASSUME NEW r \in Requests, Begin(r)
      PROVE  Signed'
  <2>1. server = "up" /\ UNCHANGED serverVars
        /\ \A s \in Requests \ {r} : req'[s] = req[s] /\ phase'[s] = phase[s]
    BY <1>1 DEF Begin, CreateUser, LoginUser, ReadUser, ReadCurrentUser, Node,
         Refuse, Accept, IInv, TypeOK
  <2>2. ASSUME req'[r].kind = "readUser", phase'[r] = "search"
        PROVE  req'[r].token.key = boot
    <3>1. ReadUser(r)
      BY <1>1, <2>2, OnlyReadUser
    <3>2. PICK e \in Emails, t \in issued \cup {None} :
            LET q == [NoRequest EXCEPT !.kind = "readUser", !.email = e,
                                       !.token = t]
            IN  \/ t.key = boot /\ Accept(r, q, "search")
                \/ Refuse(r, q, "auth")
      BY <3>1 DEF ReadUser, Authentic
    <3> DEFINE q == [NoRequest EXCEPT !.kind = "readUser", !.email = e,
                                      !.token = t]
    <3>3. q.token = t
      BY DEF NoRequest
    <3> HIDE DEF q
    <3> QED BY <2>2, <3>2, <3>3 DEF Accept, Refuse, IInv, TypeOK, q
  <2> QED BY <2>1, <2>2 DEF Signed
<1>2. ASSUME NEW r \in Requests, Step(r) \/ Hangup(r)
      PROVE  Signed'
  <2>1. UNCHANGED <<req, serverVars>> /\ phase[r] \in Awaits
    BY <1>2 DEF Step, SearchedCreate, SearchedLogin, SearchedReadUser, Got,
         Stored, SearchedNothing, RedisError, Searching, Reply, Hangup, Awaits
  <2>2. \E p \in {"set", "done", "lost"} : phase' = [phase EXCEPT ![r] = p]
    BY <1>2 DEF Step, SearchedCreate, SearchedLogin, SearchedReadUser, Got,
         Stored, SearchedNothing, RedisError, Reply, Hangup
  <2> QED BY <2>1, <2>2 DEF Signed, Awaits, IInv, TypeOK
<1>3. CASE Redis \/ UNCHANGED vars
  BY <1>3 DEF Redis, ExecuteSet, DropSet, Scan, Fsync, RedisCrash, Signed, vars
<1>4. CASE Daemon
  BY <1>4 DEF Daemon, Start, StartFails, Serve, ServerCrash, Signed, Awaits,
       IInv, TypeOK
<1> QED BY <1>1, <1>2, <1>3, <1>4 DEF Next

LEMMA SignedInductive == Spec => []Signed
<1>1. Init => Signed
  BY DEF Init, Signed, Awaits
<1> QED BY <1>1, NextSigned, Inductive, PTL DEF Spec

\* read_user shows a caller no account but those with the tag of its own token,
\* and searches for no token of another run.
THEOREM ReadersReadTheirOwn == Spec => []ReadsOwnEmail
<1>1. LInv /\ Signed => ReadsOwnEmail
  BY DEF LInv, Traced, Shown, Signed, ReadsOwnEmail
<1> QED BY <1>1, LInductive, SignedInductive, PTL
=============================================================================
