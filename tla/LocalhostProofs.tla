-------------------------- MODULE LocalhostProofs ---------------------------
(***************************************************************************)
(* Proofs about Pipeline, and about the Daemon and the command line around *)
(* it: for any number of fields, accounts, clients and devtools, what is   *)
(* executed is the caller's, an answer has a refresh cookie exactly if a   *)
(* session was created for it, and no request outlives its daemon.         *)
(***************************************************************************)
EXTENDS Localhost, TLAPS

USE DEF vars

\* Until the fields run there is no session; while they run it is in the
\* context's jar, and then in the message's.
SessionIsWhere ==
  /\ phase \in {"idle", "clone", "elsewhere", "execute"} =>
       jar = None /\ last = None
  /\ phase \in {"idle", "clone", "execute"} => context.delta = None
  /\ phase = "fields" => jar = None /\ context.delta = last
  /\ phase = "done" => jar = last

\* An operation was asked for by a POST to /graphql, and has a login in it when
\* its context has a cookie.
SessionIsAsked ==
  /\ phase \in {"clone", "execute", "fields"} => req.route = "graphql"
  /\ phase = "fields" /\ context.delta # None =>
       \E f \in Fields : req.content[f] = "login"
  /\ RefusalsStartNoSession

\* The context has the caller's headers exactly if the body came whole, and
\* until it has come no field has started.
CloneIsWhole ==
  /\ phase \in {"idle", "clone", "elsewhere"} =>
       body = "coming" /\ context.headers = "own"
  /\ phase = "execute" =>
       (body = "whole" /\ context.headers = "own") \/ body = "broken"
  /\ phase \in {"idle", "clone", "elsewhere", "execute"} =>
       \A f \in Fields : field[f] = "unstarted"
  /\ (\E f \in Fields : field[f] # "unstarted") =>
       body = "whole" /\ context.headers = "own"

IInv == TypeOK /\ SessionIsWhere /\ SessionIsAsked /\ CloneIsWhole

-----------------------------------------------------------------------------
LEMMA InitIInv == Init => IInv
<1> SUFFICES ASSUME Init PROVE IInv
  OBVIOUS
<1>1. TypeOK
  BY DEF Init, TypeOK, NoRequest, Request, Routes, Methods, Phases, Untouched,
         Context, States, Silent, Response
<1> QED BY <1>1 DEF Init, IInv, SessionIsWhere, SessionIsAsked,
        RefusalsStartNoSession,
         CloneIsWhole, Untouched

\* A handler that returns without having touched a jar.
LEMMA RespondIInv ==
  ASSUME IInv, NEW status, NEW text, Respond(status, text),
         [status |-> status, body |-> text] \in Response,
         req' \in Request, phase # "fields", phase # "done",
         UNCHANGED <<body, context, field, jar, last>>
  PROVE  IInv'
<1>1. TypeOK'
  BY DEF IInv, TypeOK, Respond, Phases
<1> QED BY <1>1 DEF IInv, TypeOK, Phases, SessionIsWhere, SessionIsAsked,
        RefusalsStartNoSession,
         CloneIsWhole, Respond

LEMMA ArriveIInv ==
  ASSUME IInv, NEW q \in Request, Arrive(q)
  PROVE  IInv'
<1>1. CASE phase' = "done"
  <2>1. PICK status \in {200, 405}, text \in {"empty", "page"} :
          Respond(status, text)
    BY <1>1 DEF Arrive
  <2> QED BY <2>1, RespondIInv DEF Arrive, Response
<1>2. CASE phase' \in {"clone", "elsewhere"} /\ UNCHANGED res
  <2>1. TypeOK'
    BY <1>2 DEF Arrive, IInv, TypeOK, Phases
  <2> QED BY <1>2, <2>1 DEF Arrive, Respond, IInv, SessionIsWhere,
          SessionIsAsked, RefusalsStartNoSession,
         CloneIsWhole
<1> QED BY <1>1, <1>2 DEF Arrive, Respond

LEMMA ElsewhereIInv ==
  ASSUME IInv, SendFile \/ RefuseRefresh \/ Refresh \/ FailElsewhere
  PROVE  IInv'
<1>0. req \in Request
  BY DEF IInv, TypeOK
<1>1. CASE SendFile \/ RefuseRefresh \/ FailElsewhere
  <2>1. PICK status \in {200, 401, 403, 500}, text \in {"empty", "page"} :
          Respond(status, text)
    BY <1>1 DEF SendFile, RefuseRefresh, FailElsewhere, Fail
  <2>2. /\ phase = "elsewhere"
        /\ UNCHANGED <<req, body, context, field, jar, last>>
    BY <1>1 DEF SendFile, RefuseRefresh, FailElsewhere, Fail
  <2> QED BY <1>0, <2>1, <2>2, RespondIInv DEF Response
<1>2. CASE Refresh
  <2>1. TypeOK'
    BY <1>2 DEF Refresh, Respond, IInv, TypeOK, Phases, Response
  <2> QED BY <1>2, <2>1 DEF Refresh, Respond, IInv, SessionIsWhere,
          SessionIsAsked, RefusalsStartNoSession,
         CloneIsWhole
<1> QED BY <1>1, <1>2

LEMMA CloneIInv ==
  ASSUME IInv, Clone
  PROVE  IInv'
<1>1. PICK left \in {"whole", "broken"} :
        /\ body' = left
        /\ context' = [headers |-> IF left = "whole" THEN "own" ELSE "default",
                       delta |-> jar]
  BY DEF Clone
<1>2. TypeOK'
  BY <1>1 DEF Clone, IInv, TypeOK, Phases, Context
<1> QED BY <1>1, <1>2 DEF Clone, IInv, SessionIsWhere, SessionIsAsked,
        RefusalsStartNoSession,
         CloneIsWhole

LEMMA ExecuteIInv ==
  ASSUME IInv, Reject \/ Execute
  PROVE  IInv'
<1>0. req \in Request
  BY DEF IInv, TypeOK
<1>1. CASE Reject
  BY <1>0, <1>1, RespondIInv DEF Reject, Response
<1>2. CASE Execute
  <2>1. \A f \in Fields : field'[f] \in States
    BY <1>2 DEF Execute, Started, States
  <2>2. context' \in Context /\ context'.delta = None
        /\ context'.headers = context.headers
    BY <1>2 DEF Execute, IInv, TypeOK, SessionIsWhere, Context, Remove
  <2>3. field' \in [Fields -> States]
    BY <1>2, <2>1 DEF Execute
  <2>4. TypeOK'
    BY <1>2, <2>2, <2>3 DEF Execute, IInv, TypeOK, Phases
  <2> QED BY <1>2, <2>2, <2>4 DEF Execute, IInv, SessionIsWhere, SessionIsAsked,
          RefusalsStartNoSession,
         CloneIsWhole
<1> QED BY <1>1, <1>2

LEMMA FieldIInv ==
  ASSUME IInv, NEW f \in Fields, Login(f) \/ Resolve(f)
  PROVE  IInv'
<1>1. field' \in [Fields -> States] /\ field[f] # "unstarted" /\
          phase = "fields"
  BY DEF Login, Resolve, IInv, TypeOK, States
<1>2. context' \in Context /\ context'.headers = context.headers
      /\ context'.delta = last' /\ last' \in Users \cup {None}
  BY <1>1 DEF Login, Resolve, IInv, TypeOK, Context, SessionIsWhere
<1>3. TypeOK'
  BY <1>1, <1>2 DEF Login, Resolve, IInv, TypeOK
<1>4. SessionIsWhere'
  BY <1>1, <1>2 DEF Login, Resolve, IInv, SessionIsWhere
<1>5. CloneIsWhole'
  BY <1>1, <1>2 DEF Login, Resolve, IInv, CloneIsWhole
<1>6. SessionIsAsked'
  BY <1>1, <1>2
  DEF Login, Resolve, IInv, SessionIsWhere, SessionIsAsked,
     RefusalsStartNoSession
<1> QED BY <1>3, <1>4, <1>5, <1>6 DEF IInv

LEMMA FinishIInv ==
  ASSUME IInv, Finish
  PROVE  IInv'
<1>1. TypeOK'
  BY DEF Finish, Respond, Data, IInv, TypeOK, Phases, Response, Context
<1>2. SessionIsWhere'
  BY DEF Finish, Respond, IInv, SessionIsWhere
<1>3. CloneIsWhole'
  BY DEF Finish, Respond, IInv, CloneIsWhole
<1>4. SessionIsAsked'
  BY DEF Finish, Respond, Data, IInv, SessionIsWhere, SessionIsAsked,
         RefusalsStartNoSession
<1> QED BY <1>1, <1>2, <1>3, <1>4 DEF IInv

LEMMA ForgetIInv ==
  ASSUME Forget
  PROVE  IInv'
<1>1. TypeOK'
  BY DEF Forget, TypeOK, NoRequest, Request, Routes, Methods, Phases,
         Untouched, Context, States, Silent, Response
<1> QED BY <1>1 DEF Forget, IInv, SessionIsWhere, SessionIsAsked,
        RefusalsStartNoSession,
         CloneIsWhole, Untouched

LEMMA NextIInv == IInv /\ [Next]_vars => IInv'
<1> SUFFICES ASSUME IInv, [Next]_vars PROVE IInv'
  OBVIOUS
<1>1. CASE UNCHANGED vars
  BY <1>1 DEF IInv, TypeOK, SessionIsWhere, SessionIsAsked,
     RefusalsStartNoSession,
         CloneIsWhole
<1> QED BY <1>1, ArriveIInv, ElsewhereIInv, CloneIInv, ExecuteIInv, FieldIInv,
           FinishIInv, ForgetIInv DEF Next

LEMMA Inductive == Spec => []IInv
BY InitIInv, NextIInv, PTL DEF Spec

-----------------------------------------------------------------------------
\* The request, the clone and the response keep their types, and fields run
\* only of an operation that was read.
THEOREM TypeCorrect == Spec => []TypeOK
<1>1. IInv => TypeOK
  BY DEF IInv
<1> QED BY <1>1, Inductive, PTL

\* No field runs on a body that was cut short, or in a context that has lost
\* the caller's headers.
THEOREM CallerIsKnown == Spec => []ExecutesForCaller
<1>1. IInv => ExecutesForCaller
  BY DEF IInv, CloneIsWhole, ExecutesForCaller
<1> QED BY <1>1, Inductive, PTL

\* The cookie of an answer is that of the session created last for it.
THEOREM AnswersCarrySessions == Spec => []AnswerCarriesSession
<1>1. IInv => AnswerCarriesSession
  BY DEF IInv, SessionIsWhere, AnswerCarriesSession
<1> QED BY <1>1, Inductive, PTL

\* A cookie comes from an operation with a login, or from a refresh that was
\* granted, whatever status the answer has.
THEOREM RefusalsStartNothing == Spec => []RefusalsStartNoSession
<1>1. IInv => RefusalsStartNoSession
  BY DEF IInv, SessionIsAsked
<1> QED BY <1>1, Inductive, PTL

-----------------------------------------------------------------------------
(* The daemon, and the command line that starts it.                        *)

\* What each process does to a request is a step of Pipeline, or none.
LEMMA LocalStep == [LocalNext]_all => [Next]_vars
BY DEF LocalNext, all, daemonVars, Unmoved, Bundle, Start, StartFails, Race,
   Exit, CheckFails, Delay,
   Fetch,
       BeginOther, Answered, EndOther, Broken, Check, EndWatch, Build,
           StartDaemon,
       MainGoes, EndCargo, CloseTool, CtrlC, Interrupted, Die, DaemonGoes,
           DaemonSteps,
       CreateContext, CreateIndex, Bind, Handle, Leave, Hangup, Drained, Accept,
           Other,
       Next

\* Behind a daemon that is started, told to stop and killed, requests go on
\* as in Pipeline, and what is proved of them holds.
THEOREM LocalImplementsPipeline == LocalSpec => Spec
<1>1. LocalInit => Init
  BY DEF LocalInit, DaemonInit
<1> QED BY <1>1, LocalStep, PTL DEF LocalSpec, Spec

\* Pipeline's invariant is there for its types.
LInv == IInv /\ LocalTypeOK /\ NobodyLeftBehind

\* What Accept, Handle, Leave and Hangup leave alone.
LEMMA RequestStep ==
  ASSUME LInv, Accept \/ Handle \/ Leave \/ Hangup
  PROVE  /\ UNCHANGED daemonVars
         /\ server \in Running \/ phase' = "idle"
BY DEF Accept, Handle, Leave, Hangup, Forget, Running

\* One step of main, of its port or of another client.
LEMMA MainStep ==
  ASSUME LInv,
         \/ CreateContext \/ CreateIndex \/ Bind \/ Drained \/ Die \/ Interrupted
               \/ Other \/ \E c \in Clients : BeginOther(c) \/ EndOther(c)
  PROVE  /\ server' \in ServerStates /\ port' \in {"free", "daemon", "other"}
         /\ busy' \subseteq Clients
         /\ NobodyLeftBehind'
 <1>1. /\ server \in ServerStates /\ port \in {"free", "daemon", "other"}
      /\ busy \subseteq Clients /\ NobodyLeftBehind
  BY DEF LInv, LocalTypeOK, DaemonTypeOK
<1>2. CASE CreateContext \/ CreateIndex
  BY <1>1, <1>2 DEF CreateContext, CreateIndex, MainGoes, ServerStates,
     NobodyLeftBehind,
                    Running
<1>3. CASE Bind \/ Drained
  BY <1>1, <1>3 DEF Bind, Drained, MainGoes, ServerStates, NobodyLeftBehind,
     Running
<1>4. CASE Die \/ Interrupted
  <2>1. CASE Die
    BY <1>1, <2>1 DEF Die, Forget, ServerStates, NobodyLeftBehind, Running,
       Starting
  <2>2. CASE ~Die /\ Interrupted
    BY <1>1, <2>2 DEF Interrupted, daemonVars, ServerStates, NobodyLeftBehind,
       Running
  <2> QED BY <1>4, <2>1, <2>2
<1>5. CASE Other
  BY <1>1, <1>5 DEF Other, NobodyLeftBehind
<1>6. CASE \E c \in Clients : BeginOther(c) \/ EndOther(c)
  BY <1>1, <1>6 DEF BeginOther, EndOther, NobodyLeftBehind, Running
<1> QED BY <1>2, <1>3, <1>4, <1>5, <1>6

\* What the daemon, its clients and other programs do.
LEMMA DaemonGoesStep ==
  ASSUME LInv, DaemonGoes
  PROVE  /\ server' \in ServerStates /\ port' \in {"free", "daemon", "other"}
         /\ busy' \subseteq Clients
         /\ NobodyLeftBehind'
<1>1. UNCHANGED localVars
  BY DEF DaemonGoes
<1>2. CASE Accept \/ Handle \/ Leave \/ Hangup
  BY <1>1, <1>2, RequestStep
     DEF LInv, LocalTypeOK, DaemonTypeOK, NobodyLeftBehind, daemonVars,
        localVars
<1>3. CASE \/ CreateContext \/ CreateIndex \/ Bind \/ Drained \/ Die \/ Interrupted
           \/ Other \/ \E c \in Clients : BeginOther(c) \/ EndOther(c)
  BY <1>1, <1>3, MainStep DEF LInv, localVars
<1> QED BY <1>2, <1>3, LocalhostAssumption DEF DaemonGoes, DaemonSteps

LEMMA InitLInv == LocalInit => LInv
<1> SUFFICES ASSUME LocalInit PROVE LInv
  OBVIOUS
<1>1. IInv
  BY InitIInv DEF LocalInit, DaemonInit
<1> QED BY <1>1 DEF LocalInit, DaemonInit, Init, LInv, IInv, LocalTypeOK,
        DaemonTypeOK,
               AllTools, ServerStates, Running, NobodyLeftBehind

LEMMA NextLInv == LInv /\ [LocalNext]_all => LInv'
<1> SUFFICES ASSUME LInv, [LocalNext]_all PROVE LInv'
  OBVIOUS
<1>1. IInv'
  BY LocalStep, NextIInv DEF LInv
<1>2. LocalTypeOK /\ NobodyLeftBehind /\ DaemonTypeOK
  BY DEF LInv, LocalTypeOK
<1>3. CASE UNCHANGED all
  BY <1>1, <1>2, <1>3
     DEF all, daemonVars, localVars, LInv, LocalTypeOK, DaemonTypeOK, IInv,
         NobodyLeftBehind
<1>4. CASE Bundle \/ Start \/ StartFails \/ Race \/ Exit
  BY <1>1, <1>2, <1>4
     DEF Bundle, Start, StartFails, Race, Exit, Unmoved, daemonVars, AllTools,
        LInv,
        LocalTypeOK,
         DaemonTypeOK, IInv, NobodyLeftBehind
<1>5. CASE Delay \/ Broken \/ Check \/ CheckFails \/ EndWatch
  BY <1>1, <1>2, <1>5
     DEF Delay, Broken, Check, CheckFails, EndWatch, Ready, Unmoved, daemonVars,
        LInv,
        LocalTypeOK,
         DaemonTypeOK, IInv, NobodyLeftBehind
<1>6. CASE Fetch \/ Answered
  <2>1. /\ polling' \in {"delay", "wait", "check"}
        /\ UNCHANGED <<command, cargo, tools, deno>>
        /\ Unmoved \/ BeginOther(Poll) \/ EndOther(Poll)
    BY <1>6 DEF Fetch, Answered, Ready
  <2>2. CASE Unmoved
    BY <1>1, <1>2, <2>1, <2>2
       DEF Unmoved, daemonVars, LInv, LocalTypeOK, DaemonTypeOK, IInv,
          NobodyLeftBehind
  <2>3. CASE BeginOther(Poll) \/ EndOther(Poll)
    <3>1. /\ server' \in ServerStates /\ port' \in {"free", "daemon", "other"}
          /\ busy' \subseteq Clients /\ NobodyLeftBehind'
      BY <2>3, MainStep, LocalhostAssumption
    <3> QED BY <1>1, <1>2, <2>1, <3>1
            DEF LInv, LocalTypeOK, DaemonTypeOK, IInv
  <2> QED BY <2>1, <2>2, <2>3
<1>7. CASE Build \/ EndCargo \/ CloseTool
  <2>1. CASE Build
    BY <1>1, <1>2, <2>1
       DEF Build, StartDaemon, MainGoes, Unmoved, daemonVars, LInv, LocalTypeOK,
           DaemonTypeOK, IInv, ServerStates, Running, NobodyLeftBehind
  <2>2. CASE EndCargo \/ CloseTool
    BY <1>1, <1>2, <2>2
       DEF EndCargo, CloseTool, Unmoved, daemonVars, LInv, LocalTypeOK,
           DaemonTypeOK, IInv, NobodyLeftBehind
  <2> QED BY <1>7, <2>1, <2>2
<1>8. CASE CtrlC
  <2>1. /\ polling' \in {"off", "over"}
        /\ cargo' \in {"none", "build", "run", "ended"}
        /\ tools' \in [Devtools -> {"none", "runs", "ended"}]
        /\ deno' = "gone" /\ UNCHANGED command
    BY <1>2, <1>8 DEF CtrlC, LocalTypeOK
  <2>2. Interrupted \/ Unmoved
    BY <1>8 DEF CtrlC
  <2>3. /\ server' \in ServerStates /\ port' \in {"free", "daemon", "other"}
        /\ busy' \subseteq Clients /\ NobodyLeftBehind'
    <3>1. CASE Interrupted
      BY <3>1, MainStep
    <3>2. CASE Unmoved
      BY <1>2, <3>2 DEF Unmoved, daemonVars, vars, DaemonTypeOK,
         NobodyLeftBehind
    <3> QED BY <2>2, <3>1, <3>2
  <2> QED BY <1>1, <1>2, <2>1, <2>3
          DEF LInv, LocalTypeOK, DaemonTypeOK, IInv
<1>9. CASE DaemonGoes
  <2>1. UNCHANGED localVars
    BY <1>9 DEF DaemonGoes
  <2> QED BY <1>1, <1>2, <1>9, <2>1, DaemonGoesStep
          DEF LInv, LocalTypeOK, DaemonTypeOK, IInv, localVars
<1> QED BY <1>3, <1>4, <1>5, <1>6, <1>7, <1>8, <1>9 DEF LocalNext

LEMMA LocalInductive == LocalSpec => []LInv
BY InitLInv, NextLInv, PTL DEF LocalSpec

\* Main, the port, the clients, the command line and its children keep to
\* their states, and requests to their types.
THEOREM LocalTypeCorrect == LocalSpec => []LocalTypeOK
BY LocalInductive, PTL DEF LInv

\* However the daemon ends, nobody is left waiting for it, and its port is free.
THEOREM NobodyIsLeft == LocalSpec => []NobodyLeftBehind
BY LocalInductive, PTL DEF LInv

\* What holds of a request alone holds of it in a daemon that is started, told
\* to stop, and killed.
THEOREM LocalRequests ==
  LocalSpec =>
      [](ExecutesForCaller /\ AnswerCarriesSession /\ RefusalsStartNoSession)
BY LocalImplementsPipeline, CallerIsKnown, AnswersCarrySessions,
   RefusalsStartNothing, PTL
=============================================================================
