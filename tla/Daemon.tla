------------------------------- MODULE Daemon -------------------------------
(***************************************************************************)
(* The life of the daemon: main (server/daemon.rs) creates the context     *)
(* (server/core/context.rs), asks Redis for the index                      *)
(* (server/custom/redis.rs) and serves (server/core/server.rs) until       *)
(* Ctrl-C, which closes the listener and waits for the requests in flight. *)
(*                                                                         *)
(* One request is followed through Pipeline; of the other connections only *)
(* counts whether a request is in flight on them.                          *)
(***************************************************************************)
EXTENDS Pipeline

CONSTANT Clients   \* the connections not followed through Pipeline

VARIABLES
  server,   \* where main is
  port,     \* who listens on port 3080
  busy      \* the clients whose requests are in flight in this daemon

daemonVars == <<server, port, busy>>

\* "stopped": main has returned, with or without an error on the console;
\* "died": by a panic or a signal.
ServerStates == {"off", "context", "index", "bind", "serving", "draining",
                 "stopped", "died"}

Starting == {"context", "index", "bind"}
Running  == {"serving", "draining"}

DaemonTypeOK ==
  /\ TypeOK
  /\ server \in ServerStates
  /\ port \in {"free", "daemon", "other"}
  /\ busy \subseteq Clients

DaemonInit ==
  /\ Init
  /\ server = "off"
  /\ port \in {"free", "other"}
  /\ busy = {}

MainGoes(s) ==
  /\ server' = s
  /\ UNCHANGED <<vars, port, busy>>

-----------------------------------------------------------------------------
(* Starting.                                                               *)

StartDaemon == server = "off" /\ MainGoes("context")

\* Context::new: keys, a client for Redis, and the schema, which is written to
\* a file; an error is printed, and main returns.
CreateContext ==
  server = "context" /\ (MainGoes("index") \/ MainGoes("stopped"))

\* custom::redis::index: no connection is an error too; what FT.CREATE answers
\* is ignored, since the index mostly exists.
CreateIndex ==
  server = "index" /\ (MainGoes("bind") \/ MainGoes("stopped"))

\* hyper::Server::bind panics if someone else has the port.
Bind ==
  /\ server = "bind"
  /\ \/ /\ port = "free"
        /\ port' = "daemon" /\ server' = "serving"
        /\ UNCHANGED <<vars, busy>>
     \/ port # "free" /\ MainGoes("died")

-----------------------------------------------------------------------------
(* Serving.                                                                *)

\* A connection is accepted, or one that is kept alive has a new request.
Accept ==
  /\ server = "serving"
  /\ \E q \in Request : Arrive(q)
  /\ UNCHANGED daemonVars

\* The request goes on, whether or not the daemon has been told to stop.
Handle ==
  /\ server \in Running
  /\ \/ SendFile \/ RefuseRefresh \/ Refresh \/ FailElsewhere
     \/ Clone \/ Reject \/ Execute \/ Finish
     \/ \E f \in Fields : Login(f) \/ Resolve(f)
  /\ UNCHANGED daemonVars

\* The response has been sent.
Leave == phase = "done" /\ Forget /\ UNCHANGED daemonVars

\* The connection breaks, and the handler is dropped at its await.
Hangup == phase # "done" /\ Forget /\ UNCHANGED daemonVars

\* Mutant of BeginOther: a connection that is kept alive may ask once more.
BeginOtherAlways(c) ==
  /\ server \in Running /\ c \notin busy
  /\ busy' = busy \cup {c}
  /\ UNCHANGED <<vars, server, port>>

BeginOther(c) ==
  /\ server = "serving" /\ c \notin busy
  /\ busy' = busy \cup {c}
  /\ UNCHANGED <<vars, server, port>>

EndOther(c) ==
  /\ c \in busy
  /\ busy' = busy \ {c}
  /\ UNCHANGED <<vars, server, port>>

-----------------------------------------------------------------------------
(* Stopping.                                                               *)

\* The process is gone, and with it its listener and its connections.
Die ==
  /\ server \in Starting \cup Running
  /\ server' = "died"
  /\ port' = IF port = "daemon" THEN "free" ELSE port
  /\ busy' = {}
  /\ IF phase = "idle" THEN UNCHANGED vars ELSE Forget

\* Mutant of Interrupted: the listener stays open while requests are answered.
InterruptedListening ==
  \/ server = "serving" /\ MainGoes("draining")
  \/ server = "draining" /\ UNCHANGED <<vars, daemonVars>>
  \/ server \in Starting /\ Die

\* Ctrl-C: abort_signal returns and the listener is closed.  The handler of
\* the signal is installed when serve waits for it, so that Ctrl-C kills the
\* daemon before that, and does nothing after it has been pressed once.
Interrupted ==
  \/ /\ server = "serving"
     /\ server' = "draining" /\ port' = "free"
     /\ UNCHANGED <<vars, busy>>
  \/ server = "draining" /\ UNCHANGED <<vars, daemonVars>>
  \/ server \in Starting /\ Die

\* No request is in flight, idle connections are closed: serve returns.
Drained ==
  /\ server = "draining"
  /\ phase = "idle" /\ busy = {}
  /\ MainGoes("stopped")

\* Another program takes the port, or leaves it.
Other ==
  /\ \/ port = "free" /\ port' = "other"
     \/ port = "other" /\ port' = "free"
  /\ UNCHANGED <<vars, server, busy>>

\* Everything main and its tasks do by themselves.
DaemonSteps ==
  CreateContext \/ CreateIndex \/ Bind \/ Handle \/ Leave \/ Drained

-----------------------------------------------------------------------------
(* Properties.                                                             *)

\* The port is the daemon's exactly while it serves, and no request is in
\* flight in a daemon that does not run: whatever ends it, and whenever, no
\* request is left behind by a main that returns.
NobodyLeftBehind ==
  /\ port = "daemon" <=> server = "serving"
  /\ server \notin Running => phase = "idle" /\ busy = {}

\* A handler that has begun comes to an answer, whatever Redis and the body do,
\* and also when the daemon is told to stop, unless the connection breaks or
\* the daemon dies.
HandlersAnswer ==
  phase \notin {"idle", "done"} ~> phase \in {"idle", "done"}

\* After Ctrl-C the daemon ends, however many requests were in flight.
StopsOnSignal == server = "draining" ~> server \in {"stopped", "died"}
=============================================================================
