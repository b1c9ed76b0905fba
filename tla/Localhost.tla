----------------------------- MODULE Localhost ------------------------------
(***************************************************************************)
(* turtle localhost:deno (cli/cli.ts): the command bundles the client,     *)
(* starts the daemon with cargo and, if asked, two devtools, polls the     *)
(* daemon until it answers, and then bundles again in watch mode; it waits *)
(* for whichever child ends first.                                         *)
(*                                                                         *)
(* The Deno process ends when its event loop has nothing left: no child,   *)
(* and no polling.  Ctrl-C reaches every process of the terminal's group.  *)
(* A rejected promise that nobody handles ends the Deno process alone.     *)
(***************************************************************************)
EXTENDS Daemon

CONSTANTS
  Poll,      \* the client that is the polling fetch
  Devtools   \* the devtools that may be opened

ASSUME LocalhostAssumption == Poll \in Clients

VARIABLES
  command,   \* localhostDeno
  polling,   \* ready(), which nobody awaits
  cargo,     \* the child that builds and runs the daemon
  tools,     \* the devtools
  deno       \* the process of the command line: "gone" by Ctrl-C or because
             \* nothing was left to do, "crashed" by a rejection

localVars == <<command, polling, cargo, tools, deno>>
all == <<vars, daemonVars, localVars>>

LocalTypeOK ==
  /\ DaemonTypeOK
  /\ command \in {"bundle", "start", "race", "returned"}
  /\ polling \in {"off", "delay", "fetch", "wait", "check", "watch", "over"}
  /\ cargo \in {"none", "build", "run", "ended"}
  /\ tools \in [Devtools -> {"none", "runs", "ended"}]
  /\ deno \in {"running", "gone", "crashed"}

AllTools(is) == [t \in Devtools |-> is]

LocalInit ==
  /\ DaemonInit
  /\ command = "bundle" /\ polling = "off"
  /\ cargo = "none" /\ tools = AllTools("none")
  /\ deno = "running"

Unmoved == UNCHANGED <<vars, daemonVars>>

-----------------------------------------------------------------------------
(* localhostDeno.                                                          *)

\* bundleSnowpack: type check and build.  A failing check makes the command
\* return.  A failing build throws, since its stderr was not piped, as does a
\* file or a program that is missing.
Bundle ==
  /\ deno = "running" /\ command = "bundle"
  /\ \/ command' \in {"start", "returned"} /\ UNCHANGED deno
     \/ deno' = "crashed" /\ UNCHANGED command
  /\ Unmoved /\ UNCHANGED <<polling, cargo, tools>>

\* ready() is called, devtools are opened, and cargo run is started.
Start ==
  /\ deno = "running" /\ command = "start"
  /\ polling' = "delay" /\ cargo' = "build"
  /\ tools' \in {AllTools("none"), AllTools("runs")}
  /\ command' = "race"
  /\ Unmoved /\ UNCHANGED deno

\* One of these programs is missing, and Deno.run throws; what was started
\* before goes on.
StartFails ==
  /\ deno = "running" /\ command = "start"
  /\ deno' = "crashed" /\ polling' = "over"
  /\ tools' \in [Devtools -> {"none", "runs"}]
  /\ Unmoved /\ UNCHANGED <<command, cargo>>

\* Promise.race: some child has ended, and the command is done.
Race ==
  /\ deno = "running" /\ command = "race"
  /\ cargo = "ended" \/ \E t \in Devtools : tools[t] = "ended"
  /\ command' = "returned"
  /\ Unmoved /\ UNCHANGED <<polling, cargo, tools, deno>>

\* The event loop of Deno is empty.
Exit ==
  /\ deno = "running" /\ command = "returned"
  /\ polling \in {"off", "over"} /\ cargo \in {"none", "ended"}
  /\ \A t \in Devtools : tools[t] # "runs"
  /\ deno' = "gone"
  /\ Unmoved /\ UNCHANGED <<command, polling, cargo, tools>>

-----------------------------------------------------------------------------
(* ready.                                                                  *)

Ready(from, to) ==
  /\ deno = "running" /\ polling = from /\ polling' = to
  /\ UNCHANGED <<command, cargo, tools, deno>>

Delay == Ready("delay", "fetch") /\ Unmoved

\* fetch: refused, or accepted by the daemon, or answered by the program that
\* has the port.
Fetch ==
  \/ port = "free" /\ Ready("fetch", "delay") /\ Unmoved
  \/ Ready("fetch", "wait") /\ BeginOther(Poll)
  \/ port = "other" /\ Ready("fetch", "check") /\ Unmoved

\* Mutant of Answered: the loop ends only with a good status.
AnsweredWell ==
  /\ Ready("wait", "check") \/ Ready("wait", "delay")
  /\ EndOther(Poll)

\* The daemon answers; any status will do.
Answered == Ready("wait", "check") /\ EndOther(Poll)

\* The daemon died before it answered: fetch rejects, and the loop goes on.
Broken ==
  /\ polling = "wait" /\ Poll \notin busy
  /\ Ready("wait", "delay") /\ Unmoved

\* bundleSnowpack again: the type check fails, or snowpack watches.
Check == (Ready("check", "watch") \/ Ready("check", "over")) /\ Unmoved

\* It throws, for a file that cannot be read or compiled or a snowpack that
\* cannot be started: nobody awaits ready(), and the rejection ends Deno.
CheckFails ==
  /\ deno = "running" /\ polling = "check"
  /\ deno' = "crashed" /\ polling' = "over"
  /\ Unmoved /\ UNCHANGED <<command, cargo, tools>>

\* Snowpack ends by itself.
EndWatch == Ready("watch", "over") /\ Unmoved

-----------------------------------------------------------------------------
(* The children, and the terminal.                                         *)

\* cargo has built the daemon and starts it, or the build fails.
Build ==
  /\ cargo = "build"
  /\ \/ cargo' = "run" /\ StartDaemon
     \/ cargo' = "ended" /\ Unmoved
  /\ UNCHANGED <<command, polling, tools, deno>>

\* cargo run ends with the daemon.
EndCargo ==
  /\ cargo = "run" /\ server \in {"stopped", "died"}
  /\ cargo' = "ended"
  /\ Unmoved /\ UNCHANGED <<command, polling, tools, deno>>

CloseTool ==
  /\ \E t \in Devtools : tools[t] = "runs" /\ tools' = [tools EXCEPT ![t] = "ended"]
  /\ Unmoved /\ UNCHANGED <<command, polling, cargo, deno>>

\* Mutant of CtrlC: the signal reaches the command line only.
CtrlCDenoOnly ==
  /\ deno = "running"
  /\ deno' = "gone" /\ Unmoved
  /\ polling' = IF polling = "off" THEN "off" ELSE "over"
  /\ UNCHANGED <<command, cargo, tools>>

\* Ctrl-C: Deno, snowpack, devtools and a build end; the daemon decides itself.
CtrlC ==
  /\ deno = "running"
  /\ deno' = "gone"
  /\ tools' = [t \in Devtools |-> IF tools[t] = "runs" THEN "ended" ELSE tools[t]]
  /\ polling' = IF polling = "off" THEN "off" ELSE "over"
  /\ cargo' = IF cargo = "build" THEN "ended" ELSE cargo
  /\ IF server \in Starting \cup Running
     THEN Interrupted ELSE Unmoved
  /\ UNCHANGED command

\* What the daemon, its clients and other programs do.
DaemonGoes ==
  /\ \/ DaemonSteps \/ Accept \/ Hangup \/ Die \/ Interrupted \/ Other
     \/ \E c \in Clients \ {Poll} : BeginOther(c) \/ EndOther(c)
     \/ deno # "running" /\ EndOther(Poll)
  /\ UNCHANGED localVars

LocalNext ==
  \/ Bundle \/ Start \/ StartFails \/ Race \/ Exit
  \/ Delay \/ Fetch \/ Answered \/ Broken \/ Check \/ CheckFails \/ EndWatch
  \/ Build \/ EndCargo \/ CloseTool \/ CtrlC
  \/ DaemonGoes

\* Processes go on, and end when they have nothing left; Redis and the disk
\* answer, and clients take their answers.  Nothing forces a client to send a
\* request, a user to press Ctrl-C, or snowpack or devtools to end.
LocalFairness ==
  /\ WF_all(DaemonSteps /\ UNCHANGED localVars)
  /\ \A c \in Clients \ {Poll} : WF_all(EndOther(c) /\ UNCHANGED localVars)
  /\ WF_all(deno # "running" /\ EndOther(Poll) /\ UNCHANGED localVars)
  /\ WF_all(Delay) /\ WF_all(Fetch) /\ WF_all(Answered)
  /\ WF_all(Broken) /\ WF_all(EndCargo)

LocalSpec == LocalInit /\ [][LocalNext]_all /\ LocalFairness

-----------------------------------------------------------------------------
(* Properties.                                                             *)

\* If the daemon comes to serve and goes on, the polling ends.  (Only then: if
\* it does not start, and no other program takes the port, ready() polls for
\* ever and keeps the command's process alive after its "Done".)
PollingEnds ==
  <>[](server = "serving" /\ deno = "running")
    => <>[](polling \notin {"delay", "fetch", "wait"})

\* The command's children: cargo and with it the daemon, snowpack, devtools.
ChildrenRun ==
  \/ cargo \in {"build", "run"} \/ polling = "watch"
  \/ \E t \in Devtools : tools[t] = "runs"

\* Once the command's process is gone, by Ctrl-C at whatever moment or because
\* it had nothing left to do, no child of it stays: a daemon that Ctrl-C found
\* serving answers what it has accepted, and ends too.  (A command that crashed
\* is no such case: its children go on, out of the reach of Ctrl-C.)
NothingStays == deno = "gone" ~> ~ChildrenRun
=============================================================================
