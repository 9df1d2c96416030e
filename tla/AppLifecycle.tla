----------------------------- MODULE AppLifecycle -----------------------------
(***************************************************************************)
(* The processes of Clipport on the user's Mac: the menu app (clipport),   *)
(* the daemon it starts and stops as its child (clipportd), and the        *)
(* commands of clipctl that start, stop, restart and onboard the app       *)
(* through launchd.                                                        *)
(*                                                                         *)
(* What they share: the lock file that lets one menu app run, the Unix     *)
(* socket and the HTTP port a daemon listens on, and the configuration a   *)
(* daemon loads once, when it starts.                                      *)
(*                                                                         *)
(* A slot of Apps or Daemons is a process that may run; the slot of one    *)
(* that is gone (and reaped) is used again.  launchd is external: it runs  *)
(* one app as its job, and kills the children of its job with it if        *)
(* GroupKill.  An app that the user opens is not a job of launchd's.       *)
(* Events of the user and failures nobody asked for are bounded.           *)
(***************************************************************************)
EXTENDS Naturals, FiniteSets

CONSTANTS
  Apps, Daemons,  \* processes that may exist at once
  None,           \* no process; no socket file
  Stale,          \* a socket file nobody listens on
  Hosts,          \* the hosts of each saved configuration; Hosts[0] is empty
  GroupKill,      \* launchd kills the process group of a job that ends
  MaxCommands,    \* bound on clipctl commands
  MaxEvents       \* bound on events of the user and failures

Configs == 0..MaxCommands + 1

ASSUME ProcessesAssumption ==
  /\ None \notin Apps \cup Daemons /\ Stale \notin Daemons \cup {None}
  /\ GroupKill \in BOOLEAN
ASSUME BoundsAssumption == MaxCommands \in Nat /\ MaxEvents \in Nat
ASSUME HostsAssumption == DOMAIN Hosts = Configs /\ Hosts[0] = {}

VARIABLES
  app,      \* menu apps: stage, DaemonProcess.cmd, what Stop waits for
  daemon,   \* daemons: stage, parent, HTTP listener, configuration, signal
  sock,     \* who bound the socket file
  config,   \* the saved configuration
  loaded,   \* launchd knows the job
  job,      \* the app that launchd runs as its job
  cli,      \* the clipctl command: name and stage
  doomed,   \* apps clipctl has sent SIGTERM
  commands, events,  \* how many there were
  calm      \* ghost: nothing but the command has happened since it began,
            \* and all was settled then

vars == <<app, daemon, sock, config, loaded, job, cli, doomed, commands, events, calm>>
processes == <<app, daemon, sock, job, doomed>>
world == <<config, loaded, cli, commands, events, calm>>

NoApp == [stage |-> "none", cmd |-> None, wait |-> None, leave |-> "no", last |-> None]
App == [stage : {"none", "lock", "ready", "idle", "stop", "start", "ended"},
        cmd : Daemons \cup {None}, wait : Daemons \cup {None},
        leave : {"no", "asked", "stop"}, last : Daemons \cup {None}]
NoDaemon == [stage |-> "none", parent |-> None, http |-> "no", loaded |-> 0, signal |-> "no"]
Daemon == [stage : {"none", "load", "dial", "remove", "bind", "listen", "zombie"},
           parent : Apps \cup {None}, http : {"no", "bound"},
           loaded : Configs, signal : {"no", "sent"}]
Commands == {"start", "stop", "restart", "onboard"}
Cli == [op : Commands,
        stage : {"idle", "bootout", "list", "wait", "socket", "port", "bootstrap",
                 "kick", "spawn", "status", "health", "done"}]

TypeOK ==
  /\ app \in [Apps -> App] /\ daemon \in [Daemons -> Daemon]
  /\ \A d \in Daemons :
       daemon[d].http = "bound" => daemon[d].stage \in {"dial", "remove", "bind", "listen"}
  /\ sock \in Daemons \cup {None, Stale}
  /\ config \in Configs /\ loaded \in BOOLEAN /\ job \in Apps \cup {None}
  /\ cli \in Cli /\ doomed \subseteq Apps
  /\ commands \in 0..MaxCommands /\ events \in 0..MaxEvents /\ calm \in BOOLEAN

-----------------------------------------------------------------------------
(* Processes                                                               *)

Runs(a) == app[a].stage # "none"
Alive(d) == daemon[d].stage \notin {"none", "zombie"}
Children(a) == {d \in Daemons : Alive(d) /\ daemon[d].parent = a}
Listens(d) == d \in Daemons /\ daemon[d].stage = "listen"
PortBound == \E d \in Daemons : daemon[d].http = "bound"

\* A slot that may be taken by a new process.
FreeDaemon(d) == daemon[d].stage = "none" /\ \A a \in Apps : d \notin {app[a].wait, app[a].last}

\* The apps as and the daemons ds end.  A child that ends is a zombie until its
\* parent waits for it; a child whose parent ends is launchd's.
Ended(as, ds) ==
  [d \in Daemons |->
     IF d \in ds
     THEN IF daemon[d].parent \in Apps \ as
          THEN [NoDaemon EXCEPT !.stage = "zombie", !.parent = daemon[d].parent] ELSE NoDaemon
     ELSE IF daemon[d].parent \in as
          THEN IF Alive(d) THEN [daemon[d] EXCEPT !.parent = None] ELSE NoDaemon
          ELSE daemon[d]]
Group(as) == IF GroupKill /\ job \in as THEN Children(job) ELSE {}
End(as, ds) ==
  LET all == ds \cup Group(as) IN
  /\ app' = [a \in Apps |-> IF a \in as THEN NoApp ELSE app[a]]
  /\ daemon' = Ended(as, all)
  /\ sock' = IF sock \in all THEN Stale ELSE sock
  /\ job' = IF job \in as THEN None ELSE job
  /\ doomed' = doomed \ as

\* Something the command did not ask for.
Event ==
  /\ events < MaxEvents /\ events' = events + 1
  /\ calm' = FALSE
  /\ UNCHANGED <<config, loaded, cli, commands>>

Signalled(d) ==
  IF d \in Daemons /\ Alive(d) THEN [daemon EXCEPT ![d].signal = "sent"] ELSE daemon

-----------------------------------------------------------------------------
(* The menu app: DaemonProcess and the menu's loop                         *)

\* acquireAppLock: an app that finds the lock taken exits.
Lock(a) ==
  /\ app[a].stage = "lock"
  /\ IF \E b \in Apps : app[b].stage \notin {"none", "lock"}
     THEN End({a}, {})
     ELSE app' = [app EXCEPT ![a].stage = "ready"] /\ UNCHANGED <<daemon, sock, job, doomed>>
  /\ UNCHANGED world

\* DaemonProcess.Start, from onReady or Restart.  A child that has been waited
\* for counts as none, whether or not p.cmd was cleared yet.
Starting(a) == app[a].stage \in {"ready", "start"}
NoChild(a) == app[a].cmd \in Daemons => daemon[app[a].cmd].stage = "zombie"

\* Mutant: Start does not look at the process it has.
StartRegardless(a) ==
  /\ Starting(a)
  /\ \E d \in Daemons :
       /\ FreeDaemon(d)
       /\ app' = [app EXCEPT ![a].stage = "idle", ![a].cmd = d]
       /\ daemon' = [daemon EXCEPT ![d] = [NoDaemon EXCEPT !.stage = "load", !.parent = a]]
  /\ UNCHANGED <<sock, job, doomed>> /\ UNCHANGED world

StartDaemon(a) ==
  /\ Starting(a) /\ NoChild(a)
  /\ \E d \in Daemons :
       /\ FreeDaemon(d)
       /\ app' = [app EXCEPT ![a].stage = "idle", ![a].cmd = d]
       /\ daemon' = [e \in Daemons |->
            IF e = d THEN [NoDaemon EXCEPT !.stage = "load", !.parent = a]
            ELSE IF e = app[a].cmd THEN NoDaemon ELSE daemon[e]]
  /\ UNCHANGED <<sock, job, doomed>> /\ UNCHANGED world

\* A child that is still there, or not waited for yet: Start has nothing to do.
StartNothing(a) ==
  /\ Starting(a) /\ app[a].cmd # None
  /\ app' = [app EXCEPT ![a].stage = "idle"]
  /\ UNCHANGED <<daemon, sock, job, doomed>> /\ UNCHANGED world

\* The log files or the program cannot be opened.
StartFails(a) ==
  /\ Starting(a) /\ NoChild(a)
  /\ app' = [app EXCEPT ![a].stage = "idle"]
  /\ UNCHANGED <<daemon, sock, job, doomed>> /\ Event

\* cmd.Wait returns in its goroutine, which clears p.cmd.
Reap(a) ==
  /\ Runs(a) /\ app[a].cmd # None /\ daemon[app[a].cmd].stage = "zombie"
  /\ app' = [app EXCEPT ![a].cmd = None]
  /\ daemon' = [daemon EXCEPT ![app[a].cmd] = NoDaemon]
  /\ UNCHANGED <<sock, job, doomed>> /\ UNCHANGED world

\* The menu's Restart: DaemonProcess.Stop sends SIGTERM, if there is a child, ...
ClickRestart(a) ==
  /\ app[a].stage = "idle"
  /\ app' = [app EXCEPT ![a].stage = IF app[a].cmd = None THEN "start" ELSE "stop",
                        ![a].wait = app[a].cmd]
  /\ daemon' = Signalled(app[a].cmd)
  /\ UNCHANGED <<sock, job, doomed>> /\ Event

\* ... and waits until p.cmd is cleared, ...
StopEnds(a) ==
  /\ app[a].stage = "stop" /\ app[a].cmd # app[a].wait
  /\ app' = [app EXCEPT ![a].stage = "start", ![a].wait = None]
  /\ UNCHANGED <<daemon, sock, job, doomed>> /\ UNCHANGED world

\* ... or kills after two seconds; killing a child that has been waited for is
\* an error, which ends the restart.
StopTimesOut(a) ==
  /\ app[a].stage = "stop" /\ app[a].cmd = app[a].wait
  /\ \E next \in {"start"} \cup (IF Alive(app[a].wait) THEN {} ELSE {"idle"}) :
       app' = [app EXCEPT ![a].stage = next, ![a].wait = None]
  /\ daemon' = Signalled(app[a].wait)
  /\ UNCHANGED <<sock, job, doomed>> /\ UNCHANGED world

\* The menu's Quit ends the loop; macOS may end the app at any time besides.
ClickQuit(a) ==
  /\ app[a].stage = "idle" /\ app[a].leave = "no"
  /\ app' = [app EXCEPT ![a].stage = "ended", ![a].leave = "asked"]
  /\ UNCHANGED <<daemon, sock, job, doomed>> /\ Event
Terminate(a) ==
  /\ app[a].stage \in {"ready", "idle", "stop", "start"} /\ app[a].leave = "no"
  /\ app' = [app EXCEPT ![a].leave = "asked"]
  /\ UNCHANGED <<daemon, sock, job, doomed>> /\ Event

\* Mutant: the app exits without stopping the daemon.
LeaveAtOnce(a) == app[a].leave = "asked" /\ End({a}, {}) /\ UNCHANGED world

\* onExit: DaemonProcess.Stop, whatever the loop does meanwhile.
Leave(a) ==
  /\ app[a].leave = "asked"
  /\ IF app[a].cmd = None THEN End({a}, {})
     ELSE /\ app' = [app EXCEPT ![a].leave = "stop", ![a].last = app[a].cmd]
          /\ daemon' = Signalled(app[a].cmd)
          /\ UNCHANGED <<sock, job, doomed>>
  /\ UNCHANGED world

LeaveEnds(a) ==
  /\ app[a].leave = "stop" /\ app[a].cmd # app[a].last
  /\ End({a}, {}) /\ UNCHANGED world
\* The kill is on its way when the app exits; its children are launchd's then.
LeaveTimesOut(a) ==
  /\ app[a].leave = "stop" /\ app[a].cmd = app[a].last
  /\ End({a}, {}) /\ UNCHANGED world

OpenApp(a) ==
  /\ app[a].stage = "none"
  /\ app' = [app EXCEPT ![a].stage = "lock"]
  /\ UNCHANGED <<daemon, sock, job, doomed>> /\ Event
AppCrashes(a) == Runs(a) /\ End({a}, {}) /\ Event
\* SIGTERM of clipctl, or its SIGKILL two seconds later.
AppDies(a) == a \in doomed /\ End({a}, {}) /\ UNCHANGED world

-----------------------------------------------------------------------------
(* The daemon: main, Listen, ListenHTTP, exitWhenParentDies                *)

Enter(d, stage) ==
  /\ daemon' = [daemon EXCEPT ![d].stage = stage]
  /\ UNCHANGED <<app, job, doomed>>

\* The configuration is loaded, and refused without hosts.
Load(d) ==
  /\ daemon[d].stage = "load"
  /\ IF Hosts[config] = {} THEN End({}, {d})
     ELSE /\ daemon' = [daemon EXCEPT ![d].stage = "dial", ![d].loaded = config]
          /\ UNCHANGED <<app, sock, job, doomed>>
  /\ UNCHANGED world

\* Mutant: the goroutine starts before the configuration is loaded.
BindPortEarly(d) ==
  /\ Alive(d) /\ daemon[d].http = "no"
  /\ IF PortBound THEN End({}, {d})
     ELSE daemon' = [daemon EXCEPT ![d].http = "bound"] /\ UNCHANGED <<app, sock, job, doomed>>
  /\ UNCHANGED world

\* ListenHTTP in its goroutine: a port in use ends the daemon.
BindPort(d) ==
  /\ Alive(d) /\ daemon[d].stage # "load" /\ daemon[d].http = "no"
  /\ IF PortBound THEN End({}, {d})
     ELSE daemon' = [daemon EXCEPT ![d].http = "bound"] /\ UNCHANGED <<app, sock, job, doomed>>
  /\ UNCHANGED world

\* Mutant: a socket file nobody listens on is left in place.
DialKeepsStale(d) ==
  /\ daemon[d].stage = "dial"
  /\ IF Listens(sock) THEN End({}, {d}) ELSE Enter(d, "bind") /\ UNCHANGED sock
  /\ UNCHANGED world

\* prepareUnixSocket: a socket that answers ends the daemon, ...
Dial(d) ==
  /\ daemon[d].stage = "dial"
  /\ IF Listens(sock) THEN End({}, {d})
     ELSE Enter(d, IF sock = None THEN "bind" ELSE "remove") /\ UNCHANGED sock
  /\ UNCHANGED world
\* ... any other socket file is removed, whoever has bound it since.
Remove(d) ==
  /\ daemon[d].stage = "remove"
  /\ sock' = None /\ Enter(d, "bind")
  /\ UNCHANGED world
Bind(d) ==
  /\ daemon[d].stage = "bind"
  /\ IF sock # None THEN End({}, {d}) ELSE sock' = d /\ Enter(d, "listen")
  /\ UNCHANGED world

\* Mutant: the parent is looked at once, when the daemon starts.
ParentWatchOnce(d) ==
  /\ Alive(d) /\ daemon[d].stage \notin {"load", "listen"} /\ daemon[d].parent = None
  /\ End({}, {d}) /\ UNCHANGED world
\* exitWhenParentDies.
ParentWatch(d) ==
  /\ Alive(d) /\ daemon[d].stage # "load" /\ daemon[d].parent = None
  /\ End({}, {d}) /\ UNCHANGED world
DaemonDies(d) == Alive(d) /\ daemon[d].signal = "sent" /\ End({}, {d}) /\ UNCHANGED world
DaemonCrashes(d) == Alive(d) /\ End({}, {d}) /\ Event

-----------------------------------------------------------------------------
(* clipctl start, stop, restart, onboard                                   *)

Goto(stage) ==
  /\ cli' = [cli EXCEPT !.stage = stage]
  /\ UNCHANGED <<config, commands, events, calm>>

\* All is settled: the app, if one runs, has a daemon that serves.
Settled ==
  /\ \A a \in Apps : Runs(a) => app[a].stage = "idle" /\ app[a].leave = "no" /\ app[a].cmd # None
  /\ \A d \in Daemons : daemon[d].stage # "none" =>
       /\ daemon[d].stage = "listen" /\ daemon[d].http = "bound" /\ sock = d
       /\ daemon[d].parent # None /\ daemon[d].signal = "no"

\* A command begins; onboarding has saved a configuration by then.
Begin(op) ==
  /\ cli.stage \in {"idle", "done"} /\ commands < MaxCommands
  /\ commands' = commands + 1
  /\ cli' = [op |-> op, stage |-> IF op = "start" THEN "bootstrap" ELSE "bootout"]
  /\ config' = IF op = "onboard" THEN config + 1 ELSE config
  /\ calm' = (Settled /\ doomed = {})
  /\ UNCHANGED <<loaded, events>> /\ UNCHANGED processes

\* launchctl bootout: the job is ended and forgotten, if launchd knows it.
Bootout ==
  /\ cli.stage = "bootout"
  /\ loaded' = FALSE
  /\ End({job} \cap Apps, {})
  /\ Goto("list")

\* processCleaner.clean: SIGTERM to every app that is listed, ...
List ==
  /\ cli.stage = "list"
  /\ doomed' = doomed \cup {a \in Apps : Runs(a)}
  /\ UNCHANGED <<app, daemon, sock, job, loaded>>
  /\ Goto("wait")

\* Mutant: onboarding starts the app without waiting for the listeners.
CleanedNoWait ==
  /\ cli.stage = "wait"
  /\ UNCHANGED loaded /\ UNCHANGED processes
  /\ Goto(IF cli.op = "stop" THEN "done" ELSE "bootstrap")

\* ... and SIGKILL to those that run after two seconds, without waiting again.
Cleaned ==
  /\ cli.stage = "wait"
  /\ UNCHANGED loaded /\ UNCHANGED processes
  /\ Goto(CASE cli.op = "stop" -> "done" [] cli.op = "restart" -> "bootstrap" [] OTHER -> "socket")

\* probeDaemonStopped, tried again until nobody listens on either.
SocketGone ==
  /\ cli.stage = "socket" /\ ~Listens(sock)
  /\ UNCHANGED loaded /\ UNCHANGED processes
  /\ Goto("port")
PortGone ==
  /\ cli.stage = "port"
  /\ UNCHANGED loaded /\ UNCHANGED processes
  /\ Goto(IF PortBound THEN "socket" ELSE "bootstrap")

\* A new app as launchd's job.
Spawn ==
  \E a \in Apps :
    /\ app[a].stage = "none"
    /\ app' = [app EXCEPT ![a].stage = "lock"]
    /\ job' = a
    /\ UNCHANGED <<daemon, sock, doomed>>

\* launchctl bootstrap loads the job, which runs at once (RunAtLoad).  A job
\* that is loaded is no error of launchApp, but one of relaunchApp.
Bootstrap ==
  /\ cli.stage = "bootstrap"
  /\ loaded' = TRUE
  /\ IF loaded THEN /\ UNCHANGED processes
                    /\ Goto(IF cli.op = "restart" THEN "idle" ELSE "kick")
     ELSE Spawn /\ Goto("kick")

\* launchctl kickstart -k ends the job's app and runs it again.
Kick ==
  /\ cli.stage = "kick"
  /\ End({job} \cap Apps, {})
  /\ UNCHANGED loaded /\ Goto("spawn")
Kickstart ==
  /\ cli.stage = "spawn"
  /\ Spawn
  /\ UNCHANGED loaded /\ Goto(IF cli.op = "onboard" THEN "status" ELSE "done")

\* probeAppReady, tried again until it succeeds: a daemon with the saved hosts
\* answers on the socket, then one on the port.
ProbeStatus ==
  /\ cli.stage = "status"
  /\ Listens(sock) /\ Hosts[daemon[sock].loaded] = Hosts[config]
  /\ UNCHANGED loaded /\ UNCHANGED processes
  /\ Goto("health")
ProbeHealth ==
  /\ cli.stage = "health"
  /\ UNCHANGED loaded /\ UNCHANGED processes
  /\ Goto(IF PortBound THEN "done" ELSE "status")

\* launchctl, pgrep or the deadline fails; the configuration stays saved.
CommandFails ==
  /\ cli.stage \notin {"idle", "done"}
  /\ UNCHANGED loaded /\ UNCHANGED processes
  /\ Goto("idle")

-----------------------------------------------------------------------------
Init ==
  /\ app = [a \in Apps |-> NoApp] /\ daemon = [d \in Daemons |-> NoDaemon]
  /\ sock \in {None, Stale}
  /\ config \in {0, 1} /\ loaded = FALSE /\ job = None
  /\ cli = [op |-> "stop", stage |-> "idle"] /\ doomed = {}
  /\ commands = 0 /\ events = 0 /\ calm = FALSE

AppStep(a) ==
  \/ Lock(a) \/ StartDaemon(a) \/ StartNothing(a) \/ Reap(a)
  \/ StopEnds(a) \/ Leave(a) \/ LeaveEnds(a) \/ AppDies(a)
AppTimeout(a) == StopTimesOut(a) \/ LeaveTimesOut(a)
AppEvent(a) ==
  \/ StartFails(a) \/ ClickRestart(a) \/ ClickQuit(a) \/ Terminate(a)
  \/ OpenApp(a) \/ AppCrashes(a)
DaemonStep(d) ==
  \/ Load(d) \/ BindPort(d) \/ Dial(d) \/ Remove(d) \/ Bind(d)
  \/ ParentWatch(d) \/ DaemonDies(d)
CliStep ==
  \/ Bootout \/ List \/ Cleaned \/ SocketGone \/ PortGone
  \/ Bootstrap \/ Kick \/ Kickstart \/ ProbeStatus \/ ProbeHealth

Next ==
  \/ \E a \in Apps : AppStep(a) \/ AppTimeout(a) \/ AppEvent(a)
  \/ \E d \in Daemons : DaemonStep(d) \/ DaemonCrashes(d)
  \/ CliStep \/ CommandFails \/ \E op \in Commands : Begin(op)

Spec == Init /\ [][Next]_vars

\* Every process is scheduled.  Users, timeouts, failures and new commands are
\* not asked for.
FairSpec ==
  /\ Spec
  /\ \A a \in Apps : WF_vars(AppStep(a))
  /\ \A d \in Daemons : WF_vars(Load(d)) /\ WF_vars(BindPort(d)) /\ WF_vars(ParentWatch(d))
                        /\ WF_vars(DaemonDies(d)) /\ WF_vars(Dial(d) \/ Remove(d) \/ Bind(d))
  /\ WF_vars(CliStep)

-----------------------------------------------------------------------------
(* Properties                                                              *)

\* An app has at most one daemon, the one it remembers, so the daemon it stops
\* is the one that runs (internal/menu/process.go:33-35 and 64-66).
OneChild == \A a \in Apps : Children(a) \subseteq {app[a].cmd}

\* When Quit ends the app, its daemon is gone or has been sent a signal
\* (ARCHITECTURE.md:134, "stops the daemon before exiting").
Quits(a) == app[a].stage = "ended" /\ (Leave(a) \/ LeaveEnds(a) \/ LeaveTimesOut(a))
QuitStopsDaemon ==
  [][\A a \in Apps : Quits(a) /\ app'[a].stage = "none" =>
       \A d \in Children(a) : daemon[d].signal = "sent"]_vars

\* A daemon whose app is gone, however it went, ends (README.md:201, "clipportd
\* exits when the menu bar app exits").
Orphan(d) == Alive(d) /\ daemon[d].parent = None
DaemonsEndWithApp == \A d \in Daemons : Orphan(d) ~> ~Orphan(d)

\* The daemon that answers on the socket also has the port and is the child of
\* the app that runs.
Serving ==
  /\ Listens(sock) /\ daemon[sock].http = "bound"
  /\ daemon[sock].parent \in Apps /\ app[daemon[sock].parent].cmd = sock

\* When onboarding reports success, and nobody interfered, the daemon that
\* serves is that of the app it started and has loaded what onboarding saved:
\* "rather than accepting the old daemon's health or racing its HTTP bind"
\* (cmd/clipctl/app.go:176-178).
ReadyMeansServing ==
  cli.op = "onboard" /\ cli.stage = "done" /\ calm =>
    Serving /\ daemon[sock].loaded = config

\* After "clipctl start" or "clipctl restart" succeeded and nobody interfered, a
\* daemon comes to serve.
Succeeded(op) == cli.op = op /\ cli.stage = "done" /\ calm /\ Hosts[config] # {}
StartServes == Succeeded("start") ~> Serving \/ ~Succeeded("start")

\* README.md:211, "Start, stop, or restart the menu bar app and daemon".
\* Refuted: the new daemon meets the old one, whose app was just killed and which
\* notices only by polling, gives up, and is not started again.
RestartServes == Succeeded("restart") ~> Serving \/ ~Succeeded("restart")

-----------------------------------------------------------------------------
(* The inductive invariant behind OneChild and QuitStopsDaemon (proved in    *)
(* AppLifecycleProofs)                                                     *)

\* Each onboarding saved one configuration.
ConfigsCounted == config <= commands + 1

\* The child an app waits for when it leaves is the one it remembers, or gone;
\* as long as it is remembered and runs, it has been sent a signal.
LeavingInv ==
  \A a \in Apps :
    /\ app[a].stage = "ended" => app[a].leave \in {"asked", "stop"}
    /\ app[a].stage = "ended" /\ app[a].leave = "stop" => app[a].cmd \in {app[a].last, None}
    /\ app[a].leave = "stop" /\ app[a].cmd = app[a].last =>
         \A d \in Daemons : d = app[a].cmd /\ Alive(d) => daemon[d].signal = "sent"

LifecycleInv == TypeOK /\ ConfigsCounted /\ OneChild /\ LeavingInv

-----------------------------------------------------------------------------
(* The inductive invariant behind ReadyMeansServing (proved in               *)
(* AppLifecycleProofs)                                                     *)

\* The daemon an app remembers is there, and is its child; nothing is left of
\* an app that is gone.
Remembered ==
  /\ \A a \in Apps : app[a].cmd # None =>
       daemon[app[a].cmd].stage # "none" /\ daemon[app[a].cmd].parent = a
  /\ \A a \in Apps : Runs(a) \/ app[a] = NoApp
  /\ \A a \in doomed : Runs(a)

\* Before the cleaning is over, what there is of apps and daemons is left of
\* those that served before: when nobody listens, nobody is left.
Before ==
  /\ \A a \in Apps : Runs(a) =>
       app[a].stage = "idle" /\ app[a].leave = "no" /\ app[a].cmd # None
  /\ \A d \in Daemons : daemon[d].stage # "none" =>
       /\ daemon[d].stage = "listen" /\ daemon[d].http = "bound" /\ sock = d
       /\ daemon[d].signal = "no"
Nobody == (\A a \in Apps : ~Runs(a)) /\ \A d \in Daemons : daemon[d].stage = "none"
\* Afterwards the job's app is the only one, and has the only daemons.
After ==
  /\ doomed = {}
  /\ \A a \in Apps : Runs(a) =>
       a = job /\ app[a].stage \in {"lock", "ready", "idle"} /\ app[a].leave = "no"
  /\ \A d \in Daemons : daemon[d].stage # "none" =>
       /\ daemon[d].parent = job /\ job \in Apps /\ daemon[d].signal = "no"
       /\ daemon[d].stage \notin {"load", "zombie"} => daemon[d].loaded = config

\* What an onboarding that nobody disturbs finds at each of its steps.
OnboardPhase ==
  /\ cli.stage \in {"bootout", "list", "wait", "socket"} => Before
  /\ cli.stage \in {"port", "bootstrap", "spawn"} => Nobody
  /\ cli.stage \in {"list", "wait", "socket", "port", "bootstrap"} => ~loaded
  /\ cli.stage \in {"kick", "status", "health", "done"} => After
  /\ cli.stage \in {"health", "done"} => Listens(sock)
  /\ cli.stage = "done" => daemon[sock].http = "bound"

OnboardInv == Remembered /\ (calm /\ cli.op = "onboard" => OnboardPhase)

=============================================================================
