-------------------------- MODULE AppLifecycleProofs --------------------------
(***************************************************************************)
(* An app has one daemon and Quit stops it, for any number of apps,        *)
(* daemons, commands and events.  The argument: p.cmd is the only child an *)
(* app can have, since Start looks at it and only Wait clears it; and the  *)
(* child an app signals on its way out stays the one it remembers, since a *)
(* process id is not used again while somebody waits for it.               *)
(*                                                                         *)
(* An onboarding that succeeds undisturbed leaves the app and daemon it    *)
(* started serving.  The argument: while it cleans, whatever there is is   *)
(* left of the daemon that served before (Before), so that when nobody     *)
(* listens, nobody is left (Nobody); from then on every app and daemon is  *)
(* the job's and has loaded what was saved (After).                        *)
(***************************************************************************)
EXTENDS AppLifecycle, TLAPS

ProcessesTyped ==
  /\ app \in [Apps -> App] /\ daemon \in [Daemons -> Daemon]
  /\ \A d \in Daemons :
       daemon[d].http = "bound" => daemon[d].stage \in {"dial", "remove", "bind", "listen"}
  /\ sock \in Daemons \cup {None, Stale} /\ job \in Apps \cup {None}
  /\ doomed \subseteq Apps

WorldTyped ==
  /\ config \in Configs /\ loaded \in BOOLEAN /\ cli \in Cli
  /\ commands \in 0..MaxCommands /\ events \in 0..MaxEvents /\ calm \in BOOLEAN
  /\ ConfigsCounted

ProcessesInv == ProcessesTyped /\ OneChild /\ LeavingInv

\* The invariant speaks of the processes and of the rest separately.
LEMMA InvInTwo == LifecycleInv <=> ProcessesInv /\ WorldTyped
BY DEF LifecycleInv, TypeOK, ProcessesInv, ProcessesTyped, WorldTyped

LEMMA InvInTwoNext == LifecycleInv' <=> ProcessesInv' /\ WorldTyped'
BY DEF LifecycleInv, TypeOK, ProcessesInv, ProcessesTyped, WorldTyped

\* The records of nobody.
LEMMA NobodyTyped ==
  /\ NoApp \in App /\ NoApp.leave = "no" /\ NoApp.stage = "none" /\ NoApp.cmd = None
  /\ NoDaemon \in Daemon /\ NoDaemon.stage = "none" /\ NoDaemon.parent = None
  /\ NoDaemon.http = "no"
  /\ \A a \in Apps : LET z == [NoDaemon EXCEPT !.stage = "zombie", !.parent = a]
                     IN z \in Daemon /\ z.stage = "zombie" /\ z.http = "no"
<1>1. NoApp \in App /\ NoApp.leave = "no" /\ NoApp.stage = "none" /\ NoApp.cmd = None
  BY DEF NoApp, App
<1>2. 0 \in Configs
  BY BoundsAssumption DEF Configs
<1>3. /\ NoDaemon \in Daemon /\ NoDaemon.stage = "none" /\ NoDaemon.parent = None
      /\ NoDaemon.http = "no"
  BY <1>2 DEF NoDaemon, Daemon
<1>4. ASSUME NEW a \in Apps, NEW z, z = [NoDaemon EXCEPT !.stage = "zombie", !.parent = a]
      PROVE  z \in Daemon /\ z.stage = "zombie" /\ z.http = "no"
  <2>1. z = [stage |-> "zombie", parent |-> a, http |-> "no", loaded |-> 0, signal |-> "no"]
    BY <1>4 DEF NoDaemon
  <2> QED BY <2>1, <1>2 DEF Daemon
<1> QED BY <1>1, <1>3, <1>4

-----------------------------------------------------------------------------
(* How the processes change                                                *)

\* Processes end (Ended, End).
LEMMA EndKeeps ==
  ASSUME ProcessesInv, NEW as \in SUBSET Apps, NEW ds \in SUBSET Daemons, End(as, ds)
  PROVE  ProcessesInv'
<1> DEFINE all == ds \cup Group(as)
<1>1. /\ all \subseteq Daemons
      /\ app' = [a \in Apps |-> IF a \in as THEN NoApp ELSE app[a]]
      /\ daemon' = Ended(as, all)
      /\ sock' = (IF sock \in all THEN Stale ELSE sock)
      /\ job' = (IF job \in as THEN None ELSE job)
      /\ doomed' = doomed \ as
  BY DEF End, Group, Children
<1> HIDE DEF all
<1>2. \A d \in Daemons :
        /\ daemon'[d] \in Daemon
        /\ daemon'[d].http = "bound" => daemon'[d].stage \in {"dial", "remove", "bind", "listen"}
        /\ Alive(d)' => /\ Alive(d)
                        /\ daemon'[d].signal = daemon[d].signal
                        /\ daemon'[d].parent \in Apps =>
                             daemon'[d].parent = daemon[d].parent /\ daemon[d].parent \notin as
  <2> SUFFICES ASSUME NEW d \in Daemons
               PROVE  /\ daemon'[d] \in Daemon
                      /\ daemon'[d].http = "bound" =>
                           daemon'[d].stage \in {"dial", "remove", "bind", "listen"}
                      /\ Alive(d)' => /\ Alive(d)
                                      /\ daemon'[d].signal = daemon[d].signal
                                      /\ daemon'[d].parent \in Apps =>
                                           daemon'[d].parent = daemon[d].parent
                                             /\ daemon[d].parent \notin as
    OBVIOUS
  <2>1. daemon[d] \in Daemon
    BY DEF ProcessesInv, ProcessesTyped
  <2>2. CASE daemon'[d] = NoDaemon
    BY <2>2, NobodyTyped DEF Alive
  <2>3. CASE d \in all /\ daemon[d].parent \in Apps \ as
    <3>1. daemon'[d] = [NoDaemon EXCEPT !.stage = "zombie", !.parent = daemon[d].parent]
      BY <1>1, <2>3 DEF Ended
    <3> QED BY <3>1, <2>3, NobodyTyped DEF Alive
  <2>4. CASE d \notin all /\ daemon[d].parent \in as /\ Alive(d)
    <3>1. daemon'[d] = [daemon[d] EXCEPT !.parent = None]
      BY <1>1, <2>4 DEF Ended
    <3>2. /\ daemon'[d] \in Daemon /\ daemon'[d].parent = None
          /\ daemon'[d].stage = daemon[d].stage /\ daemon'[d].http = daemon[d].http
          /\ daemon'[d].signal = daemon[d].signal
      BY <3>1, <2>1 DEF Daemon
    <3> QED BY <3>2, <2>4, ProcessesAssumption DEF Alive, ProcessesInv, ProcessesTyped
  <2>5. CASE d \notin all /\ daemon[d].parent \notin as
    <3>1. daemon'[d] = daemon[d]
      BY <1>1, <2>5 DEF Ended
    <3> QED BY <3>1, <2>5, <2>1 DEF Alive, ProcessesInv, ProcessesTyped
  <2>6. daemon'[d] = NoDaemon \/ (d \in all /\ daemon[d].parent \in Apps \ as)
        \/ (d \notin all /\ daemon[d].parent \in as /\ Alive(d))
        \/ (d \notin all /\ daemon[d].parent \notin as)
    BY <1>1 DEF Ended
  <2> QED BY <2>2, <2>3, <2>4, <2>5, <2>6
<1>3. \A a \in Apps : (a \in as /\ app'[a] = NoApp) \/ (a \notin as /\ app'[a] = app[a])
  BY <1>1
<1>4. ProcessesTyped'
  <2>1. daemon' \in [Daemons -> Daemon]
    BY <1>1, <1>2 DEF Ended
  <2>2. app' \in [Apps -> App]
    BY <1>1, NobodyTyped DEF ProcessesInv, ProcessesTyped
  <2>3. sock' \in Daemons \cup {None, Stale} /\ job' \in Apps \cup {None} /\ doomed' \subseteq Apps
    BY <1>1 DEF ProcessesInv, ProcessesTyped
  <2> QED BY <2>1, <2>2, <2>3, <1>2 DEF ProcessesTyped
<1>5. OneChild'
  <2> SUFFICES ASSUME NEW a \in Apps, NEW d \in Daemons, Alive(d)', daemon'[d].parent = a
               PROVE  d = app'[a].cmd
    BY DEF OneChild, Children
  <2>1. Alive(d) /\ daemon[d].parent = a /\ a \notin as
    BY <1>2
  <2> QED BY <2>1, <1>3 DEF ProcessesInv, OneChild, Children
<1>6. LeavingInv'
  <2> SUFFICES ASSUME NEW a \in Apps
               PROVE  /\ app'[a].stage = "ended" => app'[a].leave \in {"asked", "stop"}
                      /\ app'[a].stage = "ended" /\ app'[a].leave = "stop" =>
                           app'[a].cmd \in {app'[a].last, None}
                      /\ app'[a].leave = "stop" /\ app'[a].cmd = app'[a].last =>
                           \A d \in Daemons :
                             d = app'[a].cmd /\ Alive(d)' => daemon'[d].signal = "sent"
    BY DEF LeavingInv
  <2>1. CASE app'[a] = NoApp
    BY <2>1, NobodyTyped
  <2>2. CASE app'[a] = app[a]
    BY <2>2, <1>2 DEF ProcessesInv, LeavingInv
  <2> QED BY <2>1, <2>2, <1>3
<1> QED BY <1>4, <1>5, <1>6 DEF ProcessesInv

\* An app changes but for p.cmd, and may have signalled its child (Signalled).
LEMMA AppChangeKeeps ==
  ASSUME ProcessesInv, NEW a \in Apps, NEW r \in App, NEW c \in Daemons \cup {None},
         r.cmd = app[a].cmd,
         app' = [app EXCEPT ![a] = r],
         daemon' \in {daemon, Signalled(c)},
         sock' = sock, job' \in Apps \cup {None}, doomed' = doomed,
         r.stage = "ended" => r.leave \in {"asked", "stop"},
         r.stage = "ended" /\ r.leave = "stop" => r.cmd \in {r.last, None},
         r.leave = "stop" /\ r.cmd = r.last =>
           daemon' = Signalled(r.cmd) \/ (app[a].leave = "stop" /\ app[a].last = r.last)
  PROVE  ProcessesInv'
<1>1. app' \in [Apps -> App] /\ app'[a] = r /\ \A b \in Apps : b # a => app'[b] = app[b]
  BY DEF ProcessesInv, ProcessesTyped
<1>2. \A d \in Daemons :
        /\ daemon'[d] \in Daemon
        /\ daemon'[d].stage = daemon[d].stage /\ daemon'[d].parent = daemon[d].parent
        /\ daemon'[d].http = daemon[d].http
        /\ daemon'[d].signal \in {daemon[d].signal, "sent"}
        /\ daemon' = Signalled(d) /\ Alive(d) => daemon'[d].signal = "sent"
  <2> SUFFICES ASSUME NEW d \in Daemons
               PROVE  /\ daemon'[d] \in Daemon
                      /\ daemon'[d].stage = daemon[d].stage /\ daemon'[d].parent = daemon[d].parent
                      /\ daemon'[d].http = daemon[d].http
                      /\ daemon'[d].signal \in {daemon[d].signal, "sent"}
                      /\ daemon' = Signalled(d) /\ Alive(d) => daemon'[d].signal = "sent"
    OBVIOUS
  <2>1. daemon \in [Daemons -> Daemon] /\ daemon[d] \in Daemon
    BY DEF ProcessesInv, ProcessesTyped
  <2>2. daemon'[d] = daemon[d] \/ daemon'[d] = [daemon[d] EXCEPT !.signal = "sent"]
    BY <2>1 DEF Signalled
  <2>3. daemon' = Signalled(d) /\ Alive(d) => daemon'[d] = [daemon[d] EXCEPT !.signal = "sent"]
    BY <2>1 DEF Signalled
  <2> QED BY <2>1, <2>2, <2>3 DEF Daemon
<1>3. daemon' \in [Daemons -> Daemon]
  <2>1. daemon' = daemon \/ daemon' = [daemon EXCEPT ![c].signal = "sent"]
    BY DEF Signalled
  <2>2. daemon' = [d \in Daemons |-> daemon'[d]]
    BY <2>1 DEF ProcessesInv, ProcessesTyped
  <2> QED BY <2>2, <1>2
<1>4. ProcessesTyped'
  BY <1>1, <1>2, <1>3 DEF ProcessesInv, ProcessesTyped
<1>5. OneChild'
  <2> SUFFICES ASSUME NEW b \in Apps, NEW d \in Daemons, Alive(d)', daemon'[d].parent = b
               PROVE  d = app'[b].cmd
    BY DEF OneChild, Children
  <2> QED BY <1>1, <1>2 DEF ProcessesInv, OneChild, Children, Alive
<1>6. LeavingInv'
  <2> SUFFICES ASSUME NEW b \in Apps
               PROVE  /\ app'[b].stage = "ended" => app'[b].leave \in {"asked", "stop"}
                      /\ app'[b].stage = "ended" /\ app'[b].leave = "stop" =>
                           app'[b].cmd \in {app'[b].last, None}
                      /\ app'[b].leave = "stop" /\ app'[b].cmd = app'[b].last =>
                           \A d \in Daemons :
                             d = app'[b].cmd /\ Alive(d)' => daemon'[d].signal = "sent"
    BY DEF LeavingInv
  <2>1. \A d \in Daemons : Alive(d)' => Alive(d)
    BY <1>2 DEF Alive
  <2>2. CASE b = a
    BY <2>1, <2>2, <1>1, <1>2 DEF ProcessesInv, LeavingInv
  <2>3. CASE b # a
    BY <2>1, <2>3, <1>1, <1>2 DEF ProcessesInv, LeavingInv
  <2> QED BY <2>2, <2>3
<1> QED BY <1>4, <1>5, <1>6 DEF ProcessesInv

\* A daemon that runs goes on.
LEMMA DaemonChangeKeeps ==
  ASSUME ProcessesInv, NEW d \in Daemons, NEW r \in Daemon, Alive(d),
         daemon' = [daemon EXCEPT ![d] = r],
         r.parent = daemon[d].parent, r.signal = daemon[d].signal,
         r.http = "bound" => r.stage \in {"dial", "remove", "bind", "listen"},
         app' = app, job' = job, doomed' = doomed,
         sock' \in Daemons \cup {None, Stale}
  PROVE  ProcessesInv'
<1>1. /\ daemon' \in [Daemons -> Daemon] /\ daemon'[d] = r
      /\ \A e \in Daemons : e # d => daemon'[e] = daemon[e]
  BY DEF ProcessesInv, ProcessesTyped
<1>2. ProcessesTyped'
  BY <1>1 DEF ProcessesInv, ProcessesTyped
<1>3. \A e \in Daemons : Alive(e)' => /\ Alive(e)
                                      /\ daemon'[e].parent = daemon[e].parent
                                      /\ daemon'[e].signal = daemon[e].signal
  BY <1>1 DEF Alive
<1>4. OneChild'
  <2> SUFFICES ASSUME NEW b \in Apps, NEW e \in Daemons, Alive(e)', daemon'[e].parent = b
               PROVE  e = app'[b].cmd
    BY DEF OneChild, Children
  <2> QED BY <1>3 DEF ProcessesInv, OneChild, Children
<1>5. LeavingInv'
  BY <1>3 DEF ProcessesInv, LeavingInv
<1> QED BY <1>2, <1>4, <1>5 DEF ProcessesInv

-----------------------------------------------------------------------------
(* The steps of the menu app                                               *)

\* A new daemon.
LEMMA NewDaemon ==
  ASSUME NEW a \in Apps, NEW z, z = [NoDaemon EXCEPT !.stage = "load", !.parent = a]
  PROVE  z \in Daemon /\ z.stage = "load" /\ z.parent = a /\ z.http = "no"
<1>1. z = [stage |-> "load", parent |-> a, http |-> "no", loaded |-> 0, signal |-> "no"]
  BY DEF NoDaemon
<1>2. 0 \in Configs
  BY BoundsAssumption DEF Configs
<1>3. z \in Daemon
  BY <1>1, <1>2 DEF Daemon
<1>4. z.stage = "load" /\ z.parent = a /\ z.http = "no"
  BY <1>1 DEF NoDaemon
<1> QED BY <1>3, <1>4, Zenon

\* DaemonProcess.Start takes a process id nobody waits for, and looks at the
\* child it has.
LEMMA StartDaemonKeeps ==
  ASSUME ProcessesInv, NEW a \in Apps, StartDaemon(a)
  PROVE  ProcessesInv'
<1>1. PICK d \in Daemons :
        /\ FreeDaemon(d)
        /\ app' = [app EXCEPT ![a].stage = "idle", ![a].cmd = d]
        /\ daemon' = [e \in Daemons |->
             IF e = d THEN [NoDaemon EXCEPT !.stage = "load", !.parent = a]
             ELSE IF e = app[a].cmd THEN NoDaemon ELSE daemon[e]]
  BY DEF StartDaemon
<1>2. /\ app[a] \in App /\ app[a].stage \in {"ready", "start"} /\ NoChild(a)
      /\ sock' = sock /\ job' = job /\ doomed' = doomed
  BY DEF StartDaemon, Starting, ProcessesInv, ProcessesTyped
<1> DEFINE r == [app[a] EXCEPT !.stage = "idle", !.cmd = d]
           new == [NoDaemon EXCEPT !.stage = "load", !.parent = a]
<1>3. r \in App /\ r.stage = "idle" /\ r.cmd = d /\ r.leave = app[a].leave /\ r.last = app[a].last
  BY <1>2 DEF App
<1>4. new \in Daemon /\ new.stage = "load" /\ new.parent = a /\ new.http = "no"
  BY NewDaemon
<1>5. /\ app' \in [Apps -> App] /\ app'[a] = r /\ \A b \in Apps : b # a => app'[b] = app[b]
  BY <1>1, <1>3 DEF ProcessesInv, ProcessesTyped
<1>6. daemon'[d] = new
  BY <1>1
<1> HIDE DEF r, new
<1>7. \A e \in Daemons : e # d =>
        (daemon'[e] = NoDaemon) \/ (e # app[a].cmd /\ daemon'[e] = daemon[e])
  BY <1>1
<1>8. daemon' \in [Daemons -> Daemon]
  <2>1. \A e \in Daemons : daemon'[e] \in Daemon
    BY <1>4, <1>6, <1>7, NobodyTyped DEF ProcessesInv, ProcessesTyped
  <2> QED BY <2>1, <1>1
<1>9. ProcessesTyped'
  BY <1>2, <1>4, <1>5, <1>6, <1>7, <1>8, NobodyTyped DEF ProcessesInv, ProcessesTyped
<1>10. OneChild'
  <2> SUFFICES ASSUME NEW b \in Apps, NEW e \in Daemons, Alive(e)', daemon'[e].parent = b
               PROVE  e = app'[b].cmd
    BY DEF OneChild, Children
  <2>1. CASE e = d
    BY <2>1, <1>3, <1>4, <1>5, <1>6
  <2>2. CASE e # d
    <3>1. e # app[a].cmd /\ daemon'[e] = daemon[e]
      BY <2>2, <1>7, NobodyTyped DEF Alive
    <3>2. Alive(e) /\ daemon[e].parent = b
      BY <3>1 DEF Alive
    <3>3. e = app[b].cmd
      BY <3>2 DEF ProcessesInv, OneChild, Children
    <3> QED BY <3>1, <3>3, <1>5
  <2> QED BY <2>1, <2>2
<1>11. LeavingInv'
  <2> SUFFICES ASSUME NEW b \in Apps
               PROVE  /\ app'[b].stage = "ended" => app'[b].leave \in {"asked", "stop"}
                      /\ app'[b].stage = "ended" /\ app'[b].leave = "stop" =>
                           app'[b].cmd \in {app'[b].last, None}
                      /\ app'[b].leave = "stop" /\ app'[b].cmd = app'[b].last =>
                           \A e \in Daemons :
                             e = app'[b].cmd /\ Alive(e)' => daemon'[e].signal = "sent"
    BY DEF LeavingInv
  <2>1. d # app[b].last
    BY <1>1 DEF FreeDaemon
  <2>2. CASE b = a
    BY <2>1, <2>2, <1>3, <1>5
  <2>3. CASE b # a
    <3>1. app'[b] = app[b]
      BY <2>3, <1>5
    <3>2. ASSUME app[b].leave = "stop", app[b].cmd = app[b].last,
                 NEW e \in Daemons, e = app[b].cmd, Alive(e)'
          PROVE  daemon'[e].signal = "sent"
      <4>1. daemon'[e] = daemon[e]
        BY <3>2, <2>1, <1>7, NobodyTyped DEF Alive
      <4>2. Alive(e)
        BY <3>2, <4>1 DEF Alive
      <4> QED BY <3>2, <4>1, <4>2 DEF ProcessesInv, LeavingInv
    <3> QED BY <3>1, <3>2 DEF ProcessesInv, LeavingInv
  <2> QED BY <2>2, <2>3
<1> QED BY <1>9, <1>10, <1>11 DEF ProcessesInv

\* Wait clears p.cmd when the child has ended.
LEMMA ReapKeeps ==
  ASSUME ProcessesInv, NEW a \in Apps, Reap(a)
  PROVE  ProcessesInv'
<1> DEFINE c == app[a].cmd
           r == [app[a] EXCEPT !.cmd = None]
<1>1. /\ app[a] \in App /\ c \in Daemons /\ daemon[c].stage = "zombie"
      /\ app' = [app EXCEPT ![a] = r] /\ daemon' = [daemon EXCEPT ![c] = NoDaemon]
      /\ sock' = sock /\ job' = job /\ doomed' = doomed
  BY DEF Reap, ProcessesInv, ProcessesTyped, App
<1>2. r \in App /\ r.stage = app[a].stage /\ r.cmd = None /\ r.leave = app[a].leave /\ r.last = app[a].last
  BY <1>1 DEF App
<1> HIDE DEF c, r
<1>3. /\ app' \in [Apps -> App] /\ app'[a] = r /\ \A b \in Apps : b # a => app'[b] = app[b]
  BY <1>1, <1>2 DEF ProcessesInv, ProcessesTyped
<1>4. /\ daemon' \in [Daemons -> Daemon] /\ daemon'[c] = NoDaemon
      /\ \A e \in Daemons : e # c => daemon'[e] = daemon[e]
  BY <1>1, NobodyTyped DEF ProcessesInv, ProcessesTyped
<1>5. ProcessesTyped'
  BY <1>1, <1>3, <1>4, NobodyTyped DEF ProcessesInv, ProcessesTyped
<1>6. \A e \in Daemons : Alive(e)' => e # c /\ Alive(e) /\ daemon'[e] = daemon[e]
  BY <1>4, NobodyTyped DEF Alive
<1>7. OneChild'
  <2> SUFFICES ASSUME NEW b \in Apps, NEW e \in Daemons, Alive(e)', daemon'[e].parent = b
               PROVE  e = app'[b].cmd
    BY DEF OneChild, Children
  <2>1. e # c /\ e = app[b].cmd
    BY <1>6 DEF ProcessesInv, OneChild, Children
  <2> QED BY <2>1, <1>3 DEF c
<1>8. LeavingInv'
  <2> SUFFICES ASSUME NEW b \in Apps
               PROVE  /\ app'[b].stage = "ended" => app'[b].leave \in {"asked", "stop"}
                      /\ app'[b].stage = "ended" /\ app'[b].leave = "stop" =>
                           app'[b].cmd \in {app'[b].last, None}
                      /\ app'[b].leave = "stop" /\ app'[b].cmd = app'[b].last =>
                           \A e \in Daemons :
                             e = app'[b].cmd /\ Alive(e)' => daemon'[e].signal = "sent"
    BY DEF LeavingInv
  <2>1. CASE b = a
    BY <2>1, <1>2, <1>3, ProcessesAssumption DEF ProcessesInv, LeavingInv
  <2>2. CASE b # a
    BY <2>2, <1>3, <1>6 DEF ProcessesInv, LeavingInv
  <2> QED BY <2>1, <2>2
<1> QED BY <1>5, <1>7, <1>8 DEF ProcessesInv

\* The app ends.
LEMMA AppEndKeeps ==
  ASSUME ProcessesInv, NEW a \in Apps, End({a}, {})
  PROVE  ProcessesInv'
BY EndKeeps

\* Steps that only move an app to another stage,
LEMMA MoveKeeps ==
  ASSUME ProcessesInv, NEW a \in Apps,
         NEW s \in {"lock", "ready", "idle", "stop", "start"},
         app' = [app EXCEPT ![a].stage = s],
         daemon' = daemon, sock' = sock, job' \in Apps \cup {None}, doomed' = doomed
  PROVE  ProcessesInv'
<1>1. app[a] \in App
  BY DEF ProcessesInv, ProcessesTyped
<1>2. PICK r : r = [app[a] EXCEPT !.stage = s]
  OBVIOUS
<1>3. /\ r \in App /\ r.stage = s /\ r.cmd = app[a].cmd /\ r.leave = app[a].leave
      /\ r.last = app[a].last
  BY <1>1, <1>2 DEF App
<1>4. app' = [app EXCEPT ![a] = r]
  BY <1>2
<1> QED BY <1>3, <1>4, AppChangeKeeps

\* and those of a restart, which also change what Stop waits for.
LEMMA StopKeeps ==
  ASSUME ProcessesInv, NEW a \in Apps, NEW w \in Daemons \cup {None},
         NEW c \in Daemons \cup {None},
         NEW s \in {"idle", "stop", "start"},
         app' = [app EXCEPT ![a].stage = s, ![a].wait = w],
         daemon' \in {daemon, Signalled(c)}, UNCHANGED <<sock, job, doomed>>
  PROVE  ProcessesInv'
<1>1. app[a] \in App /\ job' \in Apps \cup {None} /\ sock' = sock /\ doomed' = doomed
  BY DEF ProcessesInv, ProcessesTyped
<1>2. PICK r : r = [app[a] EXCEPT !.stage = s, !.wait = w]
  OBVIOUS
<1>3. /\ r \in App /\ r.stage = s /\ r.cmd = app[a].cmd /\ r.leave = app[a].leave
      /\ r.last = app[a].last
  BY <1>1, <1>2 DEF App
<1>4. app' = [app EXCEPT ![a] = r]
  BY <1>2
<1> QED BY <1>1, <1>3, <1>4, AppChangeKeeps

\* The user, or macOS, asks the app to leave.
LEMMA AskedKeeps ==
  ASSUME ProcessesInv, NEW a \in Apps, ClickQuit(a) \/ Terminate(a)
  PROVE  ProcessesInv'
<1>1. app[a] \in App /\ job' \in Apps \cup {None} /\ daemon' = daemon /\ sock' = sock /\ doomed' = doomed
  BY DEF ClickQuit, Terminate, ProcessesInv, ProcessesTyped
<1>2. \E r : /\ r = [app[a] EXCEPT !.stage = "ended", !.leave = "asked"]
                 \/ (r = [app[a] EXCEPT !.leave = "asked"] /\ app[a].stage # "ended")
             /\ app' = [app EXCEPT ![a] = r]
  BY DEF ClickQuit, Terminate
<1>3. PICK r : /\ r = [app[a] EXCEPT !.stage = "ended", !.leave = "asked"]
                  \/ (r = [app[a] EXCEPT !.leave = "asked"] /\ app[a].stage # "ended")
              /\ app' = [app EXCEPT ![a] = r]
  BY <1>2
<1>4. r \in App /\ r.cmd = app[a].cmd /\ r.leave = "asked"
  BY <1>1, <1>3 DEF App
<1> QED BY <1>1, <1>3, <1>4, AppChangeKeeps

\* onExit signals the child and remembers which one it was.
LEMMA LeaveKeeps ==
  ASSUME ProcessesInv, NEW a \in Apps, Leave(a)
  PROVE  ProcessesInv'
<1>1. CASE app[a].cmd = None
  BY <1>1, AppEndKeeps DEF Leave
<1>2. CASE app[a].cmd # None
  <2>1. /\ app[a] \in App /\ job' \in Apps \cup {None} /\ sock' = sock /\ doomed' = doomed
        /\ daemon' = Signalled(app[a].cmd)
    BY <1>2 DEF Leave, ProcessesInv, ProcessesTyped
  <2>2. PICK r : r = [app[a] EXCEPT !.leave = "stop", !.last = app[a].cmd]
    OBVIOUS
  <2>3. app' = [app EXCEPT ![a] = r]
    BY <1>2, <2>2 DEF Leave
  <2>4. /\ r \in App /\ r.cmd = app[a].cmd /\ r.leave = "stop" /\ r.last = r.cmd
        /\ r.cmd \in Daemons \cup {None}
    BY <2>1, <2>2 DEF App
  <2> QED BY <2>1, <2>3, <2>4, AppChangeKeeps
<1> QED BY <1>1, <1>2

LEMMA AppKeeps ==
  ASSUME ProcessesInv, NEW a \in Apps, AppStep(a) \/ AppTimeout(a) \/ AppEvent(a)
  PROVE  ProcessesInv'
<1>0. app[a] \in App /\ job \in Apps \cup {None} /\ app[a].cmd \in Daemons \cup {None}
      /\ app[a].wait \in Daemons \cup {None}
  BY DEF ProcessesInv, ProcessesTyped, App
<1>1. CASE Lock(a)
  BY <1>0, <1>1, AppEndKeeps, MoveKeeps DEF Lock
<1>2. CASE StartDaemon(a)
  BY <1>2, StartDaemonKeeps
<1>3. CASE StartNothing(a) \/ StartFails(a)
  BY <1>0, <1>3, MoveKeeps DEF StartNothing, StartFails
<1>4. CASE Reap(a)
  BY <1>4, ReapKeeps
<1>5. CASE StopEnds(a)
  BY <1>5, StopKeeps DEF StopEnds
<1>6. CASE StopTimesOut(a)
  <2>1. PICK s \in {"start", "idle"} : app' = [app EXCEPT ![a].stage = s, ![a].wait = None]
    BY <1>6 DEF StopTimesOut
  <2> QED BY <1>0, <1>6, <2>1, StopKeeps DEF StopTimesOut
<1>7. CASE ClickRestart(a)
  <2>1. PICK s \in {"start", "stop"} : app' = [app EXCEPT ![a].stage = s, ![a].wait = app[a].cmd]
    BY <1>7 DEF ClickRestart
  <2> QED BY <1>0, <1>7, <2>1, StopKeeps DEF ClickRestart
<1>8. CASE ClickQuit(a) \/ Terminate(a)
  BY <1>8, AskedKeeps
<1>9. CASE Leave(a)
  BY <1>9, LeaveKeeps
<1>10. CASE LeaveEnds(a) \/ LeaveTimesOut(a) \/ AppDies(a) \/ AppCrashes(a)
  BY <1>10, AppEndKeeps DEF LeaveEnds, LeaveTimesOut, AppDies, AppCrashes
<1>11. CASE OpenApp(a)
  BY <1>0, <1>11, MoveKeeps DEF OpenApp
<1> QED BY <1>1, <1>2, <1>3, <1>4, <1>5, <1>6, <1>7, <1>8, <1>9, <1>10, <1>11
        DEF AppStep, AppTimeout, AppEvent

-----------------------------------------------------------------------------
(* The steps of a daemon and of a command                                  *)

LEMMA DaemonEndKeeps ==
  ASSUME ProcessesInv, NEW d \in Daemons, End({}, {d})
  PROVE  ProcessesInv'
BY EndKeeps

LEMMA DaemonKeeps ==
  ASSUME ProcessesInv, NEW d \in Daemons, config \in Configs, DaemonStep(d) \/ DaemonCrashes(d)
  PROVE  ProcessesInv'
<1>0. daemon[d] \in Daemon /\ sock \in Daemons \cup {None, Stale}
      /\ (daemon[d].http = "bound" => daemon[d].stage \in {"dial", "remove", "bind", "listen"})
  BY DEF ProcessesInv, ProcessesTyped
<1>1. CASE End({}, {d})
  BY <1>1, DaemonEndKeeps
<1>2. CASE Load(d) /\ ~End({}, {d})
  <2>1. PICK r : r = [daemon[d] EXCEPT !.stage = "dial", !.loaded = config]
    OBVIOUS
  <2>2. r \in Daemon /\ r.stage = "dial" /\ r.parent = daemon[d].parent /\ r.signal = daemon[d].signal
    BY <1>0, <2>1 DEF Daemon
  <2>3. daemon' = [daemon EXCEPT ![d] = r] /\ Alive(d) /\ app' = app /\ job' = job
        /\ doomed' = doomed /\ sock' = sock
    BY <1>2, <2>1 DEF Load, Alive
  <2> QED BY <1>0, <2>2, <2>3, DaemonChangeKeeps
<1>3. CASE BindPort(d) /\ ~End({}, {d})
  <2>1. PICK r : r = [daemon[d] EXCEPT !.http = "bound"]
    OBVIOUS
  <2>2. r \in Daemon /\ r.stage = daemon[d].stage /\ r.parent = daemon[d].parent /\ r.signal = daemon[d].signal
    BY <1>0, <2>1 DEF Daemon
  <2>3. daemon' = [daemon EXCEPT ![d] = r] /\ Alive(d) /\ daemon[d].stage # "load" /\ app' = app /\ job' = job
        /\ doomed' = doomed /\ sock' = sock
    BY <1>3, <2>1 DEF BindPort
  <2>4. r.stage \in {"dial", "remove", "bind", "listen"}
    BY <1>0, <2>2, <2>3 DEF Alive, Daemon
  <2> QED BY <1>0, <2>2, <2>3, <2>4, DaemonChangeKeeps
<1>4. CASE (Dial(d) \/ Remove(d) \/ Bind(d)) /\ ~End({}, {d})
  <2>1. PICK s \in {"bind", "remove", "listen"} : Enter(d, s)
    BY <1>4 DEF Dial, Remove, Bind
  <2>2. Alive(d) /\ sock' \in Daemons \cup {None, Stale}
    BY <1>0, <1>4 DEF Dial, Remove, Bind, Alive
  <2>3. PICK r : r = [daemon[d] EXCEPT !.stage = s]
    OBVIOUS
  <2>4. r \in Daemon /\ r.stage = s /\ r.parent = daemon[d].parent /\ r.signal = daemon[d].signal
    BY <1>0, <2>3 DEF Daemon
  <2>5. daemon' = [daemon EXCEPT ![d] = r] /\ app' = app /\ job' = job /\ doomed' = doomed
    BY <2>1, <2>3 DEF Enter
  <2> QED BY <2>2, <2>4, <2>5, DaemonChangeKeeps
<1> QED BY <1>1, <1>2, <1>3, <1>4
        DEF DaemonStep, DaemonCrashes, ParentWatch, DaemonDies, Load, BindPort, Dial, Remove, Bind

LEMMA SpawnKeeps ==
  ASSUME ProcessesInv, Spawn
  PROVE  ProcessesInv'
<1>1. PICK a \in Apps : /\ app' = [app EXCEPT ![a].stage = "lock"] /\ job' = a
                        /\ UNCHANGED <<daemon, sock, doomed>>
  BY DEF Spawn
<1> QED BY <1>1, MoveKeeps

\* Nothing happens to the processes.
LEMMA IdleKeeps ==
  ASSUME ProcessesInv, UNCHANGED <<app, daemon, sock, job>>, doomed' \subseteq Apps
  PROVE  ProcessesInv'
<1>1. ProcessesTyped'
  BY DEF ProcessesInv, ProcessesTyped
<1>2. OneChild'
  BY DEF ProcessesInv, OneChild, Children, Alive
<1>3. LeavingInv'
  BY DEF ProcessesInv, LeavingInv, Alive
<1> QED BY <1>1, <1>2, <1>3 DEF ProcessesInv

LEMMA CommandKeeps ==
  ASSUME ProcessesInv, CliStep \/ CommandFails \/ \E op \in Commands : Begin(op)
  PROVE  ProcessesInv'
<1>0. doomed \subseteq Apps
  BY DEF ProcessesInv, ProcessesTyped
<1>1. CASE Bootout \/ Kick
  BY <1>1, EndKeeps DEF Bootout, Kick
<1>2. CASE List
  BY <1>0, <1>2, IdleKeeps DEF List
<1>3. CASE Cleaned \/ SocketGone \/ PortGone \/ ProbeStatus \/ ProbeHealth \/ CommandFails
  BY <1>0, <1>3, IdleKeeps
     DEF Cleaned, SocketGone, PortGone, ProbeStatus, ProbeHealth, CommandFails, processes
<1>4. CASE Bootstrap \/ Kickstart
  BY <1>0, <1>4, IdleKeeps, SpawnKeeps DEF Bootstrap, Kickstart, processes
<1>5. CASE \E op \in Commands : Begin(op)
  BY <1>0, <1>5, IdleKeeps DEF Begin, processes
<1> QED BY <1>1, <1>2, <1>3, <1>4, <1>5 DEF CliStep

\* The rest: each command is counted, and an onboarding saves one configuration.
LEMMA WorldKeeps ==
  ASSUME WorldTyped, [Next]_vars
  PROVE  WorldTyped'
<1>0. /\ config \in 0..MaxCommands + 1 /\ commands \in 0..MaxCommands /\ events \in 0..MaxEvents
      /\ loaded \in BOOLEAN /\ cli \in Cli /\ calm \in BOOLEAN /\ config <= commands + 1
      /\ MaxCommands \in Nat /\ MaxEvents \in Nat
  BY BoundsAssumption DEF WorldTyped, ConfigsCounted, Configs
<1>1. CASE UNCHANGED world
  BY <1>1 DEF WorldTyped, ConfigsCounted, world
<1>2. CASE Event
  <2>1. events < MaxEvents /\ events' = events + 1 /\ calm' = FALSE
    BY <1>2 DEF Event
  <2>2. events' \in 0..MaxEvents
    BY <1>0, <2>1
  <2> QED BY <1>2, <2>1, <2>2 DEF Event, WorldTyped, ConfigsCounted
<1>3. ASSUME NEW s \in {"done", "list", "wait", "socket", "port", "bootstrap", "kick", "spawn",
                        "status", "health", "idle"},
             Goto(s), loaded' \in BOOLEAN
      PROVE  WorldTyped'
  <2>1. cli' \in Cli
    BY <1>0, <1>3 DEF Goto, Cli
  <2> QED BY <1>3, <2>1 DEF Goto, WorldTyped, ConfigsCounted
<1>4. CASE CliStep \/ CommandFails
  <2>1. CASE Bootout
    BY <1>3, <2>1 DEF Bootout
  <2>2. CASE List
    BY <1>0, <1>3, <2>2 DEF List
  <2>3. CASE Cleaned
    BY <1>0, <1>3, <2>3 DEF Cleaned
  <2>4. CASE SocketGone \/ PortGone
    BY <1>0, <1>3, <2>4 DEF SocketGone, PortGone
  <2>5. CASE Bootstrap
    BY <1>3, <2>5 DEF Bootstrap
  <2>6. CASE Kick \/ Kickstart
    BY <1>0, <1>3, <2>6 DEF Kick, Kickstart
  <2>7. CASE ProbeStatus \/ ProbeHealth
    BY <1>0, <1>3, <2>7 DEF ProbeStatus, ProbeHealth
  <2>8. CASE CommandFails
    BY <1>0, <1>3, <2>8 DEF CommandFails
  <2> QED BY <1>4, <2>1, <2>2, <2>3, <2>4, <2>5, <2>6, <2>7, <2>8 DEF CliStep
<1>5. ASSUME NEW op \in Commands, Begin(op)
      PROVE  WorldTyped'
  <2>1. cli' \in Cli
    BY <1>5 DEF Begin, Cli
  <2>2. commands' = commands + 1 /\ commands < MaxCommands /\ config' \in {config, config + 1}
    BY <1>5 DEF Begin
  <2>3. /\ commands' \in 0..MaxCommands /\ config' \in 0..MaxCommands + 1
        /\ config' <= commands' + 1
    BY <1>0, <2>2
  <2>4. calm' \in BOOLEAN /\ loaded' = loaded /\ events' = events
    BY <1>5 DEF Begin
  <2> QED BY <1>0, <2>1, <2>3, <2>4 DEF WorldTyped, ConfigsCounted, Configs
<1>6. ASSUME NEW a \in Apps, AppStep(a) \/ AppTimeout(a) \/ AppEvent(a)
      PROVE  UNCHANGED world \/ Event
  BY <1>6 DEF AppStep, AppTimeout, AppEvent, Lock, StartDaemon, StartNothing, Reap, StopEnds,
     Leave, LeaveEnds, AppDies, StopTimesOut, LeaveTimesOut, StartFails, ClickRestart, ClickQuit,
     Terminate, OpenApp, AppCrashes
<1>7. ASSUME NEW d \in Daemons, DaemonStep(d) \/ DaemonCrashes(d)
      PROVE  UNCHANGED world \/ Event
  BY <1>7 DEF DaemonStep, DaemonCrashes, Load, BindPort, Dial, Remove, Bind, ParentWatch, DaemonDies
<1>8. CASE UNCHANGED vars
  BY <1>1, <1>8 DEF vars, world
<1> QED BY <1>1, <1>2, <1>4, <1>5, <1>6, <1>7, <1>8 DEF Next

-----------------------------------------------------------------------------
(* The invariant                                                           *)

LEMMA InitInv ==
  ASSUME Init
  PROVE  LifecycleInv
<1>1. ProcessesTyped
  BY NobodyTyped DEF Init, ProcessesTyped
<1>2. WorldTyped
  <2>1. config \in Configs /\ config <= commands + 1 /\ 0 \in 0..MaxCommands /\ 0 \in 0..MaxEvents
    BY BoundsAssumption DEF Init, Configs
  <2>2. cli \in Cli
    BY DEF Init, Cli, Commands
  <2> QED BY <2>1, <2>2 DEF Init, WorldTyped, ConfigsCounted
<1>3. OneChild
  BY NobodyTyped DEF Init, OneChild, Children, Alive
<1>4. LeavingInv
  BY NobodyTyped DEF Init, LeavingInv
<1> QED BY <1>1, <1>2, <1>3, <1>4, InvInTwo DEF ProcessesInv

LEMMA StepKeeps ==
  ASSUME LifecycleInv, [Next]_vars
  PROVE  LifecycleInv'
<1>1. ProcessesInv /\ WorldTyped /\ config \in Configs
  BY InvInTwo DEF WorldTyped
<1>2. WorldTyped'
  BY <1>1, WorldKeeps
<1>3. CASE \E a \in Apps : AppStep(a) \/ AppTimeout(a) \/ AppEvent(a)
  BY <1>1, <1>2, <1>3, AppKeeps, InvInTwoNext
<1>4. CASE \E d \in Daemons : DaemonStep(d) \/ DaemonCrashes(d)
  BY <1>1, <1>2, <1>4, DaemonKeeps, InvInTwoNext
<1>5. CASE CliStep \/ CommandFails \/ \E op \in Commands : Begin(op)
  BY <1>1, <1>2, <1>5, CommandKeeps, InvInTwoNext
<1>6. CASE UNCHANGED vars
  <2>1. UNCHANGED <<app, daemon, sock, job>> /\ doomed' \subseteq Apps
    BY <1>1, <1>6 DEF vars, ProcessesInv, ProcessesTyped
  <2> QED BY <1>1, <1>2, <2>1, IdleKeeps, InvInTwoNext
<1> QED BY <1>3, <1>4, <1>5, <1>6 DEF Next

\* The inductive invariant: types, at most one child for each app, the one
\* p.cmd remembers (internal/menu/process.go:33-35), and a signal for the child
\* an app waits for as it leaves (process.go:72-79).
THEOREM LifecycleInvHolds == Spec => []LifecycleInv
<1> QED BY InitInv, StepKeeps, PTL DEF Spec

\* The apps, daemons and commands only reach the states TypeOK lists: a daemon
\* has the HTTP port only after it loaded a configuration (cmd/clipportd/main.go).
THEOREM TypeCorrect == Spec => []TypeOK
<1>1. LifecycleInv => TypeOK
  BY DEF LifecycleInv
<1> QED BY <1>1, LifecycleInvHolds, PTL

\* An app has at most one daemon that runs, however starts, restarts, crashes
\* and ends interleave: the one it remembers (internal/menu/process.go:33-35).
THEOREM OneChildAlways == Spec => []OneChild
<1>1. LifecycleInv => OneChild
  BY DEF LifecycleInv
<1> QED BY <1>1, LifecycleInvHolds, PTL

\* When Quit ends the app, its daemon is gone or has been sent a signal, whatever
\* else happened to the two meanwhile (internal/menu/process.go:64-92).
THEOREM QuitStopsDaemonAlways == Spec => QuitStopsDaemon
<1>1. ASSUME LifecycleInv, [Next]_vars, NEW a \in Apps, Quits(a), app'[a].stage = "none",
             NEW d \in Children(a)
      PROVE  daemon[d].signal = "sent"
  <2>1. d \in Daemons /\ Alive(d) /\ d = app[a].cmd /\ d # None
    BY <1>1, ProcessesAssumption DEF LifecycleInv, OneChild, Children
  <2>2. app[a] \in App /\ app[a].stage = "ended"
    BY <1>1 DEF LifecycleInv, TypeOK, Quits
  <2>3. ~Leave(a)
    <3> SUFFICES ASSUME Leave(a) PROVE FALSE
      OBVIOUS
    <3>1. app' = [app EXCEPT ![a].leave = "stop", ![a].last = app[a].cmd]
      BY <2>1 DEF Leave
    <3>2. app'[a].stage = app[a].stage
      BY <1>1, <2>2, <3>1 DEF LifecycleInv, TypeOK, App
    <3> QED BY <1>1, <2>2, <3>2
  <2>4. app[a].leave = "stop"
    BY <1>1, <2>3 DEF Quits, LeaveEnds, LeaveTimesOut
  <2>5. app[a].cmd = app[a].last
    BY <1>1, <2>1, <2>2, <2>4 DEF LifecycleInv, LeavingInv
  <2> QED BY <1>1, <2>1, <2>4, <2>5 DEF LifecycleInv, LeavingInv
<1>2. LifecycleInv /\ [Next]_vars =>
        [\A a \in Apps : Quits(a) /\ app'[a].stage = "none" =>
           \A d \in Children(a) : daemon[d].signal = "sent"]_vars
  BY <1>1
<1> QED BY <1>2, LifecycleInvHolds, PTL DEF Spec, QuitStopsDaemon

-----------------------------------------------------------------------------
(* What an app remembers                                                   *)

\* Ends leave the children of the apps that stay remembered.
LEMMA EndRemembers ==
  ASSUME ProcessesInv, Remembered, NEW as \in SUBSET Apps, NEW ds \in SUBSET Daemons, End(as, ds)
  PROVE  Remembered'
<1>1. ProcessesTyped
  BY DEF ProcessesInv
<1>2. \A a \in Apps : (a \in as /\ app'[a] = NoApp) \/ (a \notin as /\ app'[a] = app[a])
  BY DEF End
<1>3. ASSUME NEW a \in Apps, app'[a].cmd # None
      PROVE  daemon'[app'[a].cmd].stage # "none" /\ daemon'[app'[a].cmd].parent = a
  <2> DEFINE d == app[a].cmd
  <2>1. a \notin as /\ app'[a] = app[a] /\ d # None
    BY <1>2, <1>3, NobodyTyped
  <2>2. d \in Daemons /\ daemon[d].stage # "none" /\ daemon[d].parent = a
    BY <1>1, <2>1 DEF Remembered, ProcessesTyped, App
  <2> HIDE DEF d
  <2>3. \/ daemon'[d].stage = "zombie" /\ daemon'[d].parent = daemon[d].parent
        \/ daemon'[d] = daemon[d]
    <3>1. daemon' = Ended(as, ds \cup Group(as))
      BY DEF End
    <3>2. CASE d \in ds \cup Group(as)
      <4>1. daemon'[d] = [NoDaemon EXCEPT !.stage = "zombie", !.parent = daemon[d].parent]
        BY <2>1, <2>2, <3>1, <3>2 DEF Ended
      <4> QED BY <4>1 DEF NoDaemon
    <3>3. CASE d \notin ds \cup Group(as)
      BY <2>1, <2>2, <3>1, <3>3 DEF Ended
    <3> QED BY <3>2, <3>3
  <2> QED BY <2>1, <2>2, <2>3 DEF d
<1>4. \A a \in Apps : Runs(a)' \/ app'[a] = NoApp
  BY <1>2 DEF Remembered, Runs
<1>5. \A a \in doomed' : Runs(a)'
  <2>1. doomed' = doomed \ as /\ doomed \subseteq Apps
    BY <1>1 DEF End, ProcessesTyped
  <2> QED BY <1>2, <2>1 DEF Remembered, Runs
<1> QED BY <1>3, <1>4, <1>5 DEF Remembered

\* So do steps of an app that leave p.cmd alone,
LEMMA MoveRemembers ==
  ASSUME ProcessesInv, Remembered, NEW a \in Apps, NEW r,
         app' = [app EXCEPT ![a] = r], r.cmd = app[a].cmd, r.stage # "none",
         NEW c, daemon' = daemon \/ daemon' = Signalled(c), doomed' = doomed
  PROVE  Remembered'
<1>1. app'[a] = r /\ \A b \in Apps : b # a => app'[b] = app[b]
  BY DEF ProcessesInv, ProcessesTyped
<1>2. \A d \in Daemons : daemon'[d].stage = daemon[d].stage /\ daemon'[d].parent = daemon[d].parent
  BY DEF ProcessesInv, ProcessesTyped, Daemon, Signalled
<1>3. \A b \in Apps : app'[b].cmd = app[b].cmd /\ (app[b].cmd # None => app[b].cmd \in Daemons)
  BY <1>1 DEF ProcessesInv, ProcessesTyped, App
<1>4. \A b \in Apps : Runs(b) => Runs(b)'
  BY <1>1 DEF Runs
<1>5. \A b \in Apps : Runs(b)' \/ app'[b] = NoApp
  BY <1>1 DEF Runs, Remembered
<1>6. doomed \subseteq Apps
  BY DEF ProcessesInv, ProcessesTyped
<1> QED BY <1>2, <1>3, <1>4, <1>5, <1>6 DEF Remembered

\* those of a daemon,
LEMMA DaemonRemembers ==
  ASSUME ProcessesInv, Remembered, UNCHANGED <<app, doomed>>,
         \A e \in Daemons : /\ daemon'[e].parent = daemon[e].parent
                            /\ daemon[e].stage # "none" => daemon'[e].stage # "none"
  PROVE  Remembered'
<1>1. \A b \in Apps : app[b].cmd # None => app[b].cmd \in Daemons
  BY DEF ProcessesInv, ProcessesTyped, App
<1> QED BY <1>1 DEF Remembered, Runs

\* DaemonProcess.Start, which remembers the new one,
LEMMA StartRemembers ==
  ASSUME ProcessesInv, Remembered, NEW a \in Apps, StartDaemon(a)
  PROVE  Remembered'
<1>1. PICK d \in Daemons :
        /\ FreeDaemon(d)
        /\ app' = [app EXCEPT ![a].stage = "idle", ![a].cmd = d]
        /\ daemon' = [e \in Daemons |->
             IF e = d THEN [NoDaemon EXCEPT !.stage = "load", !.parent = a]
             ELSE IF e = app[a].cmd THEN NoDaemon ELSE daemon[e]]
  BY DEF StartDaemon
<1>2. app[a] \in App /\ app \in [Apps -> App]
  BY DEF ProcessesInv, ProcessesTyped
<1>3. app'[a].cmd = d /\ app'[a].stage = "idle" /\ \A b \in Apps : b # a => app'[b] = app[b]
  BY <1>1, <1>2 DEF App
<1>4. daemon'[d].stage = "load" /\ daemon'[d].parent = a
  BY <1>1, NewDaemon
<1>5. ASSUME NEW b \in Apps, app'[b].cmd # None
      PROVE  daemon'[app'[b].cmd].stage # "none" /\ daemon'[app'[b].cmd].parent = b
  <2>1. CASE b = a
    BY <1>3, <1>4, <2>1
  <2>2. CASE b # a
    <3> DEFINE e == app[b].cmd
    <3>1. app'[b].cmd = e /\ e \in Daemons /\ daemon[e].stage # "none" /\ daemon[e].parent = b
      BY <1>2, <1>3, <1>5, <2>2 DEF Remembered, App
    <3> HIDE DEF e
    <3>2. e # d
      BY <1>1, <3>1 DEF FreeDaemon
    <3>3. e # app[a].cmd
      BY <2>2, <3>1, ProcessesAssumption DEF Remembered
    <3>4. daemon'[e] = daemon[e]
      BY <1>1, <3>1, <3>2, <3>3
    <3> QED BY <3>1, <3>4
  <2> QED BY <2>1, <2>2
<1>6. doomed' = doomed /\ doomed \subseteq Apps
  BY DEF StartDaemon, ProcessesInv, ProcessesTyped
<1> QED BY <1>3, <1>5, <1>6 DEF Remembered, Runs

\* and Wait, which forgets one that has ended.
LEMMA ReapRemembers ==
  ASSUME ProcessesInv, Remembered, NEW a \in Apps, Reap(a)
  PROVE  Remembered'
<1> DEFINE c == app[a].cmd
<1>1. app[a] \in App /\ app \in [Apps -> App] /\ c \in Daemons /\ daemon[c].parent = a
  BY DEF Reap, ProcessesInv, ProcessesTyped, App, Remembered
<1>2. app'[a].cmd = None /\ app'[a].stage = app[a].stage /\ \A b \in Apps : b # a => app'[b] = app[b]
  BY <1>1 DEF Reap, App
<1>3. \A e \in Daemons : e # c => daemon'[e] = daemon[e]
  BY DEF Reap, ProcessesInv, ProcessesTyped
<1> HIDE DEF c
<1>4. ASSUME NEW b \in Apps, app'[b].cmd # None
      PROVE  daemon'[app'[b].cmd].stage # "none" /\ daemon'[app'[b].cmd].parent = b
  <2>1. b # a /\ app'[b] = app[b]
    BY <1>2, <1>4
  <2>2. app[b].cmd \in Daemons /\ daemon[app[b].cmd].stage # "none" /\ daemon[app[b].cmd].parent = b
    BY <1>1, <1>4, <2>1 DEF Remembered, App
  <2>3. app[b].cmd # c
    BY <1>1, <2>1, <2>2
  <2> QED BY <1>3, <2>1, <2>2, <2>3
<1>5. doomed' = doomed /\ doomed \subseteq Apps /\ Runs(a)
  BY DEF Reap, ProcessesInv, ProcessesTyped
<1> QED BY <1>2, <1>4, <1>5 DEF Remembered, Runs

\* Apps that are started anew are remembered with no child.
LEMMA OpenRemembers ==
  ASSUME ProcessesInv, Remembered, NEW a \in Apps, app[a].stage = "none",
         app' = [app EXCEPT ![a].stage = "lock"], UNCHANGED <<daemon, doomed>>
  PROVE  Remembered'
<1>1. app[a] = NoApp /\ app \in [Apps -> App]
  BY DEF Remembered, Runs, ProcessesInv, ProcessesTyped
<1>2. app'[a].stage = "lock" /\ app'[a].cmd = None /\ \A b \in Apps : b # a => app'[b] = app[b]
  BY <1>1, NobodyTyped DEF App
<1>3. doomed \subseteq Apps
  BY DEF ProcessesInv, ProcessesTyped
<1> QED BY <1>2, <1>3 DEF Remembered, Runs

\* Whatever happens, an app remembers its child.
LEMMA AppRemembers ==
  ASSUME ProcessesInv, Remembered, NEW a \in Apps, AppStep(a) \/ AppTimeout(a) \/ AppEvent(a)
  PROVE  Remembered'
<1>0. app[a] \in App /\ app[a].cmd \in Daemons \cup {None}
  BY DEF ProcessesInv, ProcessesTyped, App
<1>1. CASE End({a}, {})
  BY <1>1, EndRemembers
<1>2. CASE StartDaemon(a)
  BY <1>2, StartRemembers
<1>3. CASE Reap(a)
  BY <1>3, ReapRemembers
<1>4. CASE OpenApp(a)
  BY <1>4, OpenRemembers DEF OpenApp
<1>5. CASE \/ Lock(a) \/ StartNothing(a) \/ StartFails(a) \/ StopEnds(a) \/ ClickRestart(a)
           \/ StopTimesOut(a) \/ ClickQuit(a) \/ Terminate(a) \/ Leave(a)
  <2>1. CASE End({a}, {})
    BY <2>1, EndRemembers
  <2>2. CASE (Lock(a) /\ ~End({a}, {})) \/ StartNothing(a) \/ StartFails(a)
    <3>1. PICK s \in {"ready", "idle"} : app' = [app EXCEPT ![a].stage = s]
      BY <2>2 DEF Lock, StartNothing, StartFails
    <3>2. PICK r : r = [app[a] EXCEPT !.stage = s]
      OBVIOUS
    <3>3. r.cmd = app[a].cmd /\ r.stage # "none" /\ app' = [app EXCEPT ![a] = r]
      BY <1>0, <3>1, <3>2 DEF App
    <3>4. daemon' = daemon /\ doomed' = doomed
      BY <2>2 DEF Lock, StartNothing, StartFails
    <3> QED BY <3>3, <3>4, MoveRemembers
  <2>3. CASE StopEnds(a) \/ ClickRestart(a) \/ StopTimesOut(a)
    <3>1. \E s \in {"start", "stop", "idle"}, w \in Daemons \cup {None} :
            app' = [app EXCEPT ![a].stage = s, ![a].wait = w]
      BY <1>0, <2>3 DEF StopEnds, ClickRestart, StopTimesOut
    <3>2. PICK s \in {"start", "stop", "idle"}, w \in Daemons \cup {None} :
            app' = [app EXCEPT ![a].stage = s, ![a].wait = w]
      BY <3>1
    <3>3. PICK r : r = [app[a] EXCEPT !.stage = s, !.wait = w]
      OBVIOUS
    <3>4. r.cmd = app[a].cmd /\ r.stage # "none" /\ app' = [app EXCEPT ![a] = r]
      BY <1>0, <3>2, <3>3 DEF App
    <3>5. doomed' = doomed /\ \E c : daemon' = daemon \/ daemon' = Signalled(c)
      BY <2>3 DEF StopEnds, ClickRestart, StopTimesOut
    <3>6. PICK c : daemon' = daemon \/ daemon' = Signalled(c)
      BY <3>5
    <3> QED BY <3>4, <3>5, <3>6, MoveRemembers
  <2>4. CASE ClickQuit(a) \/ Terminate(a)
    <3>1. PICK r : /\ r = [app[a] EXCEPT !.stage = "ended", !.leave = "asked"]
                      \/ (r = [app[a] EXCEPT !.leave = "asked"] /\ Runs(a))
                   /\ app' = [app EXCEPT ![a] = r]
      BY <2>4 DEF ClickQuit, Terminate, Runs
    <3>2. r.cmd = app[a].cmd /\ r.stage # "none"
      BY <1>0, <3>1 DEF App, Runs
    <3>3. daemon' = daemon /\ doomed' = doomed
      BY <2>4 DEF ClickQuit, Terminate
    <3> QED BY <3>1, <3>2, <3>3, MoveRemembers
  <2>5. CASE Leave(a) /\ ~End({a}, {})
    <3>1. PICK r : r = [app[a] EXCEPT !.leave = "stop", !.last = app[a].cmd]
      OBVIOUS
    <3>2. app' = [app EXCEPT ![a] = r] /\ app[a].cmd # None
      BY <2>5, <3>1 DEF Leave
    <3>3. app[a] # NoApp
      BY <3>2, NobodyTyped
    <3>4. r.cmd = app[a].cmd /\ r.stage # "none"
      BY <1>0, <3>1, <3>3 DEF App, Remembered, Runs
    <3>5. daemon' = Signalled(app[a].cmd) /\ doomed' = doomed
      BY <2>5 DEF Leave
    <3> QED BY <3>2, <3>4, <3>5, MoveRemembers
  <2> QED BY <1>5, <2>1, <2>2, <2>3, <2>4, <2>5
<1> QED BY <1>1, <1>2, <1>3, <1>4, <1>5
        DEF AppStep, AppTimeout, AppEvent, LeaveEnds, LeaveTimesOut, AppDies, AppCrashes

LEMMA DaemonStepRemembers ==
  ASSUME ProcessesInv, Remembered, NEW d \in Daemons, DaemonStep(d) \/ DaemonCrashes(d)
  PROVE  Remembered'
<1>0. daemon \in [Daemons -> Daemon] /\ daemon[d] \in Daemon
  BY DEF ProcessesInv, ProcessesTyped
<1>1. CASE End({}, {d})
  BY <1>1, EndRemembers
<1>2. CASE ~End({}, {d})
  <2>1. \E r : /\ daemon' = [daemon EXCEPT ![d] = r] /\ UNCHANGED <<app, doomed>>
               /\ r.parent = daemon[d].parent /\ r.stage # "none"
    <3>1. CASE Load(d)
      <4>1. PICK r : r = [daemon[d] EXCEPT !.stage = "dial", !.loaded = config]
        OBVIOUS
      <4> QED BY <1>0, <1>2, <3>1, <4>1 DEF Load, Daemon
    <3>2. CASE BindPort(d)
      <4>1. PICK r : r = [daemon[d] EXCEPT !.http = "bound"]
        OBVIOUS
      <4> QED BY <1>0, <1>2, <3>2, <4>1 DEF BindPort, Daemon, Alive
    <3>3. CASE Dial(d) \/ Remove(d) \/ Bind(d)
      <4>1. PICK s \in {"bind", "remove", "listen"} : Enter(d, s)
        BY <1>2, <3>3 DEF Dial, Remove, Bind
      <4>2. PICK r : r = [daemon[d] EXCEPT !.stage = s]
        OBVIOUS
      <4>3. r.parent = daemon[d].parent /\ r.stage = s
        BY <1>0, <4>2 DEF Daemon
      <4>4. daemon' = [daemon EXCEPT ![d] = r] /\ UNCHANGED <<app, doomed>>
        BY <4>1, <4>2 DEF Enter
      <4> QED BY <4>3, <4>4
    <3> QED BY <1>2, <3>1, <3>2, <3>3 DEF DaemonStep, DaemonCrashes, ParentWatch, DaemonDies
  <2>2. PICK r : /\ daemon' = [daemon EXCEPT ![d] = r] /\ UNCHANGED <<app, doomed>>
                 /\ r.parent = daemon[d].parent /\ r.stage # "none"
    BY <2>1
  <2>3. daemon'[d] = r /\ \A e \in Daemons : e # d => daemon'[e] = daemon[e]
    BY <1>0, <2>2
  <2> QED BY <2>2, <2>3, DaemonRemembers
<1> QED BY <1>1, <1>2

LEMMA CommandRemembers ==
  ASSUME ProcessesInv, Remembered, CliStep \/ CommandFails \/ \E op \in Commands : Begin(op)
  PROVE  Remembered'
<1>0. doomed \subseteq Apps /\ \A b \in Apps : app[b].cmd # None => app[b].cmd \in Daemons
  BY DEF ProcessesInv, ProcessesTyped, App
<1>1. CASE Bootout \/ Kick
  <2>1. End({job} \cap Apps, {})
    BY <1>1 DEF Bootout, Kick
  <2> QED BY <2>1, EndRemembers
<1>2. CASE List
  BY <1>0, <1>2 DEF List, Remembered, Runs
<1>3. CASE UNCHANGED processes
  BY <1>0, <1>3 DEF processes, Remembered, Runs
<1>4. CASE Spawn
  <2>1. PICK a \in Apps : /\ app[a].stage = "none" /\ app' = [app EXCEPT ![a].stage = "lock"]
                          /\ UNCHANGED <<daemon, sock, doomed>>
    BY <1>4 DEF Spawn
  <2> QED BY <2>1, OpenRemembers
<1> QED BY <1>1, <1>2, <1>3, <1>4
        DEF CliStep, Cleaned, SocketGone, PortGone, ProbeStatus, ProbeHealth, CommandFails, Begin,
            Bootstrap, Kickstart

\* The link holds whatever happens.
LEMMA RememberedKeeps ==
  ASSUME ProcessesInv, Remembered, [Next]_vars
  PROVE  Remembered'
<1>1. CASE UNCHANGED vars
  <2>1. \A b \in Apps : app[b].cmd # None => app[b].cmd \in Daemons
    BY DEF ProcessesInv, ProcessesTyped, App
  <2>2. doomed \subseteq Apps
    BY DEF ProcessesInv, ProcessesTyped
  <2> QED BY <1>1, <2>1, <2>2 DEF vars, Remembered, Runs
<1> QED BY <1>1, AppRemembers, DaemonStepRemembers, CommandRemembers DEF Next

-----------------------------------------------------------------------------
(* What an onboarding meets when nobody disturbs it                        *)

\* Before the cleaning is over, the processes only end: an app that was killed, ...
LEMMA AppsBefore ==
  ASSUME ProcessesInv, Remembered, Before, NEW a \in Apps, AppStep(a) \/ AppTimeout(a)
  PROVE  AppDies(a)
<1>1. app[a] = NoApp \/ (app[a].stage = "idle" /\ app[a].leave = "no" /\ app[a].cmd # None)
  BY DEF Before, Remembered
<1>2. app[a].stage \in {"none", "idle"} /\ app[a].leave = "no"
  BY <1>1, NobodyTyped
<1>3. ~Reap(a)
  <2> SUFFICES ASSUME Reap(a) PROVE FALSE
    OBVIOUS
  <2>1. app[a].cmd \in Daemons /\ daemon[app[a].cmd].stage = "zombie"
    BY DEF Reap, ProcessesInv, ProcessesTyped, App
  <2> QED BY <2>1 DEF Before
<1> QED BY <1>2, <1>3
        DEF AppStep, AppTimeout, Lock, StartDaemon, StartNothing, Starting, StopEnds, StopTimesOut,
            Leave, LeaveEnds, LeaveTimesOut

\* ... or a daemon whose app is gone.
LEMMA DaemonsBefore ==
  ASSUME Before, NEW d \in Daemons, DaemonStep(d)
  PROVE  daemon[d].parent = None /\ End({}, {d})
<1>1. daemon[d].stage # "none"
  BY DEF DaemonStep, Load, BindPort, Dial, Remove, Bind, ParentWatch, DaemonDies, Alive
<1>2. daemon[d].stage = "listen" /\ daemon[d].http = "bound" /\ daemon[d].signal = "no"
  BY <1>1 DEF Before
<1> QED BY <1>2 DEF DaemonStep, Load, BindPort, Dial, Remove, Bind, ParentWatch, DaemonDies

LEMMA EndBefore ==
  ASSUME ProcessesInv, Before, NEW as \in SUBSET Apps, NEW ds \in SUBSET Daemons, End(as, ds),
         \A d \in ds : daemon[d].parent \notin Apps \ as
  PROVE  Before'
<1>0. ProcessesTyped /\ NoApp.stage = "none" /\ NoDaemon.stage = "none"
  BY NobodyTyped DEF ProcessesInv
<1> DEFINE all == ds \cup Group(as)
<1>1. \A d \in all : daemon[d].parent \notin Apps \ as
  BY DEF Group, Children
<1>2. sock' = (IF sock \in all THEN Stale ELSE sock)
  BY DEF End
<1>3. ASSUME NEW a \in Apps, Runs(a)'
      PROVE  app'[a].stage = "idle" /\ app'[a].leave = "no" /\ app'[a].cmd # None
  <2>1. (a \in as /\ app'[a] = NoApp) \/ (a \notin as /\ app'[a] = app[a])
    BY DEF End
  <2>2. app'[a] = app[a] /\ Runs(a)
    BY <1>0, <1>3, <2>1 DEF Runs
  <2> QED BY <2>2 DEF Before
<1>4. ASSUME NEW d \in Daemons, daemon'[d].stage # "none"
      PROVE  /\ daemon'[d].stage = "listen" /\ daemon'[d].http = "bound" /\ sock' = d
             /\ daemon'[d].signal = "no"
  <2>1. d \notin all
    <3> SUFFICES ASSUME d \in all PROVE FALSE
      OBVIOUS
    <3>1. daemon[d].parent \notin Apps \ as
      BY <1>1
    <3>2. daemon' = Ended(as, all)
      BY DEF End
    <3>3. daemon'[d] = NoDaemon
      BY <3>1, <3>2 DEF Ended
    <3> QED BY <1>0, <1>4, <3>3
  <2>2. daemon' = Ended(as, all)
    BY DEF End
  <2> HIDE DEF all
  <2>3. daemon'[d] \in {NoDaemon, daemon[d], [daemon[d] EXCEPT !.parent = None]}
    BY <2>1, <2>2 DEF Ended
  <2>4. daemon[d] \in Daemon
    BY <1>0 DEF ProcessesTyped
  <2>5. /\ daemon'[d].stage = daemon[d].stage /\ daemon'[d].http = daemon[d].http
        /\ daemon'[d].signal = daemon[d].signal
    BY <1>0, <1>4, <2>3, <2>4 DEF Daemon
  <2>6. daemon[d].stage = "listen" /\ daemon[d].http = "bound" /\ sock = d /\ daemon[d].signal = "no"
    BY <1>4, <2>5 DEF Before
  <2> QED BY <1>2, <2>1, <2>5, <2>6
<1> QED BY <1>3, <1>4 DEF Before

\* When nobody listens any more, the app and the daemon are gone.
LEMMA CleanedMeansNobody ==
  ASSUME ProcessesInv, Remembered, Before, ~Listens(sock)
  PROVE  Nobody
<1>1. \A d \in Daemons : daemon[d].stage = "none"
  BY DEF Before, Listens
<1>2. ASSUME NEW a \in Apps, Runs(a)
      PROVE  FALSE
  <2>1. app[a].cmd # None /\ app[a].cmd \in Daemons
    BY <1>2 DEF Before, ProcessesInv, ProcessesTyped, App
  <2> QED BY <1>1, <2>1 DEF Remembered
<1> QED BY <1>1, <1>2 DEF Nobody

\* Nobody does nothing.
LEMMA NobodyRests ==
  ASSUME ProcessesInv, Remembered, Nobody
  PROVE  /\ doomed = {} /\ \A a \in Apps : app[a] = NoApp
         /\ \A a \in Apps : ~AppStep(a) /\ ~AppTimeout(a)
         /\ \A d \in Daemons : ~DaemonStep(d) /\ daemon[d].http = "no"
<1>1. doomed = {} /\ \A a \in Apps : app[a] = NoApp
  BY DEF Nobody, Remembered, ProcessesInv, ProcessesTyped
<1>2. \A a \in Apps : app[a].stage = "none" /\ app[a].leave = "no" /\ app[a].cmd = None
  BY <1>1, NobodyTyped
<1>3. ASSUME NEW a \in Apps
      PROVE  ~AppStep(a) /\ ~AppTimeout(a)
  BY <1>1, <1>2, <1>3
     DEF AppStep, AppTimeout, Lock, StartDaemon, StartNothing, Starting, Reap, StopEnds,
         StopTimesOut, Leave, LeaveEnds, LeaveTimesOut, AppDies
<1>4. ASSUME NEW d \in Daemons
      PROVE  ~DaemonStep(d) /\ daemon[d].http = "no"
  <2>1. daemon[d].stage = "none"
    BY DEF Nobody
  <2>2. ~DaemonStep(d)
    BY <2>1 DEF DaemonStep, Load, BindPort, Dial, Remove, Bind, ParentWatch, DaemonDies, Alive
  <2>3. daemon[d].http = "no"
    BY <2>1 DEF ProcessesInv, ProcessesTyped, Daemon
  <2> QED BY <2>2, <2>3
<1> QED BY <1>1, <1>3, <1>4

\* The job's app starts its daemon, and leaves one that runs alone.
LEMMA AppsAfter ==
  ASSUME ProcessesInv, Remembered, After, UNCHANGED config,
         NEW a \in Apps, AppStep(a) \/ AppTimeout(a)
  PROVE  After' /\ sock' = sock /\ \A d \in Daemons : Alive(d) => daemon'[d] = daemon[d]
<1>0. ProcessesTyped /\ app[a] \in App /\ doomed = {} /\ app \in [Apps -> App]
      /\ daemon \in [Daemons -> Daemon]
  BY DEF ProcessesInv, ProcessesTyped, After
<1>1. a = job /\ app[a].stage \in {"lock", "ready", "idle"} /\ app[a].leave = "no"
  <2>1. CASE Runs(a)
    BY <2>1 DEF After
  <2>2. CASE ~Runs(a)
    <3>1. app[a] = NoApp /\ app[a].stage = "none" /\ app[a].cmd = None /\ app[a].leave = "no"
      BY <2>2, NobodyTyped DEF Remembered
    <3> QED BY <1>0, <3>1 DEF AppStep, AppTimeout, Lock, StartDaemon, StartNothing, Starting, Reap,
                StopEnds, StopTimesOut, Leave, LeaveEnds, LeaveTimesOut, AppDies, Runs
  <2> QED BY <2>1, <2>2
<1>2. ASSUME UNCHANGED <<sock, job, doomed>>, NEW r \in App, app' = [app EXCEPT ![a] = r],
             r.stage \in {"ready", "idle"} \cup {app[a].stage}, r.leave = "no",
             \A d \in Daemons :
               \/ daemon'[d] = daemon[d]
               \/ /\ ~Alive(d)
                  /\ daemon'[d].stage \in {"none", "load"} /\ daemon'[d].signal = "no"
                  /\ daemon'[d].stage = "load" => daemon'[d].parent = a
      PROVE  After' /\ sock' = sock /\ \A d \in Daemons : Alive(d) => daemon'[d] = daemon[d]
  <2>1. app'[a] = r /\ \A b \in Apps : b # a => app'[b] = app[b]
    BY <1>0, <1>2
  <2>2. \A b \in Apps : Runs(b)' =>
          b = job' /\ app'[b].stage \in {"lock", "ready", "idle"} /\ app'[b].leave = "no"
    BY <1>1, <1>2, <2>1 DEF After, Runs
  <2>3. \A d \in Daemons : daemon'[d].stage # "none" =>
          /\ daemon'[d].parent = job' /\ job' \in Apps /\ daemon'[d].signal = "no"
          /\ daemon'[d].stage \notin {"load", "zombie"} => daemon'[d].loaded = config'
    BY <1>1, <1>2 DEF After
  <2>4. doomed' = {}
    BY <1>0, <1>2
  <2> QED BY <1>2, <2>2, <2>3, <2>4 DEF After
<1>3. CASE Lock(a)
  <2>1. \A b \in Apps : app[b].stage \in {"none", "lock"}
    BY <1>1, <1>3 DEF After, Runs, Lock
  <2>2. app' = [app EXCEPT ![a].stage = "ready"] /\ UNCHANGED <<daemon, sock, job, doomed>>
    BY <1>3, <2>1 DEF Lock
  <2>3. PICK r : r = [app[a] EXCEPT !.stage = "ready"]
    OBVIOUS
  <2>4. r \in App /\ r.stage = "ready" /\ r.leave = "no"
    BY <1>0, <1>1, <2>3 DEF App
  <2> QED BY <1>2, <2>2, <2>3, <2>4
<1>4. CASE StartNothing(a)
  <2>1. PICK r : r = [app[a] EXCEPT !.stage = "idle"]
    OBVIOUS
  <2>2. r \in App /\ r.stage = "idle" /\ r.leave = "no"
    BY <1>0, <1>1, <2>1 DEF App
  <2> QED BY <1>2, <1>4, <2>1, <2>2 DEF StartNothing
<1>5. CASE StartDaemon(a)
  <2>1. PICK d \in Daemons :
          /\ FreeDaemon(d)
          /\ app' = [app EXCEPT ![a].stage = "idle", ![a].cmd = d]
          /\ daemon' = [e \in Daemons |->
               IF e = d THEN [NoDaemon EXCEPT !.stage = "load", !.parent = a]
               ELSE IF e = app[a].cmd THEN NoDaemon ELSE daemon[e]]
    BY <1>5 DEF StartDaemon
  <2>2. PICK r : r = [app[a] EXCEPT !.stage = "idle", !.cmd = d]
    OBVIOUS
  <2>3. r \in App /\ r.stage = "idle" /\ r.leave = "no"
    BY <1>0, <1>1, <2>2 DEF App
  <2>4. NoDaemon.stage = "none" /\ NoDaemon.signal = "no"
    BY DEF NoDaemon
  <2>5. ASSUME NEW e \in Daemons
        PROVE  \/ daemon'[e] = daemon[e]
               \/ /\ ~Alive(e)
                  /\ daemon'[e].stage \in {"none", "load"} /\ daemon'[e].signal = "no"
                  /\ daemon'[e].stage = "load" => daemon'[e].parent = a
    <3>1. CASE e = d
      <4>1. ~Alive(e)
        BY <2>1, <3>1 DEF FreeDaemon, Alive
      <4>2. daemon'[e] = [NoDaemon EXCEPT !.stage = "load", !.parent = a]
        BY <2>1, <3>1
      <4> QED BY <4>1, <4>2 DEF NoDaemon
    <3>2. CASE e # d /\ e = app[a].cmd
      <4>1. ~Alive(e)
        BY <1>5, <3>2 DEF StartDaemon, NoChild, Alive
      <4>2. daemon'[e] = NoDaemon
        BY <2>1, <3>2
      <4> QED BY <2>4, <4>1, <4>2
    <3>3. CASE e # d /\ e # app[a].cmd
      BY <2>1, <3>3
    <3> QED BY <3>1, <3>2, <3>3
  <2>6. app' = [app EXCEPT ![a] = r] /\ UNCHANGED <<sock, job, doomed>>
    BY <1>0, <1>5, <2>1, <2>2 DEF StartDaemon
  <2> QED BY <1>2, <2>3, <2>5, <2>6
<1>6. CASE Reap(a)
  <2>1. PICK r : r = [app[a] EXCEPT !.cmd = None]
    OBVIOUS
  <2>2. r \in App /\ r.stage = app[a].stage /\ r.leave = "no"
    BY <1>0, <1>1, <2>1 DEF App
  <2>3. NoDaemon.stage = "none" /\ NoDaemon.signal = "no"
    BY DEF NoDaemon
  <2>4. ASSUME NEW e \in Daemons
        PROVE  \/ daemon'[e] = daemon[e]
               \/ /\ ~Alive(e)
                  /\ daemon'[e].stage \in {"none", "load"} /\ daemon'[e].signal = "no"
                  /\ daemon'[e].stage = "load" => daemon'[e].parent = a
    <3>1. daemon' = [daemon EXCEPT ![app[a].cmd] = NoDaemon] /\ daemon[app[a].cmd].stage = "zombie"
      BY <1>6 DEF Reap
    <3>2. CASE e = app[a].cmd
      BY <1>0, <2>3, <3>1, <3>2 DEF Alive
    <3>3. CASE e # app[a].cmd
      BY <1>0, <3>1, <3>3
    <3> QED BY <3>2, <3>3
  <2>5. app' = [app EXCEPT ![a] = r] /\ UNCHANGED <<sock, job, doomed>>
    BY <1>6, <2>1 DEF Reap
  <2> QED BY <1>2, <2>2, <2>4, <2>5
<1> QED BY <1>0, <1>1, <1>3, <1>4, <1>5, <1>6
        DEF AppStep, AppTimeout, StopEnds, StopTimesOut, Leave, LeaveEnds, LeaveTimesOut, AppDies

\* Then only one daemon runs at a time.
LEMMA OneDaemonAfter ==
  ASSUME ProcessesInv, After, NEW d \in Daemons, Alive(d)
  PROVE  job \in Apps /\ daemon[d].parent = job /\ app[job].cmd = d
<1>1. daemon[d].parent = job /\ job \in Apps
  BY DEF After, Alive
<1> QED BY <1>1 DEF ProcessesInv, OneChild, Children

\* A daemon loads what was saved last, or ends and waits to be reaped, ...
LEMMA DaemonsAfter ==
  ASSUME ProcessesInv, After, UNCHANGED config, NEW d \in Daemons, DaemonStep(d)
  PROVE  After'
<1>0. /\ daemon[d] \in Daemon /\ daemon \in [Daemons -> Daemon] /\ None \notin Apps /\ doomed = {}
      /\ ProcessesTyped
  BY ProcessesAssumption DEF ProcessesInv, ProcessesTyped, After
<1>1. Alive(d) /\ daemon[d].parent = job /\ job \in Apps /\ daemon[d].signal = "no"
  <2>1. Alive(d)
    BY DEF DaemonStep, Load, BindPort, Dial, Remove, Bind, ParentWatch, DaemonDies, Alive
  <2> QED BY <2>1 DEF After, Alive
<1>2. ASSUME \A a \in Apps : app'[a] = app[a], UNCHANGED <<job, doomed>>,
             daemon'[d].parent = job, daemon'[d].signal = "no",
             daemon'[d].stage \notin {"load", "zombie"} => daemon'[d].loaded = config,
             \A e \in Daemons : e # d => daemon'[e] = daemon[e]
      PROVE  After'
  <2>1. \A b \in Apps : Runs(b)' =>
          b = job' /\ app'[b].stage \in {"lock", "ready", "idle"} /\ app'[b].leave = "no"
    BY <1>2 DEF After, Runs
  <2>2. \A e \in Daemons : daemon'[e].stage # "none" =>
          /\ daemon'[e].parent = job' /\ job' \in Apps /\ daemon'[e].signal = "no"
          /\ daemon'[e].stage \notin {"load", "zombie"} => daemon'[e].loaded = config'
    BY <1>1, <1>2 DEF After
  <2> QED BY <1>0, <1>2, <2>1, <2>2 DEF After
<1>3. CASE End({}, {d})
  <2>1. Group({}) = {}
    BY DEF Group
  <2>2. /\ app' = [a \in Apps |-> IF a \in {} THEN NoApp ELSE app[a]]
        /\ daemon' = Ended({}, {d} \cup Group({})) /\ job' = (IF job \in {} THEN None ELSE job)
        /\ doomed' = doomed \ {}
    BY <1>3 DEF End
  <2>3. daemon' = Ended({}, {d}) /\ job' = job /\ doomed' = doomed /\ \A a \in Apps : app'[a] = app[a]
    BY <2>1, <2>2
  <2>4. daemon'[d] = [NoDaemon EXCEPT !.stage = "zombie", !.parent = daemon[d].parent]
    BY <1>1, <2>3 DEF Ended
  <2>5. daemon'[d].parent = job /\ daemon'[d].signal = "no" /\ daemon'[d].stage = "zombie"
    BY <1>1, <2>4 DEF NoDaemon
  <2>6. \A e \in Daemons : e # d => daemon'[e] = daemon[e]
    BY <2>3 DEF Ended
  <2> QED BY <1>2, <2>3, <2>5, <2>6
<1>4. CASE ~End({}, {d})
  <2>1. ASSUME NEW r, daemon' = [daemon EXCEPT ![d] = r], UNCHANGED <<app, job, doomed>>,
               r.parent = daemon[d].parent, r.signal = daemon[d].signal,
               r.stage \notin {"load", "zombie"} => r.loaded = config
        PROVE  After'
    <3>1. daemon'[d] = r /\ \A e \in Daemons : e # d => daemon'[e] = daemon[e]
      BY <1>0, <2>1
    <3> QED BY <1>1, <1>2, <2>1, <3>1
  <2>2. CASE Load(d)
    <3>1. PICK r : r = [daemon[d] EXCEPT !.stage = "dial", !.loaded = config]
      OBVIOUS
    <3>2. r.parent = daemon[d].parent /\ r.signal = daemon[d].signal /\ r.loaded = config
      BY <1>0, <3>1 DEF Daemon
    <3> QED BY <1>4, <2>1, <2>2, <3>1, <3>2 DEF Load
  <2>3. CASE BindPort(d)
    <3>1. PICK r : r = [daemon[d] EXCEPT !.http = "bound"]
      OBVIOUS
    <3>2. /\ r.parent = daemon[d].parent /\ r.signal = daemon[d].signal
          /\ r.stage = daemon[d].stage /\ r.loaded = daemon[d].loaded
      BY <1>0, <3>1 DEF Daemon
    <3>3. daemon[d].loaded = config
      BY <1>1, <2>3 DEF BindPort, After, Alive
    <3> QED BY <1>4, <2>1, <2>3, <3>1, <3>2, <3>3 DEF BindPort
  <2>4. CASE Dial(d) \/ Remove(d) \/ Bind(d)
    <3>1. PICK s \in {"bind", "remove", "listen"} : Enter(d, s)
      BY <1>4, <2>4 DEF Dial, Remove, Bind
    <3>2. PICK r : r = [daemon[d] EXCEPT !.stage = s]
      OBVIOUS
    <3>3. r.parent = daemon[d].parent /\ r.signal = daemon[d].signal /\ r.loaded = daemon[d].loaded
      BY <1>0, <3>2 DEF Daemon
    <3>4. daemon[d].loaded = config
      BY <2>4 DEF Dial, Remove, Bind, After
    <3>5. daemon' = [daemon EXCEPT ![d] = r] /\ UNCHANGED <<app, job, doomed>>
      BY <3>1, <3>2 DEF Enter
    <3> QED BY <2>1, <3>3, <3>4, <3>5
  <2> QED BY <1>0, <1>1, <1>4, <2>2, <2>3, <2>4 DEF DaemonStep, ParentWatch, DaemonDies
<1> QED BY <1>3, <1>4

\* ... and one that listens on the socket goes on to serve.
LEMMA ServingStays ==
  ASSUME ProcessesInv, After, NEW d \in Daemons, DaemonStep(d), Listens(sock)
  PROVE  /\ Listens(sock)' /\ sock' = sock
         /\ daemon[sock].http = "bound" => daemon'[sock].http = "bound"
<1>0. daemon \in [Daemons -> Daemon] /\ daemon[d] \in Daemon /\ sock \in Daemons /\ Alive(sock)
      /\ None \notin Apps
  BY ProcessesAssumption DEF ProcessesInv, ProcessesTyped, Listens, Alive
<1>1. Alive(d)
  BY DEF DaemonStep, Load, BindPort, Dial, Remove, Bind, ParentWatch, DaemonDies, Alive
<1>2. d = sock
  BY <1>0, <1>1, OneDaemonAfter
<1>3. daemon[d].stage = "listen" /\ daemon[d].parent # None /\ daemon[d].signal = "no"
  BY <1>0, <1>1, <1>2, OneDaemonAfter DEF Listens, After, Alive
<1>4. BindPort(d)
  BY <1>3 DEF DaemonStep, Load, Dial, Remove, Bind, ParentWatch, DaemonDies
<1>5. ~PortBound
  <2> SUFFICES ASSUME NEW e \in Daemons, daemon[e].http = "bound" PROVE FALSE
    BY DEF PortBound
  <2>1. Alive(e)
    BY DEF ProcessesInv, ProcessesTyped, Alive
  <2>2. e = d
    BY <1>1, <2>1, OneDaemonAfter
  <2> QED BY <1>4, <2>2 DEF BindPort
<1>6. daemon' = [daemon EXCEPT ![d].http = "bound"] /\ sock' = sock
  BY <1>4, <1>5 DEF BindPort
<1>7. daemon'[d].stage = "listen" /\ daemon'[d].http = "bound"
  BY <1>0, <1>3, <1>6 DEF Daemon
<1> QED BY <1>0, <1>2, <1>6, <1>7 DEF Listens

-----------------------------------------------------------------------------
(* Each step of an onboarding that nobody disturbs                         *)

\* The app and the daemon that serve between two steps of the command.
LEMMA OthersKeepPhase ==
  ASSUME LifecycleInv, Remembered, OnboardPhase, UNCHANGED world, cli.op = "onboard",
         \/ \E a \in Apps : AppStep(a) \/ AppTimeout(a)
         \/ \E d \in Daemons : DaemonStep(d)
  PROVE  cli.stage \in {"idle"} \/ OnboardPhase'
<1>0. ProcessesInv /\ cli' = cli /\ config' = config /\ loaded' = loaded
  BY InvInTwo DEF world
<1>1. cli.stage \in {"idle", "bootout", "list", "wait", "socket", "port", "bootstrap",
                     "kick", "spawn", "status", "health", "done"}
  BY DEF LifecycleInv, TypeOK, Cli
<1>2. CASE cli.stage \in {"bootout", "list", "wait", "socket"}
  <2>1. Before
    BY <1>2 DEF OnboardPhase
  <2>2. Before'
    <3>1. ASSUME NEW a \in Apps, AppStep(a) \/ AppTimeout(a)
          PROVE  Before'
      <4>1. End({a}, {})
        BY <1>0, <2>1, <3>1, AppsBefore DEF AppDies
      <4> QED BY <1>0, <2>1, <4>1, EndBefore
    <3>2. ASSUME NEW d \in Daemons, DaemonStep(d)
          PROVE  Before'
      <4>1. daemon[d].parent = None /\ End({}, {d}) /\ None \notin Apps
        BY <2>1, <3>2, DaemonsBefore, ProcessesAssumption
      <4> QED BY <1>0, <2>1, <4>1, EndBefore
    <3> QED BY <3>1, <3>2
  <2> QED BY <1>0, <1>2, <2>2 DEF OnboardPhase
<1>3. CASE cli.stage \in {"port", "bootstrap", "spawn"}
  <2>1. Nobody
    BY <1>3 DEF OnboardPhase
  <2> QED BY <1>0, <2>1, NobodyRests
<1>4. CASE cli.stage \in {"kick", "status", "health", "done"}
  <2>1. After
    BY <1>4 DEF OnboardPhase
  <2>2. After' /\ (Listens(sock) => Listens(sock)' /\ sock' = sock
                     /\ (daemon[sock].http = "bound" => daemon'[sock].http = "bound"))
    <3>1. ASSUME NEW a \in Apps, AppStep(a) \/ AppTimeout(a)
          PROVE  After' /\ sock' = sock /\ \A d \in Daemons : Alive(d) => daemon'[d] = daemon[d]
      BY <1>0, <2>1, <3>1, AppsAfter
    <3>2. ASSUME After' /\ sock' = sock, \A d \in Daemons : Alive(d) => daemon'[d] = daemon[d]
          PROVE  Listens(sock) => Listens(sock)' /\ sock' = sock
                   /\ (daemon[sock].http = "bound" => daemon'[sock].http = "bound")
      BY <3>2 DEF Listens, Alive
    <3>3. ASSUME NEW d \in Daemons, DaemonStep(d)
          PROVE  After' /\ (Listens(sock) => Listens(sock)' /\ sock' = sock
                     /\ (daemon[sock].http = "bound" => daemon'[sock].http = "bound"))
      BY <1>0, <2>1, <3>3, DaemonsAfter, ServingStays
    <3> QED BY <3>1, <3>2, <3>3
  <2>3. cli.stage \in {"health", "done"} => Listens(sock)
    BY DEF OnboardPhase
  <2>4. cli.stage = "done" => daemon[sock].http = "bound"
    BY DEF OnboardPhase
  <2> QED BY <1>0, <1>4, <2>2, <2>3, <2>4 DEF OnboardPhase
<1> QED BY <1>1, <1>2, <1>3, <1>4

\* launchctl bootout ends the app that runs as the job.
LEMMA BootoutPhase ==
  ASSUME ProcessesInv, Before, Bootout
  PROVE  OnboardPhase'
<1>1. End({job} \cap Apps, {}) /\ loaded' = FALSE /\ cli' = [cli EXCEPT !.stage = "list"]
  BY DEF Bootout, Goto
<1>2. Before'
  BY <1>1, EndBefore
<1> QED BY <1>1, <1>2 DEF OnboardPhase

\* A new job's app is the only one.
LEMMA SpawnAfter ==
  ASSUME ProcessesInv, Remembered, Nobody, Spawn
  PROVE  After'
<1>1. PICK a \in Apps : app' = [app EXCEPT ![a].stage = "lock"] /\ job' = a
                        /\ UNCHANGED <<daemon, sock, doomed>>
  BY DEF Spawn
<1>2. app \in [Apps -> App] /\ app[a] = NoApp /\ doomed = {} /\ NoApp \in App /\ NoApp.leave = "no"
  BY NobodyRests, NobodyTyped DEF ProcessesInv, ProcessesTyped
<1>3. app'[a].stage = "lock" /\ app'[a].leave = "no" /\ \A b \in Apps : b # a => app'[b] = app[b]
  BY <1>1, <1>2 DEF App
<1> QED BY <1>1, <1>2, <1>3 DEF Nobody, After, Runs

\* launchctl kickstart -k ends that app and its children.
LEMMA KickNobody ==
  ASSUME GroupKill, ProcessesInv, After, Kick
  PROVE  Nobody'
<1> DEFINE as == {job} \cap Apps
<1>1. /\ daemon' = Ended(as, {} \cup Group(as))
      /\ app' = [a \in Apps |-> IF a \in as THEN NoApp ELSE app[a]]
      /\ NoApp.stage = "none" /\ NoDaemon.stage = "none"
  BY NobodyTyped DEF Kick, End
<1>2. Group(as) = IF job \in as THEN Children(job) ELSE {}
  BY DEF Group
<1> HIDE DEF as
<1>3. ASSUME NEW a \in Apps
      PROVE  ~Runs(a)'
  <2>1. Runs(a) => a \in as
    BY DEF After, as
  <2>2. (a \in as /\ app'[a] = NoApp) \/ (a \notin as /\ app'[a] = app[a])
    BY <1>1
  <2> QED BY <1>1, <2>1, <2>2 DEF Runs
<1>4. ASSUME NEW d \in Daemons
      PROVE  daemon'[d].stage = "none"
  <2>1. CASE daemon[d].stage = "none"
    <3>1. d \notin Group(as)
      BY <1>2, <2>1 DEF Children, Alive
    <3>2. daemon'[d] \in {NoDaemon, daemon[d]}
      BY <1>1, <2>1, <3>1 DEF Ended, Alive
    <3> QED BY <1>1, <2>1, <3>2
  <2>2. CASE daemon[d].stage # "none"
    <3>1. daemon[d].parent = job /\ job \in as
      BY <2>2 DEF After, as
    <3>2. d \in Group(as) <=> Alive(d)
      BY <1>2, <3>1 DEF Children
    <3>3. daemon'[d] = NoDaemon
      BY <1>1, <3>1, <3>2 DEF Ended
    <3> QED BY <1>1, <3>3
  <2> QED BY <2>1, <2>2
<1> QED BY <1>3, <1>4 DEF Nobody

\* The steps of the onboarding itself.
LEMMA CommandKeepsPhase ==
  ASSUME GroupKill, LifecycleInv, Remembered, OnboardPhase, cli.op = "onboard", CliStep
  PROVE  OnboardPhase'
<1>0. ProcessesInv /\ cli \in Cli
  BY InvInTwo DEF WorldTyped
<1>1. CASE Bootout
  BY <1>0, <1>1, BootoutPhase DEF Bootout, OnboardPhase
<1>2. CASE List \/ Cleaned
  <2>1. Before /\ ~loaded /\ cli'.stage \in {"wait", "socket"} /\ UNCHANGED <<app, daemon, sock, loaded>>
    BY <1>0, <1>2 DEF List, Cleaned, Goto, processes, OnboardPhase, Cli
  <2>2. Before'
    BY <2>1 DEF Before, Runs
  <2> QED BY <2>1, <2>2 DEF OnboardPhase
<1>3. CASE SocketGone
  <2>1. Before /\ ~loaded /\ ~Listens(sock) /\ UNCHANGED processes /\ UNCHANGED loaded
        /\ cli'.stage = "port"
    BY <1>0, <1>3 DEF SocketGone, Goto, OnboardPhase, Cli
  <2>2. Nobody
    BY <1>0, <2>1, CleanedMeansNobody
  <2>3. Nobody'
    BY <2>1, <2>2 DEF Nobody, Runs, processes
  <2> QED BY <2>1, <2>3 DEF OnboardPhase
<1>4. CASE PortGone
  <2>1. Nobody /\ ~loaded /\ UNCHANGED processes /\ UNCHANGED loaded
        /\ cli'.stage = IF PortBound THEN "socket" ELSE "bootstrap"
    BY <1>0, <1>4 DEF PortGone, Goto, OnboardPhase, Cli
  <2>2. ~PortBound
    BY <1>0, <2>1, NobodyRests DEF PortBound
  <2>3. Nobody'
    BY <2>1 DEF Nobody, Runs, processes
  <2> QED BY <2>1, <2>2, <2>3 DEF OnboardPhase
<1>5. CASE Bootstrap
  <2>1. Nobody /\ ~loaded /\ Spawn /\ cli'.stage = "kick"
    BY <1>0, <1>5 DEF Bootstrap, Goto, OnboardPhase, Cli
  <2> QED BY <1>0, <2>1, SpawnAfter DEF OnboardPhase
<1>6. CASE Kick
  <2>1. After /\ cli'.stage = "spawn"
    BY <1>0, <1>6 DEF Kick, Goto, OnboardPhase, Cli
  <2> QED BY <1>0, <1>6, <2>1, KickNobody DEF OnboardPhase
<1>7. CASE Kickstart
  <2>1. Nobody /\ Spawn /\ cli'.stage = "status"
    BY <1>0, <1>7 DEF Kickstart, Goto, OnboardPhase, Cli
  <2> QED BY <1>0, <2>1, SpawnAfter DEF OnboardPhase
<1>8. CASE ProbeStatus \/ ProbeHealth
  <2>1. /\ After /\ Listens(sock) /\ UNCHANGED processes /\ config' = config
        /\ \/ cli'.stage \in {"status", "health"}
           \/ cli'.stage = "done" /\ PortBound
    BY <1>0, <1>8 DEF ProbeStatus, ProbeHealth, Goto, OnboardPhase, Cli
  <2>2. PortBound => daemon[sock].http = "bound"
    <3> SUFFICES ASSUME NEW d \in Daemons, daemon[d].http = "bound"
                 PROVE  daemon[sock].http = "bound"
      BY DEF PortBound
    <3>1. Alive(d) /\ sock \in Daemons /\ Alive(sock)
      BY <1>0, <2>1 DEF ProcessesInv, ProcessesTyped, Listens, Alive
    <3>2. d = sock
      BY <1>0, <2>1, <3>1, OneDaemonAfter
    <3> QED BY <3>2
  <2>3. After' /\ Listens(sock)' /\ daemon' = daemon /\ sock' = sock
    BY <2>1 DEF After, Listens, Runs, processes
  <2> QED BY <2>1, <2>2, <2>3 DEF OnboardPhase
<1> QED BY <1>1, <1>2, <1>3, <1>4, <1>5, <1>6, <1>7, <1>8 DEF CliStep

\* A command that fails or begins.
LEMMA NewCommandPhase ==
  ASSUME LifecycleInv, CommandFails \/ \E op \in Commands : Begin(op), calm', cli'.op = "onboard"
  PROVE  OnboardPhase'
<1>0. cli \in Cli
  BY DEF LifecycleInv, TypeOK
<1>1. CASE CommandFails
  <2>1. cli'.stage = "idle"
    BY <1>0, <1>1 DEF CommandFails, Goto, Cli
  <2> QED BY <2>1 DEF OnboardPhase
<1>2. CASE \E op \in Commands : Begin(op)
  <2>1. PICK op \in Commands : Begin(op)
    BY <1>2
  <2>2. Settled /\ UNCHANGED processes /\ calm' = (Settled /\ doomed = {})
        /\ cli' = [op |-> op, stage |-> IF op = "start" THEN "bootstrap" ELSE "bootout"]
    BY <2>1 DEF Begin
  <2>3. cli'.stage = "bootout"
    BY <2>2
  <2>4. Before'
    BY <2>2 DEF Settled, Before, Runs, processes
  <2> QED BY <2>3, <2>4 DEF OnboardPhase
<1> QED BY <1>1, <1>2

LEMMA OnboardKeeps ==
  ASSUME GroupKill, LifecycleInv, OnboardInv, [Next]_vars
  PROVE  OnboardInv'
<1>1. Remembered'
  BY InvInTwo, RememberedKeeps DEF OnboardInv
<1>2. ASSUME calm', cli'.op = "onboard"
      PROVE  OnboardPhase'
  <2>0. cli \in Cli
    BY DEF LifecycleInv, TypeOK
  <2>1. CASE UNCHANGED vars
    BY <1>2, <2>1 DEF vars, OnboardInv, OnboardPhase, Before, Nobody, After, Runs, Listens
  <2>2. CASE CommandFails \/ \E op \in Commands : Begin(op)
    BY <1>2, <2>2, NewCommandPhase
  <2>3. CASE CliStep
    <3>1. calm /\ cli.op = "onboard"
      BY <1>2, <2>0, <2>3 DEF Cli, CliStep, Goto, Bootout, List, Cleaned, SocketGone, PortGone,
         Bootstrap, Kick, Kickstart, ProbeStatus, ProbeHealth
    <3> QED BY <2>3, <3>1, CommandKeepsPhase DEF OnboardInv
  <2>4. CASE \/ \E a \in Apps : AppStep(a) \/ AppTimeout(a)
             \/ \E d \in Daemons : DaemonStep(d)
    <3>1. UNCHANGED world
      BY <2>4 DEF AppStep, AppTimeout, Lock, StartDaemon, StartNothing, Reap, StopEnds, Leave,
         LeaveEnds, AppDies, StopTimesOut, LeaveTimesOut, DaemonStep, Load, BindPort, Dial, Remove,
         Bind, ParentWatch, DaemonDies
    <3>2. calm /\ cli.op = "onboard" /\ cli' = cli
      BY <1>2, <3>1 DEF world
    <3>3. cli.stage = "idle" => OnboardPhase'
      BY <3>2 DEF OnboardPhase
    <3> QED BY <2>4, <3>1, <3>2, <3>3, OthersKeepPhase DEF OnboardInv
  <2>5. ~\E a \in Apps : AppEvent(a)
    BY <1>2 DEF AppEvent, StartFails, ClickRestart, ClickQuit, Terminate, OpenApp, AppCrashes, Event
  <2>6. ~\E d \in Daemons : DaemonCrashes(d)
    BY <1>2 DEF DaemonCrashes, Event
  <2> QED BY <2>1, <2>2, <2>3, <2>4, <2>5, <2>6 DEF Next
<1> QED BY <1>1, <1>2 DEF OnboardInv

\* When launchd kills the process group of the job that "launchctl kickstart -k"
\* restarts, an onboarding that succeeds undisturbed leaves the daemon of the app
\* it started serving with what it saved (cmd/clipctl/app.go:176-178).
THEOREM ReadyMeansServingAlways ==
  ASSUME GroupKill
  PROVE  Spec => []ReadyMeansServing
<1>1. Init => OnboardInv
  BY NobodyTyped DEF Init, OnboardInv, Remembered
<1>2. LifecycleInv /\ OnboardInv /\ [Next]_vars => OnboardInv'
  BY OnboardKeeps
<1>3. LifecycleInv /\ OnboardInv => ReadyMeansServing
  <2> SUFFICES ASSUME LifecycleInv, OnboardInv, cli.op = "onboard", cli.stage = "done", calm
               PROVE  Serving /\ daemon[sock].loaded = config
    BY DEF ReadyMeansServing
  <2>1. ProcessesInv /\ After /\ Listens(sock) /\ daemon[sock].http = "bound"
    BY InvInTwo DEF OnboardInv, OnboardPhase
  <2>2. sock \in Daemons /\ Alive(sock)
    BY <2>1 DEF Listens, Alive
  <2>3. daemon[sock].parent \in Apps /\ app[daemon[sock].parent].cmd = sock
    BY <2>1, <2>2, OneDaemonAfter
  <2>4. daemon[sock].loaded = config
    BY <2>1 DEF After, Listens
  <2> QED BY <2>1, <2>3, <2>4 DEF Serving
<1> QED BY <1>1, <1>2, <1>3, LifecycleInvHolds, PTL DEF Spec

=============================================================================
