------------------------------ MODULE RouteCache ------------------------------
(***************************************************************************)
(* remote.Manager: the cache of the best known route of each machine, and  *)
(* everything that fills and empties it at the same time:                  *)
(*   - pastes look a route up, measure when there is none or it is too old,*)
(*     and invalidate it when their upload fails, to retry once;           *)
(*   - one goroutine per machine warms the cache when the daemon starts;   *)
(*   - a loop watches the network; 2s after the last change it empties the *)
(*     cache and measures all machines in the background.                  *)
(* A measurement takes long (one ssh upload per route), holds no lock, and *)
(* stores its result when it is done, whatever happened meanwhile.         *)
(*                                                                         *)
(* Routes are numbered by their place in Host.SortedRoutes(); how one      *)
(* measurement compares two of them is RouteChoice's Beats.  Grain of      *)
(* atomicity: one action per critical section of m.mu, per route test and  *)
(* per upload.                                                             *)
(***************************************************************************)
EXTENDS RouteOrder, FiniteSets

CONSTANTS
  NHosts,      \* number of configured machines, 1..NHosts in config order
  Pasters,     \* connection goroutines that may paste an image at once
  Refreshers,  \* RefreshAll goroutines that may run at once
  Nets,        \* network conditions: latency, or Lost, of each route
  TTL,         \* how long a measurement is used, in clock units
  MaxTime,     \* bound on the clock
  MaxChanges   \* bound on the number of network changes

Hosts == 1..NHosts
Routes == Index
NoRoute == None
Warmers == {<<h>> : h \in Hosts}   \* WarmHost's goroutines
Procs == Pasters \cup Refreshers \cup Warmers

ASSUME CountsAssumption ==
  /\ NHosts \in Nat \ {0}
  /\ TTL \in Nat \ {0}
  /\ MaxTime \in Nat /\ MaxChanges \in Nat
ASSUME NetsAssumption == Nets \subseteq [Hosts -> [Routes -> Nat \cup {Lost}]]
ASSUME ProcsAssumption ==
  /\ Pasters \cap Refreshers = {}
  /\ (Pasters \cup Refreshers) \cap Warmers = {}

VARIABLES
  cache,       \* m.best: for each machine an entry, or NoEntry
  pc, refresh, \* where each goroutine is, and the RefreshHost call it is in
  paste,       \* per paster: machine, attempt, failed route, route in hand
  clock,
  net,         \* the network as it is now
  watching,    \* "route -n monitor" runs
  notify,      \* a line of it waits to be read
  timer,       \* the debounce timer: "off", "armed" or "fired"
  epoch,       \* ghost: number of network changes so far
  seen,        \* ghost: epoch of the last change the monitor reported
  cleared      \* ghost: epoch at the last InvalidateAll

loop == <<watching, notify, timer>>
ghosts == <<epoch, seen, cleared>>
vars == <<cache, pc, refresh, paste, clock, net, loop, ghosts>>
network == <<net, loop, ghosts>>

(* An entry and a measurement carry three ghosts: the network epoch when    *)
(* the measurement began, the pasters whose upload had failed by then, and  *)
(* whether the machine was invalidated while the measurement was running.   *)
Measured == [epoch : Nat, failures : SUBSET Pasters, mark : {"none", "overtaken"}]
NoEntry == [route |-> NoRoute, checkedAt |-> 0, began |-> 0,
            ghost |-> [epoch |-> 0, failures |-> {}, mark |-> "none"]]
Entry == [route : Routes \cup {NoRoute}, checkedAt : Nat, began : Nat, ghost : Measured]
NoRefresh == [host |-> 0, began |-> 0, next |-> 1, best |-> NoRoute, latency |-> 0,
              ghost |-> NoEntry.ghost]
Refresh == [host : Hosts \cup {0}, began : Nat, next : 1..(N + 1),
            best : Routes \cup {NoRoute}, latency : Nat, ghost : Measured]
NoPaste == [host |-> 0, attempt |-> 0, failed |-> NoRoute, route |-> NoRoute,
            mark |-> "none", ghost |-> NoEntry.ghost]
Paste == [host : Hosts \cup {0}, attempt : 0..2, failed : Routes \cup {NoRoute},
          route : Routes \cup {NoRoute}, mark : {"none", "invalidated"}, ghost : Measured]
Stages == {"idle", "lookup", "begin", "test", "store", "reread", "upload", "invalidate"}

TypeOK ==
  /\ cache \in [Hosts -> Entry]
  /\ pc \in [Procs -> Stages]
  /\ refresh \in [Procs -> Refresh]
  /\ paste \in [Pasters -> Paste]
  /\ clock \in Nat
  /\ net \in Nets
  /\ watching \in BOOLEAN /\ notify \in BOOLEAN
  /\ timer \in {"off", "armed", "fired"}
  /\ epoch \in Nat /\ seen \in Nat /\ cleared \in Nat

-----------------------------------------------------------------------------
(* Helpers                                                                 *)

Goto(p, stage) == pc' = [pc EXCEPT ![p] = stage]
Cached(h) == cache[h].route # NoRoute

\* The machine of the RefreshHost call a goroutine is in or about to make.
HostOf(p) == IF p \in Pasters THEN paste[p].host ELSE refresh[p].host
Running(p, h) == pc[p] \in {"test", "store"} /\ refresh[p].host = h

\* Ghost bookkeeping of an invalidation of the machines hs: measurements of
\* them that are running and lookups of them that are under way are marked.
MarkOvertaken(hs) ==
  refresh' = [p \in Procs |-> IF \E h \in hs : Running(p, h)
                              THEN [refresh[p] EXCEPT !.ghost.mark = "overtaken"]
                              ELSE refresh[p]]
MarkLookups(hs, pastes) ==
  [p \in Pasters |-> IF pastes[p].host \in hs
                     THEN [pastes[p] EXCEPT !.mark = "invalidated"] ELSE pastes[p]]

-----------------------------------------------------------------------------
(* RefreshHost, run by pasters, warmers and refreshers                     *)

\* The measurement starts: checkedAt is taken now, before the first test.
Begin(p) ==
  /\ pc[p] = "begin"
  /\ refresh' = [refresh EXCEPT ![p] =
       [NoRefresh EXCEPT !.host = HostOf(p), !.began = clock,
          !.ghost = [epoch |-> epoch, mark |-> "none",
                     failures |-> {q \in Pasters : paste[q].attempt = 2}]]]
  /\ Goto(p, "test")
  /\ UNCHANGED <<cache, paste, clock>> /\ UNCHANGED network

\* The upload test of the next route, over the network as it is now.
Test(p) ==
  LET m == refresh[p]
      l == net[m.host][m.next]
      better == l # Lost /\ Beats(l, m.best, m.latency)
  IN /\ pc[p] = "test" /\ m.next <= N
     /\ refresh' = [refresh EXCEPT ![p].next = m.next + 1,
                                   ![p].best = IF better THEN m.next ELSE m.best,
                                   ![p].latency = IF better THEN l ELSE m.latency]
     /\ Goto(p, IF m.next = N THEN "store" ELSE "test")
     /\ UNCHANGED <<cache, paste, clock>> /\ UNCHANGED network

\* The route to store: the best that answered; if none did, the first one a
\* probe reaches, or the first of all, so any of them.
ToStore(m) == IF m.best # NoRoute THEN {m.best} ELSE Routes

\* Mutant: RefreshAll counts one machine too many.
AfterStorePastLast(p) ==
  IF p \in Pasters THEN "reread"
  ELSE IF p \in Refreshers /\ refresh[p].host <= NHosts THEN "begin" ELSE "idle"

\* Where a goroutine goes after its RefreshHost: a paster reads the cache
\* again, RefreshAll goes on with the next machine.
AfterStore(p) ==
  IF p \in Pasters THEN "reread"
  ELSE IF p \in Refreshers /\ refresh[p].host < NHosts THEN "begin" ELSE "idle"

\* Mutants of Store: the time of the store, and nothing when no route answered.
StoreStampedLate(p) ==
  LET m == refresh[p] IN
  /\ pc[p] = "store"
  /\ \E r \in ToStore(m) :
       cache' = [cache EXCEPT ![m.host] = [route |-> r, checkedAt |-> clock,
                                           began |-> m.began, ghost |-> m.ghost]]
  /\ refresh' = [refresh EXCEPT ![p] =
       IF AfterStore(p) = "begin" THEN [NoRefresh EXCEPT !.host = m.host + 1] ELSE NoRefresh]
  /\ Goto(p, AfterStore(p))
  /\ UNCHANGED <<paste, clock>> /\ UNCHANGED network

StoreOnlyAnswers(p) ==
  LET m == refresh[p] IN
  /\ pc[p] = "store"
  /\ cache' = IF m.best = NoRoute THEN cache
              ELSE [cache EXCEPT ![m.host] = [route |-> m.best, checkedAt |-> m.began,
                                              began |-> m.began, ghost |-> m.ghost]]
  /\ refresh' = [refresh EXCEPT ![p] =
       IF AfterStore(p) = "begin" THEN [NoRefresh EXCEPT !.host = m.host + 1] ELSE NoRefresh]
  /\ Goto(p, AfterStore(p))
  /\ UNCHANGED <<paste, clock>> /\ UNCHANGED network

\* The result replaces whatever the cache holds.
Store(p) ==
  LET m == refresh[p] IN
  /\ pc[p] = "store"
  /\ \E r \in ToStore(m) :
       cache' = [cache EXCEPT ![m.host] = [route |-> r, checkedAt |-> m.began,
                                           began |-> m.began, ghost |-> m.ghost]]
  /\ refresh' = [refresh EXCEPT ![p] =
       IF AfterStore(p) = "begin" THEN [NoRefresh EXCEPT !.host = m.host + 1] ELSE NoRefresh]
  /\ Goto(p, AfterStore(p))
  /\ UNCHANGED <<paste, clock>> /\ UNCHANGED network

-----------------------------------------------------------------------------
(* A paste: BestRoute, UploadWithRetry                                     *)

StartPaste(p, h) ==
  /\ pc[p] = "idle"
  /\ paste' = [paste EXCEPT ![p] = [NoPaste EXCEPT !.host = h, !.attempt = 1]]
  /\ Goto(p, "lookup")
  /\ UNCHANGED <<cache, refresh, clock>> /\ UNCHANGED network

Take(p, e) ==
  /\ paste' = [paste EXCEPT ![p].route = e.route, ![p].ghost = e.ghost]
  /\ Goto(p, "upload")
  /\ UNCHANGED <<cache, refresh, clock>> /\ UNCHANGED network

\* BestRoute finds an entry that is young enough.
Hit(p) ==
  LET e == cache[paste[p].host] IN
  /\ pc[p] = "lookup"
  /\ Cached(paste[p].host) /\ clock - e.checkedAt < TTL
  /\ Take(p, e)

\* BestRoute finds none, or one too old: measure.
Miss(p) ==
  LET e == cache[paste[p].host] IN
  /\ pc[p] = "lookup"
  /\ ~(Cached(paste[p].host) /\ clock - e.checkedAt < TTL)
  /\ Goto(p, "begin")
  /\ UNCHANGED <<cache, refresh, paste, clock>> /\ UNCHANGED network

\* After its own measurement BestRoute returns what the map holds now, which
\* is the zero Route if the machine was invalidated in between.
Reread(p) == pc[p] = "reread" /\ Take(p, cache[paste[p].host])

\* The paste is over; the ghosts forget the failure of its first upload.
Finish(p) ==
  /\ paste' = [paste EXCEPT ![p] = NoPaste]
  /\ cache' = [h \in Hosts |-> [cache[h] EXCEPT !.ghost.failures = @ \ {p}]]
  /\ refresh' = [q \in Procs |-> [refresh[q] EXCEPT !.ghost.failures = @ \ {p}]]
  /\ Goto(p, "idle")
  /\ UNCHANGED clock /\ UNCHANGED network

\* UploadWithRetry goes on after refresh() only with a route that is not empty
\* and not the one that failed.
MayRetry(p) == paste[p].route \notin {NoRoute, paste[p].failed}

UploadSucceeds(p) ==
  /\ pc[p] = "upload"
  /\ paste[p].route # NoRoute
  /\ paste[p].attempt = 2 => MayRetry(p)
  /\ Finish(p)

FirstUploadFails(p) ==
  /\ pc[p] = "upload" /\ paste[p].attempt = 1
  /\ paste' = [paste EXCEPT ![p] = [NoPaste EXCEPT
                 !.host = paste[p].host, !.attempt = 2, !.failed = paste[p].route]]
  /\ Goto(p, "invalidate")
  /\ UNCHANGED <<cache, refresh, clock>> /\ UNCHANGED network

\* The retry fails too, or there is no other route to try.
PasteFails(p) == pc[p] = "upload" /\ paste[p].attempt = 2 /\ Finish(p)

\* Mutant: the retry asks for a route without dropping the one that failed.
SkipInvalidateHost(p) ==
  /\ pc[p] = "invalidate"
  /\ Goto(p, "lookup")
  /\ UNCHANGED <<cache, refresh, paste, clock>> /\ UNCHANGED network

\* refresh(): InvalidateHost, then BestRoute from its start.
InvalidateHost(p) ==
  LET h == paste[p].host IN
  /\ pc[p] = "invalidate"
  /\ cache' = [cache EXCEPT ![h] = NoEntry]
  /\ MarkOvertaken({h})
  /\ paste' = [MarkLookups({h}, paste) EXCEPT ![p] = paste[p]]
  /\ Goto(p, "lookup")
  /\ UNCHANGED clock /\ UNCHANGED network

-----------------------------------------------------------------------------
(* RefreshOnNetworkChange                                                  *)

\* The network, or something else in the routing table, changes; the monitor
\* prints a line if it runs.
NetworkChanges ==
  /\ epoch < MaxChanges
  /\ net' \in Nets
  /\ epoch' = epoch + 1
  /\ notify' = (notify \/ watching)
  /\ seen' = IF watching THEN epoch + 1 ELSE seen
  /\ UNCHANGED <<cache, pc, refresh, paste, clock, watching, timer, cleared>>

\* The monitor ends, what it printed is still read; NetworkChanges starts
\* another, 30s later if it failed.
MonitorEnds ==
  /\ watching /\ epoch < MaxChanges
  /\ watching' = FALSE
  /\ UNCHANGED <<cache, pc, refresh, paste, clock, net, notify, timer, ghosts>>

MonitorStarts ==
  /\ ~watching /\ ~notify
  /\ watching' = TRUE
  /\ UNCHANGED <<cache, pc, refresh, paste, clock, net, notify, timer, ghosts>>

\* Mutant: a running timer is stopped and not started again.
LoopChangeNoReset ==
  /\ notify
  /\ notify' = FALSE
  /\ timer' = IF timer = "off" THEN "armed" ELSE "off"
  /\ UNCHANGED <<cache, pc, refresh, paste, clock, net, watching, ghosts>>

\* The loop receives a change: the timer starts, or starts again; a tick that
\* was ready is drained.
LoopChange ==
  /\ notify
  /\ notify' = FALSE
  /\ timer' = "armed"
  /\ UNCHANGED <<cache, pc, refresh, paste, clock, net, watching, ghosts>>

TimerFires ==
  /\ timer = "armed"
  /\ timer' = "fired"
  /\ UNCHANGED <<cache, pc, refresh, paste, clock, net, watching, notify, ghosts>>

\* go RefreshAll(hosts): a goroutine r of its own; measurements that run are
\* marked.
StartRefreshAll(r) ==
  /\ pc[r] = "idle"
  /\ Goto(r, "begin")
  /\ refresh' = [p \in Procs |->
       IF p = r THEN [NoRefresh EXCEPT !.host = 1]
       ELSE IF \E h \in Hosts : Running(p, h)
            THEN [refresh[p] EXCEPT !.ghost.mark = "overtaken"] ELSE refresh[p]]

\* Mutant: the tick refreshes the routes and keeps the old ones meanwhile.
LoopTickKeeps ==
  /\ timer = "fired"
  /\ timer' = "off"
  /\ paste' = MarkLookups(Hosts, paste)
  /\ cleared' = epoch
  /\ \E r \in Refreshers : StartRefreshAll(r)
  /\ UNCHANGED <<cache, clock, net, watching, notify, epoch, seen>>

\* The loop receives the tick: InvalidateAll, go RefreshAll(hosts).
LoopTick ==
  /\ timer = "fired"
  /\ timer' = "off"
  /\ cache' = [h \in Hosts |-> NoEntry]
  /\ paste' = MarkLookups(Hosts, paste)
  /\ cleared' = epoch
  /\ \E r \in Refreshers : StartRefreshAll(r)
  /\ UNCHANGED <<clock, net, watching, notify, epoch, seen>>

Tick ==
  /\ clock < MaxTime
  /\ clock' = clock + 1
  /\ UNCHANGED <<cache, pc, refresh, paste>> /\ UNCHANGED network

-----------------------------------------------------------------------------
\* NewManager and the WarmHost calls of NewServer.
Init ==
  /\ cache = [h \in Hosts |-> NoEntry]
  /\ pc = [p \in Procs |-> IF p \in Warmers THEN "begin" ELSE "idle"]
  /\ refresh = [p \in Procs |-> IF p \in Warmers THEN [NoRefresh EXCEPT !.host = p[1]]
                                                 ELSE NoRefresh]
  /\ paste = [p \in Pasters |-> NoPaste]
  /\ clock = 0
  /\ net \in Nets
  /\ watching = TRUE /\ notify = FALSE /\ timer = "off"
  /\ epoch = 0 /\ seen = 0 /\ cleared = 0

RefreshStep(p) == Begin(p) \/ Test(p) \/ Store(p)
PasteStep(p) ==
  \/ \E h \in Hosts : StartPaste(p, h)
  \/ Hit(p) \/ Miss(p) \/ Reread(p)
  \/ UploadSucceeds(p) \/ FirstUploadFails(p) \/ PasteFails(p) \/ InvalidateHost(p)
Loop == LoopChange \/ LoopTick

Next ==
  \/ \E p \in Procs : RefreshStep(p)
  \/ \E p \in Pasters : PasteStep(p)
  \/ NetworkChanges \/ MonitorEnds \/ MonitorStarts
  \/ Loop \/ TimerFires \/ Tick

Spec == Init /\ [][Next]_vars

\* The loop's goroutine runs, its timer fires, and measurements end (each ssh
\* ends: the model leaves out one that hangs).  Pastes and the network are not
\* asked to do anything.
FairSpec ==
  /\ Spec
  /\ WF_vars(Loop) /\ WF_vars(TimerFires)
  /\ \A p \in Refreshers \cup Warmers : WF_vars(RefreshStep(p))

-----------------------------------------------------------------------------
(* Properties                                                              *)

\* A route taken from the cache without measuring was measured, first test
\* included, less than the TTL ago, however long the measurement took.
HitNotExpired ==
  [][\A p \in Pasters : pc[p] = "lookup" /\ pc'[p] = "upload" =>
       clock - cache[paste[p].host].began < TTL]_vars

\* A paste is left without a route only if its machine was invalidated, by
\* another paste or by a network change, while it was looking one up.
EmptyMeansInvalidated ==
  \A p \in Pasters : pc[p] = "upload" /\ paste[p].route = NoRoute =>
    paste[p].mark = "invalidated"

\* The route of a retry was measured after the upload failed, or by a
\* measurement that was running when a paste or a network change emptied the
\* cache.
RetryFreshUnlessOvertaken ==
  \A p \in Pasters :
    pc[p] = "upload" /\ paste[p].attempt = 2 /\ MayRetry(p) =>
      p \in paste[p].ghost.failures \/ paste[p].ghost.mark = "overtaken"

\* A cached route was measured since the last network change that emptied the
\* cache, or by a measurement that was running at that moment.
StaleOnlyIfOvertaken ==
  \A h \in Hosts : Cached(h) =>
    cache[h].ghost.epoch >= cleared \/ cache[h].ghost.mark = "overtaken"

\* After a change the monitor reported, the cache comes to hold a route of every
\* machine that was measured over the network as it is then, without a paste.
MeasuredAfterChange ==
  \A h \in Hosts :
    seen = epoch /\ seen > cleared ~> Cached(h) /\ cache[h].ghost.epoch >= seen
=============================================================================
