----------------------------- MODULE SessionStore -----------------------------
(***************************************************************************)
(* The daemon's table of session bindings (which machine a terminal        *)
(* session pastes to) and its copy on disk.                                *)
(*                                                                         *)
(* Connection goroutines bind and resolve sessions in memory under s.mu;   *)
(* every successful request then saves the whole table: it takes           *)
(* s.sessionStoreMu, copies the table under s.mu, and replaces all rows in *)
(* one SQLite transaction.  The daemon may crash and restart between any   *)
(* two of those steps, and the configuration may change while it is down.  *)
(*                                                                         *)
(* Grain of atomicity: one action per critical section of s.mu and one per *)
(* database transaction.  A missing row or map entry is the zero           *)
(* sessionBinding, which Go's map lookup returns.  ssh_alias, ssh_host,    *)
(* ssh_port and ssh_user are carried along unread and are left out.        *)
(***************************************************************************)
EXTENDS Integers, FiniteSets, Sequences

CONSTANTS
  Workers,      \* connection goroutines that may be active at once
  Spellings,    \* session keys as clients and old stores spell them
  Keys,         \* the normalised spellings
  Norm,         \* terminal.NormalizeSessionKey, a function on Spellings
  Machines,     \* machine names
  NoMachine,    \* the empty machine name
  NoKey,        \* no session key
  NoWorker,     \* nobody holds sessionStoreMu
  Configs,      \* configurations the daemon may be started with
  InitialDbs,   \* session stores found by the first start
  TTL,          \* sessionBindingTTL, in clock units
  Zones,        \* offsets of local time from UTC, in clock units
  Skew,         \* the most two of them differ by
  RecentCap,    \* length of the list of recent bindings shown by status
  LoadMayFail,  \* whether loadSessionBindings may return an error
  MaxTime,      \* bound on the clock
  MaxSerial     \* bound on the number of registrations

Binding == [machine : Machines \cup {NoMachine}, created : Nat, lastUsed : Nat, zone : Zones]
Unbound == [machine |-> NoMachine, created |-> 0, lastUsed |-> 0, zone |-> 0]
Config == [hosts : SUBSET Machines, default : Machines \cup {NoMachine}]

ASSUME NormAssumption ==
  /\ Keys \subseteq Spellings
  /\ Norm \in [Spellings -> Keys]
  /\ \A k \in Keys : Norm[k] = k
ASSUME NamesAssumption == NoMachine \notin Machines /\ NoWorker \notin Workers /\ NoKey \notin Keys
ASSUME KeysFinite == IsFiniteSet(Keys)
ASSUME StoresAssumption ==
  /\ InitialDbs \subseteq [Spellings -> Binding]
  /\ \A d \in InitialDbs, s \in Spellings : d[s].created = 0
  /\ Configs \subseteq Config
ASSUME NumbersAssumption ==
  /\ TTL \in Nat /\ RecentCap \in Nat \ {0}
  /\ MaxTime \in Nat /\ MaxSerial \in Nat
  /\ LoadMayFail \in BOOLEAN
ASSUME ZonesAssumption ==
  /\ 0 \in Zones /\ Zones \subseteq Int /\ Skew \in Nat
  /\ \A y, z \in Zones : y - z <= Skew

VARIABLES
  up,           \* the daemon process is running
  config,       \* s.Config, fixed while the daemon runs
  registered,   \* s.registered
  recentBinds,  \* s.recentBinds
  storeMu,      \* holder of s.sessionStoreMu
  db,           \* the committed rows of sessions.db, by spelling
  clock,        \* wall clock, coarse
  zone,         \* offset of local time: time.Now() carries it into texts
  pc,           \* where each connection goroutine is
  request,      \* the registration it is serving: key, CreatedAt of its binding
  snapshot,     \* its local variable "bindings" in saveSessionBindings
  serial,       \* ghost: registrations so far; also the fine clock of CreatedAt
  acked,        \* ghost: newest registration of a key answered without error
  forgotten     \* ghost: registrations of a key dropped on purpose

memory == <<registered, recentBinds>>
ghosts == <<serial, acked, forgotten>>
locals == <<pc, request, snapshot>>
vars == <<up, config, registered, recentBinds, storeMu, db, clock, zone,
          pc, request, snapshot, serial, acked, forgotten>>

NoTable == [k \in Keys |-> Unbound]
Idle == [key |-> NoKey, created |-> 0]
Stages == {"idle", "retry", "work", "save", "snapshot", "write", "reply"}
Requests == {Idle} \cup [key : Keys, created : Nat]
RecentEntry == [key : Keys, machine : Machines \cup {NoMachine}, created : Nat]

TypeOK ==
  /\ up \in BOOLEAN
  /\ config \in Config
  /\ registered \in [Keys -> Binding]
  /\ recentBinds \in Seq(RecentEntry) /\ Len(recentBinds) <= RecentCap
  /\ storeMu \in Workers \cup {NoWorker}
  /\ db \in [Spellings -> Binding]
  /\ clock \in Nat /\ zone \in Zones
  /\ pc \in [Workers -> Stages]
  /\ request \in [Workers -> Requests]
  /\ snapshot \in [Workers -> [Keys -> Binding]]
  /\ serial \in Nat
  /\ acked \in [Keys -> Nat]
  /\ forgotten \in [Keys -> SUBSET Nat]

-----------------------------------------------------------------------------
(* Helpers                                                                 *)

Later(a, b) == IF a > b THEN a ELSE b
IsBound(b) == b.machine # NoMachine
Bound(table) == {k \in Keys : IsBound(table[k])}

\* Last used before the cutoff now - TTL.
Expired(b) == b.lastUsed + TTL < clock

\* Entries of a table that a save or a load keeps.
Prune(table) ==
  [k \in DOMAIN table |->
     IF IsBound(table[k]) /\ ~Expired(table[k]) THEN table[k] ELSE Unbound]

\* The rows pruneSessionDB keeps.  It compares RFC 3339 texts, which give the
\* local time: the one a binding was used at, and the one it is in the zone z.
Text(b) == b.lastUsed + b.zone
RowExpired(b, z) == Text(b) + TTL < clock + z
PruneRows(rows, z) ==
  [s \in DOMAIN rows |->
     IF IsBound(rows[s]) /\ ~RowExpired(rows[s], z) THEN rows[s] ELSE Unbound]

Entry(k, b) == [key |-> k, machine |-> b.machine, created |-> b.created]

\* The lists recentBindingsFromMap may return: most recently used first, ties
\* in any order (map iteration feeds an unstable sort), cut to RecentCap.
RecentOf(table) ==
  LET bound == Bound(table)
      n == IF Cardinality(bound) > RecentCap THEN RecentCap ELSE Cardinality(bound)
      orders == {o \in [1..n -> bound] :
                   /\ \A i, j \in 1..n : i # j => o[i] # o[j]
                   /\ \A i, j \in 1..n : i < j =>
                        table[o[i]].lastUsed >= table[o[j]].lastUsed
                   /\ \A k \in bound :
                        \/ \E i \in 1..n : o[i] = k
                        \/ \A i \in 1..n : table[o[i]].lastUsed >= table[k].lastUsed}
  IN {[i \in 1..n |-> Entry(o[i], table[o[i]])] : o \in orders}

\* removeSessionBinding and the prepend in registerSession.  The list names a
\* session at most once (RecentMatches), so removing it removes one entry.
KeepKey(list, k) == list                                          \* mutant
WithoutKey(list, k) ==
  IF \E i \in DOMAIN list : list[i].key = k
  THEN LET i == CHOOSE i \in DOMAIN list : list[i].key = k
       IN SubSeq(list, 1, i - 1) \o SubSeq(list, i + 1, Len(list))
  ELSE list
PrependUncapped(list, e) == <<e>> \o WithoutKey(list, e.key)       \* mutant
Prepend(list, e) ==
  LET full == <<e>> \o WithoutKey(list, e.key)
  IN IF Len(full) > RecentCap THEN SubSeq(full, 1, RecentCap) ELSE full

\* Whether Config.ResolveHost finds a host for a machine name.
Resolvable(m) == m \in config.hosts \/ config.default \in config.hosts

\* Ghost bookkeeping: what "from" holds and "to" no longer does is expired, or
\* names a machine that is gone.
Forget(from, to) ==
  [k \in Keys |-> IF to[k] = from[k] THEN forgotten[k]
                  ELSE forgotten[k] \cup {from[k].created}]

\* The goroutine w goes on to a stage; a request that ends drops its locals.
Goto(w, stage) == pc' = [pc EXCEPT ![w] = stage]
Drop(w, stage) == request' = IF stage = "idle" THEN [request EXCEPT ![w] = Idle] ELSE request

-----------------------------------------------------------------------------
(* Binding a session                                                       *)

\* register_session up to registerSession.  The checks before it (machine
\* given, machine configured, session known) answer with an error and change
\* nothing.
Register(w, s, m) ==
  LET k == Norm[s]
      b == [machine |-> m, created |-> serial + 1, lastUsed |-> clock, zone |-> zone]
  IN /\ up /\ pc[w] = "idle" /\ serial < MaxSerial
     /\ m \in config.hosts
     /\ registered' = [registered EXCEPT ![k] = b]
     /\ recentBinds' = Prepend(recentBinds, Entry(k, b))
     /\ serial' = serial + 1
     /\ request' = [request EXCEPT ![w] =
                      [key |-> k, created |-> serial + 1]]
     /\ Goto(w, "save")
     /\ UNCHANGED <<up, config, storeMu, db, clock, zone, snapshot, acked, forgotten>>

(* Resolving a session for a paste                                         *)

\* resolveSessionHost finds a binding whose machine resolves: it is used, and
\* marked as used now.
ResolveBound(w, s) ==
  LET k == Norm[s]
  IN /\ up /\ pc[w] \in {"idle", "retry"}
     /\ IsBound(registered[k]) /\ Resolvable(registered[k].machine)
     /\ registered' = [registered EXCEPT ![k].lastUsed = clock, ![k].zone = zone]
     /\ Goto(w, "work")
     /\ UNCHANGED <<up, config, recentBinds, storeMu, db, clock, zone, request, snapshot>>
     /\ UNCHANGED ghosts

\* resolveSessionHost finds no binding, or one whose machine no longer
\* resolves, which it deletes.  The request then goes on with the detected
\* host, tries the focused session once, or ends with an error.
ResolveUnbound(w, s) ==
  LET k == Norm[s]
  IN /\ up /\ pc[w] \in {"idle", "retry"}
     /\ ~(IsBound(registered[k]) /\ Resolvable(registered[k].machine))
     /\ registered' = [registered EXCEPT ![k] = Unbound]
     /\ forgotten' = Forget(registered, registered')
     /\ \E next \in {"work", "idle"} \cup (IF pc[w] = "idle" THEN {"retry"} ELSE {}) :
          Goto(w, next)
     /\ UNCHANGED <<up, config, recentBinds, storeMu, db, clock, zone, request, snapshot,
                    serial, acked>>

\* The rest of Paste: clipboard, upload, answer.  It leaves the bindings
\* alone; only a paste that succeeded saves them.
FinishPaste(w) ==
  /\ up /\ pc[w] = "work"
  /\ \E next \in {"save", "idle"} : Goto(w, next)
  /\ UNCHANGED <<up, config, registered, recentBinds, storeMu, db, clock, zone,
                 request, snapshot, serial, acked, forgotten>>

-----------------------------------------------------------------------------
(* saveSessionBindings                                                     *)

\* Mutant: the snapshot is taken without s.sessionStoreMu.
LockStoreUnguarded(w) ==
  /\ up /\ pc[w] = "save"
  /\ storeMu' = w
  /\ Goto(w, "snapshot")
  /\ UNCHANGED <<up, config, registered, recentBinds, db, clock, zone,
                 request, snapshot, serial, acked, forgotten>>

LockStore(w) ==
  /\ up /\ pc[w] = "save" /\ storeMu = NoWorker
  /\ storeMu' = w
  /\ Goto(w, "snapshot")
  /\ UNCHANGED <<up, config, registered, recentBinds, db, clock, zone,
                 request, snapshot, serial, acked, forgotten>>

\* The critical section of s.mu: drop expired bindings, copy the rest.
TakeSnapshot(w) ==
  /\ up /\ pc[w] = "snapshot"
  /\ registered' = Prune(registered)
  /\ forgotten' = Forget(registered, registered')
  /\ recentBinds' \in RecentOf(registered')
  /\ snapshot' = [snapshot EXCEPT ![w] = registered']
  /\ Goto(w, "write")
  /\ UNCHANGED <<up, config, storeMu, db, clock, zone, request, serial, acked>>

\* A save returns: the deferred unlock.  A registration whose save succeeded
\* goes on to answer the client; a failed one answers with the error, and a
\* paste ignores the result.
Unlock(w, ok) ==
  LET next == IF ok /\ request[w] # Idle THEN "reply" ELSE "idle"
  IN /\ storeMu' = NoWorker
     /\ snapshot' = [snapshot EXCEPT ![w] = NoTable]
     /\ Goto(w, next) /\ Drop(w, next)

Rows(table) == [s \in Spellings |-> IF s \in Keys THEN table[s] ELSE Unbound]

\* DELETE all rows, INSERT the snapshot, COMMIT; the deferred unlock.
Commit(w) ==
  /\ up /\ pc[w] = "write"
  /\ db' = Rows(snapshot[w])
  /\ Unlock(w, TRUE)
  /\ UNCHANGED <<up, config, registered, recentBinds, clock, zone, serial, acked, forgotten>>

\* Mutant: the error of a save is dropped.
SaveErrorIgnored(w) ==
  /\ up /\ pc[w] = "write"
  /\ Unlock(w, TRUE)
  /\ UNCHANGED <<up, config, registered, recentBinds, db, clock, zone, serial, acked, forgotten>>

\* Mutant: the error path returns without unlocking.
SaveFailsLocked(w) ==
  /\ up /\ pc[w] = "write"
  /\ Goto(w, "idle") /\ Drop(w, "idle")
  /\ UNCHANGED <<up, config, registered, recentBinds, storeMu, db, clock, zone, snapshot,
                 serial, acked, forgotten>>

\* Opening the database or a statement fails: rolled back, unlocked, reported.
SaveFails(w) ==
  /\ up /\ pc[w] = "write"
  /\ Unlock(w, FALSE)
  /\ UNCHANGED <<up, config, registered, recentBinds, db, clock, zone, serial, acked, forgotten>>

\* The client sees a registration succeed.
Reply(w) ==
  /\ up /\ pc[w] = "reply"
  /\ acked' = [acked EXCEPT ![request[w].key] = Later(@, request[w].created)]
  /\ Goto(w, "idle") /\ Drop(w, "idle")
  /\ UNCHANGED <<up, config, registered, recentBinds, storeMu, db, clock, zone,
                 snapshot, serial, forgotten>>

-----------------------------------------------------------------------------
(* The process: crash, start, time                                         *)

\* The process dies anywhere; SQLite undoes a transaction it had open.
Crash ==
  /\ up
  /\ up' = FALSE
  /\ registered' = NoTable /\ recentBinds' = <<>>
  /\ storeMu' = NoWorker
  /\ pc' = [w \in Workers |-> "idle"]
  /\ request' = [w \in Workers |-> Idle]
  /\ snapshot' = [w \in Workers |-> NoTable]
  /\ UNCHANGED <<config, db, clock, zone, serial, acked, forgotten>>

\* Mutant: ORDER BY last_used ASC.
LoadOldest(rows) ==
  {t \in [Keys -> {rows[s] : s \in Spellings} \cup {Unbound}] :
     \A k \in Keys :
       LET of == {s \in Spellings : Norm[s] = k /\ IsBound(rows[s])}
       IN IF of = {} THEN t[k] = Unbound
          ELSE \E s \in of : /\ t[k] = rows[s]
                             /\ \A r \in of : Text(rows[r]) >= Text(rows[s])}

\* The row loadSessionBindings keeps for a key: of the spellings of the key,
\* the one with the last text; ORDER BY breaks ties by spelling, here in any
\* order.
LoadChoices(rows) ==
  {t \in [Keys -> {rows[s] : s \in Spellings} \cup {Unbound}] :
     \A k \in Keys :
       LET of == {s \in Spellings : Norm[s] = k /\ IsBound(rows[s])}
       IN IF of = {} THEN t[k] = Unbound
          ELSE \E s \in of : /\ t[k] = rows[s]
                             /\ \A r \in of : Text(rows[r]) <= Text(rows[s])}

\* Ghost bookkeeping for rows a start does not keep.
ForgetRows(gone) ==
  [k \in Keys |-> forgotten[k] \cup {db[s].created : s \in {r \in gone : Norm[r] = k}}]

\* NewServer with a configuration: prune the database, load what is left.
Start ==
  /\ ~up
  /\ up' = TRUE
  /\ config' \in Configs /\ zone' \in Zones
  /\ db' = PruneRows(db, zone')
  /\ registered' \in LoadChoices(db')
  /\ recentBinds' \in RecentOf(registered')
  /\ forgotten' = ForgetRows({s \in Spellings : db[s] # registered'[Norm[s]]})
  /\ UNCHANGED <<storeMu, clock, pc, request, snapshot, serial, acked>>

\* NewServer ignores an error of loadSessionBindings and starts with no
\* bindings; the error may come before or after the database was pruned.
StartWithoutLoad ==
  /\ LoadMayFail /\ ~up
  /\ up' = TRUE
  /\ config' \in Configs /\ zone' \in Zones
  /\ db' \in {db, PruneRows(db, zone')}
  /\ forgotten' = ForgetRows({s \in Spellings : db[s] # db'[s]})
  /\ UNCHANGED <<registered, recentBinds, storeMu, clock, pc, request, snapshot,
                 serial, acked>>

\* Time passes; with it local time may change to another offset.
Tick ==
  /\ clock < MaxTime
  /\ clock' = clock + 1 /\ zone' \in Zones
  /\ UNCHANGED <<up, config, registered, recentBinds, storeMu, db,
                 pc, request, snapshot, serial, acked, forgotten>>

-----------------------------------------------------------------------------
Init ==
  /\ up = FALSE
  /\ config \in Configs
  /\ registered = NoTable /\ recentBinds = <<>>
  /\ storeMu = NoWorker
  /\ db \in InitialDbs
  /\ clock = TTL /\ zone \in Zones
  /\ pc = [w \in Workers |-> "idle"]
  /\ request = [w \in Workers |-> Idle]
  /\ snapshot = [w \in Workers |-> NoTable]
  /\ serial = 0
  /\ acked = [k \in Keys |-> 0]
  /\ forgotten = [k \in Keys |-> {}]

Step(w) ==
  \/ \E s \in Spellings, m \in Machines : Register(w, s, m)
  \/ \E s \in Spellings : ResolveBound(w, s) \/ ResolveUnbound(w, s)
  \/ FinishPaste(w)
  \/ LockStore(w) \/ TakeSnapshot(w) \/ Commit(w) \/ SaveFails(w) \/ Reply(w)

Next == (\E w \in Workers : Step(w)) \/ Crash \/ Start \/ StartWithoutLoad \/ Tick

Spec == Init /\ [][Next]_vars

(* A request in flight: connection goroutines are scheduled; a goroutine    *)
(* that waits for a sync.Mutex gets it in the end (its starvation mode      *)
(* hands the lock over after 1ms), hence strong fairness of LockStore.      *)
(* Nothing is assumed of clients, time, crashes and restarts.               *)
Serve(w) ==
  \/ pc[w] = "retry" /\ \E s \in Spellings : ResolveBound(w, s) \/ ResolveUnbound(w, s)
  \/ FinishPaste(w) \/ TakeSnapshot(w) \/ Commit(w) \/ SaveFails(w) \/ Reply(w)

FairSpec ==
  Spec /\ \A w \in Workers : WF_vars(Serve(w)) /\ SF_vars(LockStore(w))

-----------------------------------------------------------------------------
(* Properties                                                              *)

\* The entry b of a key stands for registration c of that key or a newer one,
\* unless the program dropped c on purpose.
CoversIn(gone, b, c) == b.created >= c \/ \E f \in gone : f >= c
Covers(k, b, c) == CoversIn(forgotten[k], b, c)

\* A registration that was answered without error is on disk, whatever other
\* requests save at the same time and whenever the daemon dies: it, or a newer
\* one for the session, unless it expired or its machine left the
\* configuration (session_store_test.go:118-119, "Every successful
\* registration must already be durable").
Durable == \A k \in Keys : Covers(k, db[k], acked[k])

\* While the daemon runs, a paste of a session finds a registration that was
\* answered before, including one answered before a restart
\* (daemon_test.go, TestSessionBindingSurvivesDaemonRestart).
AckedVisible == up => \A k \in Keys : Covers(k, registered[k], acked[k])

\* A save never puts an older registration of a session over a newer one
\* (session_store.go:80-81, "an older save cannot overwrite a newer one").
DiskNeverGoesBack ==
  [][\A k \in Keys : \/ db'[k].created >= db[k].created
                     \/ \E f \in forgotten'[k] : f >= db[k].created]_vars

\* The list status shows agrees with the table: a session appears once, with
\* the machine of its current registration if it has one, and a list that is
\* not full leaves no bound session out.
RecentMatches ==
  /\ \A i, j \in DOMAIN recentBinds :
       i # j => recentBinds[i].key # recentBinds[j].key
  /\ \A i \in DOMAIN recentBinds :
       LET e == recentBinds[i]
       IN IsBound(registered[e.key]) => e = Entry(e.key, registered[e.key])
  /\ Len(recentBinds) < RecentCap =>
       \A k \in Bound(registered) : \E i \in DOMAIN recentBinds : recentBinds[i].key = k

\* A start loads, for a session stored under several spellings, a binding that
\* is the most recently used one up to the difference of two time zones, and
\* prunes none that was used in the last TTL but for that difference
\* (session_store.go:58-59).
LoadKeepsLatest ==
  [][Start => \A s \in Spellings :
       IsBound(db[s]) /\ db[s].lastUsed + TTL >= clock + Skew =>
         /\ IsBound(registered'[Norm[s]])
         /\ registered'[Norm[s]].lastUsed + Skew >= db[s].lastUsed]_vars

\* What the daemon promises of each session, in the terms of its clients.
Bindings ==
  INSTANCE SessionBindings
  WITH running <- up,
       bound <- [k \in Keys |-> registered[k].created],
       saved <- [k \in Keys |-> db[k].created],
       promised <- acked,
       dropped <- forgotten
ImplementsBindings == Bindings!Spec

\* Every request is answered or dies with the daemon, also when saves fail.
EveryRequestEnds == \A w \in Workers : pc[w] # "idle" ~> pc[w] = "idle"

-----------------------------------------------------------------------------
(* The inductive invariant behind Durable and DiskNeverGoesBack (proved in  *)
(* SessionStoreProofs).                                                     *)

\* sessionStoreMu is held exactly by the goroutine between lock and unlock.
OneWriter == \A w \in Workers : pc[w] \in {"snapshot", "write"} <=> storeMu = w

\* A spelling that is no key is in old stores only.
OldRows == \A s \in Spellings \ Keys : db[s].created = 0

\* Nobody knows of a registration that has not happened.
KnownSerials ==
  /\ \A k \in Keys : acked[k] <= serial /\ registered[k].created <= serial
  /\ \A s \in Spellings : db[s].created <= serial
  /\ \A w \in Workers :
       /\ request[w].created <= serial
       /\ \A k \in Keys : snapshot[w][k].created <= serial

\* A goroutine has a registration to answer while it saves, and none is left
\* when the process is down.
InFlight(w) == request[w] # Idle
StagesMatch ==
  /\ \A w \in Workers :
       InFlight(w) => pc[w] \in {"save", "snapshot", "write", "reply"}
  /\ \A w \in Workers : pc[w] = "reply" => InFlight(w)
  /\ ~up => \A w \in Workers : pc[w] = "idle"

\* Memory covers all that the disk, the clients and the requests in flight hold.
MemoryCovers ==
  up => /\ \A k \in Keys : Covers(k, registered[k], acked[k])
        /\ \A s \in Spellings : Covers(Norm[s], registered[Norm[s]], db[s].created)
        /\ \A w \in Workers : InFlight(w) =>
             Covers(request[w].key, registered[request[w].key], request[w].created)

\* A snapshot about to be written covers all it replaces, and nothing in it is
\* newer than memory.
SnapshotCovers ==
  \A w \in Workers : pc[w] = "write" =>
    /\ \A k \in Keys : /\ Covers(k, snapshot[w][k], acked[k])
                       /\ Covers(k, snapshot[w][k], db[k].created)
                       /\ Covers(k, registered[k], snapshot[w][k].created)
    /\ \A v \in Workers : InFlight(v) /\ (v = w \/ pc[v] = "reply") =>
         Covers(request[v].key, snapshot[w][request[v].key], request[v].created)

\* A registration about to be answered is on disk.
AnswersCovered ==
  \A w \in Workers : pc[w] = "reply" =>
    Covers(request[w].key, db[request[w].key], request[w].created)

StoreInv ==
  /\ OneWriter /\ KnownSerials /\ StagesMatch
  /\ MemoryCovers /\ SnapshotCovers /\ AnswersCovered /\ Durable

=============================================================================
