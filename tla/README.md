# Clipport: models, checks and proofs

Clipport lets a user of iTerm on a Mac paste the local clipboard into an ssh
session: text is typed, an image is uploaded to the remote machine and its path
is typed.  A daemon (`clipportd`) does the work; a menu app (`clipport`) runs it
as its child; `clipctl` asks it to paste and manages the app.  This directory
holds TLA+ models of the parts whose correctness depends on the order of events,
TLC runs over small instances of them, and TLAPS proofs for instances of any size.

Source paths below are relative to `src/`.  `PROJECT.json` maps each definition
to the lines it models.

## 1. Inventory

| component | state | operations | what is hard |
|---|---|---|---|
| session bindings and store (`internal/daemon/daemon.go`, `session_store.go`) | `registered`, `recentBinds` under `s.mu`; rows of a SQLite file; `sessionStoreMu` | register, resolve, prune, snapshot and save, load | concurrent saves, crashes between memory and disk, expiry, old spellings of keys |
| route choice (`internal/remote/routes.go`) | loop variables of `RefreshHost` | upload test per route, TCP probe, fallback | tie window, lost routes, equal priorities |
| route cache and network watcher (`routes.go`, `network_darwin.go`) | cache per host, debounce timer, `route -n monitor` | `BestRoute`, `RefreshHost`, `InvalidateHost`, `InvalidateAll`, `RefreshAll` | measurements take seconds without the lock; invalidation meets a running measurement |
| paste pipeline (`daemon.go`, `internal/clipboard`, `internal/terminal`, `upload.go`, `config.go`) | request locals, remote files, list of transfers | resolve the session, read the clipboard, pick a route, upload, retry, answer | focus and clipboard change meanwhile; ssh breaks anywhere; file names collide; stale bindings |
| process lifecycle (`internal/menu`, `cmd/clipport`, `cmd/clipportd`, `cmd/clipctl/app.go`, `process.go`) | lock file, socket file, HTTP port, `p.cmd`, launchd's job | start, stop, restart, quit, readiness probes | orphans, stale sockets, two daemons at once, old daemons answering for new ones |
| HTTP endpoint, token (`http.go`, `internal/token`) | token file, the bearer of the running endpoint | load or create; clipboard and health requests | two processes create the token; an emptied file read as an empty token |
| registry, event log (`internal/registry`, `internal/eventlog`) | `hosts.json` and its temporary file; `events.jsonl` | load, change, save; append, trim | no lock: lost updates, torn files, lines lost to a trim |
| configuration file (`internal/config`, `onboard/config.go`, `clipctl/install.go`) | `config.toml` | load, three writers, validation | truncated in place; each writer must keep the others' part |
| SSH config blocks (`internal/sshsetup`) | the user's `~/.ssh/config` | insert, replace, remove marked blocks | blocks of one alias inside each other, the user's own settings and editor, crash while writing |
| shims (`internal/shims`, `internal/shimsetup`) | token, wrapper, links and lock of a remote account | setup, install, uninstall over the routes of a machine | partial failure, stale lock, another client on the account, scripts that outlive their connection |
| onboarding screens (`internal/onboard/tui.go`, `config.go`) | names, ticked aliases, cursor, filter, machines added | one per key; build and write the configuration | keys in any order; a list that shrinks under the cursor |
| test paste (`internal/testpaste`) | none of its own; uses the registry | remembered route, measurement, two uploads, record | the remembered route is stale |
| install, uninstall, doctor, command line | none of their own | reports, calls of tools | order of external tools |

How they meet: a paste request enters the daemon on the Unix socket, is resolved
with the session bindings or the titles iTerm shows, takes a route from the
cache, and uploads; a failed upload invalidates the cache entry of the machine.
The network watcher invalidates all of them.  Registrations come from a hook in
the SSH config.  The menu app owns the daemon process; `clipctl` owns the app
through launchd.

What makes each correct: acknowledged bindings survive; the chosen route is close
to the fastest; no route is older than promised; an image goes where the pane
says and the answered path holds it; there is one daemon, it serves, and it ends
with its app; the small files survive their writers, their crashes and each other.

## 2. Modules

| module | models | state and actions |
|---|---|---|
| `SessionBindings` | what the daemon promises of bindings: the abstract specification of `SessionStore` | `Bind`, `GiveUp`, `Save`, `Confirm`, `Stop`, `Restart` |
| `SessionStore` | bindings in memory and on disk | one action per critical section of `s.mu` and per SQLite transaction: `Register`, `ResolveBound`, `ResolveUnbound`, `LockStore`, `TakeSnapshot`, `Commit`, `SaveFails`, `Reply`; `Crash`, `Start`, `StartWithoutLoad`, `Tick` |
| `RouteOrder` | sorting and comparing of routes, shared by the next two | operators `SortedOrders`, `Beats` |
| `RouteChoice` | one `RefreshHost` as a loop over any measurements | `Test`, `TakeBest`, `StartProbing`, `Probe`, `TakeFirst` |
| `RouteCache` | cache, pastes, warming, `RefreshAll`, network loop, monitor | a measurement is `Begin`, one `Test` per route, `Store`; a lookup is `Hit`, or `Miss` and `Reread`; `InvalidateHost`, `LoopChange`, `TimerFires`, `LoopTick`, `MonitorEnds`, ... |
| `Paste` | one paste from request to answer, per connection | `Arrive`, `ActiveSession`, `Resolve`, `Refocus`, `ResolveAgain`, `NativePaste`, `ReadTypes`, `ReadData`, `TakeRoute`, `NameFile`, `Create`, `Write`, `Break`, `Sent`, `RetryOrGiveUp`, `Record`, `Close`; the user's `OpenSSH`, `LeaveSSH`, `MoveFocus`, `Copy` |
| `AppLifecycle` | apps, daemons, socket, port, launchd's job, `clipctl` commands | `DaemonProcess` as `StartDaemon`, `StartNothing`, `Reap`, `StopEnds`, `StopTimesOut`; `Leave`...; the daemon's `Load`, `BindPort`, `Dial`, `Remove`, `Bind`, `ParentWatch`; the command's `Bootout`, `List`, `Cleaned`, `SocketGone`, `PortGone`, `Bootstrap`, `Kick`, `Kickstart`, `ProbeStatus`, `ProbeHealth` |
| `SshBlocks` | the edits of `~/.ssh/config` as functions on lines | `RemoveBlocks` (by `ReadLine`), `InsertBeforeHost`, `InstallForward`, `UpdateSessionBlock` (by `HookLine`), `InstallSessionHook`; ssh's choice of a `LocalCommand` as `RunsHook` |
| `SshConfig` | the file, its backups, an edit in progress | `Read`, `Backup`, `Write`, `EditFails`, `WriteTorn`; the user's `Save` |
| `RemoteShims` | the files of a remote account and the scripts that run there | one action per step of the install script (`Acquire`, `Busy`, `Check`, `Publish`, `Chmod`, `PlaceShim`, `Link`, `Cleanup`) and of the other (`Unlink`, `RemoveShim`, `RemoveToken`); `Cut`, `Kill`, `Abandon`, `RunOther` |
| `Setup` | the commands of `clipctl` that use the two; composes `SshConfig` and `RemoteShims` | `Begin`, `LoadOrCreate`, `RunScript`, `Finished`, `Lose`, `ReadConfig`, `BackupConfig`, `WriteConfig`, `ConfigFails`, `RemoveData` |
| `FileContents` | what a small file holds between `O_TRUNC`, a write and a crash | `Missing`, `Empty`, `Torn`, `Whole(x)`; `Overwrite` |
| `Registry` | `hosts.json` | `LoadHosts`, `OpenTmp`, `WriteTmp`, `RenameTmp` and their failures; a file that is open keeps its content when its name is renamed |
| `EventLog` | `events.jsonl` | `AppendEvent`, `ReadBack`, `EmptyLog`, `WriteKept` |
| `LocalToken` | the token file of the Mac | `LoadToken`, `NoTokenFile`, `OpenToken`, `WriteToken` |
| `ConfigFile` | `config.toml` and its writers | `LoadConfig`, `OpenConfig`, `WriteConfig` and their failures; `WithInstall`, `WithIterm` for what each writer sets |
| `MachinePicker` | the onboarding screens | one action per key: `EnterName`, `ToggleAlias`, `TypeFilter`, `SaveMachine`, `ReopenList`, `Accept`, ... |
| `TestPaste` | `clipctl test-paste`; extends `RouteChoice` | `LookUp`, `Measure`, `TryUpload`, `Remeasured`, `TryAgain` |
| `LocalFiles` | the programs of the Mac on the files they share; composes the seven above | a process works through jobs made of tasks: `RecordHost`, `RecordEvent`, `UseToken`, `Listen`, `InstallShims`, `ReadConfig`, `EditConfig`, `PickMachines`, `BuildConfig`, `RunTest`, `TestEnds`; `Crash` of an operating system process with all its goroutines |
| `*Proofs` | theorems about the module of that name; `SetupProofs` also about `RemoteShims` | |
| `MC*` | small instances for TLC | |

Composition.  `RouteCache` uses the comparison of `RouteOrder` that `RouteChoice`
proves things about.  `Paste` abstracts the cache to "some route of the machine,
or none", which `RouteCache` shows to be what a lookup returns; it abstracts the
store to the binding of each pane, which `SessionStore` shows to survive.

`Setup` runs the actions of `SshConfig` and `RemoteShims` as its own, each with the
step of the command it belongs to: every step of `Setup` is a step of `RemoteShims`
or leaves the account alone.

`LocalFiles` takes `Registry`, `EventLog`, `LocalToken`, `ConfigFile` and
`MachinePicker` as instances and extends `TestPaste`, which extends `RouteChoice`:
a test paste runs a real measurement, reads the route the registry remembers and
records the one that passed; the shim setup takes the token the daemon may be
creating, and records in the registry; onboarding writes the machines picked
between two records of settings.  Which jobs meet is a constant, `Workloads`.

`SessionStore` implements `SessionBindings` under the mapping at its end
(`ImplementsBindings`): the registrations of a session are its numbers, memory and
rows are the two tables, everything else is gone.

Abstractions of the local files: an update of the registry sets one field; an
event is its number; all paths that an installation records are one setting; a text
typed on a screen is one step; one write of a small text is atomic, but an open
that truncates before it is a step of its own.

Abstractions of the setup modules: a `Host` line has one pattern; `PermitLocalCommand`
and `LocalCommand` are one line; versions of a hook and the machine it names are
not told apart; the two links are one; all routes lead to one account; a script that
is cut off ends between two of its commands, the `mkdir` of its lock and the traps
that remove it being one (a kill leaves the same stale lock); programs that an
uninstall removed are installed again before the next command.

Ghost variables are named as such at their declaration.  Definitions marked
"Mutant" are plausible mistakes in the code; nothing uses them but the mutation
runs that show the properties can fail.

## 3. Runs

| run | asks | bounds |
|---|---|---|
| `store_saves` | do acknowledged registrations survive concurrent saves, crashes, expiry and changes of the configuration; does the store implement `SessionBindings` | 2 connections, 2 sessions, 3 registrations, TTL 0 (expiry at the next tick) |
| `store_restarts` | does a start keep the latest spelling; does every request end | 2 connections, 2 sessions, one of them in 2 spellings, 2 time zones, failing loads and saves |
| `store_failedload` (violation) | is a registration durable if a load fails | 2 sessions, 2 registrations |
| `cache_pastes` | what a hit, a retry and an empty route mean | 2 pastes, warming, 2 routes, entries that expire while measured |
| `cache_network` | what is left after a network change, and is it measured anew | 2 changes, 2 `RefreshAll` goroutines, monitor that ends |
| `paste_uploads` | does the answered path hold the image | 2 pastes, 2 routes, 2 instants for file names, 1 act of the user |
| `paste_panes` | does an image go where its pane says; is every paste answered | 2 panes, 2 machines and 1 unknown name, all bindings and titles, with a default host and without, any focus, an image in the clipboard, 1 act of the user; pastes up to the first that creates a file, which has no say in where the next one goes |
| `lifecycle` | one daemon, orphans end, start and onboarding tell the truth | 2 apps, 2 daemons, 2 commands, 1 event |
| `lifecycle_restart` (violation) | does restart leave a daemon that serves | 1 command, 1 event |
| `setup` | are the user's lines, the hooks, the forwards and the account as promised after any commands | 3 of the 6 commands, 2 routes, 2 scripts, 2 tokens, files with and without a `LocalCommand` of the user, 1 trouble (save, torn write, script cut, killed or abandoned, other client) |
| `files` | what do the local files hold whoever meets there; is what the user picks usable; are the shims authorized; does a test paste decide well | 2 processes and 6 workloads: uploads that end together (log cap 2), setup while the daemon starts twice, onboarding of 2 machines with 2 aliases, an installation during it, a test paste during uploads, and one with every measurement of 3 routes around the window of 75 and all orders of priorities; 1 crash |
| `setup_included` (violation) | does uninstall remove all blocks if an included file names the alias | 3 commands, 1 route |

Why the bounds are enough: each property is about a pair (two saves, two
measurements, two uploads, an old and a new process), and each instance has that
pair and one actor more where it can interfere; the proofs remove the bounds for
the properties they cover.  Every bound is a constant with `Max` in its name, or
the size of a set of processes.

`CHECK_DEADLOCK FALSE` is used where the system may stop: a cache nobody uses
(`cache_network`), no command, app or daemon left (`lifecycle`), and no further
command (`setup`).  `files` keeps the check: only a workload that is finished stops.

### Fairness

- `SessionStore`: goroutines are scheduled (WF); a goroutine waiting for a
  `sync.Mutex` gets it in the end, because its starvation mode hands the lock
  over (SF of `LockStore`).  Clients, time, crashes and starts are not fair.
- `RouteCache`: the loop's goroutine, its timer, and the goroutines that measure
  are scheduled, and each ssh ends.  The upload test's ssh has no keep-alive
  (`routes.go:209`): one that hangs for ever is not modelled.
- `Paste`: each step of a connection is scheduled and each tool ends; the user is
  not fair.
- `AppLifecycle`: processes and the command are scheduled; timeouts, failures,
  users and new commands are not fair.

## 4. What the violations say

- `store_failedload`: `NewServer` ignores an error of `loadSessionBindings`
  (`daemon.go:77`); the next save replaces the rows by the empty table.
- `lifecycle_restart`: `relaunchApp` does not wait for the old daemon; the new
  one gives up, and `DaemonProcess` does not start another.
- `setup_included`: `insertBeforeHost` finds the `Host` line of Clipport's own
  session block and puts the forward block inside it; the removal ends the outer
  block at the inner end marker.  The same happens, with larger bounds than those
  of `setup` (five commands, two troubles), when the user restores a torn file
  while an edit computed from the torn text is still to be written: the session
  block is then all that names the alias.  Hence "or raced" in `UninstallCleans`.

More things the models allow for, in what their properties exclude.  A
measurement running during `InvalidateAll` stores its result afterwards, over that
of `RefreshAll` if it ends last, and a retry may take a route measured before its
upload failed: hence "unless overtaken" in `StaleOnlyIfOvertaken` and
`RetryFreshUnlessOvertaken`.

Where a paste goes.  A request that names no pane, or one whose binding resolves to
no machine, follows the focus (`daemon.go:207`): if the focus moves before the
question for the active session, the image goes where the pane focused then says.
`PasteGoesToItsPane` notes it (`moved`) and demands what is left.  One pane decides,
the one the paste took for its session: its binding, or what it shows if that
binding resolves to no machine, as they were then, or a name that was opened in it
since; never the binding of one pane with the title of another, and nothing that is
focused later.  A request from a pane whose binding resolves (`bound`) never follows
the focus and is never refused.  Without a default host a stale binding gives way to
the host that is shown (`daemon_test.go:789`); with one every unknown name resolves
(`config.go:205`), so a binding to a removed machine keeps its pastes at the default
host, and the property counts that among what the pane says.

The properties of the local files except what really goes wrong there, and say so
with a ghost each:

- `clobbered`: two saves of the registry met; one is lost, or the file torn, and
  `registry.Load` then fails for ever, since nobody rewrites a file it cannot read.
- `overrun`: a line met another goroutine's trim, or a crash cut a trim off.
- `mixed`: two writers of `config.toml` met, or one was cut off after `O_TRUNC`; an
  empty file is valid, so the next writer goes on from an empty configuration.
- `collided`: two processes created the token, or one read it while it was empty.
- `reopened`: `esc` in the review, "add another machine" in the help
  (`tui.go:308`), reopens the list of aliases and not the name screen, so that a
  machine can be saved with an empty name or one in use; `BuildConfig` then fails.

And `q` ends the onboarding also while a name is typed (`tui.go:84`), so that no
machine name can contain it.

## 5. What is proved

All theorems are for any number of processes, machines, routes and steps.

- `SessionStoreProofs`.  `StoreInv` is inductive: memory covers the disk, what
  was acknowledged and what is being answered; a snapshot about to be written
  covers what it replaces, because only the holder of `sessionStoreMu` has one.
  From it follow `Durable`, `AckedVisible` and the action property
  `DiskNeverGoesBack`.  `RecentMatches` is proved of the steps that change the
  table or the list, each of which changes both, and of an empty start; whether
  loads may fail is no matter to it.  Assumption of these three: `LoadMayFail = FALSE`
  (`store_failedload` shows why); `TypeCorrect` needs none.  `OldRows` (a spelling
  that is no key is in old stores only) gives `LoadKeepsLatest`.
  `StoreImplementsBindings`: under `StoreInv` every step maps to one of
  `SessionBindings` or to a stutter; a commit maps to `Save` because a snapshot
  covers what was promised when it was taken, and only the holder of the lock
  changes what is on disk.
- `RouteChoiceProofs`.  `LoopInv`: after `n` tests the best route so far is at
  most the window slower than each of them.  It gives `NotMuchSlower`.  It does
  not give more: the comparison is with the best so far, so among three routes a
  chain of near ties is not decided by priority.  `PriorityInv`: as long as all
  routes are close the best so far is the first in order that answers, and the
  probes passed did not.  It gives `PriorityDecides`.
- `RouteCacheProofs`.  `CacheInv` ties the ghosts of an entry (epoch, failures,
  overtaken) to those of the measurement it came from; it gives
  `RetryFreshUnlessOvertaken`, `EmptyMeansInvalidated`, `StaleOnlyIfOvertaken`
  and `HitNotExpired`.
- `PasteProofs`.  `HasMachine`, `FilesInv` and `PaneInv`: a connection between
  `Create` and `Sent` owns the file it names, because creation refuses an
  existing file; what decides for the pane a connection took for its session (a
  binding that resolves, else the title it keeps) has been noted, forgetting a
  binding changes no pane whose binding resolves, and a request from a bound pane
  is at no stage that asks for the focus.  They give `AnsweredPathHoldsImage` and `PasteGoesToItsPane`.
- `SshConfigProofs`.  What the edits of `~/.ssh/config` do to any text.  A text is
  `Sound` if each of its markers is in a whole block or in one that was cut off for
  good, each forward is in its block, no `LocalCommand` is in the section of a
  forward, and each forward comes once and before the user's sections for its alias.
  `removeBlocks`, `updateSessionBlock` and the user's lines are computed line by
  line, so what they return is proved by an invariant of the scan (`ScanInv`,
  `HookInv`): what is kept is a selection of the lines, in their order, with nothing
  of the user's missing.  An edit is then a selection, a block put in at a place, or
  lines added at the end, and each of the three keeps a text sound; so does cutting
  it off anywhere (`PrefixSound`), as a torn write does.  `InstallForwardKeeps`,
  `RemoveForwardKeeps`, `InstallHookKeeps` and `RemoveAllKeeps` say it of each edit,
  with the user's lines, and the first three with the hooks that ssh runs.
  `Intact` is stronger: every line of Clipport is in a whole block of four, and the
  user names each alias before its session block.  Then the first section of an
  alias is the user's, and a forward put before it is not put into a block
  (`InsertIntact`); every edit keeps a text intact, and `RemoveAllClipportBlocks`
  leaves no line of Clipport in it (`RemoveAllCleans`).
  `InstallForwarded`: after `InstallForward` the forward of the alias is there, and
  every forward that was.
- `SetupProofs`.  `ShimInv`: the lock of an account is that of the script that
  installs or of one that was killed, and a script between its check and the wrapper
  still finds the token it checked, or none; the second part needs the first, as
  only the holder of the lock publishes a token.  It gives `LockOwned` and
  `IdentityKept` of `RemoteShims` for any number of scripts and clients, and `Setup`
  implements `RemoteShims` (`ImplementsRemote`), so it inherits them.  `EditInv`
  (what an edit is about to replace is in a backup) gives `Recoverable` for any
  commands, saves and torn writes.  `ConfigInv` adds to the soundness of the file
  that the text an edit will write keeps what the edit has read, and that ssh runs
  the hooks reported installed with both.  It gives `UserLinesKept` and
  `OursComeFirst`.  `SetupInv` follows one run of `setup` while nobody interferes:
  the script waited for is the command's own, with its token; as far as that script
  has come the account has the token, wrapper and links of this Mac; the routes
  done are the first ones, their forwards are in the file, and the text of an edit
  has that of the route in hand too.  No script of the other client undoes it:
  `TokenChecked` of `ShimInv` says that one past its check has this Mac's token or
  finds none, so an install never replaces the wrapper of a token that is there
  (`AccountStable`).  With `ConfigInv` it gives `SetupWorks`.  `WholeInv`: the file
  is intact as long as no write was torn or raced, and what an edit makes of an
  intact text is intact.  It gives `UninstallCleans`.  Hypothesis: `AliasesNamed`,
  that the user's own file names every alias; `setup_included` shows what happens
  where only an included file does.
- `LocalFilesProofs`.  `FilesInv` is the conjunction of an invariant per file, each
  of the form "unless its ghost is set, one process at a time writes, and its copy
  is the file with its own change", and `TokensFromFile`.  It gives `RegistryKept`,
  `LogKept`, `ConfigKept`, `ShimsAuthorized` and `GroupsBuildable` for any jobs,
  processes and crashes.  `LocalTypesCorrect` types all of it: a process at a task
  has what the task needs (`TaskTold`), so what it writes is a text of that file.
  `MeasuresAsAlone`: every step of `LocalFiles` is one of `RouteChoice` or leaves
  the measurement alone, so its theorems carry over.
- `AppLifecycleProofs`.  `LifecycleInv` adds to the types that each onboarding saved
  one configuration (which bounds `config`) and `LeavingInv`: the child an app waits
  for as it leaves is still the one it remembers, and has been sent a signal.  That
  needs `FreeDaemon`: a process id is not used again while somebody waits for it.
  It gives `OneChild` and `QuitStopsDaemon` for any processes, clicks and crashes.
  `OnboardInv` gives `ReadyMeansServing`: before the command has seen the old daemon
  gone every daemon may be an old one, then there is none, and what is started after
  that has the configuration that onboarding saved.  Hypothesis: `GroupKill`, that
  launchd kills the process group of a job that it removes, as it does unless the
  property list says `AbandonProcessGroup`, and Clipport's does not; without it an
  orphan can answer for the new daemon.

Numbers in these proofs are counted up without the library's induction theorems,
which no prover here can instantiate: `SetInduction`, of a set of numbers that has 0
and with each `n` also `n + 1`, follows from the pigeonhole theorem for finite sets,
and `RecursionExists` from it.  They are what makes statements about the recursive
functions over lines provable.

Assumptions are the `ASSUME`s of the modules: bounds are natural numbers, sets of
processes do not contain the values that stand for "nobody"; `FilesAssumption` and
`SectionsAssumption` (what the user writes has no line of Clipport, and a
`LocalCommand` that is added belongs to a `Host` added with it), `RoutesAssumption`
(a machine has a route, as `config.Load` demands), `TokensAssumption` of
`RemoteShims` (no token file is not a token); the names, bounds and workloads of
`LocalFiles`.

Only model-checked: all liveness properties (`EveryRequestEnds`,
`MeasuredAfterChange`, `EveryPasteAnswered`, `DaemonsEndWithApp`, `StartServes`),
which with fairness and ENABLED are out of the prover's reach.

## 6. What is not modelled, and the plan

Left out on purpose: the text of messages, formats on disk and on the wire, the
contents of images, how long things take (a timeout may happen at any step), the
ssh protocol, iTerm, launchd and SQLite beyond what the code relies on.

Not modelled, component by component:

- doctor, status of the menu, argument parsing: they read and report.
- the repair of an unmapped session in `clipctl paste` asks the user and then sends
  two requests that `Paste` and `SessionStore` already have, in any order.
- reading the SSH config for aliases (`onboard/sshconfig.go`): a pure reader of a
  file format.
- links, launchd's property list and iTerm's key binding of an installation, and
  their removal: calls of external tools, none of which reads what another wrote.
- `RemoveSessionHook`: no command calls it.
