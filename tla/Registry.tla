------------------------------- MODULE Registry -------------------------------
(***************************************************************************)
(* hosts.json, what is remembered of each machine between uploads: the     *)
(* route that last worked, and what setup installed.  The daemon's paste   *)
(* goroutines, clipctl's test paste and the setup commands all load it,    *)
(* change one entry and save it, without a lock: a save writes hosts.json  *)
(* .tmp, a name they share, and renames it over hosts.json.                *)
(*                                                                         *)
(* One action per system call that other processes can see.  MkdirAll and  *)
(* the values nobody reads back (path, latency, time) are left out.        *)
(***************************************************************************)
EXTENDS FileContents

CONSTANTS
  Procs,    \* goroutines and processes that record something
  Hosts,    \* keys of the table: machine names and SSH targets
  Values,   \* what an update may set a field to
  NoValue   \* a field that was never set

Fields == {"route", "shim", "forward"}
Update == [host : Hosts, field : Fields, value : Values]
Table == [Hosts -> [Fields -> Values \cup {NoValue}]]
NoEntries == [h \in Hosts |-> [f \in Fields |-> NoValue]]

VARIABLES
  hosts,       \* content of hosts.json
  tmp,         \* content of hosts.json.tmp
  saving,      \* how far each process is: "out", "loaded", "opened", "written"
  update,      \* what it records
  table,       \* its copy of the registry, changed
  fd,          \* the file it has open: the one named "tmp", "hosts", or "gone"
  truth,       \* ghost: the registry if each save that ended had been atomic
  stale,       \* ghost: another save ended since the process loaded
  clobbered    \* ghost: a save was lost or mixed up with another one

regVars == <<hosts, tmp, saving, update, table, fd, truth, stale, clobbered>>

NoUpdate == [host |-> NoValue, field |-> NoValue, value |-> NoValue]

RegistryTypeOK ==
  /\ Holds(hosts, Table) /\ Holds(tmp, Table)
  /\ saving \in [Procs -> {"out", "loaded", "opened", "written"}]
  /\ update \in [Procs -> Update \cup {NoUpdate}]
  /\ table \in [Procs -> Table]
  /\ fd \in [Procs -> {"none", "tmp", "hosts", "gone"}]
  /\ truth \in Table
  /\ stale \in [Procs -> BOOLEAN] /\ clobbered \in BOOLEAN

RegistryInit ==
  /\ hosts = Missing /\ tmp = Missing
  /\ saving = [p \in Procs |-> "out"]
  /\ update = [p \in Procs |-> NoUpdate]
  /\ table = [p \in Procs |-> NoEntries]
  /\ fd = [p \in Procs |-> "none"]
  /\ truth = NoEntries
  /\ stale = [p \in Procs |-> FALSE] /\ clobbered = FALSE

\* registry.Load succeeds: no file is an empty registry, damaged text is an
\* error.
Readable(file) == file = Missing \/ IsWhole(file)
Entries(file) == IF IsWhole(file) THEN file.data ELSE NoEntries

\* UpdateHost: one field of one entry.
Apply(t, u) == [t EXCEPT ![u.host] = [@ EXCEPT ![u.field] = u.value]]

\* The process is done, or dead: its locals are gone.
Leave(S) ==
  /\ saving' = [p \in Procs |-> IF p \in S THEN "out" ELSE saving[p]]
  /\ update' = [p \in Procs |-> IF p \in S THEN NoUpdate ELSE update[p]]
  /\ table' = [p \in Procs |-> IF p \in S THEN NoEntries ELSE table[p]]
  /\ stale' = [p \in Procs |-> IF p \in S THEN FALSE ELSE stale[p]]

\* registry.Load and UpdateHost.
LoadHosts(p, u) ==
  /\ saving[p] = "out" /\ Readable(hosts)
  /\ saving' = [saving EXCEPT ![p] = "loaded"]
  /\ update' = [update EXCEPT ![p] = u]
  /\ table' = [table EXCEPT ![p] = Apply(Entries(hosts), u)]
  /\ UNCHANGED <<hosts, tmp, fd, truth, stale, clobbered>>

\* registry.Load fails; the callers drop the error and what they had to record.
LoadHostsFails(p) ==
  /\ saving[p] = "out" /\ ~Readable(hosts)
  /\ UNCHANGED regVars

\* Mutant: hosts.json itself is opened and emptied.
OpenInPlace(p) ==
  /\ saving[p] = "loaded"
  /\ saving' = [saving EXCEPT ![p] = "opened"]
  /\ hosts' = Empty
  /\ fd' = [fd EXCEPT ![p] = "hosts"]
  /\ UNCHANGED <<tmp, update, table, truth, stale, clobbered>>

\* Save: os.WriteFile opens and empties hosts.json.tmp.
OpenTmp(p) ==
  /\ saving[p] = "loaded"
  /\ saving' = [saving EXCEPT ![p] = "opened"]
  /\ tmp' = Empty
  /\ fd' = [fd EXCEPT ![p] = "tmp"]
  /\ clobbered' = (clobbered \/ \E q \in Procs : saving[q] \in {"opened", "written"})
  /\ UNCHANGED <<hosts, update, table, truth, stale>>

\* The file p opened, by the name it has now, and a change of its content.
Opened(p) == IF fd[p] = "hosts" THEN hosts ELSE tmp
ChangeOpened(p, content) ==
  CASE fd[p] = "tmp" -> tmp' = content /\ UNCHANGED hosts
    [] fd[p] = "hosts" -> hosts' = content /\ UNCHANGED tmp
    [] OTHER -> UNCHANGED <<hosts, tmp>>

\* os.WriteFile writes and closes.
WriteTmp(p) ==
  /\ saving[p] = "opened"
  /\ \E content \in Overwrite(Opened(p), table[p]) : ChangeOpened(p, content)
  /\ saving' = [saving EXCEPT ![p] = "written"]
  /\ fd' = [fd EXCEPT ![p] = "none"]
  /\ UNCHANGED <<update, table, truth, stale, clobbered>>

\* The disk is full: part of the text is written, and Save returns the error.
WriteTmpFails(p) ==
  /\ saving[p] = "opened"
  /\ \E content \in {Empty, Torn} : ChangeOpened(p, content)
  /\ Leave({p})
  /\ fd' = [fd EXCEPT ![p] = "none"]
  /\ UNCHANGED <<truth, clobbered>>

\* os.Rename: whatever is in hosts.json.tmp becomes hosts.json, and files that
\* are open go with their names.
RenameTmp(p) ==
  /\ saving[p] = "written" /\ tmp # Missing
  /\ hosts' = tmp /\ tmp' = Missing
  /\ fd' = [q \in Procs |-> CASE fd[q] = "tmp" -> "hosts"
                              [] fd[q] = "hosts" -> "gone"
                              [] OTHER -> fd[q]]
  /\ truth' = Apply(truth, update[p])
  /\ clobbered' = (clobbered \/ stale[p])
  /\ saving' = [saving EXCEPT ![p] = "out"]
  /\ update' = [update EXCEPT ![p] = NoUpdate]
  /\ table' = [table EXCEPT ![p] = NoEntries]
  /\ stale' = [q \in Procs |-> q # p /\ (stale[q] \/ saving[q] # "out")]

\* Another process has renamed the file away: Save returns the error.
RenameTmpFails(p) ==
  /\ saving[p] = "written" /\ tmp = Missing
  /\ Leave({p})
  /\ UNCHANGED <<hosts, tmp, fd, truth, clobbered>>

\* The process S runs in dies.
RegistryCrash(S) ==
  /\ Leave(S)
  /\ fd' = [p \in Procs |-> IF p \in S THEN "none" ELSE fd[p]]
  /\ UNCHANGED <<hosts, tmp, truth, clobbered>>

-----------------------------------------------------------------------------
(* Property                                                                *)

\* Whenever processes die and whatever they leave behind, hosts.json can be
\* read and says what every save that ended recorded, unless two saves really
\* met: one loaded before the other ended, or both had the temporary file.
RegistryKept == ~clobbered => Readable(hosts) /\ Entries(hosts) = truth

-----------------------------------------------------------------------------
(* The inductive invariant behind RegistryKept (proved in LocalFilesProofs)  *)

AtTmp(p) == saving[p] \in {"opened", "written"}

RegistryShape ==
  /\ saving \in [Procs -> {"out", "loaded", "opened", "written"}]
  /\ fd \in [Procs -> {"none", "tmp", "hosts", "gone"}]
  /\ stale \in [Procs -> BOOLEAN]
  /\ table = [p \in Procs |-> table[p]] /\ update = [p \in Procs |-> update[p]]

\* One process at a time has the temporary file, which holds what it wrote;
\* a process whose copy is not stale has the registry with its own change.
Undisturbed ==
  /\ Readable(hosts) /\ Entries(hosts) = truth
  /\ \A p, q \in Procs : AtTmp(p) /\ AtTmp(q) => p = q
  /\ \A p \in Procs :
       /\ fd[p] # "none" => saving[p] = "opened"
       /\ saving[p] = "opened" => fd[p] = "tmp" /\ tmp = Empty
       /\ saving[p] = "written" => tmp = Whole(table[p])
       /\ saving[p] # "out" /\ ~stale[p] => table[p] = Apply(truth, update[p])

RegistryInv == RegistryShape /\ (~clobbered => Undisturbed)

=============================================================================
