------------------------------ MODULE LocalFiles ------------------------------
(***************************************************************************)
(* The programs of this Mac on the files they share: the daemon's paste    *)
(* goroutines and its start, clipctl's onboarding, installation record,    *)
(* shim setup and test paste.  Each process works through its jobs, each   *)
(* job through its tasks; a task that cannot go on ends its job, and the   *)
(* operating system process may die anywhere, with all its goroutines, and *)
(* be started again for its next job.                                      *)
(*                                                                         *)
(* Composes Registry, EventLog, LocalToken, ConfigFile, MachinePicker and  *)
(* TestPaste.  Which jobs meet is the workload, chosen at the start.       *)
(***************************************************************************)
EXTENDS TestPaste, Sequences, FiniteSets

CONSTANTS
  Procs, Hosts, Values, NoValue,                        \* Registry
  Cap,                                                  \* EventLog
  Drawn, EmptyToken, NoToken,                           \* LocalToken
  Machines, Installs, HotKeys, Unset,                   \* ConfigFile
  Names, NoName, Aliases, Filters, NoFilter, Matching, MaxGroups,  \* MachinePicker
  Workloads,   \* who does what: [owner: process -> OS process, jobs: process ->
               \* its jobs, machines: those of the configuration found at the
               \* start, measures: whether routes are tested]
  MaxCrashes   \* bound on the deaths of a process

ASSUME CapAssumption == Cap \in Nat \ {0}
ASSUME ProcsFinite == IsFiniteSet(Procs)
ASSUME MatchingAssumption == Matching \in [Filters -> SUBSET (1..Aliases)]
\* What onboarding names a machine may be in a configuration, and a route in
\* the registry.
ASSUME SharedNamesAssumption == Names \subseteq Machines /\ Index \subseteq Values
ASSUME BoundsAssumption == Aliases \in Nat /\ MaxCrashes \in Nat
ASSUME TokensAssumption ==
  EmptyToken # NoToken /\ \A p \in Procs : Drawn[p] \notin {EmptyToken, NoToken}

VARIABLES
  hosts, tmp, saving, update, table, fd, truth, stale, clobbered,
  log, recording, kept, appended, killed, overrun,
  tokenFile, creating, held, collided,
  configFile, editing, change, draft, intended, outdated, mixed,
  screen, filterMode, filter, cursor, selected, groups, input, reopened,
  owner,       \* the OS process each process belongs to
  todo,        \* the jobs of each process, the current one first
  bearer,      \* the token the HTTP endpoint asks for; NoToken while it is down
  shimToken,   \* the token on the remote machine; NoToken without shims
  crashes

Reg == INSTANCE Registry
Log == INSTANCE EventLog
Tok == INSTANCE LocalToken
Cfg == INSTANCE ConfigFile
Picker == INSTANCE MachinePicker

regVars == <<hosts, tmp, saving, update, table, fd, truth, stale, clobbered>>
logVars == <<log, recording, kept, appended, killed, overrun>>
tokenVars == <<tokenFile, creating, held, collided>>
configVars == <<configFile, editing, change, draft, intended, outdated, mixed>>
pickerVars == <<screen, filterMode, filter, cursor, selected, groups, input, reopened>>
trialVars == <<choiceVars, testVars>>
workVars == <<owner, todo, bearer, shimToken, crashes>>
vars == <<regVars, logVars, tokenVars, configVars, pickerVars, trialVars, workVars>>

\* The tasks of a job, with what they are told.
TaskKind ==
  [op : {"record"}, update : Reg!Update]
  \cup [op : {"event", "token", "listen", "shims", "pick"}]
  \cup [op : {"config"}, needs : SUBSET Machines]
  \cup [op : {"change"}, change : Cfg!Change, warns : BOOLEAN]
  \cup [op : {"test"}, host : Hosts]
Job == Seq(TaskKind) \ {<<>>}

ASSUME WorkloadsAssumption ==
  \A w \in Workloads : w.jobs \in [Procs -> Seq(Job)] /\ w.machines \subseteq Machines

TypeOK ==
  /\ Reg!RegistryTypeOK /\ Log!EventLogTypeOK /\ Tok!LocalTokenTypeOK
  /\ Cfg!ConfigFileTypeOK /\ Picker!PickerTypeOK
  /\ ChoiceTypeOK /\ TestTypeOK
  /\ bearer \in Tok!Tokens \cup {EmptyToken, NoToken}
  /\ shimToken \in Tok!Tokens \cup {NoToken}
  /\ crashes \in 0..MaxCrashes
  /\ todo \in [Procs -> Seq(Job)]

-----------------------------------------------------------------------------
(* The tasks of a process                                                  *)

Busy(p) == todo[p] # <<>>
Task(p) == Head(Head(todo[p]))
Does(p, op) == Busy(p) /\ Task(p).op = op

\* The task is done; tasks found out now come before the rest of the job.
Done(p, more) ==
  LET rest == more \o Tail(Head(todo[p]))
  IN todo' = [todo EXCEPT ![p] = IF rest = <<>> THEN Tail(@) ELSE <<rest>> \o Tail(@)]
NextTask(p) == Done(p, <<>>)

\* The job ends here.
GiveUp(p) == todo' = [todo EXCEPT ![p] = Tail(@)]

others == <<owner, bearer, shimToken, crashes>>

\* One step of a component's operation; when the operation returns, the task
\* is done.
Then(p, returned) == IF returned THEN NextTask(p) ELSE UNCHANGED todo

-----------------------------------------------------------------------------
(* What the tasks do                                                       *)

\* recordRegistry, markShim, markForward and testpaste.record, whose callers
\* all drop the error.
RecordHost(p) ==
  /\ Does(p, "record")
  /\ \/ Reg!LoadHosts(p, Task(p).update) \/ Reg!LoadHostsFails(p)
     \/ Reg!OpenTmp(p) \/ Reg!WriteTmp(p) \/ Reg!WriteTmpFails(p)
     \/ Reg!RenameTmp(p) \/ Reg!RenameTmpFails(p)
  /\ Then(p, saving'[p] = "out")
  /\ UNCHANGED <<logVars, tokenVars, configVars, pickerVars, trialVars, others>>

RecordEvent(p) ==
  /\ Does(p, "event")
  /\ Log!AppendEvent(p) \/ Log!ReadBack(p) \/ Log!EmptyLog(p) \/ Log!WriteKept(p)
  /\ Then(p, recording'[p] = "out")
  /\ UNCHANGED <<regVars, tokenVars, configVars, pickerVars, trialVars, others>>

\* token.LoadOrCreate; a failed write is an error for everyone.
UseToken(p) ==
  /\ Does(p, "token")
  /\ \/ /\ Tok!LoadToken(p) \/ Tok!NoTokenFile(p) \/ Tok!OpenToken(p) \/ Tok!WriteToken(p)
        /\ Then(p, creating'[p] = "out")
     \/ Tok!WriteTokenFails(p) /\ GiveUp(p)
  /\ UNCHANGED <<regVars, logVars, configVars, pickerVars, trialVars, others>>

\* The daemon's HTTP endpoint goes up with the token, even an empty one.
Listen(p) ==
  /\ Does(p, "listen")
  /\ bearer' = held[p]
  /\ NextTask(p)
  /\ UNCHANGED <<regVars, logVars, tokenVars, configVars, pickerVars, trialVars,
                 owner, shimToken, crashes>>

\* shims.Install refuses an empty token, and setup ends with the error.
InstallShims(p) ==
  /\ Does(p, "shims")
  /\ IF held[p] = EmptyToken
     THEN GiveUp(p) /\ UNCHANGED shimToken
     ELSE NextTask(p) /\ shimToken' = held[p]
  /\ UNCHANGED <<regVars, logVars, tokenVars, configVars, pickerVars, trialVars,
                 owner, bearer, crashes>>

\* config.Load of the daemon and of commands for a machine: no file, a torn
\* one or one without machines ends them.
ReadConfig(p) ==
  /\ Does(p, "config")
  /\ IF /\ Cfg!IsWhole(configFile)
        /\ configFile.data.machines # {} /\ Task(p).needs \subseteq configFile.data.machines
     THEN NextTask(p) ELSE GiveUp(p)
  /\ UNCHANGED <<regVars, logVars, tokenVars, configVars, pickerVars, trialVars, others>>

\* A writer of the configuration; some of them only warn about an error.
EditConfig(p) ==
  LET c == Task(p).change
  IN /\ Does(p, "change")
     /\ \/ /\ Cfg!LoadConfig(p, c) \/ Cfg!OpenConfig(p) \/ Cfg!WriteConfig(p)
           /\ Then(p, editing'[p] = "out")
        \/ /\ Cfg!LoadConfigFails(p, c) \/ Cfg!WriteConfigFails(p)
           /\ IF Task(p).warns THEN NextTask(p) ELSE GiveUp(p)
     /\ UNCHANGED <<regVars, logVars, tokenVars, pickerVars, trialVars, others>>

PickMachines(p) ==
  /\ Does(p, "pick")
  /\ Picker!PickerNext
  /\ UNCHANGED <<regVars, logVars, tokenVars, configVars, trialVars, todo, others>>

\* BuildConfig, then WriteConfig; what cannot be built, or was cancelled, ends
\* the onboarding.
BuildConfig(p) ==
  /\ Does(p, "pick") /\ screen \in {"done", "cancelled"}
  /\ IF screen = "done" /\ Picker!Buildable(groups)
     THEN Done(p, <<[op |-> "change", warns |-> FALSE,
                     change |-> [op |-> "onboard",
                                 machines |-> {groups[g].name : g \in DOMAIN groups}]]>>)
     ELSE GiveUp(p)
  /\ UNCHANGED <<regVars, logVars, tokenVars, configVars, pickerVars, trialVars, others>>

\* The test paste of a machine.  An unreadable registry remembers nothing.
RunTest(p) ==
  /\ Does(p, "test") /\ trial \notin {"passed", "failed"}
  /\ \/ LookUp(IF Reg!Readable(hosts)
                    THEN Reg!Entries(hosts)[Task(p).host]["route"] ELSE NoValue)
     \/ TestNext
  /\ UNCHANGED <<regVars, logVars, tokenVars, configVars, pickerVars, todo, others>>

\* A test that passed records its route.
TestEnds(p) ==
  /\ Does(p, "test") /\ trial \in {"passed", "failed"}
  /\ IF trial = "passed"
     THEN Done(p, <<[op |-> "record", update |->
                      [host |-> Task(p).host, field |-> "route", value |-> tried]]>>)
     ELSE GiveUp(p)
  /\ UNCHANGED <<regVars, logVars, tokenVars, configVars, pickerVars, trialVars, others>>

\* An OS process dies with all its goroutines, each in the middle of its job.
Crash(o) ==
  LET S == {p \in Procs : owner[p] = o}
  IN /\ crashes < MaxCrashes /\ \E p \in S : Busy(p)
     /\ crashes' = crashes + 1
     /\ Reg!RegistryCrash(S) /\ Log!EventLogCrash(S) /\ Tok!TokenCrash(S) /\ Cfg!ConfigCrash(S)
     /\ todo' = [p \in Procs |-> IF p \in S /\ Busy(p) THEN Tail(todo[p]) ELSE todo[p]]
     /\ bearer' = IF o = "daemon" THEN NoToken ELSE bearer
     /\ IF \E p \in S : Does(p, "pick")
        THEN screen' = "cancelled" /\ UNCHANGED <<filterMode, filter, cursor, selected,
                                                  groups, input, reopened>>
        ELSE UNCHANGED pickerVars
     /\ IF \E p \in S : Does(p, "test")
        THEN trial' = "out" /\ UNCHANGED <<choiceVars, tried, remembered>>
        ELSE UNCHANGED trialVars
     /\ UNCHANGED <<owner, shimToken>>

Finished == (\A p \in Procs : ~Busy(p)) /\ UNCHANGED vars

-----------------------------------------------------------------------------
Init ==
  /\ Reg!RegistryInit /\ Log!EventLogInit /\ Tok!LocalTokenInit
  /\ Picker!PickerInit /\ TestInit
  /\ \E w \in Workloads :
       /\ owner = w.owner /\ todo = w.jobs
       /\ Cfg!ConfigFileInit(w.machines)
       /\ ChoiceInit /\ (w.measures \/ Unmeasured)
  /\ bearer = NoToken /\ shimToken = NoToken
  /\ crashes = 0

Step(p) ==
  \/ RecordHost(p) \/ RecordEvent(p) \/ UseToken(p) \/ Listen(p) \/ InstallShims(p)
  \/ ReadConfig(p) \/ EditConfig(p) \/ PickMachines(p) \/ BuildConfig(p)
  \/ RunTest(p) \/ TestEnds(p)

Next == (\E p \in Procs : Step(p)) \/ (\E p \in Procs : Crash(owner[p])) \/ Finished

Spec == Init /\ [][Next]_vars

-----------------------------------------------------------------------------
(* Properties                                                              *)

\* Those of the components, in the company of the others; NotMuchSlower,
\* PriorityDecides and TestMeasuresBeforeFailing come with TestPaste.
RegistryKept == Reg!RegistryKept
LogKept == Log!LogKept
ConfigKept == Cfg!ConfigKept
GroupsBuildable == Picker!GroupsBuildable

\* authorized, of a request with the token sent.
Authorized(sent) == bearer # EmptyToken /\ sent = bearer

\* Whichever of the daemon and setup comes first, the remote shims may read
\* the clipboard of a daemon that listens: unless the token was created by two
\* of them at once, or a creation was cut off and left an empty file behind.
ShimsAuthorized ==
  ~collided /\ bearer # NoToken =>
    bearer # EmptyToken /\ (shimToken # NoToken => Authorized(shimToken))

-----------------------------------------------------------------------------
(* The inductive invariant of the local files (proved in LocalFilesProofs)   *)

\* Who listens, and the remote machine, have the token that is in the file.
TokensFromFile ==
  ~collided => /\ bearer # NoToken => tokenFile = Tok!Whole(bearer)
               /\ shimToken # NoToken => tokenFile = Tok!Whole(shimToken)

FilesInv ==
  /\ Reg!RegistryInv /\ Log!EventLogInv /\ Tok!TokenInv /\ Cfg!ConfigInv
  /\ Picker!PickerInv
  /\ TokensFromFile

=============================================================================
