------------------------------ MODULE ConfigFile ------------------------------
(***************************************************************************)
(* config.toml: the machines that onboarding writes and the settings that  *)
(* installation and the iTerm setup record, each leaving the part of the   *)
(* other alone.  Every writer loads the file, changes its copy and saves   *)
(* it in place, without a lock; daemons and commands read it at any time.  *)
(*                                                                         *)
(* An emptied file is valid TOML, the configuration with nothing in it; a  *)
(* torn one does not parse.  The texts fit in the encoder's buffer, so     *)
(* they are written with one call.                                         *)
(***************************************************************************)
EXTENDS FileContents

CONSTANTS
  Procs,       \* processes that write the configuration
  Machines,    \* machine names
  Installs,    \* sets of paths that an installation may record
  HotKeys,     \* iTerm key codes
  Unset        \* a setting that is absent

Local == [install : Installs \cup {Unset}, key : HotKeys \cup {Unset},
          configured : BOOLEAN]
Config == [machines : SUBSET Machines, local : Local]
NoLocal == [install |-> Unset, key |-> Unset, configured |-> FALSE]
NoConfig == [machines |-> {}, local |-> NoLocal]

VARIABLES
  configFile,   \* content of config.toml
  editing,      \* how far each process is: "out", "loaded", "opened"
  change,       \* the change it makes
  draft,        \* its copy of the configuration, changed
  intended,     \* ghost: the configuration if each save that ended had been atomic
  outdated,     \* ghost: another process has rewritten the file since the load
  mixed         \* ghost: a save was lost, mixed with another one, or cut off

configVars == <<configFile, editing, change, draft, intended, outdated, mixed>>

\* The three writers and what each sets: recordInstallSettings the settings
\* it is given, recordItermConfigured, WriteConfig.
Change == [op : {"install"}, install : Installs \cup {Unset}, key : HotKeys \cup {Unset}]
          \cup [op : {"iterm"}, key : HotKeys]
          \cup [op : {"onboard"}, machines : (SUBSET Machines) \ {{}}]
NoChange == [op |-> "none"]

ConfigFileTypeOK ==
  /\ Holds(configFile, Config)
  /\ editing \in [Procs -> {"out", "loaded", "opened"}]
  /\ change \in [Procs -> Change \cup {NoChange}]
  /\ draft \in [Procs -> Config]
  /\ intended \in Config
  /\ outdated \in [Procs -> BOOLEAN] /\ mixed \in BOOLEAN

\* A configuration with machines is there, or none is.
ConfigFileInit(machines) ==
  /\ configFile = IF machines = {} THEN Missing ELSE Whole([NoConfig EXCEPT !.machines = machines])
  /\ editing = [p \in Procs |-> "out"]
  /\ change = [p \in Procs |-> NoChange]
  /\ draft = [p \in Procs |-> NoConfig]
  /\ intended = [NoConfig EXCEPT !.machines = machines]
  /\ outdated = [p \in Procs |-> FALSE] /\ mixed = FALSE

\* What a file decodes to, if it does.
Decoded(file) == IF IsWhole(file) THEN file.data ELSE NoConfig

\* recordInstallSettings: another hotkey has still to be configured.
WithInstall(l, c) ==
  [install |-> IF c.install = Unset THEN l.install ELSE c.install,
   key |-> IF c.key = Unset THEN l.key ELSE c.key,
   configured |-> l.configured /\ (c.key = Unset \/ l.key \in {Unset, c.key})]

\* recordItermConfigured.
WithIterm(l, c) ==
  [l EXCEPT !.configured = TRUE, !.key = IF @ = Unset THEN c.key ELSE @]

\* The change of one writer; onboarding keeps the local settings.
Changed(cfg, c) ==
  CASE c.op = "install" -> [cfg EXCEPT !.local = WithInstall(@, c)]
    [] c.op = "iterm" -> [cfg EXCEPT !.local = WithIterm(@, c)]
    [] c.op = "onboard" -> [cfg EXCEPT !.machines = c.machines]

\* The load of a writer.  LoadUnvalidatedOrEmpty refuses a file that does not
\* parse; LoadLocalBestEffort, the load of WriteConfig, takes it for empty.
CanLoad(c) == configFile # Torn \/ c.op = "onboard"

\* Mutant: onboarding starts from an empty configuration.
LoadAfresh(p, c) ==
  /\ editing[p] = "out" /\ CanLoad(c)
  /\ editing' = [editing EXCEPT ![p] = "loaded"]
  /\ change' = [change EXCEPT ![p] = c]
  /\ draft' = [draft EXCEPT ![p] =
                 Changed(IF c.op = "onboard" THEN NoConfig ELSE Decoded(configFile), c)]
  /\ outdated' = [outdated EXCEPT ![p] = \E q \in Procs : editing[q] = "opened"]
  /\ UNCHANGED <<configFile, intended, mixed>>

LoadConfig(p, c) ==
  /\ editing[p] = "out" /\ CanLoad(c)
  /\ editing' = [editing EXCEPT ![p] = "loaded"]
  /\ change' = [change EXCEPT ![p] = c]
  /\ draft' = [draft EXCEPT ![p] = Changed(Decoded(configFile), c)]
  /\ outdated' = [outdated EXCEPT ![p] = \E q \in Procs : editing[q] = "opened"]
  /\ UNCHANGED <<configFile, intended, mixed>>

LoadConfigFails(p, c) ==
  /\ editing[p] = "out" /\ ~CanLoad(c)
  /\ UNCHANGED configVars

\* Config.Save: os.OpenFile with O_TRUNC, then the encoder's one write.
OpenConfig(p) ==
  /\ editing[p] = "loaded"
  /\ configFile' = Empty
  /\ editing' = [editing EXCEPT ![p] = "opened"]
  /\ outdated' = [q \in Procs |-> outdated[q] \/ (q # p /\ editing[q] = "loaded")]
  /\ mixed' = (mixed \/ outdated[p] \/ \E q \in Procs : editing[q] = "opened")
  /\ UNCHANGED <<change, draft, intended>>

CloseConfig(S) ==
  /\ editing' = [p \in Procs |-> IF p \in S THEN "out" ELSE editing[p]]
  /\ change' = [p \in Procs |-> IF p \in S THEN NoChange ELSE change[p]]
  /\ draft' = [p \in Procs |-> IF p \in S THEN NoConfig ELSE draft[p]]
  /\ outdated' = [p \in Procs |-> p \notin S /\ outdated[p]]

WriteConfig(p) ==
  /\ editing[p] = "opened"
  /\ configFile' \in Overwrite(configFile, draft[p])
  /\ intended' = Changed(intended, change[p])
  /\ CloseConfig({p})
  /\ UNCHANGED mixed

\* The disk is full.
WriteConfigFails(p) ==
  /\ editing[p] = "opened"
  /\ configFile' \in {Empty, Torn}
  /\ mixed' = TRUE
  /\ CloseConfig({p})
  /\ UNCHANGED intended

ConfigCrash(S) ==
  /\ mixed' = (mixed \/ \E p \in S : editing[p] = "opened")
  /\ CloseConfig(S)
  /\ UNCHANGED <<configFile, intended>>

-----------------------------------------------------------------------------
(* Property                                                                *)

\* Machines and settings survive each other's writers: between saves the file
\* holds what every save that ended recorded, unless two of them met or one
\* was cut off while the file was empty.
ConfigKept ==
  ~mixed => \/ \E p \in Procs : editing[p] = "opened"
            \/ configFile # Torn /\ Decoded(configFile) = intended

-----------------------------------------------------------------------------
(* The inductive invariant behind ConfigKept (proved in LocalFilesProofs)    *)

ConfigShape ==
  /\ editing \in [Procs -> {"out", "loaded", "opened"}]
  /\ outdated \in [Procs -> BOOLEAN]
  /\ change = [p \in Procs |-> change[p]] /\ draft = [p \in Procs |-> draft[p]]

\* One process at a time rewrites the file, with a copy that is the
\* configuration with its own change; the others know theirs is outdated.
OneWriter ==
  /\ (\A p \in Procs : editing[p] # "opened") =>
       configFile # Torn /\ Decoded(configFile) = intended
  /\ \A p, q \in Procs : editing[p] = "opened" /\ editing[q] = "opened" => p = q
  /\ \A p, q \in Procs : editing[p] = "opened" /\ editing[q] = "loaded" => outdated[q]
  /\ \A p \in Procs : editing[p] = "opened" =>
       configFile = Empty /\ draft[p] = Changed(intended, change[p])
  /\ \A p \in Procs : editing[p] = "loaded" /\ ~outdated[p] =>
       draft[p] = Changed(intended, change[p])

ConfigInv == ConfigShape /\ (~mixed => OneWriter)

=============================================================================
