-------------------------------- MODULE Setup --------------------------------
(***************************************************************************)
(* The commands of clipctl that configure ssh and a machine's account:     *)
(*   hook     the session hooks of onboarding (ssh install-session-hooks)  *)
(*   setup    shims setup: for each route the remote script, then the      *)
(*            forward in ~/.ssh/config                                     *)
(*   shims    shims install: the remote script of one alias                 *)
(*   forward  ssh install-forward: the forward of one alias                *)
(*   unsetup  shims uninstall: for each route the forward, then the script *)
(*   uninstall  removes all blocks and, if asked, the local token          *)
(* A command may fail at any step, with the routes before it done; it is   *)
(* run again, or another one is.  Composes SshConfig and RemoteShims; the  *)
(* routes of the machine lead to one account.                              *)
(***************************************************************************)
EXTENDS SshConfig, RemoteShims

CONSTANTS
  Routes,      \* the aliases in the order of SortedRoutes
  MaxCommands, \* bound on commands
  MaxTroubles  \* bound on all that interferes: saves, torn writes, breaks and
               \* scripts of the other client

ASSUME RoutesAssumption == Routes \in Seq(Aliases) \ {<<>>}

VARIABLES
  cmd,       \* the command: op, todo (routes yet to do), purge, stage
  key,       \* this Mac's token file; 0 without one
  made,      \* tokens made so far
  commands,  \* how many there were
  hooked,    \* ghost: hooks reported installed that nobody has undone since
  disturbed  \* ghost: the user or an uninstall has interfered with the command

vars == <<file, backups, edit, saves, torn, mine, raced, broken,
          account, script, others, breaks,
          cmd, key, made, commands, hooked, disturbed>>
setupVars == <<cmd, key, made, commands, hooked, disturbed>>

Ops == {"hook", "setup", "shims", "forward", "unsetup", "uninstall"}
Init ==
  /\ FileInit /\ RemoteInit
  /\ cmd = [op |-> "uninstall", todo |-> <<>>, purge |-> FALSE, stage |-> "idle"]
  /\ key = 0 /\ made = 0 /\ commands = 0
  /\ hooked = {} /\ disturbed = FALSE

\* Something interferes.
Troubles == saves + torn + others + breaks
MoreTrouble == Troubles < MaxTroubles

-----------------------------------------------------------------------------
(* The order of a command's steps                                          *)

First(op) == IF op \in {"setup", "shims"} THEN "token" ELSE "edit"
\* The routes a command is for.
Todos(op) ==
  CASE op = "uninstall" -> {<<>>}
    [] op \in {"shims", "forward"} -> {<<Routes[i]>> : i \in DOMAIN Routes}
    [] OTHER -> {Routes}

Begin(op) ==
  /\ cmd.stage \in {"idle", "done", "failed"} /\ commands < MaxCommands
  /\ commands' = commands + 1
  /\ \E purge \in IF op \in {"unsetup", "uninstall"} THEN BOOLEAN ELSE {FALSE},
        todo \in Todos(op) :
       cmd' = [op |-> op, todo |-> todo, purge |-> purge, stage |-> First(op)]
  /\ disturbed' = \E s \in Scripts : script[s].stage \in UninstallStages
  /\ UNCHANGED <<key, made, hooked>> /\ UNCHANGED fileVars /\ UNCHANGED remoteVars

\* The command is done with the first route.
NextRoute(again) ==
  [cmd EXCEPT !.todo = Tail(@), !.stage = IF Len(cmd.todo) = 1 THEN "done" ELSE again]
AfterEdit ==
  CASE cmd.op = "hook" -> NextRoute("edit")
    [] cmd.op \in {"setup", "forward"} -> NextRoute("script")
    [] cmd.op = "unsetup" -> [cmd EXCEPT !.stage = "script"]
    [] OTHER -> [cmd EXCEPT !.stage = "data"]
\* Mutant: setup edits ~/.ssh/config whether the script succeeded or not.
AfterScriptRegardless(status) ==
  IF cmd.op \in {"shims", "unsetup"} /\ status = "ok" THEN NextRoute("edit")
  ELSE [cmd EXCEPT !.stage = IF cmd.op = "setup" THEN "edit" ELSE "failed"]
AfterScript(status) ==
  CASE status = "bad" -> [cmd EXCEPT !.stage = "failed"]
    [] status # "bad" /\ cmd.op = "setup" -> [cmd EXCEPT !.stage = "edit"]
    [] OTHER -> NextRoute("edit")

HookDone == IF cmd.op = "hook" THEN hooked \cup {Head(cmd.todo)} ELSE hooked

-----------------------------------------------------------------------------
(* The file                                                                *)

Result ==
  CASE cmd.op = "hook" -> InstallSessionHook(file, Head(cmd.todo))
    [] cmd.op \in {"setup", "forward"} -> InstallForward(file, Head(cmd.todo))
    [] cmd.op = "unsetup" -> RemoveForward(file, Head(cmd.todo))
    [] cmd.op = "uninstall" -> RemoveAllClipportBlocks(file)

ReadConfig ==
  /\ cmd.stage = "edit"
  /\ Read(Result)
  /\ cmd' = CASE Result.out = "error" -> [cmd EXCEPT !.stage = "failed"]
              [] Result.out = "same" -> AfterEdit
              [] OTHER -> [cmd EXCEPT !.stage = "editing"]
  /\ hooked' = IF Result.out = "same" THEN HookDone ELSE hooked
  /\ UNCHANGED <<key, made, commands, disturbed>> /\ UNCHANGED remoteVars

BackupConfig ==
  Backup /\ UNCHANGED remoteVars /\ UNCHANGED setupVars

WriteConfig ==
  /\ Write
  /\ cmd' = AfterEdit
  /\ hooked' = IF cmd.op = "uninstall" THEN {} ELSE HookDone
  /\ UNCHANGED <<key, made, commands, disturbed>> /\ UNCHANGED remoteVars

ConfigFails ==
  /\ EditFails \/ (WriteTorn /\ MoreTrouble)
  /\ cmd' = [cmd EXCEPT !.stage = "failed"]
  /\ hooked' = IF broken' THEN {} ELSE hooked
  /\ UNCHANGED <<key, made, commands, disturbed>> /\ UNCHANGED remoteVars

UserSaves ==
  /\ Save /\ MoreTrouble
  /\ hooked' = {} /\ disturbed' = TRUE
  /\ UNCHANGED <<cmd, key, made, commands>> /\ UNCHANGED remoteVars

-----------------------------------------------------------------------------
(* The account and the token                                               *)

\* token.LoadOrCreate, before the first route.
LoadOrCreate ==
  /\ cmd.stage = "token"
  /\ IF key # 0 THEN UNCHANGED <<key, made>>
     ELSE made < MaxKeys /\ made' = made + 1 /\ key' = made + 1
  /\ cmd' = [cmd EXCEPT !.stage = "script"]
  /\ UNCHANGED <<commands, hooked, disturbed>> /\ UNCHANGED fileVars /\ UNCHANGED remoteVars

RunScript(s) ==
  /\ cmd.stage = "script"
  /\ RunOwn(s, IF cmd.op = "unsetup" THEN "rmlinks" ELSE "lock", key, cmd.purge)
  /\ cmd' = [cmd EXCEPT !.stage = "wait"]
  /\ UNCHANGED <<key, made, commands, hooked, disturbed>> /\ UNCHANGED fileVars

Finished(s) ==
  /\ cmd.stage = "wait" /\ Collect(s)
  /\ cmd' = AfterScript(script[s].stage)
  /\ UNCHANGED <<key, made, commands, hooked, disturbed>> /\ UNCHANGED fileVars

\* The connection breaks once the script is sent: it goes on by itself.
Lose(s) ==
  /\ cmd.stage = "wait" /\ MoreTrouble /\ Abandon(s)
  /\ cmd' = [cmd EXCEPT !.stage = "failed"]
  /\ UNCHANGED <<key, made, commands, hooked, disturbed>> /\ UNCHANGED fileVars

\* uninstall.Run, after the blocks: programs, and the data if --remove-data is
\* given; the first one that cannot be removed ends it.
RemoveData ==
  /\ cmd.stage = "data"
  /\ \/ /\ key' = IF cmd.purge THEN 0 ELSE key
        /\ cmd' = [cmd EXCEPT !.stage = "done"]
     \/ UNCHANGED key /\ cmd' = [cmd EXCEPT !.stage = "failed"]
  /\ UNCHANGED <<made, commands, hooked, disturbed>> /\ UNCHANGED fileVars /\ UNCHANGED remoteVars

Remote ==
  /\ \E s \in Scripts : ScriptStep(s) \/ (MoreTrouble /\ (Cut(s) \/ Kill(s)))
  /\ UNCHANGED setupVars /\ UNCHANGED fileVars
Other ==
  /\ MoreTrouble
  /\ \E s \in Scripts : RunOther(s)
  /\ disturbed' = (disturbed \/ \E s \in Scripts : script'[s].stage = "rmlinks" /\ script[s].stage = "none")
  /\ UNCHANGED <<cmd, key, made, commands, hooked>> /\ UNCHANGED fileVars

Clipctl ==
  \/ ReadConfig \/ BackupConfig \/ WriteConfig \/ LoadOrCreate \/ RemoveData
  \/ \E s \in Scripts : RunScript(s) \/ Finished(s)

Next ==
  \/ Clipctl \/ ConfigFails \/ UserSaves \/ Remote \/ Other
  \/ \E op \in Ops : Begin(op)
  \/ \E s \in Scripts : Lose(s)

Spec == Init /\ [][Next]_vars

-----------------------------------------------------------------------------
(* Properties                                                              *)

\* ssh uses the first value it finds, and that is Clipport's: the forward of an
\* alias stands before any section that the user has for it, and once
\* (sshsetup_test.go:86, TestInstallForwardPrecedesExistingHostBlock); and a
\* session hook that was reported installed is what ssh runs, whatever commands
\* follow, until the user saves the file or uninstalls (session.go:50-53,
\* "settings that would otherwise silently shadow the hook").
OursComeFirst == ForwardFirst /\ \A a \in hooked : RunsHook(file, a)

\* When setup has succeeded and nobody interfered, every route has its forward
\* and the account the token, wrapper and links of this Mac, also after commands
\* that failed half way, broken connections and attempts of another client
\* (ARCHITECTURE.md:254-263).
HasForward(a) ==
  \E i \in DOMAIN file : i + 3 <= Len(file) /\ SubSeq(file, i, i + 3) = ForwardBlock(a)
SetupWorks ==
  cmd.op = "setup" /\ cmd.stage = "done" /\ ~disturbed =>
    /\ \A i \in DOMAIN Routes : HasForward(Routes[i])
    /\ account.token = key /\ account.shim = "mac" /\ account.links = "ours"

\* After a successful uninstall no managed line is left, so ssh neither runs
\* clipctl nor forwards a port (sshsetup_test.go:166, TestRemoveAllClipport-
\* BlocksPreservesUserConfig, "config still contains clipport block"), unless a
\* write was torn or raced with the user's editor.
UninstallCleans ==
  cmd.op = "uninstall" /\ cmd.stage \in {"data", "done"} /\ ~broken /\ ~raced =>
    \A i \in DOMAIN file : file[i].by = "clipport" => file[i].kind = "blank"
=============================================================================
